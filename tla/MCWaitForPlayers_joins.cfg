SPECIFICATION Spec
CONSTANTS
  a = a
  b = b
  c = c
  Devices <- MCDevices
  You = You
  HostName = HostName
  None = None
  MaxLeft = 0
  OneAtATime = FALSE
SYMMETRY Symmetry
INVARIANTS NumbersAgree
CHECK_DEADLOCK FALSE
