SPECIFICATION MCSpec
CONSTANTS
  c1 = c1
  c2 = c2
  c3 = c3
  s1 = s1
  d1 = d1
  d2 = d2
  j1 = j1
  Host = Host
  black = black
  white = white
  None = None
  Devices <- TwoDevices
  Colours <- MCColours
  MaxMsgs = 1
  MaxLeaves = 1
  MaxChoices = 2
  MaxSent = 2
  MsgLen = 2
  RecvMax = 3
INVARIANTS
  PlayersAgree
  SameColourAsksAgain
PROPERTIES
  LeaveAnnounced
  ChoiceArrives
  HostHearsEveryone
CHECK_DEADLOCK FALSE
