SPECIFICATION MCSpec
CONSTANTS
  c1 = c1
  c2 = c2
  c3 = c3
  s1 = s1
  s2 = s2
  d1 = d1
  d2 = d2
  d3 = d3
  j1 = j1
  j2 = j2
  Host = Host
  You = You
  HostName = HostName
  black = black
  white = white
  None = None
  Clients <- MCClients
  Sessions <- MCSessions
  Joiners <- MCJoiners
  Devices <- Players3
  Colours <- MCColours
  Firsts <- AnyFirst
  Dsts <- AnyDst
  MaxMsgs = 2
  MaxLeaves = 1
  MaxChoices = 1
  MaxLeft = 2
  MaxSent = 1
  MsgLen = 2
  RecvMax = 3
  MaySuspend = TRUE
INVARIANTS
  DeliveredInOrder
  LeftIsGone
  PlayersAgree
  NumbersAgree
  BytesKeepTheirOrder
PROPERTIES
  RelayReachesAll
SYMMETRY Symmetry
CHECK_DEADLOCK FALSE
