SPECIFICATION SessionsSpec
CONSTANTS
  b0 = b0
  b1 = b1
  Missing = Missing
  Games <- MCGames
  FromUrl <- Chess
  Boards <- MCBoards
  New = b0
  MaxSession = 1
  MaxMove = 1
  Wrap = 6
  Stores <- MCStores
  Spots <- MCSpots
  Pointers <- MCPointers
  WheelSteps <- MCWheel
  MaxMoves = 1
  MaxPreviews = 10
  MaxTouches = 3
  MaxSteps = 4
INVARIANTS
  ScreenIsCursor
  OneGamePerLaterSession
  FollowsWhatIsHeld
  CanvasesAreRight
PROPERTIES
  ReloadKeepsBoard
  PressOpensWhatIsShown
CHECK_DEADLOCK FALSE
