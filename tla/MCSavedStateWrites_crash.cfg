SPECIFICATION Spec
CONSTANTS
  g1 = g1
  x1 = x1
  x2 = x2
  Missing = Missing
  Date = d1
  d1 = d1
  Games <- MCGames
  States <- MCStates
  MaxSession = 1
  MaxMove = 2
  Wrap = 8
  MaxCrashes = 2
INVARIANTS
  DiskIsSound
  OneSessionLostPerCrash
PROPERTIES
  UndoStackOnDisk
  ImplementsDb
