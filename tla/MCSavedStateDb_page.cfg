SPECIFICATION Spec
CONSTANTS
  g1 = g1
  g2 = g2
  x1 = x1
  x2 = x2
  app = app
  browser = browser
  Missing = Missing
  Games <- MCGames
  States <- MCStates
  Handles <- OnePage
  Savers <- PageSaves
  Deleters <- PageDeletes
  MaxSession = 1
  MaxMove = 2
  Wrap = 8
INVARIANTS
  CursorOnState
  FreshSessions
  KeptSessionsWhole
PROPERTIES
  UndoStackKept
  KeepsPromise
