SPECIFICATION Spec
CONSTANTS
  main = main
  net = net
  Threads <- MCThreads
  Main = main
  NoThread = NoThread
  Clients = {"desktop", "browser"}
  MaxGames = 2
  StackLimit = 20
  CmdResults = {1, 16, 20}
INVARIANTS HandlerIsOnTop
CHECK_DEADLOCK FALSE
