SPECIFICATION MCSpec
CONSTANTS
  Clients = {"browser"}
  MaxGames = 2
  MaxWindows = 3
  MaxThings = 2
  MaxDrawn = 2
  StackLimit = 20
  CmdResults = {1, 16, 20}
  MainThread = MainThread
  NetThread = NetThread
  Threads <- MCThreads
  Main = MainThread
  NoThread = NoThread
  Infos <- MCInfos
  EvtIds = {"key", "touch"}
  Calls <- MCCalls
  Words <- MCWords
  WordLen <- MCWordLen
  WordFreq <- MCWordFreq
  WordMeta <- MCWordMeta
  FrameSize = 20
  FreshMemory = {TRUE, FALSE}
  DictClients = {"c", "web"}
INVARIANTS
  NothingLingers
CHECK_DEADLOCK FALSE
