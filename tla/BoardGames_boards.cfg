SPECIFICATION BoardsSpec
CONSTANTS
  BOARD_HEIGHT = 5
  BOARD_WIDTH = 4
  ROWS_OF_PIECES = 1
  nil = nil
  GoSize = 3
  WuSize = 3
  WuRow = 3
  ReversiSize = 4
INVARIANTS
  NotStuckMidJump
PROPERTIES
  KeepsTheRulesOfGo
  JumpsAreForced
  WuRowsDecide
  ReversiTurnsWhatIsEnclosed
CHECK_DEADLOCK FALSE
