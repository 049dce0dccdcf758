----------------------------- MODULE BoardGames ------------------------------
(***************************************************************************)
(* The rules of four board games.  game_api runs one game at a time, so    *)
(* that one of them moves and the others are as they were loaded.          *)
(***************************************************************************)
EXTENDS CheckersRules

CONSTANTS GoSize, WuSize, WuRow, ReversiSize

VARIABLES
  game,                                  \* the game the page has loaded
  goBoard, goPrevBoard, goTurn, goLast,
  wuBoard, wuTurn, wuLast, wuWinner,
  reversiBoard, reversiTurn

Go == INSTANCE GoRules
        WITH size <- GoSize, board <- goBoard, prev_board <- goPrevBoard,
             player_turn <- goTurn, last_move <- goLast
Wu == INSTANCE WuRules
        WITH size <- WuSize, PIECES_IN_ROW_TO_WIN <- WuRow, board <- wuBoard,
             player_turn <- wuTurn, last_move <- wuLast, winner <- wuWinner
Reversi == INSTANCE ReversiRules
             WITH BOARD_SIZE <- ReversiSize, board <- reversiBoard, player_turn <- reversiTurn

go       == <<goBoard, goPrevBoard, goTurn, goLast>>
wu       == <<wuBoard, wuTurn, wuLast, wuWinner>>
reversi  == <<reversiBoard, reversiTurn>>

BoardsInit ==
  /\ game \in {"checkers", "go", "wu", "reversi"}
  /\ Init /\ Go!Init /\ Wu!Init /\ Reversi!Init

Checkers_Next == game = "checkers" /\ Next /\ UNCHANGED <<game, go, wu, reversi>>
Go_Next       == game = "go" /\ Go!Next /\ UNCHANGED <<game, vars, wu, reversi>>
Wu_Next       == game = "wu" /\ Wu!Next /\ UNCHANGED <<game, vars, go, reversi>>
Reversi_Next  == game = "reversi" /\ Reversi!Next /\ UNCHANGED <<game, vars, go, wu>>

BoardsNext == Checkers_Next \/ Go_Next \/ Wu_Next \/ Reversi_Next

BoardsSpec == BoardsInit /\ [][BoardsNext]_<<game, vars, go, wu, reversi>>

\* What the sizes of the boards must satisfy.
ASSUME BoardSizes == Go!GoAssumption /\ Wu!WuAssumption /\ Reversi!ReversiAssumption

\* The properties of the instances, under names of their own.
KeepsTheRulesOfGo          == Go!KeepsTheRulesOfGo
WuRowsDecide               == Wu!RowsDecide
ReversiTurnsWhatIsEnclosed == Reversi!TurnsWhatIsEnclosed

=============================================================================
