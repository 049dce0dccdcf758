------------------------------ MODULE WuRules ------------------------------
(***************************************************************************)
(* The rules of wu (five in a row), wu_core.lua: a stone is placed, the    *)
(* rows through it are counted, and the one who completes a row wins.  The *)
(* serialized state has no winner, so a reload of the page forgets it.     *)
(***************************************************************************)
EXTENDS Integers, FiniteSetsExt

CONSTANTS
  size,                   \* 9, 15 or 19 in the code: x_max and y_max
  PIECES_IN_ROW_TO_WIN,   \* 5 in the code
  nil

VARIABLES board, player_turn, last_move, winner

vars == <<board, player_turn, last_move, winner>>

Points == (1 .. size) \X (1 .. size)

EMPTY == 0
PLAYER1 == 1
PLAYER2 == 2
Players == {PLAYER1, PLAYER2}

\* What the constants must satisfy.
WuAssumption ==
  /\ size \in Nat /\ PIECES_IN_ROW_TO_WIN \in Nat \ {0}
  /\ nil \notin Players

other_player(player) == 3 - player

\* What nil becomes when the state is serialized, and no stone is drawn there.
NoMove == <<0, 0>>

Init ==
  /\ board = [pt \in Points |-> EMPTY]
  /\ player_turn = PLAYER1
  /\ last_move = NoMove
  /\ winner = nil

dirs == << <<0, 1>>, <<1, 0>>, <<1, 1>>, <<-1, 1>> >>

Along(pt, dir, i) == <<pt[1] + i * dir[1], pt[2] + i * dir[2]>>

\* How many of the next PIECES_IN_ROW_TO_WIN - 1 points after pt are the
\* player's, up to the first that is not.
run_length(b, player, pt, dir, sign) ==
  LET own(i) == Along(pt, dir, sign * i) \in Points /\ b[Along(pt, dir, sign * i)] = player
      others == {i \in 1 .. PIECES_IN_ROW_TO_WIN - 1 : ~own(i)}
  IN  IF others = {} THEN PIECES_IN_ROW_TO_WIN - 1 ELSE Min(others) - 1

\* Mutant: only one half of the row is counted.
in_a_row_OneWay(b, player, pt, dir) == 1 + run_length(b, player, pt, dir, 1)

\* Both halves of the row through pt.
in_a_row(b, player, pt, dir) ==
  1 + run_length(b, player, pt, dir, 1) + run_length(b, player, pt, dir, -1)

completes_row(b, player, pt) ==
  \E d \in DOMAIN dirs : in_a_row(b, player, pt, dirs[d]) >= PIECES_IN_ROW_TO_WIN

\* Every other move is refused and changes nothing.
player_move(pt) ==
  /\ winner = nil
  /\ board[pt] = EMPTY
  /\ board' = [board EXCEPT ![pt] = player_turn]
  /\ winner' = IF completes_row(board', player_turn, pt) THEN player_turn ELSE winner
  /\ player_turn' = other_player(player_turn)
  /\ last_move' = pt

\* The state is serialized and read back: a reload, Undo, or another device.
Reload ==
  /\ winner' = nil
  /\ UNCHANGED <<board, player_turn, last_move>>

Next == \/ \E pt \in Points : player_move(pt)
        \/ Reload

Spec == Init /\ [][Next]_vars

-----------------------------------------------------------------------------
(* Properties *)

\* A row of PIECES_IN_ROW_TO_WIN stones of the player that holds the point.
Rows == {{Along(pt, dirs[d], i) : i \in 0 .. PIECES_IN_ROW_TO_WIN - 1} :
           pt \in Points, d \in DOMAIN dirs}
HasRow(b, player, pt) ==
  \E row \in Rows : /\ pt \in row /\ row \subseteq Points
                    /\ \A q \in row : b[q] = player

\* The one who made the last move has won, and nobody else; the row goes
\* through the stone that was placed, anywhere in it.
WinnerMovedLast ==
  winner # nil => /\ last_move # NoMove
                  /\ board[last_move] = winner /\ winner = other_player(player_turn)
                  /\ HasRow(board, winner, last_move)

\* The stone that completes a row, from either end or in its middle, ends the
\* game at once, even one that was reloaded after an earlier row.
RowWins ==
  [][last_move' # last_move =>
       (winner' = player_turn <=> HasRow(board', player_turn, last_move'))]_vars

\* The winner is the one who completed a row with the last move, and every row that is
\* completed makes a winner.
RowsDecide == []WinnerMovedLast /\ RowWins

=============================================================================
