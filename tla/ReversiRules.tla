---------------------------- MODULE ReversiRules ----------------------------
(***************************************************************************)
(* The rules of reversi, reversi_core.rs.  There is no pass: a player with *)
(* no move is asked for one for ever.                                      *)
(***************************************************************************)
EXTENDS Integers, FiniteSetsExt

CONSTANT BOARD_SIZE    \* 8 in the code

ReversiAssumption == BOARD_SIZE \in Nat

VARIABLES board, player_turn

vars == <<board, player_turn>>

Cells == (0 .. BOARD_SIZE - 1) \X (0 .. BOARD_SIZE - 1)

EMPTY == 0
PLAYER1 == 1
PLAYER2 == 2
Players == {PLAYER1, PLAYER2}
other_player(player) == 3 - player

\* The four discs in the middle.
Init ==
  /\ board = [pt \in Cells |->
                LET m == BOARD_SIZE \div 2
                IN  IF pt \in {<<m - 1, m - 1>>, <<m, m>>} THEN PLAYER1
                    ELSE IF pt \in {<<m - 1, m>>, <<m, m - 1>>} THEN PLAYER2 ELSE EMPTY]
  /\ player_turn = PLAYER1

DIRS == {<<0, 1>>, <<0, -1>>, <<1, 0>>, <<-1, 0>>, <<1, 1>>, <<1, -1>>, <<-1, 1>>, <<-1, -1>>}

Along(pt, dir, i) == <<pt[1] + i * dir[1], pt[2] + i * dir[2]>>

\* The steps from pt on which the run of the other player's discs ends.
Ends(b, player, pt, dir) ==
  {i \in 1 .. BOARD_SIZE : Along(pt, dir, i) \notin Cells \/ b[Along(pt, dir, i)] # other_player(player)}

\* How many discs of the other player lie between pt and a disc of the player.
get_jumpable_pieces(b, player, pt, dir) ==
  LET i   == Min(Ends(b, player, pt, dir))
      end == Along(pt, dir, i)
  IN  IF end \in Cells /\ b[end] = player THEN i - 1 ELSE 0

is_valid_move(b, player, pt) ==
  \E dir \in DIRS : get_jumpable_pieces(b, player, pt, dir) > 0

\* Mutant: only one of the runs is turned over.
reverse_cells_OneRun(b, player, pt) ==
  LET dir == CHOOSE d \in DIRS : get_jumpable_pieces(b, player, pt, d) > 0
  IN  {Along(pt, dir, i) : i \in 1 .. get_jumpable_pieces(b, player, pt, dir)}

\* All the runs are turned over; they do not meet, so their order is left out.
reverse_cells(b, player, pt) ==
  UNION {{Along(pt, dir, i) : i \in 1 .. get_jumpable_pieces(b, player, pt, dir)} : dir \in DIRS}

\* Every other move is refused and changes nothing.
player_move(pt) ==
  /\ board[pt] = EMPTY
  /\ is_valid_move(board, player_turn, pt)
  /\ LET turned == reverse_cells(board, player_turn, pt)
     IN  board' = [q \in Cells |-> IF q \in turned \cup {pt} THEN player_turn ELSE board[q]]
  /\ player_turn' = other_player(player_turn)

Next == \E pt \in Cells : player_move(pt)

Spec == Init /\ [][Next]_vars

-----------------------------------------------------------------------------
(* Properties *)

\* The points strictly between two points of a row, a column or a diagonal.
Between(p, q) ==
  LET towards(r, s) == {Along(r, d, i) : d \in {e \in DIRS : \E n \in 1 .. BOARD_SIZE : s = Along(r, e, n)},
                                         i \in 1 .. BOARD_SIZE}
  IN  (towards(p, q) \cap towards(q, p)) \ {p, q}

\* A move puts one disc on the board and turns over something, exactly what
\* lies between the new disc and an older one of the player with only the other
\* player's discs in between.
TurnsWhatIsEnclosed ==
  [][ board' # board =>
      LET new    == CHOOSE pt \in Cells : board[pt] = EMPTY /\ board'[pt] # EMPTY
          turned == {q \in Cells : board'[q] # board[q]} \ {new}
          runs   == {Between(new, q) : q \in {c \in Cells : board[c] = player_turn}}
      IN  /\ turned # {} /\ \A q \in turned \cup {new} : board'[q] = player_turn
          /\ turned = UNION {run \in runs : \A q \in run : board[q] = player_turn'} ]_vars

=============================================================================
