------------------------------ MODULE GoRules ------------------------------
(***************************************************************************)
(* The rules of go, go_core.lua: a stone is placed, neighbouring groups    *)
(* without liberties are taken, and the move is taken back if it repeats   *)
(* the board of two turns ago or leaves the stone itself without           *)
(* liberties.  There is no end of the game.                                *)
(***************************************************************************)
EXTENDS Integers

CONSTANTS
  size,   \* 9, 13 or 19 in the code: x_max and y_max
  nil

GoAssumption == size \in Nat \ {0}

VARIABLES board, prev_board, player_turn, last_move

vars == <<board, prev_board, player_turn, last_move>>

Points == (1 .. size) \X (1 .. size)

EMPTY == 0
PLAYER1 == 1
PLAYER2 == 2
Players == {PLAYER1, PLAYER2}
other_player(player) == 3 - player

\* nil, and what it becomes when the state is serialized.
NoMove == <<0, 0>>

new_game ==
  /\ board = [pt \in Points |-> EMPTY]
  /\ prev_board = nil
  /\ player_turn = PLAYER1
  /\ last_move = NoMove

Init == new_game

dirs == << <<0, 1>>, <<0, -1>>, <<1, 0>>, <<-1, 0>> >>

Next_to(pt, d) == <<pt[1] + dirs[d][1], pt[2] + dirs[d][2]>>
Neighbours(pt) == {Next_to(pt, d) : d \in DOMAIN dirs} \cap Points

\* The flood fill of has_liberties and clear_piece_group: the stones of one
\* colour connected to pt.
Group(b, pt) ==
  LET grown[n \in 0 .. size * size] ==
        IF n = 0 THEN {pt}
        ELSE LET seen == grown[n - 1]
             IN  seen \cup {q \in UNION {Neighbours(r) : r \in seen} : b[q] = b[pt]}
  IN  grown[size * size]

has_liberties(b, pt) == \E q \in Group(b, pt) : \E r \in Neighbours(q) : b[r] = EMPTY

clear_piece_group(b, pt) ==
  LET group == Group(b, pt)
  IN  [q \in Points |-> IF q \in group THEN EMPTY ELSE b[q]]

\* What the stone at pt takes next to it in direction d.
taken(b, pt, d) ==
  LET q == Next_to(pt, d)
  IN  IF q \in Points /\ b[q] = other_player(b[pt]) /\ ~has_liberties(b, q)
      THEN clear_piece_group(b, q) ELSE b

\* The board after the stone at pt has taken what it can, one direction after
\* the other.
captured(b, pt) ==
  LET after[i \in 0 .. 4] == IF i = 0 THEN b ELSE LET acc == after[i - 1] IN taken(acc, pt, i)
  IN  after[4]

next_turn == player_turn' = other_player(player_turn)

Accept(pt, placed) ==
  /\ board' = placed
  /\ prev_board' = board
  /\ last_move' = pt
  /\ next_turn

\* Only the stone itself is taken off again.
Suicide(pt, placed) ==
  /\ board' = [placed EXCEPT ![pt] = EMPTY]
  /\ UNCHANGED <<prev_board, player_turn, last_move>>

\* Mutant: the ko rule is asked of the board before anything is taken.
player_move_KoTooEarly(pt) ==
  /\ board[pt] = EMPTY
  /\ [board EXCEPT ![pt] = player_turn] # prev_board
  /\ LET placed == captured([board EXCEPT ![pt] = player_turn], pt)
     IN  IF has_liberties(placed, pt) THEN Accept(pt, placed) ELSE Suicide(pt, placed)

\* A move that repeats prev_board is refused, and the old board is put back;
\* so is one without liberties.
player_move(pt) ==
  /\ board[pt] = EMPTY
  /\ LET placed == captured([board EXCEPT ![pt] = player_turn], pt)
     IN  /\ placed # prev_board
         /\ IF has_liberties(placed, pt) THEN Accept(pt, placed) ELSE Suicide(pt, placed)

player_pass ==
  /\ next_turn
  /\ UNCHANGED <<board, prev_board, last_move>>

Next == \/ \E pt \in Points : player_move(pt)
        \/ player_pass

Spec == Init /\ [][Next]_vars

-----------------------------------------------------------------------------
(* Properties *)

\* No group is left on the board without liberties, whichever directions were
\* looked at first and however the groups join: a set of stones of one colour
\* touches an empty point or another stone of the colour.
Stones(b, p) == {pt \in Points : b[pt] = p}
NoDeadGroups ==
  \A p \in Players : \A group \in (SUBSET Stones(board, p)) \ {{}} :
    \E q \in group : \E r \in Neighbours(q) \ group : board[r] \in {EMPTY, p}

\* A refused move leaves the board as it was: when Suicide takes its stone off
\* again, no other group has been taken by it.
RefusedChangesNothing ==
  [][player_turn' = player_turn => board' = board]_vars

\* The last move leads from prev_board to the board: it put one stone on an
\* empty point and took stones of the other colour only, passes or not.
LastMoveExplainsBoard ==
  prev_board # nil =>
    /\ last_move # NoMove
    /\ prev_board[last_move] = EMPTY
    /\ \A pt \in Points \ {last_move} :
         board[pt] \in {prev_board[pt],
                        IF prev_board[pt] = other_player(board[last_move]) THEN EMPTY ELSE prev_board[pt]}

\* The last move took one stone, at q, with a stone of its own that stands
\* alone and has no other liberty, and nobody passed since.
KoAt(q) ==
  /\ prev_board # nil /\ player_turn # board[last_move]
  /\ board[q] = EMPTY /\ prev_board[q] = player_turn
  /\ \A pt \in Points \ {q, last_move} : board[pt] = prev_board[pt]
  /\ \A pt \in Neighbours(last_move) \ {q} : board[pt] = player_turn

\* A single stone that took a single stone cannot be taken back at once ("Ko
\* rule forbids game returning to this state after two turns", code_to_str).
NoImmediateRetake == [][\A q \in Points : KoAt(q) => last_move' # q]_vars

\* What a board of go may hold and how it may change: no dead groups, nothing the last
\* move does not explain, no trace of a refused move, and no stone taken back at once.
KeepsTheRulesOfGo ==
  []NoDeadGroups /\ []LastMoveExplainsBoard /\ RefusedChangesNothing /\ NoImmediateRetake

=============================================================================
