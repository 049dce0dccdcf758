--------------------------- MODULE CheckersRules ---------------------------
(***************************************************************************)
(* The rules of checkers, checkers_core.lua: what one click on the board   *)
(* does.  A move takes two clicks, one on the piece and one on the square  *)
(* it goes to; a piece that has jumped and can jump again stays selected.  *)
(*                                                                         *)
(* Who may click, and what is saved and sent after a click, is the matter  *)
(* of checkers_main.lua (see TwoPlayer and GameSessions).                  *)
(***************************************************************************)
EXTENDS Integers

CONSTANTS
  BOARD_HEIGHT,     \* 8 in the code
  BOARD_WIDTH,      \* 8 in the code
  ROWS_OF_PIECES,   \* 3 in the code
  nil

ASSUME BoardAssumption ==
  /\ BOARD_HEIGHT \in Nat /\ BOARD_WIDTH \in Nat /\ ROWS_OF_PIECES \in Nat
  /\ ROWS_OF_PIECES >= 1 /\ 2 * ROWS_OF_PIECES < BOARD_HEIGHT
  /\ nil \notin (1 .. BOARD_HEIGHT) \X (1 .. BOARD_WIDTH)

VARIABLES
  board,
  player_turn,
  selected,             \* <<selected_y, selected_x>>, or nil
  must_jump_selected    \* partway through a double jump

vars == <<board, player_turn, selected, must_jump_selected>>

Squares == (1 .. BOARD_HEIGHT) \X (1 .. BOARD_WIDTH)

EMPTY == 0
PLAYER1 == 1
PLAYER2 == 2
Players == {PLAYER1, PLAYER2}
king(player) == player + 2
Pieces == {EMPTY} \cup Players \cup {king(p) : p \in Players}

piece_is_king(piece) == piece \in {king(p) : p \in Players}
piece_to_player(piece) == IF piece_is_king(piece) THEN piece - 2 ELSE piece
other_player(player) == 3 - player
IsPlayer(sq, player) == piece_to_player(board[sq]) = player

\* The row where a player's men become kings, and the way they go.
LastRow(player) == IF player = PLAYER1 THEN BOARD_HEIGHT ELSE 1
Forward(player) == IF player = PLAYER1 THEN 1 ELSE -1

new_board ==
  [sq \in Squares |->
     IF sq[1] % 2 # sq[2] % 2 THEN EMPTY
     ELSE IF sq[1] <= ROWS_OF_PIECES THEN PLAYER1
     ELSE IF sq[1] > BOARD_HEIGHT - ROWS_OF_PIECES THEN PLAYER2 ELSE EMPTY]

Init ==
  /\ board = new_board
  /\ player_turn = PLAYER1
  /\ selected = nil
  /\ must_jump_selected = FALSE

-----------------------------------------------------------------------------
(* Steps and jumps on a board b.  valid_move does not look at what is on   *)
(* the square the piece goes to; its callers have.                         *)

\* A king goes both ways.
Heads(b, src, dst, n) ==
  LET dy == dst[1] - src[1]
      dx == dst[2] - src[2]
  IN  /\ dx \in {-n, n}
      /\ \/ piece_is_king(b[src]) /\ dy \in {-n, n}
         \/ dy = n * Forward(piece_to_player(b[src]))

Between(src, dst) == <<(src[1] + dst[1]) \div 2, (src[2] + dst[2]) \div 2>>

IsStep(b, src, dst) == Heads(b, src, dst, 1)

IsJump(b, src, dst) ==
  /\ Heads(b, src, dst, 2)
  /\ piece_to_player(b[Between(src, dst)]) = other_player(piece_to_player(b[src]))

\* The squares n steps away, along the dirs of the code.
Diagonal(sq, n) == {<<sq[1] + dy, sq[2] + dx>> : dy \in {-n, n}, dx \in {-n, n}} \cap Squares

can_jump(b, sq) == \E dst \in Diagonal(sq, 2) : b[dst] = EMPTY /\ IsJump(b, sq, dst)

jumps_available_for_player(b, player) ==
  \E sq \in Squares : piece_to_player(b[sq]) = player /\ can_jump(b, sq)

\* Two squares off both ways, wherever the piece may go.
move_is_jump(sq) == sq \in Diagonal(selected, 2)

\* must_jump_when_able is always set.
MustJump(sq) == jumps_available_for_player(board, player_turn) /\ ~move_is_jump(sq)

-----------------------------------------------------------------------------
(* player_move: a click of the player whose turn it is on a square.  Every *)
(* click that fits none of the actions is refused and changes nothing.     *)

Select(sq) ==
  /\ selected = nil
  /\ IsPlayer(sq, player_turn)
  /\ selected' = sq
  /\ UNCHANGED <<board, player_turn, must_jump_selected>>

Unselect ==
  /\ selected # nil /\ ~must_jump_selected
  /\ selected' = nil
  /\ UNCHANGED <<board, player_turn, must_jump_selected>>

\* Another piece of the player, even partway through a double jump.
ChangeSelection(sq) ==
  /\ selected \notin {nil, sq} /\ ~MustJump(sq)
  /\ IsPlayer(sq, player_turn)
  /\ selected' = sq
  /\ UNCHANGED <<board, player_turn, must_jump_selected>>

\* The selected piece goes to sq, and becomes a king on the last row.
Moved(sq, b) ==
  [b EXCEPT ![selected] = EMPTY,
            ![sq] = IF sq[1] = LastRow(player_turn) THEN king(player_turn) ELSE board[selected]]

EndTurn ==
  /\ selected' = nil
  /\ must_jump_selected' = FALSE
  /\ player_turn' = other_player(player_turn)

\* Mutant: a step is allowed where a jump is possible.
Step_NotForced(sq) ==
  /\ selected \notin {nil, sq} /\ ~must_jump_selected
  /\ board[sq] = EMPTY
  /\ IsStep(board, selected, sq)
  /\ board' = Moved(sq, board)
  /\ EndTurn

Step(sq) ==
  /\ selected \notin {nil, sq} /\ ~MustJump(sq) /\ ~must_jump_selected
  /\ board[sq] = EMPTY
  /\ IsStep(board, selected, sq)
  /\ board' = Moved(sq, board)
  /\ EndTurn

\* Mutant: whether the piece can jump again is asked before it has moved.
Jump_AskedTooEarly(sq) ==
  /\ selected \notin {nil, sq}
  /\ board[sq] = EMPTY
  /\ IsJump(board, selected, sq)
  /\ board' = Moved(sq, [board EXCEPT ![Between(selected, sq)] = EMPTY])
  /\ IF can_jump(board, selected)
     THEN selected' = sq /\ must_jump_selected' = TRUE /\ UNCHANGED player_turn
     ELSE EndTurn

Jump(sq) ==
  /\ selected \notin {nil, sq}
  /\ board[sq] = EMPTY
  /\ IsJump(board, selected, sq)
  /\ board' = Moved(sq, [board EXCEPT ![Between(selected, sq)] = EMPTY])
  /\ IF can_jump(board', sq)
     THEN selected' = sq /\ must_jump_selected' = TRUE /\ UNCHANGED player_turn
     ELSE EndTurn

Next == \/ Unselect
        \/ \E sq \in Squares : Select(sq) \/ ChangeSelection(sq) \/ Step(sq) \/ Jump(sq)

Spec == Init /\ [][Next]_vars

-----------------------------------------------------------------------------
(* Properties *)

\* Shapes of the state.
TypeOK ==
  /\ board \in [Squares -> Pieces]
  /\ player_turn \in Players
  /\ selected \in Squares \cup {nil}
  /\ must_jump_selected \in BOOLEAN

\* Pieces never leave the dark squares, and a man never stands on the row
\* where it becomes a king, however it got there: by a step, a jump, or the
\* last jump of several.
WellPlaced ==
  \A sq \in Squares :
    /\ board[sq] # EMPTY => sq[1] % 2 = sq[2] % 2
    /\ board[sq] \in Players => sq[1] # LastRow(board[sq])

\* A player partway through a double jump has a piece selected, cannot unselect
\* it and may only jump: some jump is then possible, or the game would be stuck.
NotStuckMidJump ==
  must_jump_selected =>
    /\ selected # nil
    /\ jumps_available_for_player(board, player_turn)

\* The selected piece belongs to the player whose turn it is, whatever moves and
\* captures came since it was selected.
SelectedIsOwn ==
  selected # nil => IsPlayer(selected, player_turn)

\* The turn never passes while the player could have jumped, before the first
\* jump or between two: the one who moved has taken a piece, and the last piece
\* moved cannot jump on ("You have at least one jump available, so you must
\* jump", rc_to_string).
PiecesOf(b, player) == {sq \in Squares : piece_to_player(b[sq]) = player}
JumpsAreForced ==
  [][ player_turn' # player_turn /\ jumps_available_for_player(board, player_turn)
      => /\ PiecesOf(board', player_turn') # PiecesOf(board, player_turn')
         /\ \A sq \in PiecesOf(board', player_turn) \ PiecesOf(board, player_turn) :
              ~can_jump(board', sq) ]_vars

=============================================================================
