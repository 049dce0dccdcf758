-------------------------- MODULE BoardGamesProofs --------------------------
(***************************************************************************)
(* Proofs about the rules of the board games, for boards of every size.    *)
(*                                                                         *)
(* Checkers: the parts of the invariant need each other: a man stays off   *)
(* its last row because the piece that moves belongs to the player whose   *)
(* turn it is, and that survives because the selection ends with the turn. *)
(* Go: a group is what a flood fill reaches, the smallest set closed under *)
(* its neighbours; no set of stones is without liberties, on this board    *)
(* and on the one before it, so that a capture leaves none either, and     *)
(* taking back a single stone gives the board before.                      *)
(* Wu: counting from a stone to both sides finds the rows it is part of.   *)
(* Reversi: counting along a direction finds what two discs enclose.       *)
(***************************************************************************)
EXTENDS BoardGames, FiniteSetTheorems, WellFoundedInduction, TLAPS

-----------------------------------------------------------------------------
(* Checkers *)

\* The inductive invariant of checkers.
CheckersInv == TypeOK /\ WellPlaced /\ SelectedIsOwn /\ NotStuckMidJump

\* Kings and men of a player, and the other player.
LEMMA PieceFacts ==
  /\ Pieces = {0, 1, 2, 3, 4}
  /\ Players = {1, 2}
  /\ \A p \in Players : /\ other_player(p) \in Players /\ other_player(p) # p
                        /\ king(p) \in Pieces \ Players /\ king(p) # EMPTY
                        /\ piece_to_player(king(p)) = p /\ piece_to_player(p) = p
  /\ \A x \in Pieces : /\ piece_to_player(x) \in {EMPTY} \cup Players
                       /\ x \in Players => piece_to_player(x) = x
                       /\ piece_to_player(x) = EMPTY <=> x = EMPTY
<1>1. /\ Pieces = {0, 1, 2, 3, 4} /\ Players = {1, 2}
      BY DEF Pieces, Players, PLAYER1, PLAYER2, EMPTY, king
<1>2. \A x \in Pieces : piece_is_king(x) <=> x \in {3, 4}
      BY <1>1 DEF piece_is_king, king
<1> QED  BY <1>1, <1>2 DEF piece_to_player, other_player, king, EMPTY

\* A move along a diagonal stays on the squares of one colour.
LEMMA SameColour ==
  ASSUME NEW src \in Squares, NEW dst \in Squares, NEW b, NEW n \in {1, 2},
         BOARD_HEIGHT \in Nat, BOARD_WIDTH \in Nat,
         Heads(b, src, dst, n), src[1] % 2 = src[2] % 2
  PROVE  dst[1] % 2 = dst[2] % 2
<1> DEFINE dy == dst[1] - src[1]
           dx == dst[2] - src[2]
<1>1. /\ src[1] \in Int /\ src[2] \in Int /\ dst[1] \in Int /\ dst[2] \in Int
      BY DEF Squares
<1>2. dx \in {-n, n}
      BY DEF Heads
<1>3. dy \in {-n, n}
      BY DEF Heads, Forward
<1>4. dst[1] = src[1] + dy /\ dst[2] = src[2] + dx
      BY <1>1
<1> HIDE DEF dy, dx
<1>5. \/ dy \in {-1, 1} /\ dx \in {-1, 1}
      \/ dy \in {-2, 2} /\ dx \in {-2, 2}
      BY <1>2, <1>3
<1>6. CASE dy \in {-2, 2} /\ dx \in {-2, 2}
      BY <1>1, <1>4, <1>6
<1>7. CASE dy \in {-1, 1} /\ dx \in {-1, 1}
      BY <1>1, <1>4, <1>7
<1> QED  BY <1>5, <1>6, <1>7

\* The first board is sound.
LEMMA CheckersStarts ==
  ASSUME Init
  PROVE  CheckersInv
<1> USE BoardAssumption DEF Init
<1>1. TypeOK
      BY PieceFacts DEF TypeOK, new_board, Squares, Players, PLAYER1, PLAYER2, EMPTY
<1>2. WellPlaced
      <2> SUFFICES ASSUME NEW sq \in Squares
                   PROVE  /\ board[sq] # EMPTY => sq[1] % 2 = sq[2] % 2
                          /\ board[sq] \in Players => sq[1] # LastRow(board[sq])
          BY DEF WellPlaced
      <2>1. sq[1] \in 1 .. BOARD_HEIGHT
            BY DEF Squares
      <2>2. board[sq] = IF sq[1] % 2 # sq[2] % 2 THEN EMPTY
                        ELSE IF sq[1] <= ROWS_OF_PIECES THEN PLAYER1
                        ELSE IF sq[1] > BOARD_HEIGHT - ROWS_OF_PIECES THEN PLAYER2 ELSE EMPTY
            BY DEF new_board
      <2> QED  BY <2>1, <2>2 DEF EMPTY, PLAYER1, PLAYER2, Players, LastRow
<1>3. SelectedIsOwn /\ NotStuckMidJump
      BY DEF SelectedIsOwn, NotStuckMidJump
<1> QED  BY <1>1, <1>2, <1>3 DEF CheckersInv

\* What a step or a jump makes of the board, b being the board after what was
\* jumped over has been taken away.
LEMMA MovedFacts ==
  ASSUME CheckersInv, selected # nil,
         NEW sq \in Squares, selected # sq, NEW n \in {1, 2}, Heads(board, selected, sq, n),
         NEW b \in [Squares -> Pieces], \A q \in Squares : b[q] \in {board[q], EMPTY}
  PROVE  LET after == Moved(sq, b)
         IN  /\ after \in [Squares -> Pieces]
             /\ piece_to_player(after[sq]) = player_turn
             /\ \A q \in Squares \ {sq} : after[q] \in {board[q], EMPTY}
             /\ \A q \in Squares : /\ after[q] # EMPTY => q[1] % 2 = q[2] % 2
                                   /\ after[q] \in Players => q[1] # LastRow(after[q])
<1> DEFINE piece == IF sq[1] = LastRow(player_turn) THEN king(player_turn) ELSE board[selected]
           after == Moved(sq, b)
<1> USE DEF CheckersInv
<1>1. /\ selected \in Squares /\ player_turn \in Players
      /\ piece_to_player(board[selected]) = player_turn /\ board[selected] \in Pieces
      BY DEF TypeOK, SelectedIsOwn, IsPlayer
<1>2. piece \in Pieces /\ piece_to_player(piece) = player_turn
      BY <1>1, PieceFacts
<1>3. piece \in Players => sq[1] # LastRow(piece)
      BY <1>1, PieceFacts
<1>4. sq[1] % 2 = sq[2] % 2
      <2>1. selected[1] % 2 = selected[2] % 2
            BY <1>1, PieceFacts DEF WellPlaced, EMPTY
      <2> QED  BY <1>1, <2>1, SameColour, BoardAssumption
<1>5. after = [b EXCEPT ![selected] = EMPTY, ![sq] = piece]
      BY DEF Moved
<1>6. /\ after \in [Squares -> Pieces] /\ after[sq] = piece
      /\ \A q \in Squares \ {sq} : after[q] \in {board[q], EMPTY}
      BY <1>1, <1>2, <1>5 DEF Pieces
<1>7. ASSUME NEW q \in Squares
      PROVE  /\ after[q] # EMPTY => q[1] % 2 = q[2] % 2
             /\ after[q] \in Players => q[1] # LastRow(after[q])
      <2>1. CASE q = sq
            BY <2>1, <1>3, <1>4, <1>6
      <2>2. CASE q # sq
            BY <2>2, <1>6, PieceFacts DEF WellPlaced, EMPTY
      <2> QED  BY <2>1, <2>2
<1> HIDE DEF after, piece
<1> QED  BY <1>2, <1>6, <1>7 DEF after

\* Every click keeps the board sound.
LEMMA CheckersSteps ==
  ASSUME CheckersInv, [Next]_vars
  PROVE  CheckersInv'
<1> USE DEF CheckersInv
<1>1. CASE Unselect
      <2> USE <1>1 DEF Unselect
      <2>1. TypeOK' /\ WellPlaced'
            BY DEF TypeOK, WellPlaced
      <2>2. SelectedIsOwn' /\ NotStuckMidJump'
            BY DEF SelectedIsOwn, NotStuckMidJump
      <2> QED  BY <2>1, <2>2
<1>2. ASSUME NEW sq \in Squares, Select(sq)
      PROVE  CheckersInv'
      <2> USE <1>2 DEF Select
      <2>1. TypeOK' /\ WellPlaced'
            BY DEF TypeOK, WellPlaced
      <2>2. SelectedIsOwn' /\ NotStuckMidJump'
            BY DEF SelectedIsOwn, NotStuckMidJump, IsPlayer
      <2> QED  BY <2>1, <2>2
<1>3. ASSUME NEW sq \in Squares, ChangeSelection(sq)
      PROVE  CheckersInv'
      <2> USE <1>3 DEF ChangeSelection
      <2>0. sq # nil
            BY BoardAssumption DEF Squares
      <2>1. TypeOK' /\ WellPlaced'
            BY DEF TypeOK, WellPlaced
      <2>2. SelectedIsOwn' /\ NotStuckMidJump'
            BY <2>0 DEF SelectedIsOwn, NotStuckMidJump, IsPlayer
      <2> QED  BY <2>1, <2>2
<1>4. ASSUME NEW sq \in Squares, Step(sq)
      PROVE  CheckersInv'
      <2> USE <1>4 DEF Step
      <2>1. /\ board' \in [Squares -> Pieces]
            /\ \A q \in Squares : /\ board'[q] # EMPTY => q[1] % 2 = q[2] % 2
                                  /\ board'[q] \in Players => q[1] # LastRow(board'[q])
            BY MovedFacts DEF IsStep, TypeOK
      <2>2. TypeOK'
            BY <2>1, PieceFacts DEF TypeOK, EndTurn
      <2>3. WellPlaced'
            BY <2>1 DEF WellPlaced
      <2>4. SelectedIsOwn' /\ NotStuckMidJump'
            BY DEF SelectedIsOwn, NotStuckMidJump, EndTurn
      <2> QED  BY <2>2, <2>3, <2>4
<1>5. ASSUME NEW sq \in Squares, Jump(sq)
      PROVE  CheckersInv'
      <2> DEFINE b == [board EXCEPT ![Between(selected, sq)] = EMPTY]
      <2> USE <1>5 DEF Jump
      <2>0. /\ b \in [Squares -> Pieces] /\ \A q \in Squares : b[q] \in {board[q], EMPTY}
            BY DEF TypeOK, Pieces
      <2>1. /\ board' \in [Squares -> Pieces]
            /\ piece_to_player(board'[sq]) = player_turn
            /\ \A q \in Squares : /\ board'[q] # EMPTY => q[1] % 2 = q[2] % 2
                                  /\ board'[q] \in Players => q[1] # LastRow(board'[q])
            <3>1. Heads(board, selected, sq, 2) /\ board' = Moved(sq, b)
                  BY DEF IsJump
            <3>2. selected # nil /\ selected # sq /\ 2 \in {1, 2}
                  OBVIOUS
            <3> DEFINE after == Moved(sq, b)
            <3>3. /\ after \in [Squares -> Pieces]
                  /\ piece_to_player(after[sq]) = player_turn
                  /\ \A q \in Squares : /\ after[q] # EMPTY => q[1] % 2 = q[2] % 2
                                        /\ after[q] \in Players => q[1] # LastRow(after[q])
                  <4> HIDE DEF b, Jump, CheckersInv
                  <4> QED  BY <2>0, <3>1, <3>2, MovedFacts
            <3> HIDE DEF after, Jump
            <3> QED  BY <3>1, <3>3 DEF after
      <2>2. WellPlaced'
            BY <2>1 DEF WellPlaced
      <2>3. CASE can_jump(board', sq)
            <3>1. /\ selected' = sq /\ must_jump_selected' = TRUE /\ player_turn' = player_turn
                  BY <2>3
            <3>2. TypeOK'
                  BY <2>1, <3>1 DEF TypeOK
            <3>3. SelectedIsOwn'
                  BY <2>1, <3>1 DEF SelectedIsOwn, IsPlayer
            <3>4. jumps_available_for_player(board', player_turn')
                  BY <2>1, <2>3, <3>1 DEF jumps_available_for_player
            <3>5. NotStuckMidJump'
                  BY <3>1, <3>4, BoardAssumption DEF NotStuckMidJump, Squares
            <3> QED  BY <2>2, <3>2, <3>3, <3>5
      <2>4. CASE ~can_jump(board', sq)
            <3>1. EndTurn
                  BY <2>4
            <3>2. TypeOK'
                  BY <2>1, <3>1, PieceFacts DEF TypeOK, EndTurn
            <3>3. SelectedIsOwn' /\ NotStuckMidJump'
                  BY <3>1 DEF SelectedIsOwn, NotStuckMidJump, EndTurn
            <3> QED  BY <2>2, <3>2, <3>3
      <2> QED  BY <2>3, <2>4
<1>6. CASE UNCHANGED vars
      BY <1>6 DEF vars, TypeOK, WellPlaced, SelectedIsOwn, IsPlayer, NotStuckMidJump
<1> QED  BY <1>1, <1>2, <1>3, <1>4, <1>5, <1>6 DEF Next

\* Every reachable state is well formed, every piece is well placed, and the
\* selected piece belongs to the player whose turn it is (core.player_move).
THEOREM Safe == Spec => [](TypeOK /\ WellPlaced /\ SelectedIsOwn)
<1>1. Init => CheckersInv
      BY CheckersStarts
<1>2. CheckersInv /\ [Next]_vars => CheckersInv'
      BY CheckersSteps
<1>3. CheckersInv => TypeOK /\ WellPlaced /\ SelectedIsOwn
      BY DEF CheckersInv
<1> QED  BY <1>1, <1>2, <1>3, PTL DEF Spec

\* The game never hangs partway through a double jump: a jump is always left
\* when only jumps are accepted (core.player_move).
THEOREM NeverStuckMidJump == Spec => []NotStuckMidJump
<1>1. Init => CheckersInv
      BY CheckersStarts
<1>2. CheckersInv /\ [Next]_vars => CheckersInv'
      BY CheckersSteps
<1>3. CheckersInv => NotStuckMidJump
      BY DEF CheckersInv
<1> QED  BY <1>1, <1>2, <1>3, PTL DEF Spec

\* No turn passes over a possible jump: a step is refused where the player
\* could jump, and a piece that has jumped goes on while it can.
LEMMA TurnTakesPiece ==
  ASSUME CheckersInv, Next, player_turn' # player_turn,
         jumps_available_for_player(board, player_turn)
  PROVE  /\ PiecesOf(board', player_turn') # PiecesOf(board, player_turn')
         /\ \A sq \in PiecesOf(board', player_turn) \ PiecesOf(board, player_turn) :
              ~can_jump(board', sq)
<1> USE DEF CheckersInv
<1>1. CASE Unselect \/ \E sq \in Squares : Select(sq) \/ ChangeSelection(sq)
      BY <1>1 DEF Unselect, Select, ChangeSelection
<1>2. ASSUME NEW sq \in Squares, Step(sq)
      PROVE  FALSE
      <2>1. sq \in Diagonal(selected, 2) /\ selected # nil
            BY <1>2 DEF Step, MustJump, move_is_jump
      <2>2. sq[2] - selected[2] \in {-2, 2}
            BY <2>1 DEF Diagonal, Squares, TypeOK
      <2>3. sq[2] - selected[2] \in {-1, 1}
            BY <1>2 DEF Step, IsStep, Heads
      <2> QED  BY <2>2, <2>3
<1>3. ASSUME NEW sq \in Squares, Jump(sq)
      PROVE  /\ PiecesOf(board', player_turn') # PiecesOf(board, player_turn')
             /\ \A q \in PiecesOf(board', player_turn) \ PiecesOf(board, player_turn) :
                  ~can_jump(board', q)
      <2> DEFINE over == Between(selected, sq)
                 b == [board EXCEPT ![over] = EMPTY]
      <2>1. /\ selected \in Squares /\ selected # sq
            /\ Heads(board, selected, sq, 2) /\ board' = Moved(sq, b)
            /\ piece_to_player(board[over]) = other_player(piece_to_player(board[selected]))
            BY <1>3 DEF Jump, IsJump, TypeOK
      <2>2. EndTurn /\ ~can_jump(board', sq)
            BY <1>3 DEF Jump
      <2>3. /\ player_turn \in Players /\ player_turn' = other_player(player_turn)
            /\ piece_to_player(board[selected]) = player_turn
            BY <2>1, <2>2, <1>3 DEF EndTurn, TypeOK, SelectedIsOwn, IsPlayer, Jump
      <2>4. over \in Squares /\ over \notin {sq, selected}
            <3>1. /\ selected[1] \in 1 .. BOARD_HEIGHT /\ sq[1] \in 1 .. BOARD_HEIGHT
                  /\ selected[2] \in 1 .. BOARD_WIDTH /\ sq[2] \in 1 .. BOARD_WIDTH
                  BY <2>1 DEF Squares
            <3>2. sq[2] = selected[2] + 2 \/ sq[2] = selected[2] - 2
                  BY <2>1, <3>1 DEF Heads
            <3>3. sq[1] = selected[1] + 2 \/ sq[1] = selected[1] - 2
                  BY <2>1, <3>1 DEF Heads, Forward
            <3>4. over = <<(selected[1] + sq[1]) \div 2, (selected[2] + sq[2]) \div 2>>
                  BY DEF Between
            <3>5. /\ over[1] \in 1 .. BOARD_HEIGHT /\ over[2] \in 1 .. BOARD_WIDTH
                  /\ over[1] # sq[1] /\ over[1] # selected[1]
                  BY <3>1, <3>2, <3>3, <3>4, BoardAssumption
            <3> HIDE DEF over
            <3> QED  BY <3>4, <3>5 DEF Squares
      <2>5. b \in [Squares -> Pieces] /\ \A q \in Squares : b[q] \in {board[q], EMPTY}
            BY DEF TypeOK, Pieces
      <2>6. board'[over] = EMPTY
            <3>1. b[over] = EMPTY
                  BY <2>4 DEF TypeOK
            <3> HIDE DEF b, over
            <3> QED  BY <3>1, <2>1, <2>4, <2>5 DEF Moved
      <2>7. \A q \in Squares \ {sq} : board'[q] \in {board[q], EMPTY}
            <3> HIDE DEF b
            <3>1. \A q \in Squares \ {sq} : board'[q] \in {b[q], EMPTY}
                  BY <2>1, <2>5 DEF Moved
            <3> QED  BY <3>1, <2>5
      <2> HIDE DEF over, b
      <2>8. over \in PiecesOf(board, player_turn') /\ over \notin PiecesOf(board', player_turn')
            BY <2>1, <2>3, <2>4, <2>6, PieceFacts DEF PiecesOf, EMPTY
      <2>9. \A q \in PiecesOf(board', player_turn) \ PiecesOf(board, player_turn) : q = sq
            BY <2>3, <2>7, PieceFacts DEF PiecesOf, EMPTY
      <2> QED  BY <2>2, <2>8, <2>9
<1> QED  BY <1>1, <1>2, <1>3 DEF Next

\* On a board of any size the turn is passed over a possible jump only when a piece
\* was taken and the one that moved cannot jump on.
THEOREM JumpsForced == Spec => JumpsAreForced
<1>1. Init => CheckersInv
      BY CheckersStarts
<1>2. CheckersInv /\ [Next]_vars => CheckersInv'
      BY CheckersSteps
<1>3. CheckersInv /\ [Next]_vars =>
        [ player_turn' # player_turn /\ jumps_available_for_player(board, player_turn)
          => /\ PiecesOf(board', player_turn') # PiecesOf(board, player_turn')
             /\ \A sq \in PiecesOf(board', player_turn) \ PiecesOf(board, player_turn) :
                  ~can_jump(board', sq) ]_vars
      BY TurnTakesPiece
<1> QED  BY <1>1, <1>2, <1>3, PTL DEF Spec, JumpsAreForced

-----------------------------------------------------------------------------
(* Numbers *)

\* Every set of naturals has a least member.
LEMMA LeastMember ==
  ASSUME NEW S \in SUBSET Nat, S # {}
  PROVE  \E m \in S : \A k \in S : m <= k
<1> DEFINE upTo(x) == {y \in S : y <= x}
           T == {upTo(x) : x \in S}
<1>1. \A x \in S : IsFiniteSet(upTo(x))
  BY FS_BoundedSetOfNaturals
<1>2. T \subseteq FiniteSubsetsOf(S)
  BY <1>1 DEF FiniteSubsetsOf
<1>3. T # {} OBVIOUS
<1>4. IsWellFoundedOn(StrictSubsetOrdering(S), FiniteSubsetsOf(S))
  BY FS_StrictSubsetOrderingWellFounded
<1> HIDE DEF T
<1>5. PICK u \in T : \A v \in T : ~(<<v, u>> \in StrictSubsetOrdering(S))
  BY <1>2, <1>3, <1>4, WFMin
<1>6. PICK m \in S : u = upTo(m) BY <1>5 DEF T
<1>7. ASSUME NEW k \in S, k < m PROVE FALSE
  <2>1. upTo(k) \in T BY DEF T
  <2>2. upTo(k) \subseteq upTo(m)
    <3> SUFFICES ASSUME NEW y \in S, y <= k PROVE y <= m OBVIOUS
    <3>1. k \in Nat /\ m \in Nat /\ y \in Nat OBVIOUS
    <3> QED BY <3>1, <1>7
  <2>3. m \in upTo(m) /\ m \notin upTo(k) BY <1>7
  <2>4. <<upTo(k), u>> \in StrictSubsetOrdering(S)
    BY <2>2, <2>3, <1>6 DEF StrictSubsetOrdering
  <2> QED BY <2>1, <2>4, <1>5
<1> QED BY <1>7

\* A set of naturals with zero and the successor of each of its members has all of them.
LEMMA AllNaturals ==
  ASSUME NEW S, 0 \in S, \A n \in Nat : n \in S => n + 1 \in S
  PROVE  Nat \subseteq S
<1> DEFINE U == Nat \ S
<1> SUFFICES ASSUME U # {} PROVE FALSE OBVIOUS
<1>1. PICK m \in U : \A k \in U : m <= k
  <2>1. U \in SUBSET Nat OBVIOUS
  <2> HIDE DEF U
  <2> QED BY <2>1, LeastMember
<1>2. m # 0 /\ m - 1 \in Nat BY <1>1
<1>3. m - 1 \in S BY <1>1, <1>2
<1> QED BY <1>1, <1>2, <1>3

-----------------------------------------------------------------------------
(* Go *)

\* One round of the flood fill.
Grow(b, c, seen) == seen \cup {q \in UNION {Go!Neighbours(r) : r \in seen} : b[q] = c}
Rounds == GoSize * GoSize
IsFill(f, b, pt, n) ==
  f = [i \in 0 .. n |-> IF i = 0 THEN {pt} ELSE Grow(b, b[pt], f[i - 1])]

\* The rounds can be told one after the other.
LEMMA FillExists ==
  ASSUME NEW b, NEW pt, NEW n \in Nat
  PROVE  \E f : IsFill(f, b, pt, n)
<1> DEFINE S == {m \in Nat : \E f : IsFill(f, b, pt, m)}
<1>1. 0 \in S
  <2> DEFINE f == [i \in 0 .. 0 |-> {pt}]
  <2>1. IsFill(f, b, pt, 0) BY DEF IsFill
  <2> QED BY <2>1
<1>2. ASSUME NEW m \in Nat, m \in S PROVE m + 1 \in S
  <2>1. PICK f : IsFill(f, b, pt, m) BY <1>2
  <2> DEFINE g == [i \in 0 .. m + 1 |-> IF i <= m THEN f[i] ELSE Grow(b, b[pt], f[m])]
  <2>2. \A i \in 0 .. m + 1 : g[i] = IF i = 0 THEN {pt} ELSE Grow(b, b[pt], g[i - 1])
    <3> SUFFICES ASSUME NEW i \in 0 .. m + 1
                 PROVE  g[i] = IF i = 0 THEN {pt} ELSE Grow(b, b[pt], g[i - 1])
      OBVIOUS
    <3>1. CASE i = 0 BY <2>1, <3>1 DEF IsFill
    <3>2. CASE i # 0 /\ i <= m
      <4>1. g[i] = f[i] /\ g[i - 1] = f[i - 1] BY <3>2
      <4>2. f[i] = Grow(b, b[pt], f[i - 1]) BY <2>1, <3>2 DEF IsFill
      <4> QED BY <4>1, <4>2, <3>2
    <3>3. CASE i = m + 1
      <4>1. g[i] = Grow(b, b[pt], f[m]) /\ g[i - 1] = f[m] BY <3>3
      <4> QED BY <4>1, <3>3
    <3> QED BY <3>1, <3>2, <3>3
  <2>3. IsFill(g, b, pt, m + 1) BY <2>2 DEF IsFill
  <2> QED BY <2>3
<1> HIDE DEF S
<1>3. Nat \subseteq S BY <1>1, <1>2, AllNaturals
<1> QED BY <1>3 DEF S

\* A group is what the last round has seen.
LEMMA GroupIsFilled ==
  ASSUME NEW b, NEW pt
  PROVE  \E f : IsFill(f, b, pt, Rounds) /\ Go!Group(b, pt) = f[Rounds]
<1>1. \E f : IsFill(f, b, pt, Rounds)
  BY BoardSizes, FillExists DEF Rounds, Go!GoAssumption
<1> QED BY <1>1 DEF Go!Group, IsFill, Rounds, Grow

\* The points a set of stones of one colour leads to are its own.
Closed(b, c, seen) == \A r \in seen : \A q \in Go!Neighbours(r) : b[q] = c => q \in seen

\* The points of the board are finitely many, as many as there are rounds.
LEMMA PointsFinite == IsFiniteSet(Go!Points) /\ Cardinality(Go!Points) = Rounds
<1>1. GoSize \in Nat BY BoardSizes DEF Go!GoAssumption
<1>2. IsFiniteSet(1 .. GoSize) /\ Cardinality(1 .. GoSize) = GoSize BY <1>1, FS_Interval
<1> QED BY <1>2, FS_Product DEF Go!Points, Rounds

\* What a round sees: stones of the colour on the board, more of them than before,
\* unless there are no more.
Seen(b, pt, n, seen) ==
  /\ pt \in seen /\ seen \subseteq Go!Points
  /\ \A q \in seen : b[q] = b[pt]
  /\ Closed(b, b[pt], seen) \/ Cardinality(seen) >= n + 1

\* The point itself is what is seen before the first round.
LEMMA FirstRound ==
  ASSUME NEW b, NEW pt \in Go!Points
  PROVE  Seen(b, pt, 0, {pt})
BY FS_Singleton DEF Seen

\* A round sees more, or all of the group has been seen.
LEMMA NextRound ==
  ASSUME NEW b, NEW pt \in Go!Points, NEW n \in Nat, NEW seen, Seen(b, pt, n, seen)
  PROVE  Seen(b, pt, n + 1, Grow(b, b[pt], seen))
<1> DEFINE more == Grow(b, b[pt], seen)
<1>1. more \subseteq Go!Points /\ pt \in more /\ \A q \in more : b[q] = b[pt]
  BY DEF Seen, Grow, Go!Neighbours
<1>2. CASE Closed(b, b[pt], seen)
  <2>1. more = seen BY <1>2 DEF Closed, Grow
  <2> QED BY <2>1, <1>1, <1>2 DEF Seen
<1>3. CASE ~Closed(b, b[pt], seen)
  <2>1. PICK q : q \notin seen /\ b[q] = b[pt] /\ \E r \in seen : q \in Go!Neighbours(r)
    BY <1>3 DEF Closed
  <2>2. q \in more /\ seen \subseteq more BY <2>1 DEF Grow
  <2>3. IsFiniteSet(more) /\ IsFiniteSet(seen)
    BY <1>1, PointsFinite, FS_Subset DEF Seen
  <2>4. Cardinality(seen) \in Nat /\ Cardinality(more) \in Nat BY <2>3, FS_CardinalityType
  <2>5. Cardinality(seen \cup {q}) = Cardinality(seen) + 1 BY <2>1, <2>3, FS_AddElement
  <2>6. Cardinality(seen \cup {q}) <= Cardinality(more) BY <2>2, <2>3, FS_Subset
  <2>7. Cardinality(seen) >= n + 1 BY <1>3 DEF Seen
  <2> QED BY <1>1, <2>4, <2>5, <2>6, <2>7 DEF Seen
<1> QED BY <1>2, <1>3

\* A group is the smallest set of stones of its colour that holds the point and all
\* neighbours of that colour.
IsGroup(b, pt, C) ==
  /\ pt \in C /\ C \subseteq Go!Points
  /\ \A q \in C : b[q] = b[pt]
  /\ Closed(b, b[pt], C)
  /\ \A X : pt \in X /\ Closed(b, b[pt], X) => C \subseteq X

\* The rounds are enough to see the whole group.
LEMMA GroupFacts ==
  ASSUME NEW b, NEW pt \in Go!Points
  PROVE  IsGroup(b, pt, Go!Group(b, pt))
<1>1. PICK f : IsFill(f, b, pt, Rounds) /\ Go!Group(b, pt) = f[Rounds] BY GroupIsFilled
<1>2. Rounds \in Nat BY BoardSizes DEF Rounds, Go!GoAssumption
<1>3. f[0] = {pt} /\ \A n \in Nat : n + 1 <= Rounds => f[n + 1] = Grow(b, b[pt], f[n])
  <2>1. f[0] = {pt} BY <1>1, <1>2 DEF IsFill
  <2>2. ASSUME NEW n \in Nat, n + 1 <= Rounds PROVE f[n + 1] = Grow(b, b[pt], f[n])
    <3>1. n + 1 \in 0 .. Rounds /\ n + 1 # 0 /\ (n + 1) - 1 = n BY <2>2, <1>2
    <3> QED BY <3>1, <1>1 DEF IsFill
  <2> QED BY <2>1, <2>2
<1>4. Seen(b, pt, Rounds, f[Rounds])
  <2> DEFINE S == {n \in Nat : n <= Rounds => Seen(b, pt, n, f[n])}
  <2>1. 0 \in S BY <1>3, FirstRound
  <2>2. ASSUME NEW n \in Nat, n \in S PROVE n + 1 \in S
    <3> SUFFICES ASSUME n + 1 <= Rounds PROVE Seen(b, pt, n + 1, f[n + 1]) OBVIOUS
    <3>1. n <= Rounds BY <1>2
    <3>2. Seen(b, pt, n, f[n]) BY <3>1, <2>2
    <3> QED BY <3>2, <1>3, NextRound
  <2> HIDE DEF S
  <2>3. Rounds \in S BY <2>1, <2>2, <1>2, AllNaturals
  <2> QED BY <2>3, <1>2 DEF S
<1>5. ASSUME NEW X, pt \in X, Closed(b, b[pt], X) PROVE f[Rounds] \subseteq X
  <2> DEFINE S == {n \in Nat : n <= Rounds => f[n] \subseteq X}
  <2>1. 0 \in S BY <1>3, <1>5
  <2>2. ASSUME NEW n \in Nat, n \in S PROVE n + 1 \in S
    <3> SUFFICES ASSUME n + 1 <= Rounds PROVE f[n + 1] \subseteq X OBVIOUS
    <3>1. f[n] \subseteq X BY <1>2, <2>2
    <3>2. Grow(b, b[pt], f[n]) \subseteq X BY <3>1, <1>5 DEF Grow, Closed
    <3> QED BY <3>2, <1>3
  <2> HIDE DEF S
  <2>3. Rounds \in S BY <2>1, <2>2, <1>2, AllNaturals
  <2> QED BY <2>3, <1>2 DEF S
<1>6. Closed(b, b[pt], f[Rounds])
  <2> SUFFICES ASSUME Cardinality(f[Rounds]) >= Rounds + 1 PROVE FALSE BY <1>4 DEF Seen
  <2>1. f[Rounds] \in SUBSET Go!Points BY <1>4 DEF Seen
  <2>2. Cardinality(f[Rounds]) <= Rounds BY <2>1, PointsFinite, FS_Subset
  <2>3. Cardinality(f[Rounds]) \in Nat BY <2>1, PointsFinite, FS_Subset, FS_CardinalityType
  <2> QED BY <2>2, <2>3, <1>2
<1> QED BY <1>1, <1>4, <1>5, <1>6 DEF Seen, IsGroup

\* A board of go, and the other player.
GoBoards == [Go!Points -> {Go!EMPTY} \cup Go!Players]
Other(p) == Go!other_player(p)

\* A set of stones of p without liberties that no further stone of p belongs to.
Dead(b, p, X) ==
  /\ X # {} /\ X \subseteq Go!Stones(b, p)
  /\ \A q \in X : \A r \in Go!Neighbours(q) \ X : b[r] \notin {Go!EMPTY, p}
NoneDead(b) == \A p \in Go!Players : \A X : ~Dead(b, p, X)

\* Stones of o may be missing in c that are in b, and nothing else differs.
Fewer(b, c, o) == \A x \in Go!Points : c[x] = b[x] \/ (b[x] = o /\ c[x] = Go!EMPTY)

\* No group is dead if no set is.
LEMMA NoneDeadIsIt == Go!NoDeadGroups <=> NoneDead(goBoard)
<1>1. ASSUME Go!NoDeadGroups, NEW p \in Go!Players, NEW X, Dead(goBoard, p, X) PROVE FALSE
  <2>1. X \in (SUBSET Go!Stones(goBoard, p)) \ {{}} BY <1>1 DEF Dead
  <2>2. \E q \in X : \E r \in Go!Neighbours(q) \ X : goBoard[r] \in {Go!EMPTY, p}
    BY <1>1, <2>1 DEF Go!NoDeadGroups
  <2> QED BY <1>1, <2>2 DEF Dead
<1>2. ASSUME NoneDead(goBoard), NEW p \in Go!Players, NEW X \in (SUBSET Go!Stones(goBoard, p)) \ {{}}
      PROVE  \E q \in X : \E r \in Go!Neighbours(q) \ X : goBoard[r] \in {Go!EMPTY, p}
  <2>1. ~Dead(goBoard, p, X) BY <1>2 DEF NoneDead
  <2> QED BY <2>1 DEF Dead
<1> QED BY <1>1, <1>2 DEF NoneDead, Go!NoDeadGroups

\* The two players.
LEMMA Others ==
  ASSUME NEW p \in Go!Players
  PROVE  /\ Other(p) \in Go!Players /\ Other(p) # p /\ Other(Other(p)) = p
         /\ p # Go!EMPTY /\ Other(p) # Go!EMPTY
         /\ Go!Players = {p, Other(p)}
BY DEF Go!Players, Go!PLAYER1, Go!PLAYER2, Other, Go!other_player, Go!EMPTY

\* A neighbour of a point has it as its neighbour, and lies in one of the directions.
LEMMA Directions ==
  ASSUME NEW pt \in Go!Points, NEW q \in Go!Neighbours(pt)
  PROVE  /\ q \in Go!Points /\ pt \in Go!Neighbours(q) /\ q # pt
         /\ \E d \in 1 .. 4 : q = Go!Next_to(pt, d)
<1>1. GoSize \in Nat BY BoardSizes DEF Go!GoAssumption
<1>2. DOMAIN Go!dirs = 1 .. 4 BY DEF Go!dirs
<1>3. q \in Go!Points /\ \E d \in 1 .. 4 : q = Go!Next_to(pt, d) BY <1>2 DEF Go!Neighbours
<1>4. PICK d \in 1 .. 4 : q = Go!Next_to(pt, d) BY <1>3
<1>5. pt = <<pt[1], pt[2]>> /\ pt[1] \in Int /\ pt[2] \in Int BY <1>1 DEF Go!Points
<1> DEFINE back == IF d = 1 THEN 2 ELSE IF d = 2 THEN 1 ELSE IF d = 3 THEN 4 ELSE 3
<1>6. back \in 1 .. 4 /\ pt = Go!Next_to(q, back) /\ q # pt
  <2>1. CASE d = 1 BY <2>1, <1>4, <1>5 DEF Go!Next_to, Go!dirs
  <2>2. CASE d = 2 BY <2>2, <1>4, <1>5 DEF Go!Next_to, Go!dirs
  <2>3. CASE d = 3 BY <2>3, <1>4, <1>5 DEF Go!Next_to, Go!dirs
  <2>4. CASE d = 4 BY <2>4, <1>4, <1>5 DEF Go!Next_to, Go!dirs
  <2> QED BY <2>1, <2>2, <2>3, <2>4
<1> HIDE DEF back
<1>7. pt \in Go!Neighbours(q) BY <1>2, <1>6 DEF Go!Neighbours
<1> QED BY <1>3, <1>6, <1>7

\* A dead set is closed, so that the group of each of its stones lies in it and is dead.
LEMMA DeadGroup ==
  ASSUME NEW b, NEW p \in Go!Players, NEW X, Dead(b, p, X), NEW q \in X
  PROVE  q \in Go!Points /\ b[q] = p /\ Go!Group(b, q) \subseteq X /\ ~Go!has_liberties(b, q)
<1>1. q \in Go!Points /\ b[q] = p BY DEF Dead, Go!Stones
<1>2. Closed(b, b[q], X) BY <1>1 DEF Closed, Dead
<1>3. IsGroup(b, q, Go!Group(b, q)) BY <1>1, GroupFacts
<1>4. Go!Group(b, q) \subseteq X BY <1>2, <1>3 DEF IsGroup
<1>5. ASSUME NEW y \in Go!Group(b, q), NEW r \in Go!Neighbours(y), b[r] = Go!EMPTY PROVE FALSE
  <2>1. y \in X BY <1>4
  <2>2. r \notin X BY <1>5, Others DEF Dead, Go!Stones
  <2> QED BY <1>5, <2>1, <2>2 DEF Dead
<1> QED BY <1>1, <1>4, <1>5 DEF Go!has_liberties

\* A group without liberties is dead.
LEMMA NoLiberties ==
  ASSUME NEW b, NEW q \in Go!Points, ~Go!has_liberties(b, q)
  PROVE  Dead(b, b[q], Go!Group(b, q))
<1>1. IsGroup(b, q, Go!Group(b, q)) BY GroupFacts
<1>2. Go!Group(b, q) # {} /\ Go!Group(b, q) \subseteq Go!Stones(b, b[q])
  BY <1>1 DEF IsGroup, Go!Stones
<1>3. ASSUME NEW y \in Go!Group(b, q), NEW r \in Go!Neighbours(y) \ Go!Group(b, q)
      PROVE  b[r] \notin {Go!EMPTY, b[q]}
  <2>1. b[r] # Go!EMPTY BY DEF Go!has_liberties
  <2>2. b[r] # b[q] BY <1>1 DEF IsGroup, Closed
  <2> QED BY <2>1, <2>2
<1> QED BY <1>2, <1>3 DEF Dead

\* What is taken in one direction: nothing, or a dead group of the other player that
\* stands there; and a dead one is taken.
LEMMA TakenFacts ==
  ASSUME NEW b \in GoBoards, NEW pt \in Go!Points, b[pt] \in Go!Players, NEW d \in 1 .. 4
  PROVE  LET q == Go!Next_to(pt, d)
             c == Go!taken(b, pt, d)
             o == Other(b[pt])
         IN  /\ c \in GoBoards /\ Fewer(b, c, o)
             /\ \/ c = b
                \/ /\ q \in Go!Neighbours(pt) /\ c[q] = Go!EMPTY /\ b[q] = o
                   /\ Dead(b, o, Go!Group(b, q)) /\ c = Go!clear_piece_group(b, q)
             /\ \A X : Dead(b, o, X) /\ q \in X => c[q] = Go!EMPTY
<1> DEFINE q == Go!Next_to(pt, d)
           c == Go!taken(b, pt, d)
           o == Other(b[pt])
           takes == q \in Go!Points /\ b[q] = o /\ ~Go!has_liberties(b, q)
<1>1. c = IF takes THEN Go!clear_piece_group(b, q) ELSE b BY DEF Go!taken, Other
<1>2. o \in Go!Players BY Others
<1>3. CASE takes
  <2>1. IsGroup(b, q, Go!Group(b, q)) /\ Dead(b, o, Go!Group(b, q)) BY <1>3, GroupFacts, NoLiberties
  <2>2. c = [x \in Go!Points |-> IF x \in Go!Group(b, q) THEN Go!EMPTY ELSE b[x]]
    BY <1>1, <1>3 DEF Go!clear_piece_group
  <2>3. c \in GoBoards BY <2>2 DEF GoBoards
  <2>4. Fewer(b, c, o) BY <2>1, <2>2, <1>3 DEF Fewer, IsGroup
  <2>5. c[q] = Go!EMPTY BY <2>1, <2>2, <1>3 DEF IsGroup
  <2>6. q \in Go!Neighbours(pt) BY <1>3 DEF Go!Neighbours, Go!dirs
  <2> QED BY <1>1, <1>3, <2>1, <2>3, <2>4, <2>5, <2>6
<1>4. CASE ~takes
  <2>1. c = b BY <1>1, <1>4
  <2>2. ASSUME NEW X, Dead(b, o, X), q \in X PROVE FALSE
    BY <2>2, <1>2, <1>4, DeadGroup
  <2> QED BY <2>1, <2>2 DEF Fewer
<1> QED BY <1>3, <1>4

\* The four directions, one after the other.
IsTaking(f, b, pt) ==
  f = [i \in 0 .. 4 |-> IF i = 0 THEN b ELSE Go!taken(f[i - 1], pt, i)]

\* The board is changed by the four directions in turn.
LEMMA CapturedInTurn ==
  ASSUME NEW b, NEW pt
  PROVE  \E f : /\ f[0] = b /\ Go!captured(b, pt) = f[4]
                /\ \A i \in 1 .. 4 : f[i] = Go!taken(f[i - 1], pt, i)
<1> DEFINE b1 == Go!taken(b, pt, 1)
           b2 == Go!taken(b1, pt, 2)
           b3 == Go!taken(b2, pt, 3)
           b4 == Go!taken(b3, pt, 4)
           f == [i \in 0 .. 4 |-> IF i = 0 THEN b ELSE IF i = 1 THEN b1 ELSE IF i = 2 THEN b2
                                  ELSE IF i = 3 THEN b3 ELSE b4]
<1>1. \E g : IsTaking(g, b, pt)
  <2>1. f[0] = b /\ f[1] = b1 /\ f[2] = b2 /\ f[3] = b3 /\ f[4] = b4 OBVIOUS
  <2>2. \A i \in 0 .. 4 : f[i] = IF i = 0 THEN b ELSE Go!taken(f[i - 1], pt, i)
    <3> SUFFICES ASSUME NEW i \in 0 .. 4
                 PROVE  f[i] = IF i = 0 THEN b ELSE Go!taken(f[i - 1], pt, i)
      OBVIOUS
    <3> HIDE DEF f
    <3>1. CASE i = 0 BY <2>1, <3>1
    <3>2. CASE i = 1 BY <2>1, <3>2
    <3>3. CASE i = 2 BY <2>1, <3>3
    <3>4. CASE i = 3 BY <2>1, <3>4
    <3>5. CASE i = 4 BY <2>1, <3>5
    <3> QED BY <3>1, <3>2, <3>3, <3>4, <3>5
  <2>3. IsTaking(f, b, pt) BY <2>2 DEF IsTaking
  <2> HIDE DEF f
  <2> QED BY <2>3
<1>2. \E g : IsTaking(g, b, pt) /\ Go!captured(b, pt) = g[4]
  BY <1>1 DEF Go!captured, IsTaking
<1>3. PICK g : IsTaking(g, b, pt) /\ Go!captured(b, pt) = g[4] BY <1>2
<1>4. g[0] = b /\ \A i \in 1 .. 4 : g[i] = Go!taken(g[i - 1], pt, i) BY <1>3 DEF IsTaking
<1> QED BY <1>3, <1>4

\* After a move: what the stone at pt takes belongs to the other player; nothing is
\* taken unless a point next to it is free afterwards; and no dead set of the other
\* player is left next to it.
LEMMA CaptureFacts ==
  ASSUME NEW b \in GoBoards, NEW pt \in Go!Points, b[pt] \in Go!Players
  PROVE  LET c == Go!captured(b, pt)
             o == Other(b[pt])
         IN  /\ c \in GoBoards /\ Fewer(b, c, o)
             /\ c = b \/ \E q \in Go!Neighbours(pt) : c[q] = Go!EMPTY
             /\ \A X : Dead(c, o, X) => X \cap Go!Neighbours(pt) = {}
<1> DEFINE p == b[pt]
           o == Other(p)
<1>0. o \in Go!Players /\ o # p /\ o # Go!EMPTY /\ p # Go!EMPTY /\ Go!Players = {p, o} BY Others
<1>1. PICK f : /\ f[0] = b /\ Go!captured(b, pt) = f[4]
               /\ \A i \in 1 .. 4 : f[i] = Go!taken(f[i - 1], pt, i)
  BY CapturedInTurn
<1> DEFINE Good(i) == f[i] \in GoBoards /\ f[i][pt] = p /\ Fewer(b, f[i], o)
           Took(i) == f[i] = b \/ \E q \in Go!Neighbours(pt) : f[i][q] = Go!EMPTY
<1>2. Good(0) /\ Took(0) BY <1>1 DEF Fewer
<1>3. ASSUME NEW i \in 1 .. 4, Good(i - 1), Took(i - 1)
      PROVE  /\ Good(i) /\ Took(i) /\ Fewer(f[i - 1], f[i], o)
             /\ \A X : Dead(f[i - 1], o, X) /\ Go!Next_to(pt, i) \in X => f[i][Go!Next_to(pt, i)] = Go!EMPTY
  <2> DEFINE g == f[i - 1]
             q == Go!Next_to(pt, i)
  <2>1. f[i] = Go!taken(g, pt, i) BY <1>1
  <2>2. g \in GoBoards /\ g[pt] = p /\ g[pt] \in Go!Players BY <1>3
  <2>3. /\ f[i] \in GoBoards /\ Fewer(g, f[i], o)
        /\ f[i] = g \/ (q \in Go!Neighbours(pt) /\ f[i][q] = Go!EMPTY)
        /\ \A X : Dead(g, o, X) /\ q \in X => f[i][q] = Go!EMPTY
    BY <2>1, <2>2, TakenFacts
  <2>4. Fewer(b, f[i], o) BY <1>3, <2>3, <1>0 DEF Fewer
  <2>5. f[i][pt] = p BY <2>2, <2>3, <1>0 DEF Fewer
  <2>6. Took(i) BY <1>3, <2>3
  <2> QED BY <2>3, <2>4, <2>5, <2>6
<1> HIDE DEF Good, Took
<1>4. Good(1) /\ Took(1) BY <1>2, <1>3
<1>5. Good(2) /\ Took(2) BY <1>4, <1>3
<1>6. Good(3) /\ Took(3) BY <1>5, <1>3
<1>7. Good(4) /\ Took(4) BY <1>6, <1>3
<1>8. ASSUME NEW i \in 1 .. 4
      PROVE  /\ Good(i - 1) /\ Fewer(f[i - 1], f[i], o)
             /\ \A X : Dead(f[i - 1], o, X) /\ Go!Next_to(pt, i) \in X => f[i][Go!Next_to(pt, i)] = Go!EMPTY
  <2>1. CASE i = 1 BY <2>1, <1>2, <1>3
  <2>2. CASE i = 2 BY <2>2, <1>4, <1>3
  <2>3. CASE i = 3 BY <2>3, <1>5, <1>3
  <2>4. CASE i = 4 BY <2>4, <1>6, <1>3
  <2> QED BY <2>1, <2>2, <2>3, <2>4
<1>9. \A i \in 0 .. 4 : Fewer(f[i], f[4], o)
  <2>1. \A i \in 1 .. 4 : Fewer(f[i - 1], f[i], o) BY <1>8
  <2>2. Fewer(f[0], f[1], o) /\ Fewer(f[1], f[2], o) /\ Fewer(f[2], f[3], o) /\ Fewer(f[3], f[4], o)
    BY <2>1
  <2>3. \A g, h, k : Fewer(g, h, o) /\ Fewer(h, k, o) => Fewer(g, k, o) BY DEF Fewer
  <2>4. Fewer(f[4], f[4], o) BY DEF Fewer
  <2>5. Fewer(f[2], f[4], o) BY <2>2, <2>3
  <2>6. Fewer(f[1], f[4], o) BY <2>2, <2>3, <2>5
  <2>7. Fewer(f[0], f[4], o) BY <2>2, <2>3, <2>6
  <2> QED BY <2>2, <2>4, <2>5, <2>6, <2>7
<1>10. ASSUME NEW X, Dead(f[4], o, X), NEW q \in X, q \in Go!Neighbours(pt) PROVE FALSE
  <2>1. PICK d \in 1 .. 4 : q = Go!Next_to(pt, d) BY <1>10, Directions
  <2>2. Good(d - 1) /\ Fewer(f[d - 1], f[4], o) /\ Fewer(f[d], f[4], o) BY <1>8, <1>9
  <2>3. Dead(f[d - 1], o, X)
    <3>1. X \subseteq Go!Stones(f[d - 1], o) BY <1>10, <2>2, <1>0 DEF Dead, Go!Stones, Fewer
    <3>2. ASSUME NEW y \in X, NEW r \in Go!Neighbours(y) \ X
          PROVE  f[d - 1][r] \notin {Go!EMPTY, o}
      <4>1. r \in Go!Points BY DEF Go!Neighbours
      <4>2. f[4][r] \notin {Go!EMPTY, o} BY <1>10 DEF Dead
      <4> QED BY <4>1, <4>2, <2>2 DEF Fewer
    <3> QED BY <3>1, <3>2, <1>10 DEF Dead
  <2>4. f[d][q] = Go!EMPTY BY <2>1, <2>3, <1>8, <1>10
  <2>5. q \in Go!Points /\ f[4][q] = o BY <1>10 DEF Dead, Go!Stones
  <2> QED BY <2>2, <2>4, <2>5, <1>0 DEF Fewer
<1> QED BY <1>1, <1>7, <1>10 DEF Good, Took

\* A board on which p puts a stone at pt.
Placed(b, p, pt) == [b EXCEPT ![pt] = p]

\* A move leaves no dead set if there was none, and one that would leave its own stone
\* without liberties takes nothing.
LEMMA MoveKeepsLiberties ==
  ASSUME NEW b \in GoBoards, NEW p \in Go!Players, NEW pt \in Go!Points, b[pt] = Go!EMPTY, NoneDead(b)
  PROVE  LET c == Go!captured(Placed(b, p, pt), pt)
         IN  /\ c \in GoBoards /\ Fewer(Placed(b, p, pt), c, Other(p)) /\ c[pt] = p
             /\ Go!has_liberties(c, pt) => NoneDead(c)
             /\ ~Go!has_liberties(c, pt) => c = Placed(b, p, pt)
<1> DEFINE o == Other(p)
           s == Placed(b, p, pt)
           c == Go!captured(s, pt)
<1>1. o \in Go!Players /\ o # p /\ o # Go!EMPTY /\ p # Go!EMPTY /\ Go!Players = {p, o} BY Others
<1>2. /\ s \in GoBoards /\ s[pt] = p
      /\ \A x \in Go!Points : x # pt => s[x] = b[x]
  BY DEF GoBoards, Placed
<1> HIDE DEF s
<1>3. /\ c \in GoBoards /\ Fewer(s, c, o)
      /\ c = s \/ \E q \in Go!Neighbours(pt) : c[q] = Go!EMPTY
      /\ \A X : Dead(c, o, X) => X \cap Go!Neighbours(pt) = {}
  BY <1>2, CaptureFacts
<1> HIDE DEF c
<1>4. c[pt] = p BY <1>1, <1>2, <1>3 DEF Fewer
<1>5. ASSUME Go!has_liberties(c, pt) PROVE NoneDead(c)
  <2>1. ASSUME NEW X, Dead(c, o, X) PROVE FALSE
    <3>1. X \cap Go!Neighbours(pt) = {} /\ pt \notin X BY <2>1, <1>1, <1>3, <1>4 DEF Dead, Go!Stones
    <3>2. X \subseteq Go!Stones(b, o) BY <2>1, <3>1, <1>1, <1>2, <1>3 DEF Dead, Go!Stones, Fewer
    <3>3. ASSUME NEW y \in X, NEW r \in Go!Neighbours(y) \ X PROVE b[r] \notin {Go!EMPTY, o}
      <4>1. y \in Go!Points /\ r \in Go!Points BY <3>2 DEF Go!Neighbours, Go!Stones
      <4>2. r # pt BY <3>1, <4>1, Directions
      <4>3. c[r] \notin {Go!EMPTY, o} BY <2>1 DEF Dead
      <4> QED BY <4>1, <4>2, <4>3, <1>2, <1>3 DEF Fewer
    <3>4. Dead(b, o, X) BY <2>1, <3>2, <3>3 DEF Dead
    <3> QED BY <3>4, <1>1 DEF NoneDead
  <2>2. ASSUME NEW X, Dead(c, p, X) PROVE FALSE
    <3>1. pt \notin X BY <2>2, <1>5, DeadGroup
    <3>2. X \subseteq Go!Stones(b, p) BY <2>2, <3>1, <1>1, <1>2, <1>3 DEF Dead, Go!Stones, Fewer
    <3>3. ASSUME NEW y \in X, NEW r \in Go!Neighbours(y) \ X PROVE b[r] \notin {Go!EMPTY, p}
      <4>1. r \in Go!Points BY DEF Go!Neighbours
      <4>2. c[r] \notin {Go!EMPTY, p} BY <2>2 DEF Dead
      <4>3. r # pt BY <4>2, <1>4
      <4> QED BY <4>1, <4>2, <4>3, <1>1, <1>2, <1>3 DEF Fewer
    <3>4. Dead(b, p, X) BY <2>2, <3>2, <3>3 DEF Dead
    <3> QED BY <3>4 DEF NoneDead
  <2> QED BY <2>1, <2>2, <1>1 DEF NoneDead
<1>6. ASSUME NEW q \in Go!Neighbours(pt), c[q] = Go!EMPTY PROVE Go!has_liberties(c, pt)
  BY <1>6, GroupFacts DEF Go!has_liberties, IsGroup
<1> QED BY <1>3, <1>4, <1>5, <1>6 DEF c, s

\* The last move: it put a stone on an empty point and took some of the other player's.
LastMoveIs(prev, b, l) ==
  /\ prev \in GoBoards /\ NoneDead(prev) /\ l \in Go!Points
  /\ prev[l] = Go!EMPTY /\ b[l] \in Go!Players
  /\ Fewer(Placed(prev, b[l], l), b, Other(b[l]))

\* The inductive invariant of go: no set of stones is dead, now and before the last move.
GoInv ==
  /\ goBoard \in GoBoards /\ goTurn \in Go!Players
  /\ NoneDead(goBoard)
  /\ goPrevBoard # nil => LastMoveIs(goPrevBoard, goBoard, goLast)

\* A board where a single stone has taken a single stone: the player t puts a stone at q
\* and takes the stone at l.
IsKo(prev, b, l, t, q) ==
  /\ t \in Go!Players /\ b \in GoBoards /\ LastMoveIs(prev, b, l) /\ NoneDead(b)
  /\ q \in Go!Points /\ b[q] = Go!EMPTY /\ b[l] = Other(t) /\ prev[q] = t
  /\ \A x \in Go!Points \ {q, l} : b[x] = prev[x]
  /\ \A x \in Go!Neighbours(l) \ {q} : b[x] = t

\* The stone that took has its one liberty where it took, and alone is a group.
LEMMA KoFacts ==
  ASSUME NEW prev, NEW b, NEW l, NEW t, NEW q, IsKo(prev, b, l, t, q)
  PROVE  LET s == Placed(b, t, q)
         IN  /\ s \in GoBoards /\ s[q] = t /\ s[l] = Other(t) /\ l # q
             /\ l \in Go!Neighbours(q) /\ \A x \in Go!Neighbours(l) : s[x] = t
             /\ prev = [s EXCEPT ![l] = Go!EMPTY]
             /\ Dead(s, Other(t), {l})
<1> DEFINE s == Placed(b, t, q)
           c == Other(t)
<1>1. c \in Go!Players /\ c # t /\ c # Go!EMPTY /\ t # Go!EMPTY BY Others DEF IsKo
<1>2. l \in Go!Points /\ q \in Go!Points /\ b[l] = c /\ b[q] = Go!EMPTY /\ l # q
  BY <1>1 DEF IsKo, LastMoveIs
<1>3. l \in Go!Neighbours(q)
  <2> SUFFICES ASSUME q \notin Go!Neighbours(l) PROVE FALSE BY <1>2, Directions
  <2>1. \A x \in Go!Neighbours(l) : b[x] = t BY DEF IsKo
  <2>2. Dead(b, c, {l}) BY <1>1, <1>2, <2>1 DEF Dead, Go!Stones
  <2> QED BY <2>2, <1>1 DEF IsKo, NoneDead
<1>4. /\ s \in GoBoards /\ s[q] = t
      /\ \A x \in Go!Points : x # q => s[x] = b[x]
  BY <1>2 DEF IsKo, Placed, GoBoards
<1> HIDE DEF s
<1>5. s[l] = c BY <1>2, <1>4
<1>6. \A x \in Go!Neighbours(l) : s[x] = t
  BY <1>4 DEF IsKo, Go!Neighbours
<1>7. prev = [s EXCEPT ![l] = Go!EMPTY]
  <2>1. prev \in GoBoards /\ prev[l] = Go!EMPTY /\ prev[q] = t BY DEF IsKo, LastMoveIs
  <2>2. \A x \in Go!Points : prev[x] = IF x = l THEN Go!EMPTY ELSE s[x]
    BY <1>4, <2>1 DEF IsKo
  <2>3. [s EXCEPT ![l] = Go!EMPTY] \in GoBoards /\
        \A x \in Go!Points : [s EXCEPT ![l] = Go!EMPTY][x] = IF x = l THEN Go!EMPTY ELSE s[x]
    BY <1>4 DEF GoBoards
  <2> QED BY <2>1, <2>2, <2>3 DEF GoBoards
<1>8. Dead(s, c, {l}) BY <1>1, <1>2, <1>5, <1>6 DEF Dead, Go!Stones
<1> QED BY <1>2, <1>3, <1>4, <1>5, <1>6, <1>7, <1>8 DEF s

\* Taking the stone back gives the board before it.
LEMMA RetakeRepeats ==
  ASSUME NEW prev, NEW b, NEW l, NEW t, NEW q, IsKo(prev, b, l, t, q)
  PROVE  Go!captured(Placed(b, t, q), q) = prev
<1> DEFINE s == Placed(b, t, q)
           c == Other(t)
<1>1. c \in Go!Players /\ c # t /\ c # Go!EMPTY /\ t # Go!EMPTY /\ t \in Go!Players BY Others DEF IsKo
<1>2. /\ s \in GoBoards /\ s[q] = t /\ s[l] = c /\ l # q
      /\ l \in Go!Neighbours(q) /\ \A x \in Go!Neighbours(l) : s[x] = t
      /\ prev = [s EXCEPT ![l] = Go!EMPTY]
      /\ Dead(s, c, {l})
  BY KoFacts
<1>3. prev \in GoBoards /\ NoneDead(prev) /\ l \in Go!Points /\ q \in Go!Points BY DEF IsKo, LastMoveIs
<1> HIDE DEF s
<1>4. /\ prev[q] = t /\ prev[l] = Go!EMPTY
      /\ \A x \in Go!Points : x # l => prev[x] = s[x]
  BY <1>2, <1>3 DEF GoBoards
<1>5. ASSUME NEW Y, Dead(s, c, Y) PROVE l \in Y
  <2> SUFFICES ASSUME l \notin Y PROVE FALSE OBVIOUS
  <2>1. Y \subseteq Go!Stones(prev, c) BY <1>4, <1>5 DEF Dead, Go!Stones
  <2>2. ASSUME NEW y \in Y, NEW r \in Go!Neighbours(y) \ Y PROVE prev[r] \notin {Go!EMPTY, c}
    <3>1. s[r] \notin {Go!EMPTY, c} /\ r \in Go!Points BY <1>5 DEF Dead, Go!Neighbours
    <3> QED BY <3>1, <1>2, <1>4
  <2>3. Dead(prev, c, Y) BY <1>5, <2>1, <2>2 DEF Dead
  <2> QED BY <2>3, <1>1, <1>3 DEF NoneDead
<1>6. ASSUME NEW x \in Go!Points, s[x] = c, Dead(s, c, Go!Group(s, x))
      PROVE  Go!clear_piece_group(s, x) = prev
  <2>1. IsGroup(s, x, Go!Group(s, x)) BY GroupFacts
  <2>2. x = l
    <3> SUFFICES ASSUME x # l PROVE FALSE OBVIOUS
    <3> DEFINE X == Go!Stones(s, c) \ {l}
    <3>1. ASSUME NEW r \in X, NEW z \in Go!Neighbours(r), s[z] = c PROVE z \in X
      <4>1. r \in Go!Points /\ s[r] = c /\ z \in Go!Points BY DEF Go!Stones, Go!Neighbours
      <4>2. z # l BY <4>1, <1>1, <1>2, Directions
      <4> QED BY <4>1, <4>2, <3>1 DEF Go!Stones
    <3>2. x \in X BY <1>6 DEF Go!Stones
    <3> HIDE DEF X
    <3>3. Closed(s, s[x], X) BY <3>1, <1>6 DEF Closed
    <3>4. Go!Group(s, x) \subseteq X BY <2>1, <3>2, <3>3 DEF IsGroup
    <3> QED BY <3>4, <1>5, <1>6 DEF X
  <2>3. Closed(s, s[x], {l}) BY <1>1, <1>2, <1>6 DEF Closed
  <2>4. Go!Group(s, x) = {l} BY <2>1, <2>2, <2>3 DEF IsGroup
  <2>5. Go!clear_piece_group(s, x) = [y \in Go!Points |-> IF y = l THEN Go!EMPTY ELSE s[y]]
    BY <2>4 DEF Go!clear_piece_group
  <2> QED BY <2>5, <1>3, <1>4 DEF GoBoards
<1>7. PICK f : /\ f[0] = s /\ Go!captured(s, q) = f[4]
               /\ \A i \in 1 .. 4 : f[i] = Go!taken(f[i - 1], q, i)
  BY CapturedInTurn
<1>8. ASSUME NEW i \in 1 .. 4, f[i - 1] \in {s, prev}
      PROVE  /\ f[i] \in {s, prev} /\ (f[i - 1] = prev => f[i] = prev)
             /\ l = Go!Next_to(q, i) => f[i] = prev
  <2> DEFINE g == f[i - 1]
             x == Go!Next_to(q, i)
  <2>1. /\ f[i] = g \/ (x \in Go!Neighbours(q) /\ g[x] = c /\ Dead(g, c, Go!Group(g, x))
                        /\ f[i] = Go!clear_piece_group(g, x))
        /\ \A X : Dead(g, c, X) /\ x \in X => f[i][x] = Go!EMPTY
    <3>1. g \in GoBoards /\ g[q] = t BY <1>2, <1>3, <1>4, <1>8
    <3>2. f[i] = Go!taken(g, q, i) BY <1>7
    <3> HIDE DEF g
    <3> QED BY <3>1, <3>2, <1>1, <1>3, TakenFacts
  <2>2. CASE g = prev
    BY <2>1, <2>2, <1>1, <1>3 DEF NoneDead
  <2>3. CASE g = s
    <3>1. f[i] \in {s, prev} BY <2>1, <2>3, <1>6 DEF Go!Neighbours
    <3>2. l = x => f[i] = prev BY <2>1, <2>3, <3>1, <1>1, <1>2
    <3>3. g = prev => f[i] = prev BY <2>2, <2>1, <1>1, <1>3 DEF NoneDead
    <3> QED BY <3>1, <3>2, <3>3
  <2> QED BY <2>2, <2>3, <1>8
<1>9. f[1] \in {s, prev} /\ f[2] \in {s, prev} /\ f[3] \in {s, prev} /\ f[0] \in {s, prev}
  <2>1. f[1] \in {s, prev} BY <1>7, <1>8
  <2>2. f[2] \in {s, prev} BY <2>1, <1>8
  <2>3. f[3] \in {s, prev} BY <2>2, <1>8
  <2> QED BY <2>1, <2>2, <2>3, <1>7
<1>10. PICK d \in 1 .. 4 : l = Go!Next_to(q, d) BY <1>2, <1>3, Directions
<1>11. f[4] = prev
  <2>1. (f[1] = prev => f[2] = prev) /\ (f[2] = prev => f[3] = prev) /\ (f[3] = prev => f[4] = prev)
    BY <1>8, <1>9
  <2>2. CASE d = 1 BY <2>1, <2>2, <1>8, <1>9, <1>10
  <2>3. CASE d = 2 BY <2>1, <2>3, <1>8, <1>9, <1>10
  <2>4. CASE d = 3 BY <2>1, <2>4, <1>8, <1>9, <1>10
  <2>5. CASE d = 4 BY <2>1, <2>5, <1>8, <1>9, <1>10
  <2> QED BY <2>2, <2>3, <2>4, <2>5
<1> QED BY <1>7, <1>11 DEF s

-----------------------------------------------------------------------------
\* At first there is nothing on the board.
LEMMA GoStarts == Go!Init => GoInv
<1> SUFFICES ASSUME Go!Init PROVE GoInv OBVIOUS
<1>1. goBoard = [x \in Go!Points |-> Go!EMPTY] /\ goPrevBoard = nil /\ goTurn = Go!PLAYER1
  BY DEF Go!Init, Go!new_game
<1>2. goBoard \in GoBoards /\ goTurn \in Go!Players BY <1>1 DEF GoBoards, Go!Players
<1>3. NoneDead(goBoard)
  <2>1. ASSUME NEW p \in Go!Players, NEW X, Dead(goBoard, p, X) PROVE FALSE
    BY <1>1, <2>1, Others DEF Dead, Go!Stones
  <2> QED BY <2>1 DEF NoneDead
<1> QED BY <1>1, <1>2, <1>3 DEF GoInv

\* What a move does that is accepted, and one that is not.
LEMMA GoMoves ==
  ASSUME GoInv, NEW pt \in Go!Points, Go!player_move(pt)
  PROVE  LET placed == Go!captured(Placed(goBoard, goTurn, pt), pt)
         IN  /\ goBoard[pt] = Go!EMPTY /\ placed # goPrevBoard
             /\ \/ /\ goBoard' = placed /\ goPrevBoard' = goBoard /\ goLast' = pt /\ goTurn' = Other(goTurn)
                   /\ placed \in GoBoards /\ NoneDead(placed) /\ placed[pt] = goTurn
                   /\ Fewer(Placed(goBoard, goTurn, pt), placed, Other(goTurn))
                \/ goBoard' = goBoard /\ UNCHANGED <<goPrevBoard, goTurn, goLast>>
<1> DEFINE s == Placed(goBoard, goTurn, pt)
           placed == Go!captured(s, pt)
<1>1. /\ goBoard[pt] = Go!EMPTY /\ placed # goPrevBoard
      /\ IF Go!has_liberties(placed, pt) THEN Go!Accept(pt, placed) ELSE Go!Suicide(pt, placed)
  BY DEF Go!player_move, Placed
<1>2. /\ placed \in GoBoards /\ Fewer(s, placed, Other(goTurn)) /\ placed[pt] = goTurn
      /\ Go!has_liberties(placed, pt) => NoneDead(placed)
      /\ ~Go!has_liberties(placed, pt) => placed = s
  BY <1>1, MoveKeepsLiberties DEF GoInv
<1>3. CASE Go!has_liberties(placed, pt)
  <2>1. Go!Accept(pt, placed) BY <1>1, <1>3
  <2> HIDE DEF placed, s
  <2>2. goBoard' = placed /\ goPrevBoard' = goBoard /\ goLast' = pt /\ goTurn' = Other(goTurn)
    BY <2>1 DEF Go!Accept, Go!next_turn, Other
  <2> QED BY <2>2, <1>1, <1>2, <1>3 DEF placed, s
<1>4. CASE ~Go!has_liberties(placed, pt)
  <2>1. Go!Suicide(pt, placed) /\ placed = s BY <1>1, <1>2, <1>4
  <2>2. goBoard' = [s EXCEPT ![pt] = Go!EMPTY] /\ UNCHANGED <<goPrevBoard, goTurn, goLast>>
    BY <2>1 DEF Go!Suicide
  <2>3. [s EXCEPT ![pt] = Go!EMPTY] = goBoard BY <1>1 DEF Placed, GoInv, GoBoards
  <2> QED BY <2>2, <2>3, <1>1
<1> QED BY <1>3, <1>4

\* The properties of single steps.
NoTrace   == goTurn' = goTurn => goBoard' = goBoard
NoRetake  == \A q \in Go!Points : Go!KoAt(q) => goLast' # q

\* In a ko the last stone is not where it was taken.
LEMMA KoIsKo ==
  ASSUME GoInv, NEW q \in Go!Points, Go!KoAt(q)
  PROVE  goLast # q /\ IsKo(goPrevBoard, goBoard, goLast, goTurn, q)
<1>1. LastMoveIs(goPrevBoard, goBoard, goLast) BY DEF GoInv, Go!KoAt
<1>2. goBoard[goLast] \in Go!Players /\ goBoard[goLast] # goTurn BY <1>1 DEF Go!KoAt, LastMoveIs
<1>3. goBoard[goLast] = Other(goTurn) BY <1>2, Others DEF GoInv
<1>4. goLast # q BY <1>2, Others DEF Go!KoAt
<1> QED BY <1>1, <1>3, <1>4 DEF GoInv, IsKo, Go!KoAt

\* Every step keeps the invariant, and does what the properties say.
LEMMA GoSteps ==
  ASSUME GoInv, [Go!Next]_go
  PROVE  GoInv' /\ NoTrace /\ NoRetake
<1>1. CASE UNCHANGED go
  <2>1. NoTrace /\ UNCHANGED <<goBoard, goPrevBoard, goTurn, goLast>> BY <1>1 DEF go, NoTrace
  <2>2. NoRetake BY <2>1, KoIsKo DEF NoRetake
  <2> QED BY <2>1, <2>2 DEF GoInv, LastMoveIs
<1>2. CASE Go!player_pass
  <2>1. goTurn' = Other(goTurn) /\ UNCHANGED <<goBoard, goPrevBoard, goLast>>
    BY <1>2 DEF Go!player_pass, Go!next_turn, Other
  <2>2. goTurn' \in Go!Players /\ NoTrace BY <2>1, Others DEF GoInv, NoTrace
  <2>3. NoRetake BY <2>1, KoIsKo DEF NoRetake
  <2> QED BY <2>1, <2>2, <2>3 DEF GoInv, LastMoveIs
<1>3. ASSUME NEW pt \in Go!Points, Go!player_move(pt) PROVE GoInv' /\ NoTrace /\ NoRetake
  <2> DEFINE placed == Go!captured(Placed(goBoard, goTurn, pt), pt)
  <2>1. /\ goBoard[pt] = Go!EMPTY /\ placed # goPrevBoard
        /\ \/ /\ goBoard' = placed /\ goPrevBoard' = goBoard /\ goLast' = pt /\ goTurn' = Other(goTurn)
              /\ placed \in GoBoards /\ NoneDead(placed) /\ placed[pt] = goTurn
              /\ Fewer(Placed(goBoard, goTurn, pt), placed, Other(goTurn))
           \/ goBoard' = goBoard /\ UNCHANGED <<goPrevBoard, goTurn, goLast>>
    BY <1>3, GoMoves
  <2>2. ASSUME NEW q \in Go!Points, Go!KoAt(q), goLast' = q PROVE FALSE
    <3>1. goLast # q /\ IsKo(goPrevBoard, goBoard, goLast, goTurn, q) BY <2>2, KoIsKo
    <3>2. pt = q BY <2>1, <2>2, <3>1
    <3> QED BY <2>1, <3>1, <3>2, RetakeRepeats
  <2> HIDE DEF placed
  <2>3. CASE goBoard' = goBoard /\ UNCHANGED <<goPrevBoard, goTurn, goLast>>
    BY <2>2, <2>3 DEF GoInv, LastMoveIs, NoTrace, NoRetake
  <2>4. CASE /\ goBoard' = placed /\ goPrevBoard' = goBoard /\ goLast' = pt /\ goTurn' = Other(goTurn)
             /\ placed \in GoBoards /\ NoneDead(placed) /\ placed[pt] = goTurn
             /\ Fewer(Placed(goBoard, goTurn, pt), placed, Other(goTurn))
    <3>1. goTurn' \in Go!Players /\ goTurn' # goTurn BY <2>4, Others DEF GoInv
    <3>2. LastMoveIs(goPrevBoard', goBoard', goLast') BY <2>1, <2>4 DEF LastMoveIs, GoInv
    <3> QED BY <2>2, <2>4, <3>1, <3>2 DEF GoInv, NoTrace, NoRetake
  <2> QED BY <2>1, <2>3, <2>4
<1> QED BY <1>1, <1>2, <1>3 DEF Go!Next

\* The invariant says what the last move was.
LEMMA GoExplains == GoInv => Go!NoDeadGroups /\ Go!LastMoveExplainsBoard
<1> SUFFICES ASSUME GoInv PROVE Go!NoDeadGroups /\ Go!LastMoveExplainsBoard OBVIOUS
<1>1. Go!NoDeadGroups BY NoneDeadIsIt DEF GoInv
<1>2. ASSUME goPrevBoard # nil
      PROVE  /\ goLast # Go!NoMove /\ goPrevBoard[goLast] = Go!EMPTY
             /\ \A pt \in Go!Points \ {goLast} :
                  goBoard[pt] \in {goPrevBoard[pt],
                    IF goPrevBoard[pt] = Go!other_player(goBoard[goLast]) THEN Go!EMPTY ELSE goPrevBoard[pt]}
  <2>1. LastMoveIs(goPrevBoard, goBoard, goLast) BY <1>2 DEF GoInv
  <2>2. goLast # Go!NoMove BY <2>1, BoardSizes DEF LastMoveIs, Go!NoMove, Go!Points, Go!GoAssumption
  <2>3. ASSUME NEW pt \in Go!Points \ {goLast}
        PROVE  goBoard[pt] \in {goPrevBoard[pt],
                 IF goPrevBoard[pt] = Go!other_player(goBoard[goLast]) THEN Go!EMPTY ELSE goPrevBoard[pt]}
    <3>1. Placed(goPrevBoard, goBoard[goLast], goLast)[pt] = goPrevBoard[pt]
      BY <2>1 DEF LastMoveIs, Placed, GoBoards
    <3> QED BY <2>1, <3>1 DEF LastMoveIs, Fewer, Other
  <2> QED BY <2>1, <2>2, <2>3 DEF LastMoveIs
<1> QED BY <1>1, <1>2 DEF Go!LastMoveExplainsBoard

\* On a board of any size no group is left without liberties, every board follows from
\* the one before by the last move, a refused move leaves no trace, and no single stone
\* is taken back at once.
THEOREM GoIsKept == BoardsSpec => KeepsTheRulesOfGo
<1>1. BoardsInit => GoInv BY GoStarts DEF BoardsInit
<1>2. GoInv /\ [BoardsNext]_<<game, vars, go, wu, reversi>> => GoInv' /\ NoTrace /\ NoRetake
  <2>1. [BoardsNext]_<<game, vars, go, wu, reversi>> => [Go!Next]_go
    BY DEF BoardsNext, Checkers_Next, Go_Next, Wu_Next, Reversi_Next
  <2> QED BY <2>1, GoSteps
<1>3. BoardsSpec => [](Go!NoDeadGroups /\ Go!LastMoveExplainsBoard)
  BY <1>1, <1>2, GoExplains, PTL DEF BoardsSpec
<1>4. BoardsSpec => [][NoTrace]_go /\ [][NoRetake]_go
  <2>1. UNCHANGED <<game, vars, go, wu, reversi>> => UNCHANGED go OBVIOUS
  <2> QED BY <1>1, <1>2, <2>1, PTL DEF BoardsSpec
<1>5. [][NoTrace]_go => Go!RefusedChangesNothing BY DEF NoTrace, Go!RefusedChangesNothing, go, Go!vars
<1>6. [][NoRetake]_go => Go!NoImmediateRetake BY DEF NoRetake, Go!NoImmediateRetake, go, Go!vars
<1> QED BY <1>3, <1>4, <1>5, <1>6, PTL DEF KeepsTheRulesOfGo, Go!KeepsTheRulesOfGo

-----------------------------------------------------------------------------
(* Wu *)

\* A board of wu, and how far along a row is looked.
WuBoards == [Wu!Points -> {Wu!EMPTY} \cup Wu!Players]
Reach == 1 .. WuRow - 1

\* The i-th point from pt along a row is the player's.
Own(b, player, pt, dir, i) ==
  Wu!Along(pt, dir, i) \in Wu!Points /\ b[Wu!Along(pt, dir, i)] = player

\* The sizes, and that the directions are the four of the source.
LEMMA WuSizes ==
  /\ WuSize \in Nat /\ WuRow \in Nat /\ WuRow >= 1 /\ nil \notin Wu!Players
  /\ DOMAIN Wu!dirs = 1 .. 4
BY BoardSizes DEF Wu!WuAssumption, Wu!dirs

\* Going i points along a row and then j is going i + j, and going none is staying.
StepsAdd(pt, dir) ==
  /\ \A i, j \in Int : Wu!Along(Wu!Along(pt, dir, i), dir, j) = Wu!Along(pt, dir, i + j)
  /\ Wu!Along(pt, dir, 0) = pt

\* That is so of every direction of the source.
LEMMA AlongAdds ==
  ASSUME NEW pt, pt = <<pt[1], pt[2]>>, pt[1] \in Int, pt[2] \in Int,
         NEW d \in 1 .. 4
  PROVE  StepsAdd(pt, Wu!dirs[d])
<1> SUFFICES ASSUME NEW i \in Int, NEW j \in Int
             PROVE  /\ Wu!Along(Wu!Along(pt, Wu!dirs[d], i), Wu!dirs[d], j)
                          = Wu!Along(pt, Wu!dirs[d], i + j)
                    /\ Wu!Along(pt, Wu!dirs[d], 0) = pt
  BY DEF StepsAdd
<1>1. CASE d = 1 BY <1>1 DEF Wu!Along, Wu!dirs
<1>2. CASE d = 2 BY <1>2 DEF Wu!Along, Wu!dirs
<1>3. CASE d = 3 BY <1>3 DEF Wu!Along, Wu!dirs
<1>4. CASE d = 4 BY <1>4 DEF Wu!Along, Wu!dirs
<1> QED BY <1>1, <1>2, <1>3, <1>4

\* A run counts the player's points up to the first that is not.
LEMMA RunLength ==
  ASSUME NEW b, NEW player, NEW pt, NEW dir, NEW sign
  PROVE  LET n == Wu!run_length(b, player, pt, dir, sign)
         IN  /\ n \in 0 .. WuRow - 1
             /\ \A i \in 1 .. n : Own(b, player, pt, dir, sign * i)
             /\ n < WuRow - 1 => ~Own(b, player, pt, dir, sign * (n + 1))
<1> DEFINE others == {i \in Reach : ~Own(b, player, pt, dir, sign * i)}
           n == Wu!run_length(b, player, pt, dir, sign)
<1>1. n = IF others = {} THEN WuRow - 1 ELSE Wu!Min(others) - 1
  BY DEF Wu!run_length, Own, Reach
<1>2. CASE others = {}
  BY <1>1, <1>2, WuSizes DEF Reach
<1>3. CASE others # {}
  <2>1. others \in SUBSET Nat BY WuSizes DEF Reach
  <2> HIDE DEF others, n
  <2>2. \E m \in others : \A k \in others : m <= k BY <1>3, <2>1, LeastMember
  <2>3. Wu!Min(others) \in others /\ \A k \in others : Wu!Min(others) <= k
    BY <2>2 DEF Wu!Min
  <2> DEFINE m == Wu!Min(others)
  <2>4. m \in Reach /\ ~Own(b, player, pt, dir, sign * m) BY <2>3 DEF others
  <2>5. \A i \in Reach : i < m => Own(b, player, pt, dir, sign * i)
    <3> SUFFICES ASSUME NEW i \in Reach, i < m, ~Own(b, player, pt, dir, sign * i) PROVE FALSE
      OBVIOUS
    <3>1. i \in others BY DEF others
    <3>2. m <= i BY <2>3, <3>1
    <3> QED BY <3>2, <2>4, WuSizes DEF Reach
  <2>6. n = m - 1 BY <1>1, <1>3
  <2> HIDE DEF m
  <2>7. m \in Int /\ n + 1 = m /\ n \in 0 .. WuRow - 1 BY <2>4, <2>6, WuSizes DEF Reach
  <2>8. \A i \in 1 .. n : i \in Reach /\ i < m BY <2>7, WuSizes DEF Reach
  <2> QED BY <2>4, <2>5, <2>7, <2>8 DEF n
<1> QED BY <1>2, <1>3

\* A point is one of a row of the player's just if the two runs from it, one to each
\* side, are long enough.
LEMMA RowsAreCounted ==
  ASSUME NEW b, NEW player, NEW pt \in Wu!Points, b[pt] = player
  PROVE  Wu!completes_row(b, player, pt) <=> Wu!HasRow(b, player, pt)
<1>1. pt = <<pt[1], pt[2]>> /\ pt[1] \in Int /\ pt[2] \in Int BY WuSizes DEF Wu!Points
<1>2. ASSUME NEW d \in 1 .. 4, Wu!in_a_row(b, player, pt, Wu!dirs[d]) >= WuRow
      PROVE  Wu!HasRow(b, player, pt)
  <2> DEFINE dir == Wu!dirs[d]
             f == Wu!run_length(b, player, pt, dir, 1)
             g == Wu!run_length(b, player, pt, dir, -1)
             start == Wu!Along(pt, dir, -g)
             row == {Wu!Along(start, dir, i) : i \in 0 .. WuRow - 1}
  <2>0. StepsAdd(pt, dir) BY <1>1, AlongAdds
  <2>1. /\ f \in 0 .. WuRow - 1 /\ g \in 0 .. WuRow - 1
        /\ \A i \in 1 .. f : Own(b, player, pt, dir, 1 * i)
        /\ \A i \in 1 .. g : Own(b, player, pt, dir, -1 * i)
    BY RunLength
  <2>2. 1 + f + g >= WuRow BY <1>2 DEF Wu!in_a_row
  <2> HIDE DEF f, g, dir
  <2>3. ASSUME NEW k \in -g .. f PROVE Own(b, player, pt, dir, k)
    <3>1. CASE k = 0
      <4>1. Wu!Along(pt, dir, 0) = pt BY <2>0 DEF StepsAdd
      <4> QED BY <3>1, <4>1 DEF Own
    <3>2. CASE k > 0
      <4>1. k \in 1 .. f /\ 1 * k = k BY <2>1, <3>2
      <4> QED BY <2>1, <4>1
    <3>3. CASE k < 0
      <4>1. -k \in 1 .. g /\ -1 * (-k) = k BY <2>1, <3>3
      <4> QED BY <2>1, <4>1
    <3>4. k \in Int BY <2>1
    <3> QED BY <3>1, <3>2, <3>3, <3>4
  <2>4. ASSUME NEW i \in 0 .. WuRow - 1
        PROVE  Wu!Along(start, dir, i) = Wu!Along(pt, dir, i - g) /\ i - g \in -g .. f
    <3>1. i \in Int /\ -g \in Int /\ (-g) + i = i - g /\ i - g \in -g .. f BY <2>1, <2>2, WuSizes
    <3>2. Wu!Along(start, dir, i) = Wu!Along(pt, dir, (-g) + i)
      BY <2>0, <3>1 DEF StepsAdd, start
    <3> QED BY <3>1, <3>2
  <2>5. \A q \in row : q \in Wu!Points /\ b[q] = player
    BY <2>3, <2>4 DEF Own
  <2>6. pt \in row
    <3>1. g \in 0 .. WuRow - 1 /\ g - g = 0 BY <2>1, WuSizes
    <3>2. Wu!Along(start, dir, g) = Wu!Along(pt, dir, 0) BY <2>4, <3>1
    <3>3. Wu!Along(pt, dir, 0) = pt BY <2>0 DEF StepsAdd
    <3> QED BY <3>1, <3>2, <3>3
  <2>7. start \in Wu!Points
    <3>1. -g \in -g .. f BY <2>1
    <3> QED BY <2>3, <3>1 DEF Own
  <2>8. row \in Wu!Rows BY <2>7, WuSizes DEF Wu!Rows, row, dir
  <2> HIDE DEF row
  <2> QED BY <2>5, <2>6, <2>8 DEF Wu!HasRow
<1>3. ASSUME Wu!HasRow(b, player, pt)
      PROVE  \E d \in 1 .. 4 : Wu!in_a_row(b, player, pt, Wu!dirs[d]) >= WuRow
  <2>1. PICK row \in Wu!Rows : pt \in row /\ row \subseteq Wu!Points /\ \A q \in row : b[q] = player
    BY <1>3 DEF Wu!HasRow
  <2>2. PICK start \in Wu!Points, d \in 1 .. 4 :
          row = {Wu!Along(start, Wu!dirs[d], i) : i \in 0 .. WuRow - 1}
    BY <2>1, WuSizes DEF Wu!Rows
  <2> DEFINE dir == Wu!dirs[d]
             f == Wu!run_length(b, player, pt, dir, 1)
             g == Wu!run_length(b, player, pt, dir, -1)
  <2>3. PICK j \in 0 .. WuRow - 1 : pt = Wu!Along(start, dir, j) BY <2>1, <2>2
  <2>4. start = <<start[1], start[2]>> /\ start[1] \in Int /\ start[2] \in Int
    BY WuSizes DEF Wu!Points
  <2>0. StepsAdd(start, dir) BY <2>4, AlongAdds
  <2>5. ASSUME NEW k \in -j .. WuRow - 1 - j PROVE Own(b, player, pt, dir, k)
    <3>1. j \in Int /\ k \in Int /\ j + k \in 0 .. WuRow - 1 BY WuSizes
    <3>2. Wu!Along(pt, dir, k) = Wu!Along(start, dir, j + k)
      BY <2>0, <2>3, <3>1 DEF StepsAdd
    <3>3. Wu!Along(start, dir, j + k) \in row BY <2>2, <3>1
    <3> QED BY <2>1, <3>2, <3>3 DEF Own
  <2>6. /\ f \in 0 .. WuRow - 1 /\ g \in 0 .. WuRow - 1
        /\ (f < WuRow - 1 => ~Own(b, player, pt, dir, 1 * (f + 1)))
        /\ (g < WuRow - 1 => ~Own(b, player, pt, dir, -1 * (g + 1)))
    BY RunLength
  <2>7. Wu!in_a_row(b, player, pt, dir) = 1 + f + g BY DEF Wu!in_a_row
  <2> HIDE DEF f, g, dir
  <2>8. f >= WuRow - 1 - j
    <3> SUFFICES ASSUME f < WuRow - 1 - j PROVE FALSE BY <2>6, WuSizes
    <3>1. f < WuRow - 1 /\ f + 1 \in -j .. WuRow - 1 - j /\ 1 * (f + 1) = f + 1 BY <2>6, WuSizes
    <3> QED BY <2>5, <2>6, <3>1
  <2>9. g >= j
    <3> SUFFICES ASSUME g < j PROVE FALSE BY <2>6, WuSizes
    <3>1. g < WuRow - 1 /\ -(g + 1) \in -j .. WuRow - 1 - j /\ -1 * (g + 1) = -(g + 1) BY <2>6, WuSizes
    <3> QED BY <2>5, <2>6, <3>1
  <2>10. 1 + f + g >= WuRow BY <2>6, <2>8, <2>9, WuSizes
  <2> QED BY <2>7, <2>10 DEF dir
<1> QED BY <1>2, <1>3, WuSizes DEF Wu!completes_row

-----------------------------------------------------------------------------
\* The inductive invariant of wu.
WuInv ==
  /\ wuBoard \in WuBoards /\ wuTurn \in Wu!Players
  /\ Wu!WinnerMovedLast

\* What every step does: the player who completes a row wins, and no other.
RowsWin == wuLast' # wuLast => (wuWinner' = wuTurn <=> Wu!HasRow(wuBoard', wuTurn, wuLast'))

\* At first nobody has won.
LEMMA WuStarts == Wu!Init => WuInv
BY DEF Wu!Init, WuInv, WuBoards, Wu!Players, Wu!WinnerMovedLast

\* A move and a reload keep the invariant.
LEMMA WuSteps ==
  ASSUME WuInv, [Wu!Next]_wu
  PROVE  WuInv' /\ RowsWin
<1>1. CASE UNCHANGED wu
  BY <1>1 DEF wu, WuInv, RowsWin, Wu!WinnerMovedLast
<1>2. CASE Wu!Reload
  BY <1>2 DEF Wu!Reload, WuInv, RowsWin, Wu!WinnerMovedLast
<1>3. ASSUME NEW pt \in Wu!Points, Wu!player_move(pt) PROVE WuInv' /\ RowsWin
  <2>1. /\ wuWinner = nil /\ wuBoard' = [wuBoard EXCEPT ![pt] = wuTurn]
        /\ wuWinner' = IF Wu!completes_row(wuBoard', wuTurn, pt) THEN wuTurn ELSE wuWinner
        /\ wuTurn' = Wu!other_player(wuTurn) /\ wuLast' = pt
    BY <1>3 DEF Wu!player_move
  <2>2. wuBoard' \in WuBoards /\ wuBoard'[pt] = wuTurn BY <2>1 DEF WuInv, WuBoards
  <2>3. Wu!completes_row(wuBoard', wuTurn, pt) <=> Wu!HasRow(wuBoard', wuTurn, pt)
    BY <2>2, RowsAreCounted
  <2>4. /\ wuTurn' \in Wu!Players /\ wuTurn = Wu!other_player(wuTurn') /\ wuTurn # nil
    BY <2>1, WuSizes DEF WuInv, Wu!Players, Wu!other_player, Wu!PLAYER1, Wu!PLAYER2
  <2>5. pt # Wu!NoMove BY WuSizes DEF Wu!NoMove, Wu!Points
  <2>6. Wu!WinnerMovedLast' BY <2>1, <2>2, <2>3, <2>4, <2>5 DEF Wu!WinnerMovedLast
  <2>7. RowsWin BY <2>1, <2>3, <2>4 DEF RowsWin
  <2> QED BY <2>2, <2>4, <2>6, <2>7 DEF WuInv
<1> QED BY <1>1, <1>2, <1>3 DEF Wu!Next

\* For a board of any size and rows of any length: who completes a row with a stone,
\* from either end or in the middle, has won, and nobody else has.
THEOREM WuIsDecided == BoardsSpec => WuRowsDecide
<1>1. BoardsInit => WuInv BY WuStarts DEF BoardsInit
<1>2. WuInv /\ [BoardsNext]_<<game, vars, go, wu, reversi>> => WuInv' /\ RowsWin
  <2>1. [BoardsNext]_<<game, vars, go, wu, reversi>> => [Wu!Next]_wu
    BY DEF BoardsNext, Checkers_Next, Go_Next, Wu_Next, Reversi_Next
  <2> QED BY <2>1, WuSteps
<1>3. WuInv => Wu!WinnerMovedLast BY DEF WuInv
<1>4. BoardsSpec => []Wu!WinnerMovedLast /\ [][RowsWin]_wu
  <2>1. UNCHANGED <<game, vars, go, wu, reversi>> => UNCHANGED wu OBVIOUS
  <2> QED BY <1>1, <1>2, <1>3, <2>1, PTL DEF BoardsSpec
<1>5. [][RowsWin]_wu => Wu!RowWins BY DEF RowsWin, Wu!RowWins, wu, Wu!vars
<1> QED BY <1>4, <1>5, PTL DEF WuRowsDecide, Wu!RowsDecide

-----------------------------------------------------------------------------
(* Reversi *)

\* A direction changes each coordinate by at most one, and one of them at least.
IsDirection(dir) ==
  /\ dir = <<dir[1], dir[2]>> /\ dir[1] \in {-1, 0, 1} /\ dir[2] \in {-1, 0, 1}
  /\ ~(dir[1] = 0 /\ dir[2] = 0)

\* The directions of reversi are all there are.
LEMMA ReversiDirections == \A dir : dir \in Reversi!DIRS <=> IsDirection(dir)
<1>1. ASSUME NEW dir \in Reversi!DIRS PROVE IsDirection(dir)
  BY <1>1 DEF Reversi!DIRS, IsDirection
<1>2. ASSUME NEW dir, IsDirection(dir) PROVE dir \in Reversi!DIRS
  <2>1. CASE dir[1] = -1 BY <1>2, <2>1 DEF Reversi!DIRS, IsDirection
  <2>2. CASE dir[1] = 0 BY <1>2, <2>2 DEF Reversi!DIRS, IsDirection
  <2>3. CASE dir[1] = 1 BY <1>2, <2>3 DEF Reversi!DIRS, IsDirection
  <2> QED BY <1>2, <2>1, <2>2, <2>3 DEF IsDirection
<1> QED BY <1>1, <1>2

\* How far i steps take a coordinate that changes by a.
Way(i, a) == IF a = 0 THEN 0 ELSE IF a = 1 THEN i ELSE -i

\* Going i steps along a row, as sums.
LEMMA GoingAlong ==
  ASSUME NEW pt, NEW dir \in Reversi!DIRS, NEW i \in Int
  PROVE  Reversi!Along(pt, dir, i) = <<pt[1] + Way(i, dir[1]), pt[2] + Way(i, dir[2])>>
<1>1. \A a \in {-1, 0, 1} : i * a = Way(i, a) BY DEF Way
<1>2. dir[1] \in {-1, 0, 1} /\ dir[2] \in {-1, 0, 1} BY ReversiDirections DEF IsDirection
<1> QED BY <1>1, <1>2 DEF Reversi!Along

\* The cells of a board of any size.
LEMMA ReversiCells ==
  /\ ReversiSize \in Nat
  /\ \A pt \in Reversi!Cells :
       pt = <<pt[1], pt[2]>> /\ pt[1] \in 0 .. ReversiSize - 1 /\ pt[2] \in 0 .. ReversiSize - 1
  /\ \A x, y : <<x, y>> \in Reversi!Cells <=> x \in 0 .. ReversiSize - 1 /\ y \in 0 .. ReversiSize - 1
BY BoardSizes DEF Reversi!ReversiAssumption, Reversi!Cells

\* No cell is on two rows from the same cell, or twice on one.
LEMMA OneWay ==
  ASSUME NEW pt \in Reversi!Cells, NEW d \in Reversi!DIRS, NEW e \in Reversi!DIRS,
         NEW m \in Nat \ {0}, NEW n \in Nat \ {0},
         Reversi!Along(pt, d, m) = Reversi!Along(pt, e, n)
  PROVE  d = e /\ m = n
<1>1. IsDirection(d) /\ IsDirection(e) BY ReversiDirections
<1>2. pt[1] \in Int /\ pt[2] \in Int BY ReversiCells
<1>3. /\ pt[1] + Way(m, d[1]) = pt[1] + Way(n, e[1])
      /\ pt[2] + Way(m, d[2]) = pt[2] + Way(n, e[2])
  BY GoingAlong
<1>4. Way(m, d[1]) = Way(n, e[1]) /\ Way(m, d[2]) = Way(n, e[2])
  BY <1>1, <1>2, <1>3 DEF Way, IsDirection
<1>5. d[1] = e[1] /\ d[2] = e[2] BY <1>1, <1>4 DEF Way, IsDirection
<1> QED BY <1>1, <1>4, <1>5 DEF Way, IsDirection

\* Every direction has its opposite.
LEMMA WayBack ==
  ASSUME NEW d \in Reversi!DIRS
  PROVE  \E e \in Reversi!DIRS : \A pt \in Reversi!Cells, i, j \in Int :
            Reversi!Along(Reversi!Along(pt, d, i), e, j) = Reversi!Along(pt, d, i - j)
<1>1. IsDirection(d) BY ReversiDirections
<1> DEFINE e == <<-d[1], -d[2]>>
<1>2. e \in Reversi!DIRS
  <2>1. IsDirection(e) BY <1>1 DEF IsDirection
  <2> QED BY <2>1, ReversiDirections
<1>3. ASSUME NEW pt \in Reversi!Cells, NEW i \in Int, NEW j \in Int
      PROVE  Reversi!Along(Reversi!Along(pt, d, i), e, j) = Reversi!Along(pt, d, i - j)
  <2>1. pt[1] \in Int /\ pt[2] \in Int BY ReversiCells
  <2>2. ASSUME NEW a \in {-1, 0, 1}, NEW x \in Int
        PROVE  x + Way(i, a) + Way(j, -a) = x + Way(i - j, a)
    BY DEF Way
  <2>3. Reversi!Along(pt, d, i) = <<pt[1] + Way(i, d[1]), pt[2] + Way(i, d[2])>> BY GoingAlong
  <2>4. Reversi!Along(pt, d, i - j) = <<pt[1] + Way(i - j, d[1]), pt[2] + Way(i - j, d[2])>>
    BY GoingAlong
  <2>5. Reversi!Along(Reversi!Along(pt, d, i), e, j)
          = <<pt[1] + Way(i, d[1]) + Way(j, -d[1]), pt[2] + Way(i, d[2]) + Way(j, -d[2])>>
    <3> DEFINE q == Reversi!Along(pt, d, i)
    <3>1. e[1] = -d[1] /\ e[2] = -d[2] OBVIOUS
    <3>2. q[1] = pt[1] + Way(i, d[1]) /\ q[2] = pt[2] + Way(i, d[2]) BY <2>3
    <3> HIDE DEF e, q
    <3>3. Reversi!Along(q, e, j) = <<q[1] + Way(j, e[1]), q[2] + Way(j, e[2])>>
      BY <1>2, GoingAlong
    <3> QED BY <3>1, <3>2, <3>3 DEF q
  <2> QED BY <1>1, <2>1, <2>2, <2>4, <2>5 DEF IsDirection
<1> QED BY <1>2, <1>3

\* A row leaves the board in as many steps as the board has cells, and does not return.
LEMMA OffTheBoard ==
  ASSUME NEW pt \in Reversi!Cells, NEW d \in Reversi!DIRS, NEW m \in Nat,
         Reversi!Along(pt, d, m) \in Reversi!Cells
  PROVE  m < ReversiSize /\ \A i \in 0 .. m : Reversi!Along(pt, d, i) \in Reversi!Cells
<1>1. IsDirection(d) BY ReversiDirections
<1>2. /\ ReversiSize \in Nat
      /\ pt[1] \in 0 .. ReversiSize - 1 /\ pt[2] \in 0 .. ReversiSize - 1
  BY ReversiCells
<1>3. /\ pt[1] + Way(m, d[1]) \in 0 .. ReversiSize - 1
      /\ pt[2] + Way(m, d[2]) \in 0 .. ReversiSize - 1
  BY GoingAlong, ReversiCells
<1>4. m < ReversiSize BY <1>1, <1>2, <1>3 DEF Way, IsDirection
<1>5. ASSUME NEW i \in 0 .. m PROVE Reversi!Along(pt, d, i) \in Reversi!Cells
  <2>1. /\ pt[1] + Way(i, d[1]) \in 0 .. ReversiSize - 1
        /\ pt[2] + Way(i, d[2]) \in 0 .. ReversiSize - 1
    BY <1>1, <1>2, <1>3 DEF Way, IsDirection
  <2> QED BY <2>1, GoingAlong, ReversiCells
<1> QED BY <1>4, <1>5

-----------------------------------------------------------------------------
\* The next n cells along the row are the other player's and the one after them is
\* the player's own.
Jumps(b, player, pt, dir, n) ==
  /\ \A i \in 1 .. n : /\ Reversi!Along(pt, dir, i) \in Reversi!Cells
                       /\ b[Reversi!Along(pt, dir, i)] = Reversi!other_player(player)
  /\ Reversi!Along(pt, dir, n + 1) \in Reversi!Cells
  /\ b[Reversi!Along(pt, dir, n + 1)] = player

\* What is counted in a direction is the one number of discs that can be jumped, or
\* nothing.
LEMMA JumpsAreCounted ==
  ASSUME NEW b, NEW player \in Reversi!Players, NEW pt \in Reversi!Cells, NEW dir \in Reversi!DIRS
  PROVE  LET n == Reversi!get_jumpable_pieces(b, player, pt, dir)
         IN  /\ n \in Nat
             /\ n > 0 => Jumps(b, player, pt, dir, n)
             /\ \A m \in Nat : Jumps(b, player, pt, dir, m) => n = m
<1> DEFINE ends == Reversi!Ends(b, player, pt, dir)
           n == Reversi!get_jumpable_pieces(b, player, pt, dir)
           first == Reversi!Min(ends)
           end == Reversi!Along(pt, dir, first)
           IsEnd(i) == \/ Reversi!Along(pt, dir, i) \notin Reversi!Cells
                       \/ b[Reversi!Along(pt, dir, i)] # Reversi!other_player(player)
<1>1. \A i : i \in ends <=> i \in 1 .. ReversiSize /\ IsEnd(i)
  BY DEF Reversi!Ends
<1>2. ReversiSize \in Nat /\ ReversiSize >= 1
  BY ReversiCells
<1>3. ReversiSize \in ends
  <2>1. ReversiSize \in 1 .. ReversiSize BY <1>2
  <2>2. Reversi!Along(pt, dir, ReversiSize) \notin Reversi!Cells
    BY <1>2, OffTheBoard
  <2> QED BY <1>1, <2>1, <2>2
<1>4. first \in ends /\ \A k \in ends : first <= k
  <2>1. ends \in SUBSET Nat BY <1>1, <1>2
  <2> HIDE DEF ends
  <2>2. \E x \in ends : \A k \in ends : x <= k BY <1>3, <2>1, LeastMember
  <2> QED BY <2>2 DEF Reversi!Min
<1>5. n = IF end \in Reversi!Cells /\ b[end] = player THEN first - 1 ELSE 0
  BY DEF Reversi!get_jumpable_pieces
<1>6. player # Reversi!other_player(player)
  BY DEF Reversi!Players, Reversi!PLAYER1, Reversi!PLAYER2, Reversi!other_player
<1> HIDE DEF ends, n, first
<1>7. first \in 1 .. ReversiSize /\ IsEnd(first) BY <1>1, <1>4
<1>8. \A i \in 1 .. first - 1 : ~IsEnd(i)
  <2> SUFFICES ASSUME NEW i \in 1 .. first - 1, IsEnd(i) PROVE FALSE OBVIOUS
  <2>1. i \in 1 .. ReversiSize /\ i < first BY <1>2, <1>7
  <2>2. first <= i BY <1>1, <1>4, <2>1
  <2> QED BY <2>1, <2>2, <1>7, <1>2
<1>9. n \in Nat BY <1>5, <1>7, <1>2
<1>10. ASSUME n > 0 PROVE Jumps(b, player, pt, dir, n)
  <2>1. n = first - 1 /\ end \in Reversi!Cells /\ b[end] = player BY <1>5, <1>10
  <2>2. n + 1 = first BY <2>1, <1>2, <1>7
  <2> QED BY <1>8, <2>1, <2>2 DEF Jumps
<1>11. ASSUME NEW m \in Nat, Jumps(b, player, pt, dir, m) PROVE n = m
  <2>1. \A i \in 1 .. m : ~IsEnd(i) BY <1>11 DEF Jumps
  <2>2. IsEnd(m + 1) BY <1>6, <1>11 DEF Jumps
  <2>3. m + 1 < ReversiSize
    <3>1. m + 1 \in Nat BY <1>11
    <3> QED BY <3>1, <1>11, OffTheBoard DEF Jumps
  <2>4. first <= m + 1
    <3>1. m + 1 \in ends BY <1>1, <1>2, <1>11, <2>2, <2>3
    <3> QED BY <3>1, <1>4
  <2>5. ~(first <= m)
    <3> SUFFICES ASSUME first <= m PROVE FALSE OBVIOUS
    <3>1. first \in 1 .. m BY <1>2, <1>7
    <3> QED BY <3>1, <2>1, <1>7
  <2>6. first = m + 1 BY <1>2, <1>7, <2>4, <2>5
  <2> QED BY <1>5, <1>11, <2>6 DEF Jumps
<1> QED BY <1>9, <1>10, <1>11 DEF n

-----------------------------------------------------------------------------
\* What lies between two cells of a row is what is passed on the way.
LEMMA BetweenIsTheWay ==
  ASSUME NEW pt \in Reversi!Cells, NEW d \in Reversi!DIRS, NEW m \in 1 .. ReversiSize,
         Reversi!Along(pt, d, m) \in Reversi!Cells
  PROVE  Reversi!Between(pt, Reversi!Along(pt, d, m)) = {Reversi!Along(pt, d, i) : i \in 1 .. m - 1}
<1> DEFINE q == Reversi!Along(pt, d, m)
           Ways(r, s) == {e \in Reversi!DIRS : \E n \in 1 .. ReversiSize : s = Reversi!Along(r, e, n)}
           Towards(r, s) == {Reversi!Along(r, e, i) : e \in Ways(r, s), i \in 1 .. ReversiSize}
           way == {Reversi!Along(pt, d, i) : i \in 1 .. m - 1}
<1>1. Reversi!Between(pt, q) = (Towards(pt, q) \cap Towards(q, pt)) \ {pt, q}
  BY DEF Reversi!Between
<1>2. ReversiSize \in Nat /\ m \in Nat \ {0} BY ReversiCells
<1>3. Ways(pt, q) = {d} BY <1>2, OneWay
<1>4. PICK e \in Reversi!DIRS : \A i, j \in Int :
        Reversi!Along(Reversi!Along(pt, d, i), e, j) = Reversi!Along(pt, d, i - j)
  BY WayBack
<1>5. Reversi!Along(pt, d, 0) = pt
  <2>1. IsDirection(d) /\ pt = <<pt[1], pt[2]>> /\ pt[1] \in Int /\ pt[2] \in Int
    BY ReversiDirections, ReversiCells
  <2>2. pt[1] + Way(0, d[1]) = pt[1] /\ pt[2] + Way(0, d[2]) = pt[2]
    BY <2>1 DEF Way, IsDirection
  <2>3. Reversi!Along(pt, d, 0) = <<pt[1] + Way(0, d[1]), pt[2] + Way(0, d[2])>> BY GoingAlong
  <2> QED BY <2>1, <2>2, <2>3
<1>6. \A i, j \in 0 .. ReversiSize : Reversi!Along(pt, d, i) = Reversi!Along(pt, d, j) => i = j
  <2> SUFFICES ASSUME NEW i \in 0 .. ReversiSize, NEW j \in 0 .. ReversiSize,
                      Reversi!Along(pt, d, i) = Reversi!Along(pt, d, j)
               PROVE  i = j
    OBVIOUS
  <2>1. /\ pt[1] + Way(i, d[1]) = pt[1] + Way(j, d[1])
        /\ pt[2] + Way(i, d[2]) = pt[2] + Way(j, d[2])
    BY <1>2, GoingAlong
  <2>2. IsDirection(d) /\ pt[1] \in Int /\ pt[2] \in Int BY ReversiDirections, ReversiCells
  <2> QED BY <1>2, <2>1, <2>2 DEF Way, IsDirection
<1>7. Ways(q, pt) = {e}
  <2>1. pt = Reversi!Along(q, e, m) BY <1>2, <1>4, <1>5
  <2> QED BY <1>2, <2>1, OneWay
<1>8. Towards(pt, q) = {Reversi!Along(pt, d, i) : i \in 1 .. ReversiSize}
  BY <1>3
<1>9. Towards(q, pt) = {Reversi!Along(pt, d, m - i) : i \in 1 .. ReversiSize}
  <2>1. Towards(q, pt) = {Reversi!Along(q, e, i) : i \in 1 .. ReversiSize} BY <1>7
  <2>2. \A i \in 1 .. ReversiSize : Reversi!Along(q, e, i) = Reversi!Along(pt, d, m - i)
    BY <1>2, <1>4
  <2> QED BY <2>1, <2>2
<1> HIDE DEF Ways, Towards
<1>10. ASSUME NEW x, x \in Towards(pt, q), x \in Towards(q, pt), x # pt, x # q PROVE x \in way
  <2>1. PICK i \in 1 .. ReversiSize : x = Reversi!Along(pt, d, i) BY <1>8, <1>10
  <2>2. PICK j \in 1 .. ReversiSize : x = Reversi!Along(pt, d, m - j) BY <1>9, <1>10
  <2>3. CASE m - j >= 0
    <3>1. i \in 0 .. ReversiSize /\ m - j \in 0 .. ReversiSize /\ m - j < m BY <1>2, <2>3
    <3>2. i = m - j BY <1>6, <2>1, <2>2, <3>1
    <3> QED BY <1>2, <2>1, <3>1, <3>2
  <2>4. CASE m - j < 0
    \* Going back past pt is going the other way, which no step forward does.
    <3>1. /\ pt[1] + Way(i, d[1]) = pt[1] + Way(m - j, d[1])
          /\ pt[2] + Way(i, d[2]) = pt[2] + Way(m - j, d[2])
      <4>1. i \in Int /\ m - j \in Int BY <1>2
      <4>2. x = <<pt[1] + Way(i, d[1]), pt[2] + Way(i, d[2])>> BY <2>1, <4>1, GoingAlong
      <4>3. x = <<pt[1] + Way(m - j, d[1]), pt[2] + Way(m - j, d[2])>>
        BY <2>2, <4>1, GoingAlong
      <4> QED BY <4>2, <4>3
    <3>2. IsDirection(d) /\ pt[1] \in Int /\ pt[2] \in Int BY ReversiDirections, ReversiCells
    <3> QED BY <1>2, <2>4, <3>1, <3>2 DEF Way, IsDirection
  <2> QED BY <1>2, <2>3, <2>4
<1>11. ASSUME NEW i \in 1 .. m - 1
       PROVE  LET x == Reversi!Along(pt, d, i)
              IN  x \in Towards(pt, q) /\ x \in Towards(q, pt) /\ x # pt /\ x # q
  <2>1. i \in 1 .. ReversiSize /\ m - i \in 1 .. ReversiSize /\ m - (m - i) = i BY <1>2
  <2>2. i \in 0 .. ReversiSize /\ 0 \in 0 .. ReversiSize /\ m \in 0 .. ReversiSize
        /\ i # 0 /\ i # m
    BY <1>2
  <2>3. Reversi!Along(pt, d, i) # pt BY <1>5, <1>6, <2>2
  <2>4. Reversi!Along(pt, d, i) # q BY <1>6, <2>2
  <2>5. Reversi!Along(pt, d, i) \in Towards(pt, q) BY <1>8, <2>1
  <2>6. Reversi!Along(pt, d, i) \in Towards(q, pt) BY <1>9, <2>1
  <2> QED BY <2>3, <2>4, <2>5, <2>6
<1> QED BY <1>1, <1>10, <1>11

\* Between two cells that are not on one row there is nothing.
LEMMA BetweenIsNothing ==
  ASSUME NEW pt, NEW q, \A d \in Reversi!DIRS, m \in 1 .. ReversiSize : q # Reversi!Along(pt, d, m)
  PROVE  Reversi!Between(pt, q) = {}
BY DEF Reversi!Between

\* What a move turns over is what it encloses.
LEMMA TurnedIsEnclosed ==
  ASSUME NEW b, NEW player \in Reversi!Players, NEW pt \in Reversi!Cells
  PROVE  Reversi!reverse_cells(b, player, pt)
           = UNION {run \in {Reversi!Between(pt, q) : q \in {c \in Reversi!Cells : b[c] = player}} :
                      \A q \in run : b[q] = Reversi!other_player(player)}
<1> DEFINE N(d) == Reversi!get_jumpable_pieces(b, player, pt, d)
           other == Reversi!other_player(player)
           turned == Reversi!reverse_cells(b, player, pt)
           runs == {Reversi!Between(pt, q) : q \in {c \in Reversi!Cells : b[c] = player}}
           enclosed == UNION {run \in runs : \A q \in run : b[q] = other}
<1>1. ASSUME NEW x, x \in turned PROVE x \in enclosed
  <2>1. PICK d \in Reversi!DIRS : x \in {Reversi!Along(pt, d, i) : i \in 1 .. N(d)}
    BY <1>1 DEF Reversi!reverse_cells
  <2>2. N(d) \in Nat /\ (N(d) > 0 => Jumps(b, player, pt, d, N(d))) BY JumpsAreCounted
  <2> DEFINE n == N(d)
             q == Reversi!Along(pt, d, n + 1)
  <2> HIDE DEF n
  <2>3. n \in Nat /\ n > 0 /\ Jumps(b, player, pt, d, n) BY <2>1, <2>2 DEF n
  <2>4. n + 1 \in 1 .. ReversiSize /\ (n + 1) - 1 = n
    <3>1. n + 1 \in Nat /\ Reversi!Along(pt, d, n + 1) \in Reversi!Cells BY <2>3 DEF Jumps
    <3>2. n + 1 < ReversiSize BY <3>1, OffTheBoard
    <3> QED BY <2>3, <3>2, ReversiCells
  <2>5. Reversi!Between(pt, q) = {Reversi!Along(pt, d, i) : i \in 1 .. n}
    BY <2>3, <2>4, BetweenIsTheWay DEF Jumps
  <2>6. Reversi!Between(pt, q) \in runs BY <2>3 DEF Jumps
  <2>7. \A r \in Reversi!Between(pt, q) : b[r] = other BY <2>3, <2>5 DEF Jumps
  <2>8. x \in Reversi!Between(pt, q) BY <2>1, <2>5 DEF n
  <2> QED BY <2>6, <2>7, <2>8
<1>2. ASSUME NEW x, x \in enclosed PROVE x \in turned
  <2>1. PICK q \in Reversi!Cells :
          /\ b[q] = player /\ x \in Reversi!Between(pt, q)
          /\ \A r \in Reversi!Between(pt, q) : b[r] = other
    BY <1>2
  <2>2. PICK d \in Reversi!DIRS, m \in 1 .. ReversiSize : q = Reversi!Along(pt, d, m)
    BY <2>1, BetweenIsNothing
  <2>3. Reversi!Between(pt, q) = {Reversi!Along(pt, d, i) : i \in 1 .. m - 1}
    BY <2>1, <2>2, BetweenIsTheWay
  <2>4. ReversiSize \in Nat /\ m \in Nat /\ m - 1 \in Nat /\ (m - 1) + 1 = m BY ReversiCells
  <2>5. \A i \in 1 .. m - 1 : Reversi!Along(pt, d, i) \in Reversi!Cells
    <3>1. \A i \in 0 .. m : Reversi!Along(pt, d, i) \in Reversi!Cells
      BY <2>1, <2>2, <2>4, OffTheBoard
    <3>2. \A i \in 1 .. m - 1 : i \in 0 .. m BY <2>4
    <3> QED BY <3>1, <3>2
  <2>6. Jumps(b, player, pt, d, m - 1)
    BY <2>1, <2>2, <2>3, <2>4, <2>5 DEF Jumps
  <2>7. N(d) = m - 1 BY <2>4, <2>6, JumpsAreCounted
  <2> QED BY <2>1, <2>3, <2>7 DEF Reversi!reverse_cells
<1> QED BY <1>1, <1>2

-----------------------------------------------------------------------------
\* The inductive invariant of reversi.
ReversiInv ==
  /\ reversiBoard \in [Reversi!Cells -> {Reversi!EMPTY} \cup Reversi!Players]
  /\ reversiTurn \in Reversi!Players

\* The disc a step puts on the board, and what it is to turn over.
NewDisc ==
  CHOOSE pt \in Reversi!Cells :
    reversiBoard[pt] = Reversi!EMPTY /\ reversiBoard'[pt] # Reversi!EMPTY
TurnsOverFrom(new) ==
  LET turned == {q \in Reversi!Cells : reversiBoard'[q] # reversiBoard[q]} \ {new}
      runs   == {Reversi!Between(new, q) : q \in {c \in Reversi!Cells : reversiBoard[c] = reversiTurn}}
  IN  /\ turned # {} /\ \A q \in turned \cup {new} : reversiBoard'[q] = reversiTurn
      /\ turned = UNION {run \in runs : \A q \in run : reversiBoard[q] = reversiTurn'}

\* What every step that changes the board does.
TurnsOver == reversiBoard' # reversiBoard => TurnsOverFrom(NewDisc)

\* The four discs are on the board.
LEMMA ReversiStarts == Reversi!Init => ReversiInv
BY DEF Reversi!Init, ReversiInv, Reversi!Players, Reversi!PLAYER1, Reversi!PLAYER2

\* A move turns over what it encloses and gives the turn to the other player.
LEMMA ReversiSteps ==
  ASSUME ReversiInv, [Reversi!Next]_reversi
  PROVE  ReversiInv' /\ TurnsOver
<1>1. CASE UNCHANGED reversi BY <1>1 DEF reversi, ReversiInv, TurnsOver
<1>2. ASSUME NEW pt \in Reversi!Cells, Reversi!player_move(pt) PROVE ReversiInv' /\ TurnsOver
  <2> DEFINE b == reversiBoard
             turned == Reversi!reverse_cells(b, reversiTurn, pt)
             other == Reversi!other_player(reversiTurn)
  <2>1. /\ b[pt] = Reversi!EMPTY /\ Reversi!is_valid_move(b, reversiTurn, pt)
        /\ reversiBoard' = [q \in Reversi!Cells |-> IF q \in turned \cup {pt} THEN reversiTurn ELSE b[q]]
        /\ reversiTurn' = other
    BY <1>2 DEF Reversi!player_move
  <2>2. /\ reversiTurn \in Reversi!Players /\ other \in Reversi!Players
        /\ other # reversiTurn /\ other # Reversi!EMPTY /\ reversiTurn # Reversi!EMPTY
    BY DEF ReversiInv, Reversi!Players, Reversi!PLAYER1, Reversi!PLAYER2, Reversi!EMPTY,
           Reversi!other_player
  <2>3. \A q \in turned : q \in Reversi!Cells /\ b[q] = other
    <3> SUFFICES ASSUME NEW q \in turned PROVE q \in Reversi!Cells /\ b[q] = other OBVIOUS
    <3>1. PICK d \in Reversi!DIRS :
            q \in {Reversi!Along(pt, d, i) : i \in 1 .. Reversi!get_jumpable_pieces(b, reversiTurn, pt, d)}
      BY DEF Reversi!reverse_cells
    <3>2. LET n == Reversi!get_jumpable_pieces(b, reversiTurn, pt, d)
          IN  n \in Nat /\ (n > 0 => Jumps(b, reversiTurn, pt, d, n))
      BY <2>2, JumpsAreCounted
    <3> QED BY <3>1, <3>2 DEF Jumps
  <2>4. turned # {}
    <3>1. PICK d \in Reversi!DIRS : Reversi!get_jumpable_pieces(b, reversiTurn, pt, d) > 0
      BY <2>1 DEF Reversi!is_valid_move
    <3>2. Reversi!get_jumpable_pieces(b, reversiTurn, pt, d) \in Nat BY <2>2, JumpsAreCounted
    <3>3. 1 \in 1 .. Reversi!get_jumpable_pieces(b, reversiTurn, pt, d) BY <3>1, <3>2
    <3> QED BY <3>3 DEF Reversi!reverse_cells
  <2>5. turned = UNION {run \in {Reversi!Between(pt, q) : q \in {c \in Reversi!Cells : b[c] = reversiTurn}} :
                          \A q \in run : b[q] = other}
    BY <2>2, TurnedIsEnclosed
  <2> HIDE DEF turned, other
  <2>6. ReversiInv' BY <2>1, <2>2 DEF ReversiInv
  <2>7. \A q \in Reversi!Cells :
          b[q] = Reversi!EMPTY /\ reversiBoard'[q] # Reversi!EMPTY <=> q = pt
    BY <2>1, <2>2, <2>3
  <2>8. NewDisc = pt BY <2>7 DEF NewDisc
  <2>9. {q \in Reversi!Cells : reversiBoard'[q] # b[q]} \ {pt} = turned
    BY <2>1, <2>2, <2>3
  <2>10. \A q \in turned \cup {pt} : reversiBoard'[q] = reversiTurn BY <2>1, <2>3
  <2>11. TurnsOverFrom(pt) BY <2>1, <2>4, <2>5, <2>9, <2>10 DEF TurnsOverFrom
  <2> QED BY <2>6, <2>8, <2>11 DEF TurnsOver
<1> QED BY <1>1, <1>2 DEF Reversi!Next

\* For a board of any size: a move turns over exactly the other player's discs that lie,
\* with nothing else in between, between the new disc and one the player had.
THEOREM ReversiTurns == BoardsSpec => ReversiTurnsWhatIsEnclosed
<1>1. BoardsInit => ReversiInv BY ReversiStarts DEF BoardsInit
<1>2. ReversiInv /\ [BoardsNext]_<<game, vars, go, wu, reversi>> => ReversiInv' /\ TurnsOver
  <2>1. [BoardsNext]_<<game, vars, go, wu, reversi>> => [Reversi!Next]_reversi
    BY DEF BoardsNext, Checkers_Next, Go_Next, Wu_Next, Reversi_Next
  <2> QED BY <2>1, ReversiSteps
<1>3. BoardsSpec => [][TurnsOver]_reversi
  <2>1. UNCHANGED <<game, vars, go, wu, reversi>> => UNCHANGED reversi OBVIOUS
  <2> QED BY <1>1, <1>2, <2>1, PTL DEF BoardsSpec
<1>4. [][TurnsOver]_reversi => ReversiTurnsWhatIsEnclosed
  BY DEF TurnsOver, TurnsOverFrom, NewDisc, ReversiTurnsWhatIsEnclosed,
         Reversi!TurnsWhatIsEnclosed, reversi, Reversi!vars
<1> QED BY <1>3, <1>4, PTL

=============================================================================
