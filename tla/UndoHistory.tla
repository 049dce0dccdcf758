---------------------------- MODULE UndoHistory ----------------------------
(***************************************************************************)
(* What saved_state_db promises its callers, with no keys and no handles:  *)
(* a book of numbered game sessions.  A session belongs to the game that   *)
(* began it and holds numbered states, one of which (the cursor) is the    *)
(* current one.  Sessions are begun in increasing order and forgotten in   *)
(* the same order, and a forgotten number is never used again.             *)
(*                                                                         *)
(* The promise is the one in game_api.h ("save_state", "get_saved_state_   *)
(* offset") and in the class comment of SavedStateDb, except that saving   *)
(* after an undo replaces the next state and keeps the later ones: that is *)
(* what the code does (saved_state_db.cpp leaves their deletion as a TODO).*)
(***************************************************************************)
EXTENDS Integers

CONSTANTS
  Games,        \* game ids
  States,       \* serialized game states
  MaxSession,   \* bound: sessions are numbered 0..MaxSession
  MaxMove,      \* bound: states of a session are numbered 0..MaxMove
  NoSession     \* a session that was never begun, or was forgotten

VARIABLES
  book,         \* session number -> its content, or NoSession
  first,        \* the oldest session still kept
  next          \* the number the next session will get

vars == <<book, first, next>>

Sessions == 0..MaxSession
Moves    == 0..MaxMove

Init ==
  /\ book = [s \in Sessions |-> NoSession]
  /\ first = 0
  /\ next = 0

Kept == {s \in Sessions : first <= s /\ s < next}

\* The first state saved under the next free number begins a session.
Begin(g, x) ==
  /\ next \in Sessions
  /\ book' = [book EXCEPT ![next] = [game |-> g, moves |-> [m \in {0} |-> x], cursor |-> 0]]
  /\ next' = next + 1
  /\ UNCHANGED first

\* A later state goes just after the cursor, and becomes the current one.
Record(s, x) ==
  LET m == book[s].cursor + 1 IN
  /\ s \in Kept
  /\ m \in Moves
  /\ book' = [book EXCEPT ![s] =
                [game   |-> book[s].game,
                 moves  |-> [n \in DOMAIN book[s].moves \cup {m} |->
                               IF n = m THEN x ELSE book[s].moves[n]],
                 cursor |-> m]]
  /\ UNCHANGED <<first, next>>

\* Undo (d = -1) and redo (d = 1) move the cursor to a neighbouring state.
Turn(s, d) ==
  /\ s \in Kept
  /\ book[s].cursor + d \in DOMAIN book[s].moves
  /\ book' = [book EXCEPT ![s] =
                [game |-> book[s].game, moves |-> book[s].moves, cursor |-> book[s].cursor + d]]
  /\ UNCHANGED <<first, next>>

Forget ==
  /\ first < next
  /\ book' = [book EXCEPT ![first] = NoSession]
  /\ first' = first + 1
  /\ UNCHANGED next

Next ==
  \/ \E g \in Games, x \in States : Begin(g, x)
  \/ \E s \in Sessions, x \in States : Record(s, x)
  \/ \E s \in Sessions, d \in {-1, 1} : Turn(s, d)
  \/ Forget

Spec == Init /\ [][Next]_vars
=============================================================================
