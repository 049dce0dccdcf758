---------------------------- MODULE SavedStateDb ----------------------------
(***************************************************************************)
(* src/cpp_libs/saved_state_db: the saved sessions of every game, with     *)
(* undo and redo, in a persistent key-value store (the browser's local     *)
(* storage, an SQLite table, Android's preferences).                       *)
(*                                                                         *)
(* Several SavedStateDb objects ("handles") work on one store: the one the *)
(* platform keeps for the running game, the one the history browser makes  *)
(* when it is opened, and one more for every browser tab.  A handle reads  *)
(* the two ends of the session range when it is made and relies on that    *)
(* copy from then on.  A method runs to its end without interruption       *)
(* (SavedStateWrites takes it apart).                                      *)
(***************************************************************************)
EXTENDS Integers

CONSTANTS
  Games,        \* game ids
  States,       \* serialized game states; a state is never empty
  Handles,      \* SavedStateDb objects on the store
  Savers,       \* the handles that games save through
  Deleters,     \* the handles that delete sessions
  MaxSession,   \* bound: a new session is begun only under 0..MaxSession
  MaxMove,      \* bound: a state is saved only under 0..MaxMove
  Wrap,         \* 2^32 in the code: move ids are uint32_t
  Missing       \* what a read of a key that is not stored gives

ASSUME BoundsAssumption ==
  /\ MaxSession \in Nat
  /\ MaxMove \in Nat
  /\ Wrap \in Nat
  /\ MaxMove + 1 < Wrap \div 2

ASSUME HandlesAssumption ==
  /\ Savers \subseteq Handles
  /\ Deleters \subseteq Handles

ASSUME MissingAssumption ==
  /\ Missing \notin Nat
  /\ Missing \notin States
  /\ Missing \notin Games

VARIABLES
  head, tail,   \* state_db_sess_head, state_db_sess_tail
  cell,         \* state_<session>_<move>
  lastMove,     \* state_<session>_last_move_id: the undo cursor
  gameOf,       \* state_<session>_game_id
  dated,        \* the sessions that have a state_<session>_last_updated
  lastSess,     \* game_<game>_last_sess_id
  cache         \* per handle, its members session_head and session_tail

store == <<head, tail, cell, lastMove, gameOf, dated, lastSess>>
vars  == <<store, cache>>

SessionIds == 0..MaxSession
Ends       == 0..(MaxSession + 1)
MoveIds    == 0..(Wrap - 1)
Offsets    == {-1, 0, 1}

NotOpen == [head |-> Missing, tail |-> Missing]

TypeOK ==
  /\ head \in Ends \cup {Missing}
  /\ tail \in Ends \cup {Missing}
  /\ cell \in [SessionIds -> [MoveIds -> States \cup {Missing}]]
  /\ lastMove \in [SessionIds -> MoveIds \cup {Missing}]
  /\ gameOf \in [SessionIds -> Games \cup {Missing}]
  /\ dated \subseteq SessionIds
  /\ lastSess \in [Games -> SessionIds \cup {Missing}]
  /\ cache \in [Handles -> [head : Ends, tail : Ends] \cup {NotOpen}]

Init ==
  /\ head = Missing
  /\ tail = Missing
  /\ cell = [s \in SessionIds |-> [m \in MoveIds |-> Missing]]
  /\ lastMove = [s \in SessionIds |-> Missing]
  /\ gameOf = [s \in SessionIds |-> Missing]
  /\ dated = {}
  /\ lastSess = [g \in Games |-> Missing]
  /\ cache = [h \in Handles |-> NotOpen]

IsOpen(h) == cache[h] # NotOpen

-----------------------------------------------------------------------------
(* Reads *)

OrElse(value, default) == IF value = Missing THEN default ELSE value

\* uint32_t move_id += offset
Shift(m, d) == (m + d) % Wrap

has_saved_state_offset(s, d) ==
  /\ lastMove[s] # Missing
  /\ cell[s][Shift(lastMove[s], d)] # Missing

\* uint32_t move_id = the cursor or -1; move_id++
NextMove(s) == Shift(OrElse(lastMove[s], -1), 1)

\* delete_session puts the uint32_t in an int, so that the upper half of the
\* range is negative and the loop from 0 to it is empty.
DeletedMoves(s) ==
  LET count == OrElse(lastMove[s], 0)
  IN  IF count < Wrap \div 2 THEN 0..count ELSE {}

-----------------------------------------------------------------------------
(* Operations *)

\* The constructor and refresh_internal_state: a page load, the opening of
\* the history browser, a restart of the program.
refresh_internal_state(h) ==
  LET read == [head |-> OrElse(head, 0), tail |-> OrElse(tail, 0)] IN
  /\ cache' = [cache EXCEPT ![h] = read]
  /\ IF Missing \in {head, tail}
     THEN head' = read.head /\ tail' = read.tail
     ELSE UNCHANGED <<head, tail>>
  /\ UNCHANGED <<cell, lastMove, gameOf, dated, lastSess>>

\* Mutant: the cursor is advanced after the state was stored under it.
Append_IncrementLate(g, s, x) ==
  LET m == OrElse(lastMove[s], 0) IN
  /\ m + 1 <= MaxMove
  /\ cell' = [cell EXCEPT ![s][m] = x]
  /\ dated' = dated \cup {s}
  /\ lastMove' = [lastMove EXCEPT ![s] = m + 1]
  /\ lastSess' = [lastSess EXCEPT ![g] = s]

\* What every successful save ends with: the state goes after the cursor.
Append(g, s, x) ==
  LET m == NextMove(s) IN
  /\ m <= MaxMove
  /\ cell' = [cell EXCEPT ![s][m] = x]
  /\ dated' = dated \cup {s}
  /\ lastMove' = [lastMove EXCEPT ![s] = m]
  /\ lastSess' = [lastSess EXCEPT ![g] = s]

\* save_state to a session the handle knows.
SaveExisting(h, g, s, x) ==
  /\ IsOpen(h)
  /\ cache[h].tail <= s /\ s < cache[h].head
  /\ Append(g, s, x)
  /\ UNCHANGED <<head, tail, gameOf, cache>>

\* Mutant: the incremented head is not written.
SaveNew_HeadNotStored(h, g, x) ==
  LET s == cache[h].head IN
  /\ IsOpen(h)
  /\ s \in SessionIds
  /\ cache' = [cache EXCEPT ![h].head = s + 1]
  /\ gameOf' = [gameOf EXCEPT ![s] = g]
  /\ Append(g, s, x)
  /\ UNCHANGED <<head, tail>>

\* Mutant: the game of a new session is not written.
SaveNew_NoGame(h, g, x) ==
  LET s == cache[h].head IN
  /\ IsOpen(h)
  /\ s \in SessionIds
  /\ cache' = [cache EXCEPT ![h].head = s + 1]
  /\ head' = s + 1
  /\ Append(g, s, x)
  /\ UNCHANGED <<tail, gameOf>>

\* save_state to the id get_new_session_id returns, which is the cached head.
SaveNew(h, g, x) ==
  LET s == cache[h].head IN
  /\ IsOpen(h)
  /\ s \in SessionIds
  /\ cache' = [cache EXCEPT ![h].head = s + 1]
  /\ head' = s + 1
  /\ gameOf' = [gameOf EXCEPT ![s] = g]
  /\ Append(g, s, x)
  /\ UNCHANGED tail

\* Any other session id is refused with an error, and nothing changes.
save_state(h, g, s, x) ==
  \/ SaveExisting(h, g, s, x)
  \/ s = cache[h].head /\ SaveNew(h, g, x)

\* Mutant: the incremented tail is not written.
delete_session_TailNotStored(h) ==
  LET s == cache[h].tail IN
  /\ IsOpen(h)
  /\ s # cache[h].head
  /\ s \in SessionIds
  /\ cell' = [cell EXCEPT ![s] = [m \in MoveIds |-> IF m \in DeletedMoves(s) THEN Missing ELSE @[m]]]
  /\ lastMove' = [lastMove EXCEPT ![s] = Missing]
  /\ dated' = dated \ {s}
  /\ gameOf' = [gameOf EXCEPT ![s] = Missing]
  /\ cache' = [cache EXCEPT ![h].tail = s + 1]
  /\ UNCHANGED <<head, tail, lastSess>>

\* delete_session(tail): any other id is refused, and so is an empty range.
delete_session(h) ==
  LET s == cache[h].tail IN
  /\ IsOpen(h)
  /\ s # cache[h].head
  /\ s \in SessionIds
  /\ cell' = [cell EXCEPT ![s] = [m \in MoveIds |-> IF m \in DeletedMoves(s) THEN Missing ELSE @[m]]]
  /\ lastMove' = [lastMove EXCEPT ![s] = Missing]
  /\ dated' = dated \ {s}
  /\ gameOf' = [gameOf EXCEPT ![s] = Missing]
  /\ cache' = [cache EXCEPT ![h].tail = s + 1]
  /\ tail' = s + 1
  /\ UNCHANGED <<head, lastSess>>

\* adjust_saved_state_offset writes the cursor whether or not the state it
\* would point to is there.
adjust_saved_state_offset(s, d) ==
  /\ lastMove[s] # Missing
  /\ lastMove' = [lastMove EXCEPT ![s] = Shift(@, d)]
  /\ UNCHANGED <<head, tail, cell, gameOf, dated, lastSess, cache>>

\* Mutant: the buttons are always enabled.
UndoRedo_Unchecked(s, d) == adjust_saved_state_offset(s, d)

\* The games enable Undo and Redo by has_saved_state_offset after every step.
UndoRedo(s, d) ==
  /\ has_saved_state_offset(s, d)
  /\ adjust_saved_state_offset(s, d)

Next ==
  \/ \E h \in Handles : refresh_internal_state(h)
  \/ \E h \in Savers, g \in Games, s \in SessionIds, x \in States : save_state(h, g, s, x)
  \/ \E h \in Deleters : delete_session(h)
  \/ \E s \in SessionIds, d \in Offsets : UndoRedo(s, d)

Spec == Init /\ [][Next]_vars

-----------------------------------------------------------------------------
(* Properties that hold for any number of handles *)

\* The cursor of a session points to a state that is stored, so that loading
\* a session (offset 0) finds one, and undo never runs off either end.
\* (adjust_saved_state_offset writes the cursor without looking.)
CursorOnState ==
  \A s \in SessionIds : lastMove[s] # Missing => cell[s][lastMove[s]] # Missing

\* Nothing but the deletion of its session changes a state at or behind the
\* cursor: what Undo leads back to is what was saved.
UndoStackKept ==
  [][\A s \in SessionIds, m \in MoveIds :
        lastMove[s] # Missing /\ lastMove'[s] # Missing /\ m <= lastMove[s]
          => cell'[s][m] = cell[s][m]]_vars

-----------------------------------------------------------------------------
(* Properties that hold when one handle saves and one handle deletes *)

Head == OrElse(head, 0)
Tail == OrElse(tail, 0)
Kept == {s \in SessionIds : Tail <= s /\ s < Head}

\* The session a new game is given carries nothing over: no state, no cursor
\* and no game is stored at or above the head, and no game's "last session"
\* points there.
FreshSessions ==
  \A s \in SessionIds : s >= Head =>
    /\ \A m \in MoveIds : cell[s][m] = Missing
    /\ lastMove[s] = Missing
    /\ gameOf[s] = Missing
    /\ s \notin dated
    /\ \A g \in Games : lastSess[g] # s

\* A session the history browser lists, from the head down to the tail, can be
\* shown: it has a game, a date and a cursor, and its states are numbered from
\* 0 without a gap, so that every one can be reached by undo and redo.
Stored(s) == {m \in MoveIds : cell[s][m] # Missing}

KeptSessionsWhole ==
  \A s \in Kept :
    /\ gameOf[s] # Missing
    /\ s \in dated
    /\ lastMove[s] # Missing
    /\ \A m \in Stored(s) : \A n \in 0..m : n \in Stored(s)

\* The store keeps the promise of UndoHistory.
Entry(s) ==
  [game   |-> gameOf[s],
   moves  |-> [m \in Stored(s) |-> cell[s][m]],
   cursor |-> lastMove[s]]

Book == [s \in SessionIds |-> IF s \in Kept THEN Entry(s) ELSE Missing]

Promise == INSTANCE UndoHistory WITH
  NoSession <- Missing, first <- Tail, next <- Head, book <- Book

KeepsPromise == Promise!Spec

-----------------------------------------------------------------------------
(* What a comment says and the code does not do *)

\* saved_state_db.cpp, in save_state: "you shouldn't be able to redo into" the
\* moves that followed the one that was undone.
NoRedoAfterSave ==
  [][\A h \in Savers, g \in Games, s \in SessionIds, x \in States :
        save_state(h, g, s, x) => ~has_saved_state_offset(s, 1)']_vars
=============================================================================
