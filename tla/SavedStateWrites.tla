-------------------------- MODULE SavedStateWrites --------------------------
(***************************************************************************)
(* The operations of SavedStateDb taken apart into the writes they make,   *)
(* in the order the code makes them, with a process that may be killed     *)
(* between any two.  Each store_data or delete_stored_data is durable by   *)
(* itself and no transaction joins them (sqlite_saved_state.c leaves its   *)
(* COMMIT commented out and relies on autocommit; local storage has none). *)
(*                                                                         *)
(* One process, one handle.  An operation reads only before it writes or   *)
(* what it does not write, and nothing else runs in between, so that all   *)
(* its writes are known when it starts.                                    *)
(***************************************************************************)
EXTENDS Integers, Sequences, FiniteSets

CONSTANTS
  Games, States, MaxSession, MaxMove, Wrap, Missing,  \* as in SavedStateDb
  Date,         \* what get_time_of_day returns, written as text
  MaxCrashes    \* bound: how often the process is killed

ASSUME WritesAssumption ==
  /\ MaxCrashes \in Nat /\ MaxSession \in Nat
  /\ MaxMove \in Nat /\ Wrap \in Nat /\ MaxMove + 1 < Wrap \div 2
  /\ Missing \notin Nat /\ Missing \notin States /\ Missing \notin Games /\ Missing # Date

VARIABLES
  disk,         \* the key-value store
  cache,        \* session_head and session_tail of the handle
  todo,         \* the writes the running operation still has to make
  crashes       \* how often the process was killed so far

vars == <<disk, cache, todo, crashes>>

SessionIds == 0..MaxSession
MoveIds    == 0..(Wrap - 1)
NotOpen    == [head |-> Missing, tail |-> Missing]

HeadKey        == <<"sess_head">>
TailKey        == <<"sess_tail">>
StateKey(s, m) == <<"state", s, m>>
MoveKey(s)     == <<"last_move_id", s>>
GameKey(s)     == <<"game_id", s>>
DateKey(s)     == <<"last_updated", s>>
LastKey(g)     == <<"last_sess_id", g>>

Keys == {HeadKey, TailKey}
          \cup {StateKey(s, m) : s \in SessionIds, m \in MoveIds}
          \cup (UNION {{MoveKey(s), GameKey(s), DateKey(s)} : s \in SessionIds})
          \cup {LastKey(g) : g \in Games}

Set(key, value) == [key |-> key, value |-> value]
Del(key)        == [key |-> key, value |-> Missing]

Write(d, w) == [d EXCEPT ![w.key] = w.value]

\* What a store d holds after the writes ws: under every key the last of them.
Writes(ws, k) == {i \in DOMAIN ws : ws[i].key = k}
LastOf(is) == CHOOSE i \in is : \A j \in is : j <= i
After(d, ws) ==
  [k \in Keys |-> IF Writes(ws, k) = {} THEN d[k] ELSE ws[LastOf(Writes(ws, k))].value]

\* What the disk will hold when the running operation is through.
Flushed == After(disk, todo)

\* The operations as SavedStateDb has them, on the flushed store.
Db == INSTANCE SavedStateDb WITH
  Handles  <- {"app"}, Savers <- {"app"}, Deleters <- {"app"},
  head     <- Flushed[HeadKey],
  tail     <- Flushed[TailKey],
  cell     <- [s \in SessionIds |-> [m \in MoveIds |-> Flushed[StateKey(s, m)]]],
  lastMove <- [s \in SessionIds |-> Flushed[MoveKey(s)]],
  gameOf   <- [s \in SessionIds |-> Flushed[GameKey(s)]],
  dated    <- {s \in SessionIds : Flushed[DateKey(s)] # Missing},
  lastSess <- [g \in Games |-> Flushed[LastKey(g)]],
  cache    <- [h \in {"app"} |-> cache]

Init ==
  /\ disk = [k \in Keys |-> Missing]
  /\ cache = NotOpen
  /\ todo = <<>>
  /\ crashes = 0

Idle == todo = <<>>
IsOpen == cache # NotOpen

-----------------------------------------------------------------------------
(* Operations: each starts with a handle at rest and leaves its writes *)

refresh_internal_state ==
  LET read == [head |-> Db!OrElse(disk[HeadKey], 0), tail |-> Db!OrElse(disk[TailKey], 0)] IN
  /\ Idle
  /\ cache' = read
  /\ todo' = IF Missing \in {disk[HeadKey], disk[TailKey]}
             THEN <<Set(HeadKey, read.head), Set(TailKey, read.tail)>>
             ELSE <<>>
  /\ UNCHANGED <<disk, crashes>>

\* Mutant: the state replaces the one under the cursor.
AppendWrites_IncrementLate(g, s, x, m) ==
  <<Set(StateKey(s, IF m = 0 THEN 0 ELSE m - 1), x),
    Set(DateKey(s), Date), Set(MoveKey(s), m), Set(LastKey(g), s)>>

\* The state is written before the cursor that makes it current.
AppendWrites(g, s, x, m) ==
  <<Set(StateKey(s, m), x), Set(DateKey(s), Date), Set(MoveKey(s), m), Set(LastKey(g), s)>>

\* Mutant: the game is written before the head.
NewWrites_HeadLast(g, s) == <<Set(GameKey(s), g), Set(HeadKey, s + 1)>>

\* The session id is taken (head) before anything is stored under it.
NewWrites(g, s) == <<Set(HeadKey, s + 1), Set(GameKey(s), g)>>

save_state(g, s, x) ==
  LET m   == Db!Shift(Db!OrElse(disk[MoveKey(s)], -1), 1)
      new == s = cache.head
  IN  /\ Idle /\ IsOpen
      /\ new \/ (cache.tail <= s /\ s < cache.head)
      /\ m <= MaxMove
      /\ cache' = IF new THEN [cache EXCEPT !.head = s + 1] ELSE cache
      /\ todo' = (IF new THEN NewWrites(g, s) ELSE <<>>) \o AppendWrites(g, s, x, m)
      /\ UNCHANGED <<disk, crashes>>

\* Mutant: the last state is left out of the loop.
DeleteWrites_OffByOne(s) ==
  [i \in 1..(Cardinality(Db!DeletedMoves(s)) - 1) |-> Del(StateKey(s, i - 1))]
    \o <<Del(MoveKey(s)), Del(DateKey(s)), Del(GameKey(s)), Set(TailKey, s + 1)>>

\* Mutant: the incremented tail is not written.
DeleteWrites_TailNotStored(s) ==
  [i \in 1..Cardinality(Db!DeletedMoves(s)) |-> Del(StateKey(s, i - 1))]
    \o <<Del(MoveKey(s)), Del(DateKey(s)), Del(GameKey(s))>>

\* The states go first, from move 0 up, and the tail moves last.
DeleteWrites(s) ==
  [i \in 1..Cardinality(Db!DeletedMoves(s)) |-> Del(StateKey(s, i - 1))]
    \o <<Del(MoveKey(s)), Del(DateKey(s)), Del(GameKey(s)), Set(TailKey, s + 1)>>

delete_session ==
  LET s == cache.tail IN
  /\ Idle /\ IsOpen
  /\ s # cache.head
  /\ cache' = [cache EXCEPT !.tail = s + 1]
  /\ todo' = DeleteWrites(s)
  /\ UNCHANGED <<disk, crashes>>

UndoRedo(s, d) ==
  /\ Idle /\ IsOpen
  /\ Db!has_saved_state_offset(s, d)
  /\ todo' = <<Set(MoveKey(s), Db!Shift(disk[MoveKey(s)], d))>>
  /\ UNCHANGED <<disk, cache, crashes>>

MakeWrite ==
  /\ todo # <<>>
  /\ disk' = Write(disk, Head(todo))
  /\ todo' = Tail(todo)
  /\ UNCHANGED <<cache, crashes>>

\* The process is killed: the handle and the rest of the operation are lost.
Crash ==
  /\ IsOpen
  /\ crashes < MaxCrashes
  /\ crashes' = crashes + 1
  /\ cache' = NotOpen
  /\ todo' = <<>>
  /\ UNCHANGED disk

Next ==
  \/ refresh_internal_state
  \/ \E g \in Games, s \in SessionIds, x \in States : save_state(g, s, x)
  \/ delete_session
  \/ \E s \in SessionIds, d \in {-1, 0, 1} : UndoRedo(s, d)
  \/ MakeWrite
  \/ Crash

Spec == Init /\ [][Next]_vars

-----------------------------------------------------------------------------
(* Properties *)

DiskHead == Db!OrElse(disk[HeadKey], 0)
DiskTail == Db!OrElse(disk[TailKey], 0)

\* Until the first kill, the writes of an operation add up to the one step
\* SavedStateDb takes for it.
ImplementsDb == Db!Init /\ [][crashes' = 0 => Db!Next \/ UNCHANGED Db!vars]_vars

\* Wherever the process is killed, the id the next new game gets is one that
\* nothing is stored under: the head is written before the session.
FreshSessionsOnDisk ==
  \A s \in SessionIds : s >= DiskHead =>
    \A k \in {MoveKey(s), GameKey(s), DateKey(s)} \cup {StateKey(s, m) : m \in MoveIds} :
      disk[k] = Missing

\* Wherever the process is killed, a cursor on the disk points to a stored
\* state, except perhaps that of the oldest session, which may be half deleted.
CursorOnDisk ==
  \A s \in SessionIds :
    disk[MoveKey(s)] # Missing =>
      disk[StateKey(s, disk[MoveKey(s)])] # Missing \/ s = DiskTail

\* What is on the disk after a kill is sound: the next id is free and every cursor,
\* except perhaps that of the oldest session, points to a state.
DiskIsSound == FreshSessionsOnDisk /\ CursorOnDisk

\* A kill never damages what could be undone to: a state at or behind the
\* cursor is not overwritten, and disappears only as the tail is deleted.
UndoStackOnDisk ==
  [][\A s \in SessionIds, m \in MoveIds :
       LET k == StateKey(s, m) IN
         disk[MoveKey(s)] # Missing /\ m <= disk[MoveKey(s)] /\ disk[k] # Missing
           => disk'[k] = disk[k] \/ (disk'[k] = Missing /\ s = DiskTail)]_vars

\* A session between the ends is whole when it can be listed, loaded and
\* walked through with undo.
Whole(s) ==
  /\ disk[GameKey(s)] # Missing
  /\ disk[DateKey(s)] # Missing
  /\ disk[MoveKey(s)] # Missing
  /\ \A m \in 0..disk[MoveKey(s)] : disk[StateKey(s, m)] # Missing

\* Each kill costs at most the one session that was being written.
OneSessionLostPerCrash ==
  Cardinality({s \in SessionIds : DiskTail <= s /\ s < DiskHead /\ ~Whole(s)})
    <= crashes + (IF Idle THEN 0 ELSE 1)
=============================================================================
