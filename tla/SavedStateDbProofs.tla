------------------------- MODULE SavedStateDbProofs -------------------------
(***************************************************************************)
(* Proofs about SavedStateDb, for every number of handles, games, states,  *)
(* sessions and moves.                                                     *)
(***************************************************************************)
EXTENDS SavedStateDb, TLAPS

\* uint32_t arithmetic stays in the range of move ids.
LEMMA ShiftTyped ==
  ASSUME NEW m \in MoveIds \cup {-1}, NEW d \in Offsets
  PROVE  Shift(m, d) \in MoveIds
  BY BoundsAssumption DEF Shift, MoveIds, Offsets

\* Away from its ends it is arithmetic.
LEMMA ShiftValue ==
  ASSUME NEW m \in MoveIds \cup {-1}, NEW d \in Offsets
  PROVE  m + d \in MoveIds => Shift(m, d) = m + d
  BY BoundsAssumption DEF Shift, MoveIds, Offsets

\* An open handle holds two numbers, and opening one gives it them.
LEMMA OpenTyped ==
  ASSUME TypeOK, NEW h \in Handles
  PROVE  /\ IsOpen(h) => cache[h] \in [head : Ends, tail : Ends]
         /\ OrElse(head, 0) \in Ends
         /\ OrElse(tail, 0) \in Ends
         /\ [head |-> OrElse(head, 0), tail |-> OrElse(tail, 0)] \in [head : Ends, tail : Ends]
  BY BoundsAssumption, MissingAssumption DEF TypeOK, IsOpen, OrElse, Ends

-----------------------------------------------------------------------------
(* Type correctness *)

\* A save leaves everything it writes in its range.
LEMMA AppendTyped ==
  ASSUME TypeOK, NEW g \in Games, NEW s \in SessionIds, NEW x \in States, Append(g, s, x)
  PROVE  /\ cell' \in [SessionIds -> [MoveIds -> States \cup {Missing}]]
         /\ lastMove' \in [SessionIds -> MoveIds \cup {Missing}]
         /\ dated' \subseteq SessionIds
         /\ lastSess' \in [Games -> SessionIds \cup {Missing}]
<1> DEFINE m == NextMove(s)
<1>1. m \in MoveIds
  <2>1. OrElse(lastMove[s], -1) \in MoveIds \cup {-1}
    BY DEF TypeOK, OrElse
  <2> QED
    BY <2>1, ShiftTyped DEF NextMove, Offsets
<1>2. cell' = [cell EXCEPT ![s][m] = x] /\ dated' = dated \cup {s}
      /\ lastMove' = [lastMove EXCEPT ![s] = m] /\ lastSess' = [lastSess EXCEPT ![g] = s]
  BY DEF Append
<1> HIDE DEF m
<1> QED
  BY <1>1, <1>2 DEF TypeOK

\* Every operation keeps the types.
LEMMA TypeStep == TypeOK /\ [Next]_vars => TypeOK'
<1> SUFFICES ASSUME TypeOK, [Next]_vars PROVE TypeOK'
  OBVIOUS
<1> USE BoundsAssumption, HandlesAssumption, MissingAssumption
<1>1. ASSUME NEW h \in Handles, refresh_internal_state(h) PROVE TypeOK'
  <2>1. cache' \in [Handles -> [head : Ends, tail : Ends] \cup {NotOpen}]
    BY <1>1, OpenTyped DEF refresh_internal_state, TypeOK
  <2>2. head' \in Ends \cup {Missing} /\ tail' \in Ends \cup {Missing}
    BY <1>1, OpenTyped DEF refresh_internal_state, TypeOK
  <2> QED
    BY <1>1, <2>1, <2>2 DEF refresh_internal_state, TypeOK
<1>2. ASSUME NEW h \in Savers, NEW g \in Games, NEW s \in SessionIds, NEW x \in States,
             SaveExisting(h, g, s, x)
      PROVE  TypeOK'
  BY <1>2, AppendTyped DEF SaveExisting, TypeOK
<1>3. ASSUME NEW h \in Savers, NEW g \in Games, NEW x \in States, SaveNew(h, g, x)
      PROVE  TypeOK'
  <2> DEFINE s == cache[h].head
  <2>1. s \in SessionIds /\ s + 1 \in Ends /\ Append(g, s, x)
    BY <1>3 DEF SaveNew, SessionIds, Ends
  <2>2. cache' \in [Handles -> [head : Ends, tail : Ends] \cup {NotOpen}]
    <3>1. cache[h] \in [head : Ends, tail : Ends]
      BY <1>3, OpenTyped DEF SaveNew
    <3> QED
      BY <1>3, <2>1, <3>1 DEF SaveNew, TypeOK
  <2> QED
    BY <1>3, <2>1, <2>2, AppendTyped DEF SaveNew, TypeOK
<1>4. ASSUME NEW h \in Deleters, delete_session(h) PROVE TypeOK'
  <2> DEFINE s == cache[h].tail
  <2>1. s \in SessionIds /\ s + 1 \in Ends
    BY <1>4 DEF delete_session, SessionIds, Ends
  <2>2. cache' \in [Handles -> [head : Ends, tail : Ends] \cup {NotOpen}]
    <3>1. cache[h] \in [head : Ends, tail : Ends]
      BY <1>4, OpenTyped DEF delete_session
    <3> QED
      BY <1>4, <2>1, <3>1 DEF delete_session, TypeOK
  <2>3. cell' \in [SessionIds -> [MoveIds -> States \cup {Missing}]]
    BY <1>4, <2>1 DEF delete_session, TypeOK
  <2> QED
    BY <1>4, <2>1, <2>2, <2>3 DEF delete_session, TypeOK
<1>5. ASSUME NEW s \in SessionIds, NEW d \in Offsets, UndoRedo(s, d) PROVE TypeOK'
  <2>1. Shift(lastMove[s], d) \in MoveIds
    BY <1>5, ShiftTyped DEF UndoRedo, has_saved_state_offset, TypeOK
  <2> QED
    BY <1>5, <2>1 DEF UndoRedo, adjust_saved_state_offset, TypeOK
<1>6. CASE UNCHANGED vars
  BY <1>6 DEF vars, store, TypeOK
<1> QED
  BY <1>1, <1>2, <1>3, <1>4, <1>5, <1>6 DEF Next, save_state

\* The empty store has them.
LEMMA TypeInit == Init => TypeOK
  BY BoundsAssumption DEF Init, TypeOK, NotOpen, Ends

\* Everything stored stays within the keys the code can form, whatever the
\* handles do: a new id never exceeds the bound, a move id never leaves uint32_t.
THEOREM TypeCorrect == Spec => []TypeOK
  BY TypeInit, TypeStep, PTL DEF Spec

-----------------------------------------------------------------------------
(* The undo stack, for any number of handles *)

\* No state is stored above the bound, and no cursor stands there: move ids do
\* not wrap, because the cursor only moves to where a state is.
Bounded ==
  \A s \in SessionIds :
    /\ lastMove[s] # Missing => lastMove[s] <= MaxMove
    /\ \A m \in MoveIds : cell[s][m] # Missing => m <= MaxMove

UndoInv == TypeOK /\ Bounded /\ CursorOnState

\* Where a save puts its state: at 0 in an empty session, else just after the
\* cursor.
LEMMA AppendPlace ==
  ASSUME TypeOK, Bounded, NEW s \in SessionIds
  PROVE  /\ NextMove(s) \in MoveIds
         /\ lastMove[s] = Missing  => NextMove(s) = 0
         /\ lastMove[s] # Missing => NextMove(s) = lastMove[s] + 1
<1>1. CASE lastMove[s] = Missing
  BY <1>1, ShiftValue, BoundsAssumption DEF NextMove, OrElse, Offsets, MoveIds
<1>2. CASE lastMove[s] # Missing
  <2>1. lastMove[s] \in MoveIds /\ lastMove[s] + 1 \in MoveIds
    BY <1>2, BoundsAssumption DEF TypeOK, Bounded, MoveIds
  <2> QED
    BY <1>2, <2>1, ShiftValue DEF NextMove, OrElse, Offsets
<1>3. NextMove(s) \in MoveIds
  BY <1>1, <1>2, ShiftTyped DEF NextMove, OrElse, Offsets, TypeOK
<1> QED
  BY <1>1, <1>2, <1>3

\* A save puts its state ahead of the cursor and moves the cursor there.
LEMMA AppendUndo ==
  ASSUME UndoInv, NEW g \in Games, NEW t \in SessionIds, NEW x \in States, Append(g, t, x)
  PROVE  /\ Bounded'
         /\ CursorOnState'
         /\ \A s \in SessionIds, m \in MoveIds :
              lastMove[s] # Missing /\ m <= lastMove[s] => cell'[s][m] = cell[s][m]
<1> DEFINE n == NextMove(t)
<1>1. n \in MoveIds /\ n <= MaxMove
  BY AppendPlace DEF UndoInv, Append
<1>2. lastMove[t] # Missing => n = lastMove[t] + 1
  BY AppendPlace DEF UndoInv
<1>3. cell' = [cell EXCEPT ![t][n] = x] /\ lastMove' = [lastMove EXCEPT ![t] = n]
  BY DEF Append
<1> HIDE DEF n
<1>4. \A s \in SessionIds, m \in MoveIds :
        cell'[s][m] = IF s = t /\ m = n THEN x ELSE cell[s][m]
  BY <1>1, <1>3 DEF UndoInv, TypeOK
<1>5. \A s \in SessionIds : lastMove'[s] = IF s = t THEN n ELSE lastMove[s]
  BY <1>3 DEF UndoInv, TypeOK
<1>6. Bounded'
  BY <1>1, <1>4, <1>5 DEF UndoInv, Bounded
<1>7. CursorOnState'
  <2> SUFFICES ASSUME NEW s \in SessionIds, lastMove'[s] # Missing
               PROVE  cell'[s][lastMove'[s]] # Missing
    BY DEF CursorOnState
  <2>1. CASE s = t
    BY <1>1, <1>4, <1>5, <2>1, MissingAssumption
  <2>2. CASE s # t
    BY <1>4, <1>5, <2>2 DEF UndoInv, TypeOK, CursorOnState
  <2> QED
    BY <2>1, <2>2
<1>8. ASSUME NEW s \in SessionIds, NEW m \in MoveIds, lastMove[s] # Missing, m <= lastMove[s]
      PROVE  cell'[s][m] = cell[s][m]
  <2>1. ~(s = t /\ m = n)
    BY <1>2, <1>8, BoundsAssumption DEF UndoInv, TypeOK, MoveIds
  <2> QED
    BY <1>4, <2>1
<1> QED
  BY <1>6, <1>7, <1>8

\* What a step may do to a session with a cursor: keep everything up to it, or
\* take the cursor away.
UndoKept ==
  \A s \in SessionIds, m \in MoveIds :
    lastMove[s] # Missing /\ lastMove'[s] # Missing /\ m <= lastMove[s]
      => cell'[s][m] = cell[s][m]

\* Every operation keeps the cursor on a state, and what lies behind it.
LEMMA UndoStep == UndoInv /\ [Next]_vars => UndoInv' /\ UndoKept
<1> SUFFICES ASSUME UndoInv, [Next]_vars PROVE UndoInv' /\ UndoKept
  OBVIOUS
<1>t. TypeOK /\ TypeOK'
  BY TypeStep DEF UndoInv
<1> SUFFICES Bounded' /\ CursorOnState' /\ UndoKept
  BY <1>t DEF UndoInv
<1>1. ASSUME NEW h \in Handles, refresh_internal_state(h)
      PROVE  Bounded' /\ CursorOnState' /\ UndoKept
  BY <1>1 DEF refresh_internal_state, UndoInv, Bounded, CursorOnState, UndoKept
<1>2. ASSUME NEW h \in Savers, NEW g \in Games, NEW s \in SessionIds, NEW x \in States,
             save_state(h, g, s, x)
      PROVE  Bounded' /\ CursorOnState' /\ UndoKept
  <2>1. Append(g, s, x)
    BY <1>2 DEF save_state, SaveExisting, SaveNew
  <2> QED
    BY <2>1, AppendUndo DEF UndoKept
<1>3. ASSUME NEW h \in Deleters, delete_session(h)
      PROVE  Bounded' /\ CursorOnState' /\ UndoKept
  <2> DEFINE t == cache[h].tail
  <2>1. t \in SessionIds
    BY <1>3 DEF delete_session
  <2>2. \A s \in SessionIds : lastMove'[s] = IF s = t THEN Missing ELSE lastMove[s]
    BY <1>3, <1>t DEF delete_session, TypeOK
  <2>3. \A s \in SessionIds, m \in MoveIds :
          cell'[s][m] = IF s = t /\ m \in DeletedMoves(t) THEN Missing ELSE cell[s][m]
    BY <1>3, <1>t, <2>1 DEF delete_session, TypeOK
  <2> QED
    BY <1>t, <2>2, <2>3 DEF UndoInv, TypeOK, Bounded, CursorOnState, UndoKept
<1>4. ASSUME NEW t \in SessionIds, NEW d \in Offsets, UndoRedo(t, d)
      PROVE  Bounded' /\ CursorOnState' /\ UndoKept
  <2> DEFINE n == Shift(lastMove[t], d)
  <2>1. n \in MoveIds /\ cell[t][n] # Missing
    BY <1>4, <1>t, ShiftTyped DEF UndoRedo, has_saved_state_offset, TypeOK
  <2>2. lastMove' = [lastMove EXCEPT ![t] = n] /\ cell' = cell
    BY <1>4 DEF UndoRedo, adjust_saved_state_offset
  <2> HIDE DEF n
  <2> QED
    BY <1>t, <2>1, <2>2 DEF UndoInv, TypeOK, Bounded, CursorOnState, UndoKept
<1>5. CASE UNCHANGED vars
  BY <1>5 DEF vars, store, UndoInv, Bounded, CursorOnState, UndoKept
<1> QED
  BY <1>1, <1>2, <1>3, <1>4, <1>5 DEF Next

\* No cursor is stored at first.
LEMMA UndoInit == Init => UndoInv
  BY TypeInit DEF Init, UndoInv, Bounded, CursorOnState

\* A session that can be loaded at all has a state at its cursor, however many
\* handles with stale ends save to it and delete it.
THEOREM CursorSafe == Spec => []CursorOnState
<1>1. UndoInv => CursorOnState
  BY DEF UndoInv
<1> QED
  BY <1>1, UndoInit, UndoStep, PTL DEF Spec

\* No save, by any handle, rewrites a state that undo could lead back to.
THEOREM UndoStackSafe == Spec => UndoStackKept
<1>1. UndoInv /\ [Next]_vars => [UndoKept]_vars
  BY UndoStep
<1>2. [UndoKept]_vars <=> [\A s \in SessionIds, m \in MoveIds :
        lastMove[s] # Missing /\ lastMove'[s] # Missing /\ m <= lastMove[s]
          => cell'[s][m] = cell[s][m]]_vars
  BY DEF UndoKept
<1> QED
  BY <1>1, <1>2, UndoInit, UndoStep, PTL DEF Spec, UndoStackKept

-----------------------------------------------------------------------------
(* One page: one handle saves and one handle deletes *)

OneSaver   == \A a, b \in Savers : a = b
OneDeleter == \A a, b \in Deleters : a = b

\* What the two handles know of the ends.  The saver's tail and the deleter's
\* head may lag behind.
EndsKnown ==
  /\ head = Missing <=> tail = Missing
  /\ Tail <= Head
  /\ \A h \in Savers : IsOpen(h) => head # Missing /\ cache[h].head = head
  /\ \A h \in Deleters : IsOpen(h) =>
       /\ tail # Missing
       /\ cache[h].tail = tail
       /\ tail <= cache[h].head
       /\ cache[h].head <= Head

PageInv == UndoInv /\ EndsKnown /\ FreshSessions /\ KeptSessionsWhole

\* The empty store satisfies the invariant of a page.
LEMMA PageInit == Init => PageInv
<1> SUFFICES ASSUME Init PROVE PageInv
  OBVIOUS
<1>1. Head = 0 /\ Tail = 0 /\ Kept = {}
  BY DEF Init, Head, Tail, Kept, OrElse, SessionIds
<1>2. EndsKnown
  BY <1>1, HandlesAssumption DEF Init, EndsKnown, IsOpen
<1>3. FreshSessions
  BY MissingAssumption DEF Init, FreshSessions, SessionIds
<1>4. KeptSessionsWhole
  BY <1>1 DEF KeptSessionsWhole
<1> QED
  BY <1>2, <1>3, <1>4, UndoInit DEF PageInv

\* What a save writes, key by key.
LEMMA AppendWrites ==
  ASSUME UndoInv, NEW g \in Games, NEW t \in SessionIds, NEW x \in States, Append(g, t, x)
  PROVE  /\ NextMove(t) \in MoveIds
         /\ lastMove[t] = Missing => NextMove(t) = 0
         /\ lastMove[t] # Missing => NextMove(t) = lastMove[t] + 1
         /\ \A s \in SessionIds : lastMove'[s] = IF s = t THEN NextMove(t) ELSE lastMove[s]
         /\ \A s \in SessionIds, m \in MoveIds :
              cell'[s][m] = IF s = t /\ m = NextMove(t) THEN x ELSE cell[s][m]
         /\ dated' = dated \cup {t}
         /\ \A f \in Games : lastSess'[f] = IF f = g THEN t ELSE lastSess[f]
<1> DEFINE n == NextMove(t)
<1>1. /\ n \in MoveIds
      /\ lastMove[t] = Missing => n = 0
      /\ lastMove[t] # Missing => n = lastMove[t] + 1
  BY AppendPlace DEF UndoInv
<1>2. /\ cell' = [cell EXCEPT ![t][n] = x] /\ lastMove' = [lastMove EXCEPT ![t] = n]
      /\ dated' = dated \cup {t} /\ lastSess' = [lastSess EXCEPT ![g] = t]
  BY DEF Append
<1> HIDE DEF n
<1>3. \A s \in SessionIds, m \in MoveIds :
        cell'[s][m] = IF s = t /\ m = n THEN x ELSE cell[s][m]
  BY <1>1, <1>2 DEF UndoInv, TypeOK
<1>4. /\ \A s \in SessionIds : lastMove'[s] = IF s = t THEN n ELSE lastMove[s]
      /\ \A f \in Games : lastSess'[f] = IF f = g THEN t ELSE lastSess[f]
  BY <1>2 DEF UndoInv, TypeOK
<1> QED
  BY <1>1, <1>2, <1>3, <1>4 DEF n

\* A save to a session below the head, kept or deleted.
LEMMA PageSaveExisting ==
  ASSUME PageInv, OneSaver,
         NEW h \in Savers, NEW g \in Games, NEW t \in SessionIds, NEW x \in States,
         SaveExisting(h, g, t, x)
  PROVE  EndsKnown' /\ FreshSessions' /\ KeptSessionsWhole'
<1> USE MissingAssumption, BoundsAssumption, HandlesAssumption
<1>t. UndoInv /\ TypeOK
  BY DEF PageInv, UndoInv
<1>1. Append(g, t, x) /\ head' = head /\ tail' = tail /\ gameOf' = gameOf /\ cache' = cache
  BY DEF SaveExisting
<1>2. t < Head /\ head # Missing
  BY <1>t DEF SaveExisting, PageInv, EndsKnown, Head, OrElse, TypeOK
<1> DEFINE n == NextMove(t)
<1>3.      /\ n \in MoveIds
           /\ lastMove[t] = Missing => n = 0
           /\ lastMove[t] # Missing => n = lastMove[t] + 1
           /\ \A s \in SessionIds : lastMove'[s] = IF s = t THEN n ELSE lastMove[s]
           /\ \A s \in SessionIds, m \in MoveIds :
                cell'[s][m] = IF s = t /\ m = n THEN x ELSE cell[s][m]
           /\ dated' = dated \cup {t}
           /\ \A f \in Games : lastSess'[f] = IF f = g THEN t ELSE lastSess[f]
  BY <1>1, <1>t, AppendWrites
<1> HIDE DEF n
<1>4. Head' = Head /\ Tail' = Tail /\ Kept' = Kept
  BY <1>1 DEF Head, Tail, Kept, OrElse
<1>5. EndsKnown'
  BY <1>1, <1>4 DEF PageInv, EndsKnown, IsOpen, Head, Tail, OrElse
<1>6. FreshSessions'
  BY <1>1, <1>2, <1>3, <1>4, <1>t DEF PageInv, FreshSessions, SessionIds, TypeOK, Ends, Head, OrElse
<1>7. KeptSessionsWhole'
  <2> SUFFICES ASSUME NEW s \in Kept
               PROVE  /\ gameOf'[s] # Missing
                      /\ s \in dated'
                      /\ lastMove'[s] # Missing
                      /\ \A m \in Stored(s)' : \A i \in 0..m : i \in Stored(s)'
    BY <1>4 DEF KeptSessionsWhole
  <2>1. /\ gameOf[s] # Missing /\ s \in dated /\ lastMove[s] # Missing
        /\ \A m \in Stored(s) : \A i \in 0..m : i \in Stored(s)
    BY DEF PageInv, KeptSessionsWhole
  <2>s. s \in SessionIds
    BY DEF Kept
  <2>2. CASE s # t
    BY <1>1, <1>3, <2>1, <2>2, <2>s DEF Stored
  <2>3. CASE s = t
    <3>1. Stored(s)' = Stored(s) \cup {n}
      BY <1>3, <2>3, <2>s DEF Stored
    <3>2. lastMove[s] \in Stored(s) /\ n = lastMove[s] + 1 /\ lastMove[s] \in Nat
      BY <1>3, <1>t, <2>1, <2>3, <2>s DEF Stored, UndoInv, CursorOnState, TypeOK, MoveIds
    <3>3. \A i \in 0..n : i \in Stored(s)'
      BY <2>1, <3>1, <3>2 DEF MoveIds
    <3>4. \A m \in Stored(s)' : \A i \in 0..m : i \in Stored(s)'
      BY <2>1, <3>1, <3>3
    <3>5. gameOf'[s] # Missing /\ s \in dated' /\ lastMove'[s] # Missing
      BY <1>1, <1>3, <2>1, <2>3, <2>s DEF MoveIds
    <3> QED
      BY <3>4, <3>5
  <2> QED
    BY <2>2, <2>3
<1> QED
  BY <1>5, <1>6, <1>7

\* A save that begins a session: the head it was given is the stored one.
LEMMA PageSaveNew ==
  ASSUME PageInv, OneSaver, NEW h \in Savers, NEW g \in Games, NEW x \in States,
         NEW t \in SessionIds, t = cache[h].head, SaveNew(h, g, x)
  PROVE  EndsKnown' /\ FreshSessions' /\ KeptSessionsWhole'
<1> USE MissingAssumption, BoundsAssumption, HandlesAssumption
<1>t. UndoInv /\ TypeOK
  BY DEF PageInv, UndoInv
<1>1. t \in SessionIds /\ Append(g, t, x) /\ head' = t + 1 /\ tail' = tail
      /\ gameOf' = [gameOf EXCEPT ![t] = g] /\ cache' = [cache EXCEPT ![h].head = t + 1]
  BY DEF SaveNew
<1>2. t = head /\ head # Missing /\ head = Head /\ tail # Missing
  BY DEF SaveNew, PageInv, EndsKnown, Head, OrElse
<1> DEFINE n == NextMove(t)
<1>3.      /\ n \in MoveIds
           /\ lastMove[t] = Missing => n = 0
           /\ lastMove[t] # Missing => n = lastMove[t] + 1
           /\ \A s \in SessionIds : lastMove'[s] = IF s = t THEN n ELSE lastMove[s]
           /\ \A s \in SessionIds, m \in MoveIds :
                cell'[s][m] = IF s = t /\ m = n THEN x ELSE cell[s][m]
           /\ dated' = dated \cup {t}
           /\ \A f \in Games : lastSess'[f] = IF f = g THEN t ELSE lastSess[f]
  BY <1>1, <1>t, AppendWrites
<1> HIDE DEF n
<1>4. Head' = Head + 1 /\ Tail' = Tail /\ Tail <= Head /\ Head \in Nat /\ Tail \in Nat
  BY <1>1, <1>2, <1>t DEF Head, Tail, OrElse, PageInv, EndsKnown, TypeOK, Ends, SessionIds
<1>5. Kept' = Kept \cup {t}
  BY <1>1, <1>2, <1>4 DEF Kept, SessionIds
<1>6. EndsKnown'
  <2>1. cache[h] \in [head : Ends, tail : Ends]
    BY <1>t, OpenTyped DEF SaveNew
  <2>2. \A a \in Handles : cache'[a] = IF a = h THEN [head |-> t + 1, tail |-> cache[h].tail]
                                              ELSE cache[a]
    BY <1>1, <1>t, <2>1 DEF TypeOK
  <2>3. \A a \in Savers : IsOpen(a)' => head' # Missing /\ cache'[a].head = head'
    <3>1. h \in Handles /\ cache'[h].head = t + 1 /\ head' = t + 1 /\ t + 1 # Missing
      BY <1>1, <2>2 DEF SessionIds
    <3> QED
      BY <3>1 DEF OneSaver
  <2>4. ASSUME NEW a \in Deleters, IsOpen(a)'
        PROVE  tail' # Missing /\ cache'[a].tail = tail' /\ tail' <= cache'[a].head /\ cache'[a].head <= Head'
    <3>1. IsOpen(a)
      BY <2>2, <2>4 DEF IsOpen, SaveNew
    <3>2. /\ cache[a].tail = tail /\ tail <= cache[a].head /\ cache[a].head <= Head
      BY <3>1 DEF PageInv, EndsKnown
    <3>3. cache[a].head \in Nat /\ tail \in Nat
      BY <3>1, <1>2, <1>t, OpenTyped DEF TypeOK, Ends
    <3>4. CASE a = h
      BY <1>1, <1>2, <1>4, <2>2, <3>2, <3>3, <3>4
    <3>5. CASE a # h
      BY <1>1, <1>2, <1>4, <2>2, <3>2, <3>3, <3>5
    <3> QED
      BY <3>4, <3>5
  <2> QED
    BY <1>1, <1>2, <1>4, <2>3, <2>4 DEF EndsKnown, SessionIds
<1>7. FreshSessions'
  <2> SUFFICES ASSUME NEW s \in SessionIds, s >= Head'
               PROVE  /\ \A m \in MoveIds : cell'[s][m] = Missing
                      /\ lastMove'[s] = Missing
                      /\ gameOf'[s] = Missing
                      /\ s \notin dated'
                      /\ \A f \in Games : lastSess'[f] # s
    BY DEF FreshSessions
  <2>1. s # t /\ s >= Head
    BY <1>1, <1>2, <1>4 DEF SessionIds
  <2>2. gameOf'[s] = gameOf[s]
    BY <1>1, <1>t, <2>1 DEF TypeOK
  <2> QED
    BY <1>3, <2>1, <2>2 DEF PageInv, FreshSessions
<1>8. KeptSessionsWhole'
  <2>1. ASSUME NEW s \in Kept
        PROVE  /\ gameOf'[s] # Missing
               /\ s \in dated'
               /\ lastMove'[s] # Missing
               /\ \A m \in Stored(s)' : \A i \in 0..m : i \in Stored(s)'
    <3>1. s # t /\ s \in SessionIds
      BY <1>2, <1>4 DEF Kept, SessionIds
    <3>2. /\ gameOf'[s] = gameOf[s]
          /\ Stored(s)' = Stored(s)
          /\ lastMove'[s] = lastMove[s]
          /\ dated \subseteq dated'
      BY <1>1, <1>3, <1>t, <3>1 DEF TypeOK, Stored
    <3> QED
      BY <1>3, <1>1, <1>t, <3>1, <3>2 DEF PageInv, KeptSessionsWhole, TypeOK
  <2>2. /\ gameOf'[t] # Missing
        /\ t \in dated'
        /\ lastMove'[t] # Missing
        /\ \A m \in Stored(t)' : \A i \in 0..m : i \in Stored(t)'
    <3>1. gameOf'[t] = g /\ t \in dated' /\ lastMove'[t] = n
      BY <1>1, <1>3, <1>t DEF TypeOK
    <3>2. n = 0 /\ \A m \in MoveIds : cell[t][m] = Missing
      BY <1>1, <1>2, <1>3 DEF PageInv, FreshSessions, SessionIds
    <3>3. Stored(t)' = {0}
      BY <1>1, <1>3, <3>2 DEF Stored, MoveIds
    <3> QED
      BY <3>1, <3>2, <3>3
  <2> QED
    BY <1>5, <2>1, <2>2 DEF KeptSessionsWhole
<1> QED
  BY <1>6, <1>7, <1>8

\* The deleter removes the oldest session.
LEMMA PageDelete ==
  ASSUME PageInv, OneDeleter, NEW h \in Deleters,
         NEW t \in SessionIds, t = cache[h].tail, delete_session(h)
  PROVE  EndsKnown' /\ FreshSessions' /\ KeptSessionsWhole'
<1> USE MissingAssumption, BoundsAssumption, HandlesAssumption
<1>t. UndoInv /\ TypeOK
  BY DEF PageInv, UndoInv
<1>1. /\ IsOpen(h) /\ t # cache[h].head
      /\ head' = head /\ tail' = t + 1 /\ lastSess' = lastSess /\ dated' = dated \ {t}
      /\ cache' = [cache EXCEPT ![h].tail = t + 1]
  BY DEF delete_session
<1>2. /\ \A s \in SessionIds : gameOf'[s] = IF s = t THEN Missing ELSE gameOf[s]
      /\ \A s \in SessionIds : lastMove'[s] = IF s = t THEN Missing ELSE lastMove[s]
      /\ \A s \in SessionIds, m \in MoveIds :
           cell'[s][m] = IF s = t /\ m \in DeletedMoves(t) THEN Missing ELSE cell[s][m]
  BY <1>t DEF delete_session, TypeOK
<1>3. /\ tail # Missing /\ head # Missing /\ t = tail
      /\ t < cache[h].head /\ cache[h].head <= Head /\ cache[h].head \in Nat
  <2>1. cache[h] \in [head : Ends, tail : Ends]
    BY <1>1, <1>t, OpenTyped
  <2> QED
    BY <1>1, <2>1 DEF PageInv, EndsKnown, Ends
<1>4. Head' = Head /\ Head = head /\ Tail = t /\ Tail' = t + 1 /\ Head \in Nat /\ t \in Nat
  BY <1>1, <1>3, <1>t DEF Head, Tail, OrElse, TypeOK, Ends, SessionIds
<1>5. t \notin Kept' /\ Kept' \subseteq Kept
  BY <1>4 DEF Kept, SessionIds
<1>6. EndsKnown'
  <2>1. cache[h] \in [head : Ends, tail : Ends]
    BY <1>1, <1>t, OpenTyped
  <2>2. \A a \in Handles : cache'[a] = IF a = h THEN [head |-> cache[h].head, tail |-> t + 1]
                                              ELSE cache[a]
    BY <1>1, <1>t, <2>1 DEF TypeOK
  <2>3. ASSUME NEW a \in Savers, IsOpen(a)'
        PROVE  head' # Missing /\ cache'[a].head = head'
    BY <1>1, <1>3, <2>2, <2>3 DEF PageInv, EndsKnown, IsOpen
  <2>4. ASSUME NEW a \in Deleters, IsOpen(a)'
        PROVE  /\ tail' # Missing /\ cache'[a].tail = tail'
               /\ tail' <= cache'[a].head /\ cache'[a].head <= Head'
    <3>1. a = h
      BY DEF OneDeleter
    <3> QED
      BY <1>1, <1>3, <1>4, <2>2, <3>1
  <2> QED
    BY <1>1, <1>3, <1>4, <2>3, <2>4 DEF EndsKnown
<1>7. FreshSessions'
  BY <1>1, <1>2, <1>3, <1>4 DEF PageInv, FreshSessions, SessionIds
<1>8. KeptSessionsWhole'
  <2> SUFFICES ASSUME NEW s \in Kept'
               PROVE  /\ gameOf'[s] # Missing
                      /\ s \in dated'
                      /\ lastMove'[s] # Missing
                      /\ \A m \in Stored(s)' : \A i \in 0..m : i \in Stored(s)'
    BY DEF KeptSessionsWhole
  <2>1. s \in Kept /\ s # t /\ s \in SessionIds
    BY <1>5 DEF Kept
  <2>2. /\ gameOf'[s] = gameOf[s] /\ lastMove'[s] = lastMove[s]
        /\ Stored(s)' = Stored(s) /\ (s \in dated => s \in dated')
    BY <1>1, <1>2, <2>1 DEF Stored
  <2> QED
    BY <2>1, <2>2 DEF PageInv, KeptSessionsWhole
<1> QED
  BY <1>6, <1>7, <1>8

\* A handle reads the ends, and writes 0 for the ones that are not there.
LEMMA PageRefresh ==
  ASSUME PageInv, NEW h \in Handles, refresh_internal_state(h)
  PROVE  /\ EndsKnown' /\ FreshSessions' /\ KeptSessionsWhole'
         /\ Head' = Head /\ Tail' = Tail
<1> USE MissingAssumption, BoundsAssumption, HandlesAssumption
<1>t. UndoInv /\ TypeOK
  BY DEF PageInv, UndoInv
<1>1. /\ cache' = [cache EXCEPT ![h] = [head |-> Head, tail |-> Tail]]
      /\ UNCHANGED <<cell, lastMove, gameOf, dated, lastSess>>
      /\ IF Missing \in {head, tail} THEN head' = Head /\ tail' = Tail ELSE UNCHANGED <<head, tail>>
  BY DEF refresh_internal_state, Head, Tail
<1>2. Head \in Ends /\ Tail \in Ends /\ Tail <= Head
  BY <1>t, OpenTyped DEF Head, Tail, PageInv, EndsKnown
<1>3. head' = Head /\ tail' = Tail
  BY <1>1 DEF Head, Tail, OrElse
<1>4. Head' = Head /\ Tail' = Tail /\ Kept' = Kept
  BY <1>2, <1>3 DEF Head, Tail, Kept, OrElse, Ends
<1>5. \A a \in Handles : cache'[a] = IF a = h THEN [head |-> Head, tail |-> Tail] ELSE cache[a]
  BY <1>1, <1>t DEF TypeOK
<1>6. EndsKnown'
  <2>1. head' # Missing /\ tail' # Missing /\ Head \in Nat /\ Tail \in Nat
    BY <1>2, <1>3 DEF Ends
  <2>2. ASSUME NEW a \in Savers, IsOpen(a)'
        PROVE  cache'[a].head = head'
    <3>1. CASE a = h
      BY <1>3, <1>5, <3>1
    <3>2. CASE a # h
      BY <1>3, <1>5, <2>2, <3>2 DEF PageInv, EndsKnown, IsOpen, Head, OrElse
    <3> QED
      BY <3>1, <3>2
  <2>3. ASSUME NEW a \in Deleters, IsOpen(a)'
        PROVE  cache'[a].tail = tail' /\ tail' <= cache'[a].head /\ cache'[a].head <= Head'
    <3>1. CASE a = h
      BY <1>2, <1>3, <1>4, <1>5, <2>1, <3>1
    <3>2. CASE a # h
      <4>1. IsOpen(a) /\ cache'[a] = cache[a]
        BY <1>5, <2>3, <3>2 DEF IsOpen
      <4>2. tail # Missing /\ Tail = tail
        BY <4>1 DEF PageInv, EndsKnown, Tail, OrElse
      <4> QED
        BY <1>3, <1>4, <4>1, <4>2 DEF PageInv, EndsKnown
    <3> QED
      BY <3>1, <3>2
  <2> QED
    BY <1>2, <1>4, <2>1, <2>2, <2>3 DEF EndsKnown
<1>7. FreshSessions' /\ KeptSessionsWhole'
  BY <1>1, <1>4 DEF PageInv, FreshSessions, KeptSessionsWhole, Stored
<1> QED
  BY <1>4, <1>6, <1>7

\* Undo and redo move the cursor within the states of a session.
LEMMA PageUndo ==
  ASSUME PageInv, NEW t \in SessionIds, NEW d \in Offsets, UndoRedo(t, d)
  PROVE  EndsKnown' /\ FreshSessions' /\ KeptSessionsWhole'
<1> USE MissingAssumption, BoundsAssumption, HandlesAssumption
<1> DEFINE n == Shift(lastMove[t], d)
<1>t. UndoInv /\ TypeOK
  BY DEF PageInv, UndoInv
<1>1. /\ lastMove[t] # Missing /\ lastMove' = [lastMove EXCEPT ![t] = n]
      /\ UNCHANGED <<head, tail, cell, gameOf, dated, lastSess, cache>>
  BY DEF UndoRedo, adjust_saved_state_offset
<1>2. n \in MoveIds
  BY <1>1, <1>t, ShiftTyped DEF TypeOK
<1> HIDE DEF n
<1>3. \A s \in SessionIds : lastMove'[s] = IF s = t THEN n ELSE lastMove[s]
  BY <1>1, <1>t DEF TypeOK
<1>4. Head' = Head /\ Tail' = Tail /\ Kept' = Kept
  BY <1>1 DEF Head, Tail, Kept, OrElse
<1>5. EndsKnown'
  BY <1>1, <1>4 DEF PageInv, EndsKnown, IsOpen
<1>6. FreshSessions'
  BY <1>1, <1>3, <1>4 DEF PageInv, FreshSessions
<1>7. KeptSessionsWhole'
  BY <1>1, <1>2, <1>3, <1>4 DEF PageInv, KeptSessionsWhole, Stored, MoveIds
<1> QED
  BY <1>5, <1>6, <1>7

\* Every operation keeps the invariant of a page.
LEMMA PageStep ==
  ASSUME OneSaver, OneDeleter
  PROVE  PageInv /\ [Next]_vars => PageInv'
<1> SUFFICES ASSUME PageInv, [Next]_vars PROVE EndsKnown' /\ FreshSessions' /\ KeptSessionsWhole'
  BY UndoStep DEF PageInv
<1>1. ASSUME NEW h \in Handles, refresh_internal_state(h)
      PROVE  EndsKnown' /\ FreshSessions' /\ KeptSessionsWhole'
  BY <1>1, PageRefresh
<1>2. ASSUME NEW h \in Savers, NEW g \in Games, NEW s \in SessionIds, NEW x \in States,
             save_state(h, g, s, x)
      PROVE  EndsKnown' /\ FreshSessions' /\ KeptSessionsWhole'
  BY <1>2, PageSaveExisting, PageSaveNew DEF save_state
<1>3. ASSUME NEW h \in Deleters, delete_session(h)
      PROVE  EndsKnown' /\ FreshSessions' /\ KeptSessionsWhole'
  <2>1. cache[h].tail \in SessionIds
    BY <1>3 DEF delete_session
  <2> QED
    BY <1>3, <2>1, PageDelete
<1>4. ASSUME NEW s \in SessionIds, NEW d \in Offsets, UndoRedo(s, d)
      PROVE  EndsKnown' /\ FreshSessions' /\ KeptSessionsWhole'
  BY <1>4, PageUndo
<1>5. CASE UNCHANGED vars
  <2>1. UNCHANGED <<head, tail, cell, lastMove, gameOf, dated, lastSess, cache>>
    BY <1>5 DEF vars, store
  <2>2. Head' = Head /\ Tail' = Tail /\ Kept' = Kept
    BY <2>1 DEF Head, Tail, Kept, OrElse
  <2>3. EndsKnown'
    BY <2>1, <2>2 DEF PageInv, EndsKnown, IsOpen
  <2>4. FreshSessions' /\ KeptSessionsWhole'
    BY <2>1, <2>2 DEF PageInv, FreshSessions, KeptSessionsWhole, Stored
  <2> QED
    BY <2>3, <2>4
<1> QED
  BY <1>1, <1>2, <1>3, <1>4, <1>5 DEF Next

\* With one handle that saves and one that deletes, each working with a copy of
\* the ends that may be stale in the half the other one moves, a new session is
\* always empty ...
THEOREM FreshSafe == OneSaver /\ OneDeleter /\ Spec => []FreshSessions
<1>1. PageInv => FreshSessions
  BY DEF PageInv
<1> SUFFICES ASSUME OneSaver, OneDeleter PROVE Spec => []FreshSessions
  OBVIOUS
<1>2. PageInv /\ [Next]_vars => PageInv'
  BY PageStep
<1> QED
  BY <1>1, <1>2, PageInit, PTL DEF Spec

\* ... and every session between the ends is whole.
THEOREM KeptWholeSafe == OneSaver /\ OneDeleter /\ Spec => []KeptSessionsWhole
<1>1. PageInv => KeptSessionsWhole
  BY DEF PageInv
<1> SUFFICES ASSUME OneSaver, OneDeleter PROVE Spec => []KeptSessionsWhole
  OBVIOUS
<1>2. PageInv /\ [Next]_vars => PageInv'
  BY PageStep
<1> QED
  BY <1>1, <1>2, PageInit, PTL DEF Spec

-----------------------------------------------------------------------------
(* The store keeps the promise of UndoHistory *)

\* What a session shows depends only on what is stored under it.
LEMMA EntrySame ==
  ASSUME NEW s \in SessionIds,
         gameOf'[s] = gameOf[s], lastMove'[s] = lastMove[s], 
         \A m \in MoveIds : cell'[s][m] = cell[s][m]
  PROVE  Entry(s)' = Entry(s)
<1>1. Stored(s)' = Stored(s)
  BY DEF Stored
<1>2. \A m \in Stored(s) : m \in MoveIds
  BY DEF Stored
<1> QED
  BY <1>1, <1>2 DEF Entry

\* A new handle changes nothing in the book.
LEMMA PromiseRefresh ==
  ASSUME PageInv, NEW h \in Handles, refresh_internal_state(h)
  PROVE  Book' = Book /\ Tail' = Tail /\ Head' = Head
<1>1. Head' = Head /\ Tail' = Tail
  BY PageRefresh
<1>2. Kept' = Kept
  BY <1>1 DEF Kept
<1>3. \A s \in SessionIds : Entry(s)' = Entry(s)
  BY EntrySame DEF refresh_internal_state
<1> QED
  BY <1>1, <1>2, <1>3 DEF Book

\* The first save of a session begins an entry of the book.
LEMMA PromiseSaveNew ==
  ASSUME PageInv, PageInv', NEW h \in Savers, NEW g \in Games, NEW x \in States,
         NEW t \in SessionIds, t = cache[h].head, SaveNew(h, g, x)
  PROVE  Promise!Begin(g, x)
<1> USE MissingAssumption, BoundsAssumption, HandlesAssumption
<1>t. UndoInv /\ TypeOK
  BY DEF PageInv, UndoInv
<1>1. Append(g, t, x) /\ head' = t + 1 /\ tail' = tail /\ gameOf' = [gameOf EXCEPT ![t] = g]
  BY DEF SaveNew
<1>2. t = Head /\ Head' = Head + 1 /\ Tail' = Tail /\ Tail <= Head /\ Tail \in Nat
  BY <1>1, <1>t DEF SaveNew, PageInv, EndsKnown, Head, Tail, OrElse, TypeOK, Ends, SessionIds
<1>3. Kept' = Kept \cup {t} /\ t \notin Kept
  BY <1>2 DEF Kept, SessionIds
<1>4. \A s \in Kept : Entry(s)' = Entry(s)
  <2> SUFFICES ASSUME NEW s \in Kept PROVE Entry(s)' = Entry(s)
    OBVIOUS
  <2>1. s \in SessionIds /\ s # t
    BY <1>3 DEF Kept
  <2> QED
    BY <1>1, <1>t, <2>1, AppendWrites, EntrySame DEF TypeOK
<1>5. Entry(t)' = [game |-> g, moves |-> [m \in {0} |-> x], cursor |-> 0]
  <2>1. /\ lastMove[t] = Missing /\ NextMove(t) = 0
        /\ \A m \in MoveIds : cell[t][m] = Missing
    BY <1>1, <1>2, <1>t, AppendWrites DEF PageInv, FreshSessions, SessionIds
  <2>2. /\ lastMove'[t] = 0 /\ gameOf'[t] = g
        /\ \A m \in MoveIds : cell'[t][m] = IF m = 0 THEN x ELSE Missing
    BY <1>1, <1>t, <2>1, AppendWrites DEF TypeOK
  <2>3. Stored(t)' = {0}
    BY <2>2 DEF Stored, MoveIds
  <2>4. cell'[t][0] = x
    BY <2>2 DEF MoveIds
  <2> QED
    BY <2>2, <2>3, <2>4 DEF Entry
<1>6. Book' = [Book EXCEPT ![t] = [game |-> g, moves |-> [m \in {0} |-> x], cursor |-> 0]]
  BY <1>3, <1>4, <1>5 DEF Book
<1> QED
  BY <1>2, <1>6 DEF Promise!Begin, Promise!Sessions, SessionIds

\* A later save records a state in its entry.
LEMMA PromiseSaveExisting ==
  ASSUME PageInv, NEW h \in Savers, NEW g \in Games, NEW t \in SessionIds, NEW x \in States,
         SaveExisting(h, g, t, x)
  PROVE  Promise!Record(t, x) \/ (Book' = Book /\ Tail' = Tail /\ Head' = Head)
<1> USE MissingAssumption, BoundsAssumption, HandlesAssumption
<1>t. UndoInv /\ TypeOK
  BY DEF PageInv, UndoInv
<1>1. Append(g, t, x) /\ head' = head /\ tail' = tail /\ gameOf' = gameOf
  BY DEF SaveExisting
<1>2. Head' = Head /\ Tail' = Tail
  BY <1>1 DEF Head, Tail, OrElse
<1>3. Kept' = Kept
  BY <1>2 DEF Kept
<1>4. \A s \in SessionIds \ {t} : Entry(s)' = Entry(s)
  BY <1>1, <1>t, AppendWrites, EntrySame
<1>5. CASE t \notin Kept
  BY <1>2, <1>3, <1>4, <1>5 DEF Book, Kept
<1>6. CASE t \in Kept
  <2> DEFINE n == NextMove(t)
             e == [game   |-> Book[t].game,
                   moves  |-> [m \in DOMAIN Book[t].moves \cup {n} |->
                                 IF m = n THEN x ELSE Book[t].moves[m]],
                   cursor |-> n]
  <2>1. lastMove[t] # Missing
    BY <1>6 DEF PageInv, KeptSessionsWhole
  <2>2. /\ n \in MoveIds /\ n = lastMove[t] + 1 /\ n <= MaxMove /\ lastMove'[t] = n
        /\ \A m \in MoveIds : cell'[t][m] = IF m = n THEN x ELSE cell[t][m]
    <3>1. n <= MaxMove
      BY <1>1 DEF Append
    <3>2. n \in MoveIds /\ n = lastMove[t] + 1
      BY <1>1, <1>t, <2>1, AppendWrites
    <3> QED
      BY <1>1, <1>t, <3>1, <3>2, AppendWrites
  <2>3. Book[t] = Entry(t)
    BY <1>6 DEF Book
  <2> HIDE DEF n
  <2>4. Stored(t)' = Stored(t) \cup {n}
    BY <2>2 DEF Stored
  <2>5. Book[t].game = gameOf[t] /\ Book[t].cursor = lastMove[t]
        /\ Book[t].moves = [m \in Stored(t) |-> cell[t][m]]
    BY <2>3 DEF Entry
  <2>6. Entry(t)' = e
    <3>1. [m \in Stored(t)' |-> cell'[t][m]]
            = [m \in DOMAIN Book[t].moves \cup {n} |-> IF m = n THEN x ELSE Book[t].moves[m]]
      BY <2>2, <2>4, <2>5 DEF Stored
    <3> QED
      BY <1>1, <2>2, <2>5, <3>1 DEF Entry
  <2> HIDE DEF e
  <2>7. Book' = [Book EXCEPT ![t] = e]
    BY <1>3, <1>4, <1>6, <2>6 DEF Book
  <2>8. n = Book[t].cursor + 1 /\ n \in Promise!Moves /\ t \in Promise!Kept
    BY <1>6, <2>2, <2>5 DEF Promise!Moves, Promise!Kept, Promise!Sessions, Kept, SessionIds, MoveIds
  <2>9. e = [game   |-> Book[t].game,
             moves  |-> [m \in DOMAIN Book[t].moves \cup {Book[t].cursor + 1} |->
                           IF m = Book[t].cursor + 1 THEN x ELSE Book[t].moves[m]],
             cursor |-> Book[t].cursor + 1]
    BY <2>8, Zenon DEF e
  <2>10. Book[t].cursor + 1 \in Promise!Moves
    BY <2>8
  <2> QED
    BY <1>2, <2>7, <2>8, <2>9, <2>10, Zenon DEF Promise!Record
<1> QED
  BY <1>5, <1>6

\* A deletion takes the first entry out of the book.
LEMMA PromiseDelete ==
  ASSUME PageInv, NEW h \in Deleters, NEW t \in SessionIds, t = cache[h].tail, delete_session(h)
  PROVE  Promise!Forget
<1> USE MissingAssumption, BoundsAssumption, HandlesAssumption
<1>t. UndoInv /\ TypeOK
  BY DEF PageInv, UndoInv
<1>1. IsOpen(h) /\ t # cache[h].head /\ head' = head /\ tail' = t + 1
  BY DEF delete_session
<1>2. /\ tail # Missing /\ head # Missing /\ t = tail
      /\ t < cache[h].head /\ cache[h].head <= Head /\ cache[h].head \in Nat
  <2>1. cache[h] \in [head : Ends, tail : Ends]
    BY <1>1, <1>t, OpenTyped
  <2> QED
    BY <1>1, <2>1 DEF PageInv, EndsKnown, Ends
<1>3. Head' = Head /\ Tail = t /\ Tail' = t + 1 /\ t < Head /\ Head \in Nat /\ t \in Nat
  BY <1>1, <1>2, <1>t DEF Head, Tail, OrElse, TypeOK, Ends, SessionIds
<1>4. Kept' = Kept \ {t}
  BY <1>3 DEF Kept, SessionIds
<1>5. \A s \in SessionIds \ {t} : Entry(s)' = Entry(s)
  <2> SUFFICES ASSUME NEW s \in SessionIds \ {t} PROVE Entry(s)' = Entry(s)
    OBVIOUS
  <2>1. /\ gameOf'[s] = gameOf[s] /\ lastMove'[s] = lastMove[s]
        /\ \A m \in MoveIds : cell'[s][m] = cell[s][m]
    BY <1>t DEF delete_session, TypeOK
  <2> QED
    BY <2>1, EntrySame
<1>6. Book' = [Book EXCEPT ![t] = Missing]
  BY <1>4, <1>5 DEF Book
<1> QED
  BY <1>3, <1>6 DEF Promise!Forget

\* Undo and redo turn to another state of the entry.
LEMMA PromiseUndo ==
  ASSUME PageInv, NEW t \in SessionIds, NEW d \in Offsets, UndoRedo(t, d)
  PROVE  (d \in {-1, 1} /\ Promise!Turn(t, d)) \/ (Book' = Book /\ Tail' = Tail /\ Head' = Head)
<1> USE MissingAssumption, BoundsAssumption, HandlesAssumption
<1> DEFINE n == Shift(lastMove[t], d)
<1>t. UndoInv /\ TypeOK
  BY DEF PageInv, UndoInv
<1>1. /\ lastMove[t] # Missing /\ lastMove' = [lastMove EXCEPT ![t] = n] /\ cell[t][n] # Missing
      /\ UNCHANGED <<head, tail, cell, gameOf, dated, lastSess, cache>>
  BY DEF UndoRedo, adjust_saved_state_offset, has_saved_state_offset
<1>2. n \in MoveIds /\ lastMove[t] \in MoveIds /\ n <= MaxMove /\ lastMove[t] <= MaxMove
  BY <1>1, <1>t, ShiftTyped DEF TypeOK, UndoInv, Bounded
<1>3. n = lastMove[t] + d
  <2>1. CASE lastMove[t] + d \in MoveIds
    BY <1>2, <2>1, ShiftValue
  <2>2. CASE lastMove[t] + d \notin MoveIds
    <3>1. lastMove[t] + d = -1
      BY <1>2, <2>2 DEF MoveIds, Offsets
    <3>2. n = Wrap - 1
      BY <1>2, <3>1 DEF Shift
    <3> QED
      BY <1>2, <3>2 DEF MoveIds
  <2> QED
    BY <2>1, <2>2
<1> HIDE DEF n
<1>4. Head' = Head /\ Tail' = Tail /\ Kept' = Kept
  BY <1>1 DEF Head, Tail, Kept, OrElse
<1>5. \A s \in SessionIds \ {t} : Entry(s)' = Entry(s)
  BY <1>1, <1>t, EntrySame DEF TypeOK
<1>6. CASE t \notin Kept
  BY <1>4, <1>5, <1>6 DEF Book, Kept
<1>7. CASE d = 0
  BY <1>1, <1>2, <1>3, <1>4, <1>5, <1>7, <1>t, EntrySame DEF Book, TypeOK, MoveIds
<1>8. CASE t \in Kept /\ d # 0
  <2>1. Book[t] = Entry(t)
    BY <1>8 DEF Book
  <2>2. Stored(t)' = Stored(t) /\ n \in Stored(t) /\ lastMove'[t] = n
    BY <1>1, <1>2, <1>t DEF Stored, TypeOK
  <2>3. Book[t].game = gameOf[t] /\ Book[t].cursor = lastMove[t]
        /\ Book[t].moves = [m \in Stored(t) |-> cell[t][m]]
    BY <2>1 DEF Entry
  <2>4. Entry(t)' = [game |-> Book[t].game, moves |-> Book[t].moves, cursor |-> n]
    BY <1>1, <2>2, <2>3 DEF Entry
  <2>5. Book' = [Book EXCEPT ![t] = [game |-> Book[t].game, moves |-> Book[t].moves, cursor |-> n]]
    BY <1>4, <1>5, <1>8, <2>4 DEF Book
  <2>6. n = Book[t].cursor + d /\ n \in DOMAIN Book[t].moves /\ t \in Promise!Kept
    BY <1>3, <1>8, <2>2, <2>3 DEF Promise!Kept, Promise!Sessions, Kept, SessionIds
  <2> QED
    BY <1>4, <1>8, <2>5, <2>6 DEF Promise!Turn, Offsets
<1> QED
  BY <1>6, <1>7, <1>8

\* The empty store is the empty book.
LEMMA PromiseInit == Init => Promise!Init
<1> SUFFICES ASSUME Init PROVE Promise!Init
  OBVIOUS
<1>1. Head = 0 /\ Tail = 0 /\ Kept = {}
  BY DEF Init, Head, Tail, Kept, OrElse, SessionIds
<1> QED
  BY <1>1 DEF Promise!Init, Promise!Sessions, Book, SessionIds

\* Every operation is a step of the book or changes nothing in it.
LEMMA PromiseStep ==
  ASSUME OneSaver, OneDeleter
  PROVE  PageInv /\ PageInv' /\ [Next]_vars => [Promise!Next]_(Promise!vars)
<1> SUFFICES ASSUME PageInv, PageInv', [Next]_vars
             PROVE  Promise!Next \/ (Book' = Book /\ Tail' = Tail /\ Head' = Head)
  BY DEF Promise!vars
<1>1. ASSUME NEW h \in Handles, refresh_internal_state(h)
      PROVE  Book' = Book /\ Tail' = Tail /\ Head' = Head
  BY <1>1, PromiseRefresh
<1>2. ASSUME NEW h \in Savers, NEW g \in Games, NEW s \in SessionIds, NEW x \in States,
             save_state(h, g, s, x)
      PROVE  Promise!Next \/ (Book' = Book /\ Tail' = Tail /\ Head' = Head)
  <2>1. CASE SaveExisting(h, g, s, x)
    BY <2>1, PromiseSaveExisting DEF Promise!Next, Promise!Sessions, SessionIds
  <2>2. CASE s = cache[h].head /\ SaveNew(h, g, x)
    BY <2>2, PromiseSaveNew DEF Promise!Next
  <2> QED
    BY <1>2, <2>1, <2>2 DEF save_state
<1>3. ASSUME NEW h \in Deleters, delete_session(h)
      PROVE  Promise!Next
  <2>1. cache[h].tail \in SessionIds
    BY <1>3 DEF delete_session
  <2> QED
    BY <1>3, <2>1, PromiseDelete DEF Promise!Next
<1>4. ASSUME NEW s \in SessionIds, NEW d \in Offsets, UndoRedo(s, d)
      PROVE  Promise!Next \/ (Book' = Book /\ Tail' = Tail /\ Head' = Head)
  BY <1>4, PromiseUndo DEF Promise!Next, Promise!Sessions, SessionIds
<1>5. CASE UNCHANGED vars
  <2>1. UNCHANGED <<head, tail, cell, lastMove, gameOf, dated, lastSess, cache>>
    BY <1>5 DEF vars, store
  <2>2. Head' = Head /\ Tail' = Tail /\ Kept' = Kept
    BY <2>1 DEF Head, Tail, Kept, OrElse
  <2>3. \A s \in SessionIds : Entry(s)' = Entry(s)
    BY <2>1, EntrySame
  <2> QED
    BY <2>2, <2>3 DEF Book
<1> QED
  BY <1>1, <1>2, <1>3, <1>4, <1>5 DEF Next

\* On one page the key-value store implements the book of sessions: every
\* operation is one step of it or changes nothing a caller can see.
THEOREM PromiseKept == OneSaver /\ OneDeleter /\ Spec => KeepsPromise
<1> SUFFICES ASSUME OneSaver, OneDeleter PROVE Spec => KeepsPromise
  OBVIOUS
<1>1. PageInv /\ [Next]_vars => PageInv'
  BY PageStep
<1>2. PageInv /\ PageInv' /\ [Next]_vars => [Promise!Next]_(Promise!vars)
  BY PromiseStep
<1> QED
  BY <1>1, <1>2, PageInit, PromiseInit, PTL DEF Spec, KeepsPromise, Promise!Spec
=============================================================================
