---------------------------- MODULE SessionsProofs ----------------------------
(***************************************************************************)
(* Proofs about Sessions: first GameSessions, for any set of its games,    *)
(* any boards and any number of sessions and moves; then HistoryBrowser,   *)
(* for anything saved and any number of fingers and previews.              *)
(***************************************************************************)
EXTENDS Sessions, FiniteSetTheorems, SequenceTheorems, TLAPS

Ids     == Db!SessionIds
Moves   == Db!MoveIds
Ends    == 0 .. MaxSession + 1
NotOpen == Db!NotOpen

\* The ends of the range of sessions, as a new handle reads them.
H == Db!OrElse(head, 0)
T == Db!OrElse(tail, 0)

-----------------------------------------------------------------------------
(* The invariant *)

Types ==
  /\ head \in Ends \cup {Missing} /\ tail \in Ends \cup {Missing}
  /\ cell \in [Ids -> [Moves -> States \cup {Missing}]]
  /\ lastMove \in [Ids -> 0 .. MaxMove \cup {Missing}]
  /\ gameOf \in [Ids -> Games \cup {Missing}]
  /\ lastSess \in [Games -> Ids \cup {Missing}]

\* Nothing is stored from the head up, a deleted session has neither game nor
\* cursor, and any other has both, and a state at the cursor.
Fresh(s) == lastMove[s] = Missing /\ gameOf[s] = Missing /\ \A m \in Moves : cell[s][m] = Missing
Gone(s)  == lastMove[s] = Missing /\ gameOf[s] = Missing /\ cell[s][0] = Missing
Whole(s) == gameOf[s] # Missing /\ lastMove[s] # Missing /\ cell[s][lastMove[s]] # Missing
Sessions ==
  /\ T <= H
  /\ \A s \in Ids : /\ s >= H => Fresh(s)
                    /\ s < T => Gone(s)
                    /\ T <= s /\ s < H => Whole(s)

\* A game that has a state stored has a last session, which is its own unless it is
\* the first or was deleted.
Cells ==
  \A s \in Ids, m \in Moves :
    cell[s][m] # Missing => m <= MaxMove /\ lastSess[cell[s][m][1]] # Missing
Lasts ==
  \A g \in Games : lastSess[g] # Missing =>
    lastSess[g] < H /\ (lastSess[g] = 0 \/ gameOf[lastSess[g]] \in {g, Missing})

Store == Types /\ Sessions /\ Cells /\ Lasts /\ OneGamePerLaterSession

ScreenTypes ==
  /\ cache \in [Handles -> [head : Ends, tail : Ends] \cup {NotOpen}]
  /\ shown \in Games \cup {Select, Delete, Missing}
  /\ board \in Boards /\ session \in Ends \cup {Missing}
  /\ ready \in BOOLEAN /\ given \in BOOLEAN

\* A handle is not behind the store, but that of the page while sessions are deleted,
\* and there is one only when a game runs.
HandlesAgree ==
  /\ shown \in Games => cache[browser] = NotOpen
  /\ shown # Missing => cache[app] # NotOpen
  /\ shown = Select => cache[browser] # NotOpen
  /\ cache[app] # NotOpen => cache[app].head = H /\ (shown # Delete => cache[app].tail = T)
  /\ cache[browser] # NotOpen => cache[browser].head = H /\ cache[browser].tail = T

\* A game that runs saves under its own name and into its own session, into the
\* first, or into one that is not begun yet.
Plays ==
  ready =>
    /\ shown \in Games /\ gameId = shown
    /\ session \in {Missing, 0, H} \/ (session \in Ids /\ gameOf[session] = gameId)
    /\ gameId \in {"chess", "checkers"} => session # Missing

\* A board that was not handed over is a new one, and a reload comes to a new one
\* again, or that of the session that a reload comes back to.
Unsaved(g) ==
  /\ session \in {Missing, H} /\ board = New
  /\ lastSess[g] = Missing \/ (g # "checkers" /\ lastSess[g] < T)
Saved(g) ==
  /\ session \in Ids /\ lastSess[g] = session /\ T <= session /\ session < H
  /\ \E m \in Moves : cell[session][m] # Missing /\ cell[session][m][1] = g
Reloads ==
  \A g \in {"chess", "checkers", "free_cell"} \cap Games :
    Running(g) /\ ~given => Unsaved(g) \/ Saved(g)

Screen == ScreenTypes /\ HandlesAgree /\ Plays /\ Reloads /\ ScreenIsCursor

IInv == Store /\ Screen

-----------------------------------------------------------------------------
(* Ranges *)

\* The ranges of ids, moves and ends, and that the special values are not among them.
LEMMA Ranges ==
  /\ Ids = 0 .. MaxSession /\ Moves = 0 .. Wrap - 1 /\ Handles = {app, browser} /\ app # browser
  /\ MaxSession \in Nat /\ MaxMove \in Nat /\ Wrap \in Nat /\ MaxMove + 1 < Wrap
  /\ \A m \in 0 .. MaxMove : m \in Moves /\ m # Missing /\ m < Wrap \div 2 /\ m \in Nat
  /\ \A s \in Ends : s # Missing /\ s \in Nat /\ (s # MaxSession + 1 => s \in Ids)
  /\ \A s \in Ids : s # Missing /\ s \in Nat /\ s \in Ends /\ s + 1 \in Ends /\ s < MaxSession + 1
  /\ 0 \in Ids /\ 0 \in Moves /\ 0 \in Ends
  /\ Missing \notin Games /\ Missing \notin States /\ Missing # Select /\ Missing # Delete
  /\ Select \notin Games /\ Delete \notin Games /\ Select # Delete
  /\ \A x \in States : x[1] \in Games /\ x[2] \in Boards /\ x # Missing
  /\ \A g \in Games : g # Missing /\ \A b \in Boards :
       <<g, b>> \in States /\ <<g, b>>[1] = g /\ <<g, b>>[2] = b
  /\ NotOpen = [head |-> Missing, tail |-> Missing]
<1>1. /\ Ids = 0 .. MaxSession /\ Moves = 0 .. Wrap - 1 /\ Handles = {app, browser} /\ app # browser
      /\ NotOpen = [head |-> Missing, tail |-> Missing]
  BY DEF Ids, Moves, Db!SessionIds, Db!MoveIds, Handles, app, browser, NotOpen, Db!NotOpen
<1>2. MaxSession \in Nat /\ MaxMove \in Nat /\ Wrap \in Nat /\ MaxMove + 1 < Wrap
  BY Parameters
<1>3. \A m \in 0 .. MaxMove : m \in Moves /\ m # Missing /\ m < Wrap \div 2 /\ m \in Nat
  BY <1>1, Parameters
<1>4. \A s \in Ends : s # Missing /\ s \in Nat /\ (s # MaxSession + 1 => s \in Ids)
  BY <1>1, Parameters DEF Ends
<1>5. \A s \in Ids : s # Missing /\ s \in Nat /\ s \in Ends /\ s + 1 \in Ends /\ s < MaxSession + 1
  BY <1>1, Parameters DEF Ends
<1>6. 0 \in Ids /\ 0 \in Moves /\ 0 \in Ends
  BY <1>1, Parameters DEF Ends
<1>7. Missing \notin Games /\ Missing \notin States /\ Missing # Select /\ Missing # Delete
  BY Parameters DEF States
<1>8. Select \notin Games /\ Delete \notin Games /\ Select # Delete
  BY Parameters DEF Select, Delete
<1>9. \A x \in States : x[1] \in Games /\ x[2] \in Boards /\ x # Missing
  BY <1>7 DEF States
<1>10. \A g \in Games : g # Missing /\ \A b \in Boards :
       <<g, b>> \in States /\ <<g, b>>[1] = g /\ <<g, b>>[2] = b
  BY <1>7 DEF States
<1>11. QED
  BY <1>1, <1>2, <1>3, <1>4, <1>5, <1>6, <1>7, <1>8, <1>9, <1>10

\* What the types say of the ends, before a step and after it.
EndsFit == H \in Ends /\ T \in Ends /\ H \in Nat /\ T \in Nat /\ H # Missing /\ T # Missing

\* The ends that a new handle reads are in their range.
LEMMA EndsTyped == Types => EndsFit
BY Ranges DEF EndsFit, Types, H, T, Db!OrElse

\* The same after a step.
LEMMA EndsTypedNext == Types' => EndsFit'
BY EndsTyped, PTL

\* There is a state at the cursor of the sessions between the ends, and of no others.
KeptHave ==
  \A s :
    /\ \A d : Has(s, d) => s \in Ids /\ T <= s /\ s < H
    /\ s \in Ids /\ T <= s /\ s < H =>
         /\ Has(s, 0) /\ At(s, 0) = cell[s][lastMove[s]] /\ At(s, 0) \in States
         /\ lastMove[s] \in 0 .. MaxMove /\ gameOf[s] \in Games

\* What the store says of whole sessions is what has_saved_state_offset and the loads see.
LEMMA HasIsKept == Store => KeptHave
<1> SUFFICES ASSUME Store, NEW s
             PROVE  /\ \A d : Has(s, d) => s \in Ids /\ T <= s /\ s < H
                    /\ s \in Ids /\ T <= s /\ s < H =>
                         /\ Has(s, 0) /\ At(s, 0) = cell[s][lastMove[s]] /\ At(s, 0) \in States
                         /\ lastMove[s] \in 0 .. MaxMove /\ gameOf[s] \in Games
  BY DEF KeptHave
<1>1. ASSUME NEW d, Has(s, d) PROVE s \in Ids /\ T <= s /\ s < H
  <2>1. s \in Ids /\ lastMove[s] # Missing
    BY <1>1 DEF Has, Db!has_saved_state_offset, Ids
  <2>2. ~(s >= H) /\ ~(s < T)
    BY <2>1 DEF Store, Sessions, Fresh, Gone
  <2>3. QED
    BY <2>1, <2>2, EndsTyped, Ranges DEF Store, EndsFit
<1>2. ASSUME s \in Ids, T <= s, s < H
      PROVE  /\ Has(s, 0) /\ At(s, 0) = cell[s][lastMove[s]] /\ At(s, 0) \in States
             /\ lastMove[s] \in 0 .. MaxMove /\ gameOf[s] \in Games
  <2>1. gameOf[s] # Missing /\ lastMove[s] # Missing /\ cell[s][lastMove[s]] # Missing
    BY <1>2 DEF Store, Sessions, Whole
  <2>2. lastMove[s] \in 0 .. MaxMove /\ gameOf[s] \in Games
    BY <1>2, <2>1 DEF Store, Types
  <2>3. lastMove[s] \in Moves
    BY <2>2, Ranges
  <2>4. Db!Shift(lastMove[s], 0) = lastMove[s]
    <3>1. PICK q \in 0 .. MaxMove : q = lastMove[s]
      BY <2>2
    <3>2. q \in Nat /\ Wrap \in Nat /\ q < Wrap
      BY <3>1, Ranges
    <3>3. (q + 0) % Wrap = q
      BY <3>2
    <3>4. QED
      BY <3>1, <3>3 DEF Db!Shift
  <2>5. cell[s][lastMove[s]] \in States
    BY <1>2, <2>1, <2>3 DEF Store, Types
  <2>6. QED
    BY <1>2, <2>1, <2>2, <2>4, <2>5 DEF Has, At, Db!has_saved_state_offset, Ids
<1>3. QED
  BY <1>1, <1>2

\* The same after a step.
LEMMA HasIsKeptNext == Store' => KeptHave'
BY HasIsKept, PTL

-----------------------------------------------------------------------------
(* What the operations do to the store *)

\* A new handle writes the ends it read.
LEMMA StoreSame ==
  ASSUME Store, UNCHANGED <<cell, lastMove, gameOf, lastSess>>, H' = H, T' = T,
         head' \in Ends \cup {Missing}, tail' \in Ends \cup {Missing}
  PROVE  Store'
<1>1. Types'
  BY DEF Store, Types
<1>2. Sessions'
  BY DEF Store, Sessions, Fresh, Gone, Whole
<1>3. Cells' /\ Lasts' /\ OneGamePerLaterSession'
  BY DEF Store, Cells, Lasts, OneGamePerLaterSession, OneGame
<1>4. QED
  BY <1>1, <1>2, <1>3 DEF Store

\* States of game g are stored in session s, up to the cursor n that is set behind.
LEMMA StatesStored ==
  ASSUME Store, NEW s \in Ids, NEW g \in Games, NEW n \in 0 .. MaxMove,
         s = H \/ (T <= s /\ s < H), s = 0 \/ s = H \/ gameOf[s] = g,
         tail' = tail, head' = IF s = H THEN s + 1 ELSE head,
         lastMove' = [lastMove EXCEPT ![s] = n],
         gameOf' = IF s = H THEN [gameOf EXCEPT ![s] = g] ELSE gameOf,
         lastSess' = [lastSess EXCEPT ![g] = s],
         cell' \in [Ids -> [Moves -> States \cup {Missing}]],
         \A t \in Ids \ {s} : cell'[t] = cell[t], cell'[s][n] # Missing,
         \A m \in Moves : \/ cell'[s][m] = cell[s][m]
                          \/ m <= MaxMove /\ cell'[s][m] \in States /\ cell'[s][m][1] = g
  PROVE  /\ Store' /\ T' = T /\ H' = (IF s = H THEN s + 1 ELSE H)
         /\ T <= s /\ s < H' /\ H <= H'
<1>1. PICK h \in Ends, l \in Ends : /\ h = H /\ l = T /\ l <= h /\ h \in Nat /\ l \in Nat
  BY EndsTyped DEF Store, Sessions, EndsFit
<1>2. PICK j : j = (IF s = h THEN s + 1 ELSE h)
  OBVIOUS
<1>3. s \in Nat /\ s + 1 \in Ends /\ s # Missing /\ s + 1 # Missing /\ n # Missing /\ n \in Moves
  BY Ranges
<1>4. j \in Ends /\ j \in Nat /\ h <= j /\ l <= s /\ s < j /\ \A t \in Ids : t # s => (t < j <=> t < h)
  BY <1>1, <1>2, <1>3, Ranges
<1>5. T' = l /\ H' = j
  <2>1. T' = T
    BY DEF T
  <2>2. H' = j
    BY <1>1, <1>2, <1>3 DEF H, Db!OrElse
  <2>3. QED
    BY <1>1, <2>1, <2>2
<1>6. Types'
  <2>1. head' \in Ends \cup {Missing} /\ tail' \in Ends \cup {Missing}
    BY <1>3 DEF Store, Types
  <2>2. lastMove' \in [Ids -> 0 .. MaxMove \cup {Missing}] /\ lastSess' \in [Games -> Ids \cup {Missing}]
    BY DEF Store, Types
  <2>3. gameOf' \in [Ids -> Games \cup {Missing}]
    BY DEF Store, Types
  <2>4. QED
    BY <2>1, <2>2, <2>3 DEF Types
<1>7. /\ lastMove'[s] = n /\ lastSess'[g] = s
      /\ \A t \in Ids : t # s => lastMove'[t] = lastMove[t] /\ gameOf'[t] = gameOf[t]
      /\ \A o \in Games : o # g => lastSess'[o] = lastSess[o]
      /\ s = h => gameOf'[s] = g
      /\ s # h => gameOf'[s] = gameOf[s]
  BY <1>1 DEF Store, Types
<1>8. gameOf'[s] # Missing /\ (s = 0 \/ gameOf'[s] = g)
  <2>1. CASE s = h
    BY <1>7, <2>1, Ranges
  <2>2. CASE s # h
    BY <1>1, <1>7, <2>2 DEF Store, Sessions, Whole
  <2>3. QED
    BY <2>1, <2>2
<1>9. Sessions'
  <2>1. ASSUME NEW t \in Ids
        PROVE  /\ t >= j => Fresh(t)'
               /\ t < l => Gone(t)'
               /\ l <= t /\ t < j => Whole(t)'
    <3>1. CASE t = s
      <4>1. Whole(t)'
        BY <1>3, <1>7, <1>8, <3>1 DEF Whole
      <4>2. QED
        BY <1>1, <1>3, <1>4, <3>1, <4>1
    <3>2. CASE t # s
      <4>1. cell'[t] = cell[t] /\ lastMove'[t] = lastMove[t] /\ gameOf'[t] = gameOf[t]
        BY <1>7, <3>2
      <4>2. (t >= j => t >= h) /\ (t < j => t < h)
        <5>1. t \in Nat /\ (t < j <=> t < h)
          BY <1>4, <3>2, Ranges
        <5>2. QED
          BY <1>1, <1>4, <5>1
      <4>3. QED
        BY <1>1, <4>1, <4>2 DEF Store, Sessions, Fresh, Gone, Whole
    <3>3. QED
      BY <3>1, <3>2
  <2>2. l <= j
    BY <1>1, <1>4
  <2>3. QED
    BY <1>5, <2>1, <2>2 DEF Sessions
<1>10. Cells'
  <2>1. ASSUME NEW t \in Ids, NEW m \in Moves, cell'[t][m] # Missing
        PROVE  m <= MaxMove /\ lastSess'[cell'[t][m][1]] # Missing
    <3>1. \A o \in Games : lastSess[o] # Missing => lastSess'[o] # Missing
      BY <1>3, <1>7
    <3>2. CASE cell'[t][m] = cell[t][m]
      <4>1. cell[t][m] \in States
        BY <2>1, <3>2 DEF Store, Types
      <4>2. cell[t][m][1] \in Games
        BY <4>1, Ranges
      <4>3. QED
        BY <2>1, <3>1, <3>2, <4>2 DEF Store, Cells
    <3>3. CASE cell'[t][m] # cell[t][m]
      <4>1. t = s /\ m <= MaxMove /\ cell'[t][m][1] = g
        BY <3>3
      <4>2. QED
        BY <1>3, <1>7, <4>1
    <3>4. QED
      BY <3>2, <3>3
  <2>2. QED
    BY <2>1 DEF Cells
<1>11. Lasts'
  <2>1. ASSUME NEW o \in Games, lastSess'[o] # Missing
        PROVE  lastSess'[o] < j /\ (lastSess'[o] = 0 \/ gameOf'[lastSess'[o]] \in {o, Missing})
    <3>1. CASE o = g
      BY <1>4, <1>7, <1>8, <3>1
    <3>2. CASE o # g
      <4>1. PICK t \in Ids : t = lastSess[o] /\ lastSess'[o] = t
        BY <1>7, <2>1, <3>2 DEF Store, Types
      <4>2. t < h /\ (t = 0 \/ gameOf[t] \in {o, Missing})
        BY <1>1, <2>1, <4>1 DEF Store, Lasts
      <4>3. gameOf'[t] = gameOf[t]
        BY <1>1, <1>3, <1>7, <4>2
      <4>4. t < j
        BY <1>1, <1>4, <4>2, Ranges
      <4>5. QED
        BY <4>1, <4>2, <4>3, <4>4
    <3>3. QED
      BY <3>1, <3>2
  <2>2. QED
    BY <1>5, <2>1 DEF Lasts
<1>12. OneGamePerLaterSession'
  <2>1. ASSUME NEW t \in Ids \ {0}, NEW m \in Moves, gameOf'[t] # Missing, cell'[t][m] # Missing
        PROVE  cell'[t][m][1] = gameOf'[t]
    <3>1. CASE t # s
      <4>1. cell'[t] = cell[t] /\ gameOf'[t] = gameOf[t]
        BY <1>7, <3>1
      <4>2. QED
        BY <2>1, <4>1 DEF Store, OneGamePerLaterSession, OneGame, Readable, Ids, Moves
    <3>2. CASE t = s
      <4>1. gameOf'[s] = g
        BY <1>8, <2>1, <3>2
      <4>2. CASE cell'[s][m] = cell[s][m]
        <5>1. s # h
          <6>1. ~(s >= h)
            BY <1>1, <2>1, <3>2, <4>2 DEF Store, Sessions, Fresh
          <6>2. QED
            BY <1>3, <6>1
        <5>2. gameOf[s] = g
          BY <1>7, <4>1, <5>1
        <5>3. QED
          BY <2>1, <3>2, <4>1, <4>2, <5>2, Ranges DEF Store, OneGamePerLaterSession, OneGame, Readable, Ids, Moves
      <4>3. CASE cell'[s][m] # cell[s][m]
        BY <3>2, <4>1, <4>3
      <4>4. QED
        BY <4>2, <4>3
    <3>3. QED
      BY <3>1, <3>2
  <2>2. QED
    BY <2>1 DEF OneGamePerLaterSession, OneGame, Readable, Ids, Moves
<1>13. QED
  BY <1>1, <1>2, <1>4, <1>5, <1>6, <1>9, <1>10, <1>11, <1>12 DEF Store

\* A save goes to a session that is there, or begins the next one.
LEMMA SaveStores ==
  ASSUME Store, cache \in [Handles -> [head : Ends, tail : Ends] \cup {NotOpen}],
         NEW s \in Ends, NEW g \in Games, NEW b \in Boards,
         cache[app] # NotOpen, cache[app].head = H, cache[app].tail = T,
         s = 0 \/ s = H \/ gameOf[s] = g, Db!save_state(app, g, s, <<g, b>>)
  PROVE  /\ s \in Ids /\ Store' /\ T' = T /\ H' = (IF s = H THEN s + 1 ELSE H) /\ H <= H'
         /\ T <= s /\ s < H' /\ lastSess'[g] = s
         /\ s = 0 \/ gameOf'[s] = g
         /\ cell'[s][lastMove'[s]] = <<g, b>> /\ lastMove'[s] \in Moves
         /\ cache' \in [Handles -> [head : Ends, tail : Ends] \cup {NotOpen}]
         /\ cache'[app] # NotOpen /\ cache'[app].head = H' /\ cache'[app].tail = T'
         /\ cache'[browser] = cache[browser]
<1>1. PICK h \in Ends, l \in Ends : /\ h = H /\ l = T /\ l <= h /\ h \in Nat /\ l \in Nat
                                    /\ cache[app].head = h /\ cache[app].tail = l
  BY EndsTyped DEF Store, Sessions, EndsFit
<1>2. /\ s \in Ids /\ (s = h \/ (l <= s /\ s < h))
      /\ Db!Append(g, s, <<g, b>>) /\ tail' = tail
      /\ head' = (IF s = h THEN s + 1 ELSE head)
      /\ gameOf' = (IF s = h THEN [gameOf EXCEPT ![s] = g] ELSE gameOf)
      /\ cache' = (IF s = h THEN [cache EXCEPT ![app].head = s + 1] ELSE cache)
  <2>1. CASE Db!SaveExisting(app, g, s, <<g, b>>)
    <3>1. l <= s /\ s < h /\ UNCHANGED <<head, tail, gameOf, cache>> /\ Db!Append(g, s, <<g, b>>)
      BY <1>1, <2>1 DEF Db!SaveExisting
    <3>2. s # h /\ s # MaxSession + 1
      BY <1>1, <3>1, Ranges DEF Ends
    <3>3. QED
      BY <3>1, <3>2, Ranges
  <2>2. CASE s = cache[app].head /\ Db!SaveNew(app, g, <<g, b>>)
    BY <1>1, <2>2 DEF Db!SaveNew, Ids
  <2>3. QED
    BY <2>1, <2>2 DEF Db!save_state
<1>3. PICK n : n = Db!NextMove(s)
  OBVIOUS
<1>4. n \in 0 .. MaxMove
  <2>1. n <= MaxMove
    BY <1>2, <1>3 DEF Db!Append
  <2>2. PICK q \in -1 .. MaxMove : q = Db!OrElse(lastMove[s], -1)
    <3>1. -1 \in -1 .. MaxMove /\ \A m \in 0 .. MaxMove : m \in -1 .. MaxMove
      BY Ranges, SMTT(30)
    <3>2. CASE lastMove[s] = Missing
      BY <3>1, <3>2 DEF Db!OrElse
    <3>3. CASE lastMove[s] \in 0 .. MaxMove
      BY <3>1, <3>3, Ranges DEF Db!OrElse
    <3>4. QED
      BY <1>2, <3>2, <3>3 DEF Store, Types
  <2>3. n = (q + 1) % Wrap
    BY <1>3, <2>2 DEF Db!NextMove, Db!Shift
  <2>4. Wrap \in Nat /\ MaxMove \in Nat /\ Wrap > 0
    BY Ranges
  <2>5. n \in Nat
    BY <2>3, <2>4
  <2>6. QED
    BY <2>1, <2>4, <2>5
<1>5. /\ cell' = [cell EXCEPT ![s][n] = <<g, b>>] /\ lastMove' = [lastMove EXCEPT ![s] = n]
      /\ lastSess' = [lastSess EXCEPT ![g] = s]
  BY <1>2, <1>3 DEF Db!Append
<1>6. n \in Moves /\ n <= MaxMove /\ <<g, b>> \in States /\ <<g, b>>[1] = g /\ <<g, b>> # Missing
  BY <1>4, Ranges
<1>7. /\ cell' \in [Ids -> [Moves -> States \cup {Missing}]]
      /\ \A t \in Ids \ {s} : cell'[t] = cell[t]
      /\ cell'[s][n] = <<g, b>>
      /\ \A m \in Moves : m # n => cell'[s][m] = cell[s][m]
  <2>1. cell \in [Ids -> [Moves -> States \cup {Missing}]]
    BY DEF Store, Types
  <2>2. QED
    BY <1>2, <1>5, <1>6, <2>1
<1>8. /\ Store' /\ T' = T /\ H' = (IF s = H THEN s + 1 ELSE H)
      /\ T <= s /\ s < H' /\ H <= H'
  <2>1. \A m \in Moves : \/ cell'[s][m] = cell[s][m]
                         \/ m <= MaxMove /\ cell'[s][m] \in States /\ cell'[s][m][1] = g
    BY <1>6, <1>7
  <2>2. s = H \/ (T <= s /\ s < H)
    BY <1>1, <1>2
  <2>3. head' = IF s = H THEN s + 1 ELSE head
    BY <1>1, <1>2
  <2>4. gameOf' = IF s = H THEN [gameOf EXCEPT ![s] = g] ELSE gameOf
    BY <1>1, <1>2
  <2>5. cell'[s][n] # Missing
    BY <1>6, <1>7
  <2>6. QED
    BY <1>2, <1>4, <1>5, <1>7, <2>1, <2>2, <2>3, <2>4, <2>5, StatesStored
<1>9. s = 0 \/ gameOf'[s] = g
  BY <1>1, <1>2 DEF Store, Types
<1>10. lastSess'[g] = s /\ lastMove'[s] = n
  BY <1>2, <1>5 DEF Store, Types
<1>11. /\ cache' \in [Handles -> [head : Ends, tail : Ends] \cup {NotOpen}]
       /\ cache'[app] # NotOpen /\ cache'[app].head = H' /\ cache'[app].tail = T'
       /\ cache'[browser] = cache[browser]
  <2>1. app \in Handles /\ browser \in Handles /\ app # browser
    BY Ranges
  <2>2. cache[app] \in [head : Ends, tail : Ends]
    BY <2>1
  <2>3. CASE s # h
    BY <1>1, <1>2, <1>8, <2>3
  <2>4. CASE s = h
    <3>1. cache' = [cache EXCEPT ![app] = [cache[app] EXCEPT !.head = s + 1]]
      BY <1>2, <2>4
    <3>2. PICK f : f = [cache[app] EXCEPT !.head = s + 1]
      OBVIOUS
    <3>3. s + 1 \in Ends /\ s + 1 # Missing
      BY <1>2, Ranges
    <3>4. f \in [head : Ends, tail : Ends] /\ f.head = s + 1 /\ f.tail = l /\ f # NotOpen
      BY <1>1, <2>2, <3>2, <3>3, Ranges
    <3>5. cache'[app] = f /\ cache'[browser] = cache[browser]
          /\ cache' \in [Handles -> [head : Ends, tail : Ends] \cup {NotOpen}]
      BY <2>1, <3>1, <3>2, <3>4
    <3>6. QED
      BY <1>1, <1>8, <2>4, <3>4, <3>5
  <2>5. QED
    BY <2>3, <2>4
<1>12. QED
  BY <1>2, <1>6, <1>7, <1>8, <1>9, <1>10, <1>11

\* Undo and Redo only go where a state is stored.
LEMMA UndoKeepsStore ==
  ASSUME Store, NEW s, NEW d \in {-1, 1}, Has(s, d), Db!adjust_saved_state_offset(s, d)
  PROVE  Store' /\ H' = H /\ T' = T /\ At(s, d) \in States /\ At(s, 0)' = At(s, d)
<1>1. s \in Ids /\ T <= s /\ s < H
  BY HasIsKept DEF KeptHave
<1>2. PICK q \in 0 .. MaxMove : q = lastMove[s]
  BY <1>1, HasIsKept DEF KeptHave
<1>3. PICK n : n = Db!Shift(q, d)
  OBVIOUS
<1>4. n \in Moves
  <2>1. n = (q + d) % Wrap /\ d \in Int /\ q \in Int
    BY <1>3 DEF Db!Shift
  <2>2. Wrap \in Nat /\ MaxMove \in Nat /\ Wrap > 0
    BY Ranges
  <2>3. n \in 0 .. Wrap - 1
    BY <2>1, <2>2
  <2>4. QED
    BY <2>3, Ranges
<1>5. cell[s][n] # Missing /\ At(s, d) = cell[s][n]
  BY <1>2, <1>3 DEF Has, At, Db!has_saved_state_offset
<1>6. n \in 0 .. MaxMove /\ cell[s][n] \in States
  <2>1. n <= MaxMove
    BY <1>1, <1>4, <1>5 DEF Store, Cells
  <2>2. n \in Nat /\ MaxMove \in Nat
    BY <1>4, Ranges
  <2>3. cell[s][n] \in States
    BY <1>1, <1>4, <1>5 DEF Store, Types
  <2>4. QED
    BY <2>1, <2>2, <2>3
<1>7. /\ lastMove' = [lastMove EXCEPT ![s] = n]
      /\ UNCHANGED <<head, tail, cell, gameOf, lastSess>>
  BY <1>2, <1>3 DEF Db!adjust_saved_state_offset
<1>8. lastMove'[s] = n /\ \A t \in Ids : t # s => lastMove'[t] = lastMove[t]
  BY <1>1, <1>7 DEF Store, Types
<1>9. H' = H /\ T' = T
  BY <1>7 DEF H, T
<1>10. Types'
  BY <1>6, <1>7 DEF Store, Types
<1>11. Sessions'
  <2>1. ASSUME NEW t \in Ids
        PROVE  /\ t >= H => Fresh(t)'
               /\ t < T => Gone(t)'
               /\ T <= t /\ t < H => Whole(t)'
    <3>1. CASE t = s
      <4>1. Whole(s)'
        <5>1. gameOf[s] # Missing
          BY <1>1 DEF Store, Sessions, Whole
        <5>2. QED
          BY <1>5, <1>6, <1>7, <1>8, <5>1, Ranges DEF Whole
      <4>2. ~(t >= H) /\ ~(t < T)
        BY <1>1, <3>1, EndsTyped, Ranges DEF Store, EndsFit
      <4>3. QED
        BY <3>1, <4>1, <4>2
    <3>2. CASE t # s
      BY <1>7, <1>8, <3>2 DEF Store, Sessions, Fresh, Gone, Whole
    <3>3. QED
      BY <3>1, <3>2
  <2>2. QED
    BY <1>9, <2>1 DEF Store, Sessions
<1>12. Cells' /\ Lasts' /\ OneGamePerLaterSession'
  BY <1>7, <1>9 DEF Store, Cells, Lasts, OneGamePerLaterSession, OneGame
<1>13. Store'
  BY <1>10, <1>11, <1>12 DEF Store
<1>14. At(s, 0)' = cell'[s][lastMove'[s]]
  BY <1>1, <1>9, <1>13, HasIsKeptNext DEF KeptHave
<1>15. QED
  BY <1>5, <1>6, <1>7, <1>8, <1>9, <1>13, <1>14

\* The session at the tail goes with its game and cursor, and with its first state,
\* because the loop of delete_session starts from it.
LEMMA DeleteKeepsStore ==
  ASSUME Store, cache \in [Handles -> [head : Ends, tail : Ends] \cup {NotOpen}],
         cache[browser].head = H, cache[browser].tail = T, Db!delete_session(browser)
  PROVE  /\ Store' /\ H' = H /\ T' = T + 1
         /\ cache' \in [Handles -> [head : Ends, tail : Ends] \cup {NotOpen}]
         /\ cache'[app] = cache[app]
         /\ cache'[browser] # NotOpen /\ cache'[browser].head = H' /\ cache'[browser].tail = T'
<1>1. PICK h \in Ends, s \in Ends : /\ h = H /\ s = T /\ s <= h /\ h \in Nat /\ s \in Nat
                                    /\ cache[browser].head = h /\ cache[browser].tail = s
  BY EndsTyped DEF Store, Sessions, EndsFit
<1>2. PICK D : D = Db!DeletedMoves(s)
  OBVIOUS
<1>3. /\ s # h /\ s \in Ids
      /\ cell' = [cell EXCEPT ![s] = [m \in Moves |-> IF m \in D THEN Missing ELSE cell[s][m]]]
      /\ lastMove' = [lastMove EXCEPT ![s] = Missing]
      /\ gameOf' = [gameOf EXCEPT ![s] = Missing]
      /\ cache' = [cache EXCEPT ![browser].tail = s + 1]
      /\ tail' = s + 1 /\ UNCHANGED <<head, lastSess>> /\ cache[browser] # NotOpen
  <2>1. s \in Ids
    BY <1>1 DEF Db!delete_session, Ids
  <2>2. cell' = [cell EXCEPT ![s] = [m \in Moves |-> IF m \in D THEN Missing ELSE cell[s][m]]]
    BY <1>1, <1>2, <2>1 DEF Db!delete_session, Moves, Store, Types
  <2>3. QED
    BY <1>1, <2>1, <2>2 DEF Db!delete_session, Db!IsOpen, NotOpen
<1>4. s < h /\ s + 1 \in Ends /\ s + 1 # Missing
  BY <1>1, <1>3, Ranges, SMTT(30)
<1>5. H' = h /\ T' = s + 1
  BY <1>1, <1>3, <1>4 DEF H, T, Db!OrElse
<1>6. 0 \in D
  <2>1. PICK q \in 0 .. MaxMove : q = lastMove[s]
    BY <1>1, <1>3, <1>4, HasIsKept DEF KeptHave
  <2>2. q < Wrap \div 2 /\ q # Missing
    BY <2>1, Ranges
  <2>3. D = 0 .. q
    BY <1>2, <2>1, <2>2 DEF Db!DeletedMoves, Db!OrElse
  <2>4. QED
    BY <2>1, <2>3
<1>7. /\ gameOf'[s] = Missing /\ lastMove'[s] = Missing /\ cell'[s][0] = Missing
      /\ \A t \in Ids : t # s => cell'[t] = cell[t] /\ lastMove'[t] = lastMove[t] /\ gameOf'[t] = gameOf[t]
      /\ \A m \in Moves : cell'[s][m] \in {cell[s][m], Missing}
  BY <1>3, <1>6, Ranges DEF Store, Types
<1>8. Types'
  <2>1. cell \in [Ids -> [Moves -> States \cup {Missing}]]
    BY DEF Store, Types
  <2>2. [m \in Moves |-> IF m \in D THEN Missing ELSE cell[s][m]] \in [Moves -> States \cup {Missing}]
    BY <1>3, <2>1
  <2>3. cell' \in [Ids -> [Moves -> States \cup {Missing}]]
    BY <1>3, <2>1, <2>2
  <2>4. QED
    BY <1>3, <1>4, <2>3 DEF Store, Types
<1>9. Sessions'
  <2>1. ASSUME NEW t \in Ids
        PROVE  /\ t >= h => Fresh(t)'
               /\ t < s + 1 => Gone(t)'
               /\ s + 1 <= t /\ t < h => Whole(t)'
    <3>1. CASE t = s
      BY <1>1, <1>4, <1>7, <3>1 DEF Gone
    <3>2. CASE t # s
      <4>1. cell'[t] = cell[t] /\ lastMove'[t] = lastMove[t] /\ gameOf'[t] = gameOf[t]
        BY <1>7, <3>2
      <4>2. (t < s + 1 => t < s) /\ (s + 1 <= t => s <= t)
        <5>1. t \in Nat
          BY Ranges
        <5>2. QED
          BY <1>1, <3>2, <5>1
      <4>3. QED
        BY <1>1, <4>1, <4>2 DEF Store, Sessions, Fresh, Gone, Whole
    <3>3. QED
      BY <3>1, <3>2
  <2>2. s + 1 <= h
    BY <1>1, <1>4
  <2>3. QED
    BY <1>5, <2>1, <2>2 DEF Sessions
<1>10. Cells'
  <2>1. ASSUME NEW t \in Ids, NEW m \in Moves, cell'[t][m] # Missing
        PROVE  m <= MaxMove /\ lastSess'[cell'[t][m][1]] # Missing
    <3>1. cell'[t][m] = cell[t][m]
      BY <1>7, <2>1
    <3>2. QED
      BY <1>3, <2>1, <3>1 DEF Store, Cells
  <2>2. QED
    BY <2>1 DEF Cells
<1>11. Lasts'
  <2>1. ASSUME NEW g \in Games, lastSess'[g] # Missing
        PROVE  lastSess'[g] < h /\ (lastSess'[g] = 0 \/ gameOf'[lastSess'[g]] \in {g, Missing})
    <3>1. PICK t \in Ids : t = lastSess[g] /\ lastSess'[g] = t
      BY <1>3, <2>1 DEF Store, Types
    <3>2. t < h /\ (t = 0 \/ gameOf[t] \in {g, Missing})
      BY <1>1, <2>1, <3>1, Ranges DEF Store, Lasts
    <3>3. QED
      BY <1>7, <3>1, <3>2
  <2>2. QED
    BY <1>5, <2>1 DEF Lasts
<1>12. OneGamePerLaterSession'
  <2>1. ASSUME NEW t \in Ids \ {0}, NEW m \in Moves, gameOf'[t] # Missing, cell'[t][m] # Missing
        PROVE  cell'[t][m][1] = gameOf'[t]
    <3>1. t # s /\ cell'[t] = cell[t] /\ gameOf'[t] = gameOf[t]
      BY <1>7, <2>1
    <3>2. QED
      BY <2>1, <3>1 DEF Store, OneGamePerLaterSession, OneGame, Readable, Ids, Moves
  <2>2. QED
    BY <2>1 DEF OneGamePerLaterSession, OneGame, Readable, Ids, Moves
<1>13. /\ cache' \in [Handles -> [head : Ends, tail : Ends] \cup {NotOpen}]
       /\ cache'[app] = cache[app]
       /\ cache'[browser] # NotOpen /\ cache'[browser].head = h /\ cache'[browser].tail = s + 1
  <2>1. app \in Handles /\ browser \in Handles /\ app # browser
    BY Ranges
  <2>2. cache[browser] \in [head : Ends, tail : Ends]
    BY <1>3, <2>1
  <2>3. cache' = [cache EXCEPT ![browser] = [cache[browser] EXCEPT !.tail = s + 1]]
    BY <1>3
  <2>4. PICK f : f = [cache[browser] EXCEPT !.tail = s + 1]
    OBVIOUS
  <2>5. f \in [head : Ends, tail : Ends] /\ f.head = h /\ f.tail = s + 1 /\ f # NotOpen
    BY <1>1, <1>4, <2>2, <2>4, Ranges
  <2>6. QED
    BY <2>1, <2>3, <2>4, <2>5
<1>14. QED
  BY <1>1, <1>5, <1>8, <1>9, <1>10, <1>11, <1>12, <1>13 DEF Store

\* init_game_api: every handle it makes agrees with the store.
LEMMA InitApi ==
  ASSUME Store, NEW hs, init_game_api(hs)
  PROVE  /\ Store' /\ H' = H /\ T' = T
         /\ UNCHANGED <<cell, lastMove, gameOf, lastSess>>
         /\ cache' \in [Handles -> [head : Ends, tail : Ends] \cup {NotOpen}]
         /\ \A h \in Handles \cap hs :
              cache'[h] # NotOpen /\ cache'[h].head = H' /\ cache'[h].tail = T'
         /\ \A h \in Handles \ hs : cache'[h] = NotOpen
<1>1. PICK r : r = [head |-> H, tail |-> T]
  OBVIOUS
<1>2. /\ cache' = [h \in Handles |-> IF h \in hs THEN r ELSE NotOpen]
      /\ head' = H /\ tail' = T
      /\ UNCHANGED <<cell, lastMove, gameOf, lastSess>>
  BY <1>1 DEF init_game_api, H, T, NotOpen
<1>3. H \in Ends /\ T \in Ends /\ H # Missing /\ T # Missing
  BY EndsTyped DEF Store, EndsFit
<1>4. H' = H /\ T' = T
  <2>1. H' = Db!OrElse(H, 0) /\ T' = Db!OrElse(T, 0)
    BY <1>2 DEF H, T, Db!OrElse
  <2>2. QED
    BY <1>3, <2>1 DEF Db!OrElse
<1>5. Store'
  BY <1>2, <1>3, <1>4, StoreSame
<1>6. r \in [head : Ends, tail : Ends] /\ r.head = H /\ r.tail = T /\ r # NotOpen
  BY <1>1, <1>3, Ranges
<1>7. QED
  BY <1>2, <1>4, <1>5, <1>6

\* A page that starts a game has one handle.
LEMMA PageOpens ==
  ASSUME Store, init_game_api({app})
  PROVE  /\ Store' /\ H' = H /\ T' = T
         /\ UNCHANGED <<cell, lastMove, gameOf, lastSess>>
         /\ cache' \in [Handles -> [head : Ends, tail : Ends] \cup {NotOpen}]
         /\ cache'[app] # NotOpen /\ cache'[app].head = H' /\ cache'[app].tail = T'
         /\ cache'[browser] = NotOpen
<1>1. app \in Handles \cap {app} /\ browser \in Handles \ {app}
  BY Ranges
<1>2. QED
  BY <1>1, InitApi

-----------------------------------------------------------------------------
(* What the games do to the screen *)

\* What the invariant says of a game that runs.
LEMMA Playing ==
  ASSUME IInv, NEW g \in Games, Running(g)
  PROVE  /\ shown = g /\ gameId = g
         /\ cache[app] # NotOpen /\ cache[app].head = H /\ cache[app].tail = T
         /\ cache[browser] = NotOpen
         /\ cache \in [Handles -> [head : Ends, tail : Ends] \cup {NotOpen}]
         /\ \/ session \in {Missing, 0, H}
            \/ session \in Ids /\ gameOf[session] = g /\ T <= session /\ session < H
         /\ g \in {"chess", "checkers"} => session # Missing
         /\ H \in Ends /\ T \in Ends /\ H # Missing /\ T <= H
<1>1. shown = g /\ gameId = g /\ ready
  BY DEF IInv, Screen, Plays, Running
<1>2. shown # Missing /\ shown # Delete
  BY <1>1, Ranges
<1>3. session \in {Missing, 0, H} \/ (session \in Ids /\ gameOf[session] = g)
  BY <1>1 DEF IInv, Screen, Plays
<1>4. ASSUME session \in Ids, gameOf[session] = g
      PROVE  T <= session /\ session < H
  <2>1. g # Missing
    BY Ranges
  <2>2. ~(session >= H) /\ ~(session < T)
    BY <1>4, <2>1 DEF IInv, Store, Sessions, Fresh, Gone
  <2>3. QED
    BY <1>4, <2>2, EndsTyped, Ranges DEF IInv, Store, EndsFit
<1>5. H \in Ends /\ T \in Ends /\ H # Missing /\ T <= H
  BY EndsTyped DEF IInv, Store, EndsFit, Sessions
<1>6. QED
  BY <1>1, <1>2, <1>3, <1>4, <1>5 DEF IInv, Screen, ScreenTypes, HandlesAgree, Plays

\* The board that was saved is on the screen.
LEMMA SavedIsShown ==
  ASSUME IInv, NEW g \in Games, NEW b \in Boards, NEW s \in Ids, Running(g),
         Store', T' <= s, s < H', lastSess'[g] = s, s = 0 \/ gameOf'[s] = g,
         cell'[s][lastMove'[s]] = <<g, b>>, lastMove'[s] \in Moves,
         cache' \in [Handles -> [head : Ends, tail : Ends] \cup {NotOpen}],
         cache'[app] # NotOpen, cache'[app].head = H', cache'[app].tail = T',
         cache'[browser] = cache[browser],
         session' = s \/ (session' = Missing /\ s = 0 /\ g \notin {"chess", "checkers", "free_cell"}),
         board' = b, given' \in BOOLEAN, UNCHANGED <<shown, gameId, ready>>
  PROVE  Screen'
<1>1. /\ shown' = g /\ gameId' = g /\ ready' /\ ready' \in BOOLEAN
      /\ cache'[browser] = NotOpen
  BY Playing DEF Running, IInv, Screen, ScreenTypes
<1>2. g # Missing /\ g # Select /\ g # Delete /\ s # Missing /\ s \in Ends
  BY Ranges
<1>3. ScreenTypes'
  BY <1>1, <1>2 DEF ScreenTypes
<1>4. HandlesAgree'
  BY <1>1, <1>2 DEF HandlesAgree
<1>5. Plays'
  BY <1>1, <1>2 DEF Plays
<1>6. Reloads'
  <2>1. ASSUME NEW o \in {"chess", "checkers", "free_cell"} \cap Games, Running(o)'
        PROVE  Saved(o)'
    <3>1. o = g /\ session' = s
      BY <1>1, <2>1 DEF Running
    <3>2. cell'[s][lastMove'[s]] # Missing /\ cell'[s][lastMove'[s]][1] = g
      BY Ranges
    <3>3. QED
      BY <3>1, <3>2 DEF Saved
  <2>2. QED
    BY <2>1 DEF Reloads
<1>7. ScreenIsCursor'
  <2>1. ToInt(session') = s
    BY <1>2 DEF ToInt
  <2>2. At(s, 0)' = <<g, b>>
    BY HasIsKeptNext DEF KeptHave
  <2>3. <<g, b>>[2] = b
    OBVIOUS
  <2>4. ASSUME NEW o \in SaveAll \cap Games, Running(o)'
        PROVE  board' = At(ToInt(session), 0)'[2]
    <3>1. At(ToInt(session), 0)' = At(s, 0)'
      BY <2>1 DEF At
    <3>2. QED
      BY <2>2, <2>3, <3>1
  <2>5. QED
    BY <2>4 DEF ScreenIsCursor
<1>8. QED
  BY <1>3, <1>4, <1>5, <1>6, <1>7 DEF Screen

\* A state of the game is saved to its session, to the first or to a new one.
LEMMA SaveIsShown ==
  ASSUME IInv, NEW g \in Games, NEW b \in Boards, NEW s \in Ends, Running(g),
         s = 0 \/ s = H \/ gameOf[s] = g, Db!save_state(app, gameId, s, <<g, b>>),
         session' = s \/ (session' = Missing /\ s = 0 /\ g \notin {"chess", "checkers", "free_cell"}),
         board' = b, given' \in BOOLEAN, UNCHANGED <<shown, gameId, ready>>
  PROVE  IInv'
<1>1. /\ Db!save_state(app, g, s, <<g, b>>)
      /\ cache[app] # NotOpen /\ cache[app].head = H /\ cache[app].tail = T
      /\ cache \in [Handles -> [head : Ends, tail : Ends] \cup {NotOpen}]
  BY Playing
<1>2. /\ s \in Ids /\ Store' /\ T' = T /\ T <= s /\ s < H' /\ lastSess'[g] = s
      /\ s = 0 \/ gameOf'[s] = g
      /\ cell'[s][lastMove'[s]] = <<g, b>> /\ lastMove'[s] \in Moves
      /\ cache' \in [Handles -> [head : Ends, tail : Ends] \cup {NotOpen}]
      /\ cache'[app] # NotOpen /\ cache'[app].head = H' /\ cache'[app].tail = T'
      /\ cache'[browser] = cache[browser]
  BY <1>1, SaveStores DEF IInv
<1>3. Screen'
  BY <1>2, SavedIsShown
<1>4. QED
  BY <1>2, <1>3 DEF IInv

\* A move, or a state that was received, is saved into a session that is the game's to save in.
LEMMA SaveKeeps ==
  ASSUME IInv, NEW g \in Games, NEW b \in Boards, Running(g), Save(b)
  PROVE  IInv'
<1>1. PICK s : s = SessionToSave
  OBVIOUS
<1>2. /\ save_state(s, <<g, b>>)
      /\ session' = IF g = "free_cell" THEN s ELSE session
      /\ board' = b /\ given' = (given /\ ~Known(s))
      /\ UNCHANGED <<shown, gameId, ready>>
  BY <1>1, Playing DEF Save
<1>3. s = IF session = Missing /\ g = "free_cell" THEN H ELSE IF session = Missing THEN 0 ELSE session
  BY <1>1, Playing DEF SessionToSave, ToInt
<1>4. s \in Ends /\ (s = 0 \/ s = H \/ (gameOf[s] = g /\ T <= s /\ s < H))
  BY <1>3, Playing, Ranges
<1>5. session' = s \/ (session' = Missing /\ s = 0 /\ g \notin {"chess", "checkers", "free_cell"})
  BY <1>2, <1>3, Playing
<1>6. given' \in BOOLEAN
  BY <1>2
<1>7. CASE Known(s)
  BY <1>2, <1>4, <1>5, <1>6, <1>7, SaveIsShown DEF save_state
<1>8. CASE ~Known(s)
  <2>1. UNCHANGED db
    BY <1>2, <1>8 DEF save_state
  <2>2. given' = given
    BY <1>2, <1>8 DEF IInv, Screen, ScreenTypes
  <2>3. s = 0 /\ s < T /\ ~(T <= 0) /\ H # 0
    <3>1. ~(T <= s /\ s <= H)
      BY <1>8, Playing DEF Known
    <3>2. H \in Nat /\ T \in Nat /\ T <= H /\ s \in Nat
      BY <1>4, Playing, Ranges
    <3>3. QED
      BY <1>4, <3>1, <3>2
  <2>4. session' # H
    BY <1>5, <2>3, Playing, Ranges
  <2>5. session \in {0, Missing} /\ session # H
    BY <1>3, <2>3, Playing, Ranges
  <2>6. Store'
    BY <2>1, StoreSame DEF db, IInv, Store, Types, H, T
  <2>7. H' = H /\ T' = T
    BY <2>1 DEF db, H, T
  <2>8. ScreenTypes' /\ HandlesAgree'
    <3>1. session' \in Ends \cup {Missing}
      BY <1>4, <1>5
    <3>2. ScreenTypes'
      BY <1>2, <2>1, <2>2, <3>1 DEF db, IInv, Screen, ScreenTypes
    <3>3. HandlesAgree'
      BY <1>2, <2>1, <2>7 DEF db, IInv, Screen, HandlesAgree
    <3>4. QED
      BY <3>2, <3>3
  <2>9. Plays'
    <3>1. g \in {"chess", "checkers"} => session' # Missing
      BY <1>4, <1>5, Ranges
    <3>2. shown' = g /\ gameId' = g
      BY <1>2, Playing
    <3>3. session' \in {0, Missing}
      BY <1>5, <2>3
    <3>4. QED
      BY <3>1, <3>2, <3>3 DEF Plays
  <2>10. Reloads'
    <3>1. ASSUME NEW o \in {"chess", "checkers", "free_cell"} \cap Games, Running(o)', ~given'
          PROVE  FALSE
      <4>1. o = g /\ Running(o) /\ ~given
        BY <1>2, <2>2, <3>1, Playing DEF Running
      <4>2. Unsaved(g) \/ Saved(g)
        BY <3>1, <4>1 DEF IInv, Screen, Reloads
      <4>3. session # Missing
        BY <1>3, <2>3, <3>1, <4>1, Playing
      <4>4. ~Unsaved(g)
        BY <2>5, <4>3 DEF Unsaved
      <4>5. ~Saved(g)
        BY <2>3, <2>5, <4>3 DEF Saved
      <4>6. QED
        BY <4>2, <4>4, <4>5
    <3>2. QED
      BY <3>1 DEF Reloads
  <2>11. ScreenIsCursor'
    <3>1. ToInt(session') = 0
      BY <1>5, <2>3, Ranges DEF ToInt
    <3>3. ~Has(0, 0)'
      BY <2>3, <2>6, <2>7, HasIsKeptNext DEF KeptHave
    <3>4. Has(ToInt(session), 0)' = Has(0, 0)'
      BY <3>1 DEF Has, Db!has_saved_state_offset
    <3>5. QED
      BY <3>3, <3>4 DEF ScreenIsCursor
  <2>12. QED
    BY <2>6, <2>8, <2>9, <2>10, <2>11 DEF IInv, Screen
<1>9. QED
  BY <1>7, <1>8

\* A new game is saved in a session that nobody has written.
LEMMA NewGameKeeps ==
  ASSUME IInv, NEW g \in Games, NewGame(g)
  PROVE  IInv'
<1>1. /\ Running(g) /\ session' = H
      /\ save_state(H, <<g, New>>) /\ board' = New /\ given' = FALSE
      /\ UNCHANGED <<shown, gameId, ready>>
  BY Playing DEF NewGame
<1>2. Known(H)
  BY <1>1, Playing, Ranges DEF Known
<1>3. Db!save_state(app, gameId, H, <<g, New>>)
  BY <1>1, <1>2 DEF save_state
<1>4. H \in Ends /\ New \in Boards
  BY <1>1, Playing, Parameters
<1>5. QED
  BY <1>1, <1>3, <1>4, SaveIsShown

\* The move is there twice, and the cursor is on the second.
LEMMA ReceiveMoveChessKeeps ==
  ASSUME IInv, NEW g \in Games, NEW b \in Boards, ReceiveMoveChess(g, b)
  PROVE  IInv'
<1>1. PICK s, m, n : s = session /\ m = Db!NextMove(s) /\ n = m + 1
  OBVIOUS
<1>2. /\ Running(g) /\ s \in Ids /\ Known(s) /\ n <= MaxMove
      /\ cell' = [cell EXCEPT ![s][m] = <<g, b>>, ![s][n] = <<g, b>>]
      /\ lastMove' = [lastMove EXCEPT ![s] = n]
      /\ lastSess' = [lastSess EXCEPT ![g] = s]
      /\ gameOf' = (IF s = H THEN [gameOf EXCEPT ![s] = g] ELSE gameOf)
      /\ head' = (IF s = H THEN s + 1 ELSE head)
      /\ cache' = (IF s = H THEN [cache EXCEPT ![app].head = s + 1] ELSE cache)
      /\ board' = b /\ given' = FALSE /\ tail' = tail
      /\ UNCHANGED <<shown, gameId, session, ready>>
  BY <1>1, Playing DEF ReceiveMoveChess, Ids
<1>3. s = H \/ (T <= s /\ s < H)
  <2>1. T <= s /\ s <= H
    BY <1>2, Playing DEF Known
  <2>2. s \in Nat /\ H \in Nat
    BY <1>2, Playing, Ranges
  <2>3. QED
    BY <2>1, <2>2
<1>4. s = 0 \/ s = H \/ gameOf[s] = g
  BY <1>1, <1>2, Playing, Ranges
<1>5. m \in Nat
  <2>1. PICK q \in -1 .. MaxMove : q = Db!OrElse(lastMove[s], -1)
    <3>1. -1 \in -1 .. MaxMove /\ \A i \in 0 .. MaxMove : i \in -1 .. MaxMove
      BY Ranges
    <3>2. CASE lastMove[s] = Missing
      BY <3>1, <3>2 DEF Db!OrElse
    <3>3. CASE lastMove[s] \in 0 .. MaxMove
      BY <3>1, <3>3, Ranges DEF Db!OrElse
    <3>4. QED
      BY <1>2, <3>2, <3>3 DEF IInv, Store, Types
  <2>2. m = (q + 1) % Wrap
    BY <1>1, <2>1 DEF Db!NextMove, Db!Shift
  <2>3. Wrap \in Nat /\ MaxMove \in Nat /\ Wrap > 0
    BY Ranges
  <2>4. QED
    BY <2>2, <2>3
<1>6. m \in Moves /\ n \in Moves /\ n \in 0 .. MaxMove /\ m <= MaxMove
  <2>1. MaxMove \in Nat
    BY Ranges
  <2>2. m \in 0 .. MaxMove /\ n \in 0 .. MaxMove
    BY <1>1, <1>2, <1>5, <2>1
  <2>3. QED
    BY <2>2, Ranges
<1>7. <<g, b>> \in States /\ <<g, b>>[1] = g /\ <<g, b>> # Missing
  BY Ranges
<1>8. /\ cell' \in [Ids -> [Moves -> States \cup {Missing}]]
      /\ \A t \in Ids \ {s} : cell'[t] = cell[t]
      /\ cell'[s][n] = <<g, b>>
      /\ \A i \in Moves : cell'[s][i] = cell[s][i] \/ (i <= MaxMove /\ cell'[s][i] = <<g, b>>)
  <2>1. cell \in [Ids -> [Moves -> States \cup {Missing}]]
    BY DEF IInv, Store, Types
  <2>2. cell' = [cell EXCEPT ![s] = [cell[s] EXCEPT ![m] = <<g, b>>, ![n] = <<g, b>>]]
    BY <1>2, <2>1
  <2>3. PICK f : f = [cell[s] EXCEPT ![m] = <<g, b>>, ![n] = <<g, b>>]
    OBVIOUS
  <2>4. cell[s] \in [Moves -> States \cup {Missing}]
    BY <1>2, <2>1
  <2>5. /\ f \in [Moves -> States \cup {Missing}] /\ f[n] = <<g, b>>
        /\ \A i \in Moves : f[i] = cell[s][i] \/ (i \in {m, n} /\ f[i] = <<g, b>>)
    BY <1>6, <1>7, <2>3, <2>4
  <2>6. \A i \in {m, n} : i <= MaxMove
    BY <1>2, <1>6
  <2>7. QED
    BY <1>2, <2>1, <2>2, <2>3, <2>5, <2>6
<1>9. /\ Store' /\ T' = T /\ H' = (IF s = H THEN s + 1 ELSE H)
      /\ T <= s /\ s < H' /\ H <= H'
  <2>1. \A i \in Moves : \/ cell'[s][i] = cell[s][i]
                         \/ i <= MaxMove /\ cell'[s][i] \in States /\ cell'[s][i][1] = g
    BY <1>7, <1>8
  <2>2. cell'[s][n] # Missing
    BY <1>7, <1>8
  <2>3. QED
    BY <1>2, <1>3, <1>4, <1>6, <1>8, <2>1, <2>2, StatesStored DEF IInv
<1>10. lastSess'[g] = s /\ lastMove'[s] = n /\ (s = 0 \/ gameOf'[s] = g)
  BY <1>2, <1>4 DEF IInv, Store, Types
<1>11. /\ cache' \in [Handles -> [head : Ends, tail : Ends] \cup {NotOpen}]
       /\ cache'[app] # NotOpen /\ cache'[app].head = H' /\ cache'[app].tail = T'
       /\ cache'[browser] = cache[browser]
  <2>1. app \in Handles /\ browser \in Handles /\ app # browser
    BY Ranges
  <2>2. /\ cache[app] # NotOpen /\ cache[app].head = H /\ cache[app].tail = T
        /\ cache \in [Handles -> [head : Ends, tail : Ends] \cup {NotOpen}]
    BY <1>2, Playing
  <2>3. CASE s # H
    BY <1>2, <1>9, <2>2, <2>3
  <2>4. CASE s = H
    <3>1. cache' = [cache EXCEPT ![app] = [cache[app] EXCEPT !.head = s + 1]]
      BY <1>2, <2>4
    <3>2. PICK f : f = [cache[app] EXCEPT !.head = s + 1]
      OBVIOUS
    <3>3. s + 1 \in Ends /\ s + 1 # Missing
      BY <1>2, Ranges
    <3>4. f \in [head : Ends, tail : Ends] /\ f.head = s + 1 /\ f.tail = T /\ f # NotOpen
      BY <2>1, <2>2, <3>2, <3>3, Ranges, SMTT(30)
    <3>5. cache'[app] = f /\ cache'[browser] = cache[browser]
          /\ cache' \in [Handles -> [head : Ends, tail : Ends] \cup {NotOpen}]
      BY <2>1, <2>2, <3>1, <3>2, <3>4
    <3>6. QED
      BY <1>9, <2>4, <3>4, <3>5
  <2>5. QED
    BY <2>3, <2>4
<1>12. Screen'
  <2>1. T' <= s /\ s < H'
    BY <1>9
  <2>2. cell'[s][lastMove'[s]] = <<g, b>> /\ lastMove'[s] \in Moves
    BY <1>6, <1>8, <1>10
  <2>3. session' = s /\ given' \in BOOLEAN
    BY <1>1, <1>2
  <2>4. QED
    BY <1>2, <1>9, <1>10, <1>11, <2>1, <2>2, <2>3, SavedIsShown
<1>13. QED
  BY <1>9, <1>12 DEF IInv

\* A game that goes back to a session that is kept shows its state, or fails.
LEMMA LoadKeeps ==
  ASSUME Store', ScreenTypes', HandlesAgree', NEW g \in Games, NEW s \in Ids,
         T' <= s, s < H', lastSess'[g] = s,
         \/ Show(g, At(s, 0)'[2], s) /\ At(s, 0)'[1] = g
         \/ Fail(g, s)
  PROVE  Screen'
<1>1. CASE Fail(g, s)
  BY <1>1 DEF Screen, Fail, Plays, Reloads, ScreenIsCursor, Running
<1>2. CASE Show(g, At(s, 0)'[2], s) /\ At(s, 0)'[1] = g
  <2>1. /\ shown' = g /\ gameId' = g /\ session' = s /\ board' = At(s, 0)'[2]
        /\ s # Missing
    BY <1>2, Ranges DEF Show
  <2>2. s = 0 \/ gameOf'[s] = g
    <3>1. s = 0 \/ gameOf'[s] \in {g, Missing}
      BY <2>1 DEF Store, Lasts
    <3>2. gameOf'[s] # Missing
      BY DEF Store, Sessions, Whole
    <3>3. QED
      BY <3>1, <3>2
  <2>3. Plays'
    BY <2>1, <2>2 DEF Plays
  <2>4. Reloads'
    <3>1. ASSUME NEW o \in {"chess", "checkers", "free_cell"} \cap Games, Running(o)'
          PROVE  Saved(o)'
      <4>1. o = g
        BY <2>1, <3>1 DEF Running
      <4>2. /\ At(s, 0)' = cell'[s][lastMove'[s]] /\ At(s, 0)' # Missing
            /\ lastMove'[s] \in Moves
        BY HasIsKeptNext, Ranges DEF KeptHave
      <4>3. QED
        BY <1>2, <2>1, <4>1, <4>2 DEF Saved
    <3>2. QED
      BY <3>1 DEF Reloads
  <2>5. ScreenIsCursor'
    <3>1. ToInt(session') = s
      BY <2>1 DEF ToInt
    <3>2. At(ToInt(session), 0)' = At(s, 0)'
      BY <3>1 DEF At
    <3>3. QED
      BY <2>1, <3>2 DEF ScreenIsCursor
  <2>6. QED
    BY <2>3, <2>4, <2>5 DEF Screen
<1>3. QED
  BY <1>1, <1>2

\* A game that begins anew shows an empty board and has a session that is not begun.
LEMMA NewBoardKeeps ==
  ASSUME Store', ScreenTypes', HandlesAgree', NEW g \in Games,
         lastSess'[g] = Missing \/ (g # "checkers" /\ lastSess'[g] < T' /\ lastSess'[g] \in Ids),
         \/ Show(g, New, H')
         \/ Show(g, New, Missing) /\ g \notin {"chess", "checkers", "reversi"}
  PROVE  Screen'
<1>1. /\ shown' = g /\ gameId' = g /\ board' = New /\ H' # Missing
      /\ session' = H' \/ (session' = Missing /\ g \notin {"chess", "checkers", "reversi"})
  BY EndsTypedNext DEF Show, Store, EndsFit
<1>2. Plays'
  BY <1>1 DEF Plays
<1>3. Reloads'
  <2>1. ASSUME NEW o \in {"chess", "checkers", "free_cell"} \cap Games, Running(o)'
        PROVE  Unsaved(o)'
    <3>1. o = g
      BY <1>1, <2>1 DEF Running
    <3>2. QED
      BY <1>1, <3>1 DEF Unsaved
  <2>2. QED
    BY <2>1 DEF Reloads
<1>4. ScreenIsCursor'
  <2>1. ASSUME NEW o \in SaveAll \cap Games, Running(o)', Has(ToInt(session), 0)',
               Readable(o, At(ToInt(session), 0)')
        PROVE  FALSE
    <3>1. o = g
      BY <1>1, <2>1 DEF Running
    <3>2. PICK s : s = ToInt(session')
      OBVIOUS
    <3>3. Has(s, 0)' /\ At(s, 0)' = At(ToInt(session), 0)'
      BY <2>1, <3>2 DEF Has, At, Db!has_saved_state_offset
    <3>4. /\ s \in Ids /\ T' <= s /\ s < H'
          /\ At(s, 0)' = cell'[s][lastMove'[s]] /\ At(s, 0)' # Missing /\ lastMove'[s] \in Moves
      BY <3>3, HasIsKeptNext, Ranges DEF KeptHave
    <3>5. s # H'
      BY <3>4, Ranges
    <3>6. s = 0
      BY <1>1, <3>2, <3>5 DEF ToInt
    <3>7. lastSess'[g] # Missing
      BY <2>1, <3>1, <3>3, <3>4 DEF Store, Cells, Readable
    <3>8. PICK l \in Ids : l < T' /\ l \in Nat
      BY <3>7, Ranges
    <3>9. T' \in Nat
      BY EndsTypedNext DEF Store, EndsFit
    <3>10. QED
      BY <3>4, <3>6, <3>8, <3>9
  <2>2. QED
    BY <2>1 DEF ScreenIsCursor
<1>5. QED
  BY <1>2, <1>3, <1>4 DEF Screen

\* What a reload finds at the last session of a game.
LEMMA LastSession ==
  ASSUME Store, NEW g \in Games, lastSess[g] # Missing
  PROVE  LET s == lastSess[g]
         IN  /\ s \in Ids /\ s < H
             /\ Has(s, 0) => T <= s
             /\ ~Has(s, 0) => s < T
<1>1. PICK s \in Ids : s = lastSess[g] /\ s < H /\ s \in Nat /\ T \in Nat
  BY EndsTyped, Ranges DEF Store, Types, Lasts, EndsFit
<1>2. Has(s, 0) => T <= s
  BY HasIsKept DEF KeptHave
<1>3. T <= s => Has(s, 0)
  BY <1>1, HasIsKept DEF KeptHave
<1>4. QED
  BY <1>1, <1>2, <1>3

\* A game that opens loads its last session if that has a state left, and else begins anew.
LEMMA OpenKeeps ==
  ASSUME IInv, NEW g \in Games, Open(g)
  PROVE  IInv'
<1>1. /\ Store' /\ H' = H /\ T' = T
      /\ UNCHANGED <<cell, lastMove, gameOf, lastSess>>
      /\ cache' \in [Handles -> [head : Ends, tail : Ends] \cup {NotOpen}]
      /\ cache'[app] # NotOpen /\ cache'[app].head = H' /\ cache'[app].tail = T'
      /\ cache'[browser] = NotOpen
  BY PageOpens DEF IInv, Open
<1>2. /\ given' = FALSE /\ NewId = H'
      /\ StartFirst(g) \/ StartChess(g) \/ StartLua(g) \/ StartFreeCell(g) \/ StartReversi(g)
  BY <1>1 DEF Open, NewId
<1>3. /\ shown' = g /\ gameId' = g /\ ready' \in BOOLEAN
      /\ board' \in Boards /\ session' \in Ends \cup {Missing}
  <2>1. \A s : Has(s, 0) => s \in Ids /\ At(s, 0)[2] \in Boards
    BY HasIsKept, Ranges DEF IInv, KeptHave
  <2>2. /\ H' \in Ends /\ 0 \in Ends /\ New \in Boards
        /\ \A s \in Ids : s \in Ends
    BY <1>1, EndsTypedNext, Parameters, Ranges DEF Store, EndsFit
  <2>3. CASE StartFirst(g)
    BY <1>2, <2>2, <2>3 DEF StartFirst, Show
  <2>4. CASE StartChess(g)
    BY <1>2, <2>1, <2>2, <2>4 DEF StartChess, Load, Show, Fail
  <2>5. CASE StartLua(g)
    BY <1>2, <2>1, <2>2, <2>5 DEF StartLua, Load, Show, Fail
  <2>6. CASE StartFreeCell(g)
    BY <1>2, <2>1, <2>2, <2>6 DEF StartFreeCell, Load, Show, Fail
  <2>7. CASE StartReversi(g)
    BY <1>2, <2>1, <2>2, <2>7 DEF StartReversi, Show, Fail
  <2>8. QED
    BY <1>2, <2>3, <2>4, <2>5, <2>6, <2>7
<1>4. ScreenTypes'
  BY <1>1, <1>2, <1>3 DEF ScreenTypes
<1>5. HandlesAgree'
  <2>1. g # Missing /\ g # Select
    BY Ranges
  <2>2. QED
    BY <1>1, <1>3, <2>1 DEF HandlesAgree
<1>6. ASSUME ~ready' PROVE Screen'
  BY <1>4, <1>5, <1>6 DEF Screen, Plays, Reloads, ScreenIsCursor, Running
<1>7. Screen'
  <2>1. CASE StartFirst(g)
    <3>1. lastSess'[g] = Missing
      BY <1>1, <2>1 DEF StartFirst, last_session
    <3>2. Show(g, New, H') \/ (Show(g, New, Missing) /\ g \notin {"chess", "checkers", "reversi"})
      BY <1>2, <2>1 DEF StartFirst, Eager
    <3>3. QED
      BY <1>1, <1>4, <1>5, <3>1, <3>2, NewBoardKeeps
  <2>2. ASSUME lastSess[g] # Missing, Has(lastSess[g], 0), Load(g, At(lastSess[g], 0), lastSess[g])
        PROVE  Screen'
    <3>1. PICK s \in Ids : s = lastSess[g] /\ s < H /\ T <= s
      BY <2>2, LastSession DEF IInv
    <3>2. At(s, 0)' = At(s, 0)
      BY <1>1 DEF At
    <3>3. (Show(g, At(s, 0)'[2], s) /\ At(s, 0)'[1] = g) \/ Fail(g, s)
      BY <2>2, <3>1, <3>2 DEF Load, Readable
    <3>4. T' <= s /\ s < H' /\ lastSess'[g] = s
      BY <1>1, <3>1
    <3>5. QED
      BY <1>1, <1>4, <1>5, <3>3, <3>4, LoadKeeps
  <2>3. ASSUME lastSess[g] # Missing, ~Has(lastSess[g], 0), g # "checkers",
               Show(g, New, H') \/ (Show(g, New, Missing) /\ g \notin {"chess", "checkers", "reversi"})
        PROVE  Screen'
    <3>1. lastSess'[g] < T' /\ lastSess'[g] \in Ids
      BY <1>1, <2>3, LastSession DEF IInv
    <3>2. QED
      BY <1>1, <1>4, <1>5, <2>3, <3>1, NewBoardKeeps
  <2>4. CASE StartChess(g)
    BY <1>2, <2>2, <2>3, <2>4 DEF StartChess, last_session
  <2>5. CASE StartLua(g)
    BY <1>2, <1>6, <2>2, <2>5 DEF StartLua, last_session, Fail
  <2>6. CASE StartFreeCell(g)
    BY <1>2, <2>2, <2>3, <2>6 DEF StartFreeCell, last_session
  <2>7. CASE StartReversi(g)
    <3>1. CASE ~Has(0, 0)
      BY <1>6, <2>7, <3>1 DEF StartReversi, Fail
    <3>2. CASE Has(0, 0)
      <4>1. /\ ready' /\ session' = 0 /\ g = "reversi"
            /\ board' = IF Readable(g, At(0, 0)) THEN At(0, 0)[2] ELSE New
        BY <2>7, <3>2 DEF StartReversi, Show
      <4>2. Plays' /\ Reloads'
        BY <1>3, <4>1, Ranges DEF Plays, Reloads, Running
      <4>3. ScreenIsCursor'
        <5>1. ToInt(session') = 0
          BY <4>1, Ranges DEF ToInt
        <5>2. At(ToInt(session), 0)' = At(0, 0)
          BY <1>1, <5>1 DEF At
        <5>3. QED
          BY <1>3, <4>1, <5>2 DEF ScreenIsCursor, Running, Readable
      <4>4. QED
        BY <1>4, <1>5, <4>2, <4>3 DEF Screen
    <3>3. QED
      BY <3>1, <3>2
  <2>8. QED
    BY <1>2, <2>1, <2>4, <2>5, <2>6, <2>7
<1>8. QED
  BY <1>1, <1>7 DEF IInv

\* A board that is handed over counts as given until it is saved.
LEMMA GivenKeeps ==
  ASSUME Store', ScreenTypes', HandlesAgree', Plays', given' \/ ~ready'
  PROVE  IInv'
BY DEF IInv, Screen, Reloads, ScreenIsCursor, Running

\* A board from the URL is shown as session 0 and counts as given until it is saved.
LEMMA OpenUrlKeeps ==
  ASSUME IInv, NEW g \in FromUrl, NEW b \in Boards, OpenUrl(g, b)
  PROVE  IInv'
<1>1. /\ Store' /\ H' = H /\ T' = T
      /\ cache' \in [Handles -> [head : Ends, tail : Ends] \cup {NotOpen}]
      /\ cache'[app] # NotOpen /\ cache'[app].head = H' /\ cache'[app].tail = T'
      /\ cache'[browser] = NotOpen
  BY PageOpens DEF IInv, OpenUrl
<1>2. /\ shown' = g /\ gameId' = g /\ board' = b /\ session' = 0 /\ ready' = TRUE /\ given' = TRUE
      /\ g \in Games
  BY Parameters DEF OpenUrl, Show
<1>3. g # Missing /\ g # Select /\ 0 # Missing /\ 0 \in Ends
  BY <1>2, Ranges
<1>4. ScreenTypes'
  BY <1>1, <1>2, <1>3 DEF ScreenTypes
<1>5. HandlesAgree' /\ Plays'
  BY <1>1, <1>2, <1>3 DEF HandlesAgree, Plays
<1>6. QED
  BY <1>1, <1>2, <1>4, <1>5, GivenKeeps

\* The history browser lists sessions that are kept, and only those.
LEMMA ListedIsKept ==
  ASSUME IInv, NEW s \in Listed, shown = Select
  PROVE  s \in Ids /\ T <= s /\ s < H
<1>1. cache[browser].head = H
  BY Ranges DEF IInv, Screen, HandlesAgree
<1>2. s \in Ids /\ s \in Nat /\ H \in Nat /\ T \in Nat /\ s <= H - 1
  BY <1>1, EndsTyped, Ranges DEF Listed, IInv, Store, EndsFit, Ids
<1>3. s \in s .. H - 1
  BY <1>2
<1>4. cell[s][Db!OrElse(lastMove[s], 0)] # Missing
  BY <1>1, <1>3 DEF Listed
<1>5. ~(s < T)
  BY <1>2, <1>4 DEF IInv, Store, Sessions, Gone, Db!OrElse
<1>6. QED
  BY <1>2, <1>5

\* A game opened from the list of sessions plays the session it was picked from.
LEMMA LoadGameKeeps ==
  ASSUME IInv, NEW s \in Ids, NEW m \in 0 .. MaxMove, LoadGame(s, m)
  PROVE  IInv'
<1>1. PICK g, x : g = gameOf[s] /\ x = cell[s][m]
  OBVIOUS
<1>2. /\ shown = Select /\ T <= s /\ s < H /\ x # Missing /\ given' = TRUE
      /\ cache' = [cache EXCEPT ![browser] = NotOpen]
      /\ UNCHANGED <<head, tail, cell, lastMove, gameOf, dated, lastSess>>
      /\ Show(g, New, 0) \/ (Show(g, x[2], s) /\ Readable(g, x)) \/ Fail(g, s)
  BY <1>1, ListedIsKept DEF LoadGame, Load, NotOpen
<1>3. g \in Games /\ g # Missing /\ g # Select /\ x[2] \in Boards /\ New \in Boards /\ s \in Ends
  <2>1. g \in Games
    BY <1>1, <1>2, HasIsKept DEF IInv, KeptHave
  <2>2. m \in Moves
    BY Ranges
  <2>3. x \in States
    BY <1>1, <1>2, <2>2 DEF IInv, Store, Types
  <2>4. QED
    BY <2>1, <2>3, Parameters, Ranges
<1>4. H' = H /\ T' = T /\ Store'
  <2>1. H' = H /\ T' = T
    BY <1>2 DEF H, T
  <2>2. QED
    BY <1>2, <2>1, StoreSame DEF IInv, Store, Types
<1>5. /\ cache' \in [Handles -> [head : Ends, tail : Ends] \cup {NotOpen}]
      /\ cache'[app] # NotOpen /\ cache'[app].head = H' /\ cache'[app].tail = T'
      /\ cache'[browser] = NotOpen
  <2>1. app \in Handles /\ browser \in Handles /\ app # browser /\ shown # Missing /\ shown # Delete
    BY <1>2, Ranges
  <2>2. QED
    BY <1>2, <1>4, <2>1 DEF IInv, Screen, ScreenTypes, HandlesAgree
<1>6. /\ shown' = g /\ gameId' = g /\ ready' \in BOOLEAN /\ board' \in Boards /\ session' \in {0, s}
  BY <1>2, <1>3 DEF Show, Fail
<1>7. ScreenTypes'
  <2>1. 0 \in Ends
    BY Ranges
  <2>2. QED
    BY <1>2, <1>3, <1>5, <1>6, <2>1 DEF ScreenTypes
<1>8. HandlesAgree'
  BY <1>3, <1>5, <1>6 DEF HandlesAgree
<1>9. Plays'
  <2>1. 0 # Missing /\ s # Missing
    BY Ranges
  <2>2. QED
    BY <1>1, <1>2, <1>3, <1>6, <2>1 DEF Plays
<1>10. QED
  BY <1>2, <1>4, <1>7, <1>8, <1>9, GivenKeeps

\* A state that is shown and not saved leaves the store alone.
LEMMA ShowReceivedKeeps ==
  ASSUME IInv, NEW g \in Games, NEW b \in Boards, ShowReceived(g, b)
  PROVE  IInv'
<1>1. /\ shown = g /\ g \in {"go", "wu"} /\ board' = b
      /\ UNCHANGED <<head, tail, cell, lastMove, gameOf, dated, lastSess, cache>>
      /\ UNCHANGED <<shown, gameId, session, ready, given>>
  BY Playing DEF ShowReceived, db
<1>2. H' = H /\ T' = T /\ Store'
  <2>1. H' = H /\ T' = T
    BY <1>1 DEF H, T
  <2>2. QED
    BY <1>1, <2>1, StoreSame DEF IInv, Store, Types
<1>3. ScreenTypes' /\ HandlesAgree' /\ Plays'
  BY <1>1, <1>2 DEF IInv, Screen, ScreenTypes, HandlesAgree, Plays
<1>4. Reloads' /\ ScreenIsCursor'
  BY <1>1 DEF Reloads, ScreenIsCursor, Running, SaveAll
<1>5. QED
  BY <1>2, <1>3, <1>4 DEF IInv, Screen

\* go and wu begin anew without saving.
LEMMA NewGameUnsavedKeeps ==
  ASSUME IInv, NEW g \in Games, NewGameUnsaved(g)
  PROVE  IInv'
<1>1. /\ shown = g /\ g \in {"go", "wu"} /\ board' = New /\ gameId = g
      /\ session' \in {session, H} /\ H \in Ends /\ New \in Boards
      /\ UNCHANGED <<head, tail, cell, lastMove, gameOf, dated, lastSess, cache>>
      /\ UNCHANGED <<shown, gameId, ready, given>>
  BY Playing, Parameters DEF NewGameUnsaved, db
<1>2. H' = H /\ T' = T /\ Store'
  <2>1. H' = H /\ T' = T
    BY <1>1 DEF H, T
  <2>2. QED
    BY <1>1, <2>1, StoreSame DEF IInv, Store, Types
<1>3. ScreenTypes' /\ HandlesAgree' /\ Plays'
  BY <1>1, <1>2 DEF IInv, Screen, ScreenTypes, HandlesAgree, Plays
<1>4. Reloads' /\ ScreenIsCursor'
  BY <1>1 DEF Reloads, ScreenIsCursor, Running, SaveAll
<1>5. QED
  BY <1>2, <1>3, <1>4 DEF IInv, Screen

\* Undo and Redo show the state that the cursor comes to.
LEMMA UndoRedoKeeps ==
  ASSUME IInv, NEW g \in Games, NEW d \in {-1, 1}, UndoRedo(g, d)
  PROVE  IInv'
<1>1. PICK s : s = session
  OBVIOUS
<1>2. /\ Running(g) /\ s # Missing /\ ToInt(session) = s /\ Has(s, d)
      /\ Db!adjust_saved_state_offset(s, d)
      /\ board' = IF Readable(g, At(s, d)) THEN At(s, d)[2] ELSE board
      /\ UNCHANGED <<shown, gameId, session, ready, given>>
  BY <1>1 DEF UndoRedo, ToInt
<1>3. /\ Store' /\ H' = H /\ T' = T /\ At(s, d) \in States /\ At(s, 0)' = At(s, d)
      /\ s \in Ids /\ T <= s /\ s < H
  BY <1>2, UndoKeepsStore, HasIsKept DEF IInv, KeptHave
<1>4. UNCHANGED <<head, tail, cell, gameOf, dated, lastSess, cache>>
  BY <1>2 DEF Db!adjust_saved_state_offset
<1>5. ScreenTypes' /\ HandlesAgree' /\ Plays'
  <2>1. board' \in Boards
    BY <1>2, <1>3, Ranges DEF IInv, Screen, ScreenTypes
  <2>2. QED
    BY <1>2, <1>3, <1>4, <2>1 DEF IInv, Screen, ScreenTypes, HandlesAgree, Plays
<1>6. Reloads'
  <2>1. ASSUME NEW o \in {"chess", "checkers", "free_cell"} \cap Games, Running(o)', ~given'
        PROVE  Saved(o)'
    <3>1. Running(o) /\ ~given
      BY <1>2, <2>1 DEF Running
    <3>2. s # H
      BY <1>3, Ranges
    <3>3. Saved(o)
      BY <1>1, <1>2, <2>1, <3>1, <3>2 DEF IInv, Screen, Reloads, Unsaved
    <3>4. QED
      BY <1>2, <1>3, <1>4, <3>3 DEF Saved
  <2>2. QED
    BY <2>1 DEF Reloads
<1>7. ScreenIsCursor'
  <2>1. ToInt(session') = s
    BY <1>1, <1>2 DEF ToInt
  <2>2. At(ToInt(session), 0)' = At(s, d)
    BY <1>3, <2>1 DEF At
  <2>3. ASSUME NEW o \in Games, Running(o)' PROVE o = g
    BY <1>2, <2>3 DEF Running
  <2>4. QED
    BY <1>2, <2>2, <2>3 DEF ScreenIsCursor, Readable
<1>8. QED
  BY <1>3, <1>5, <1>6, <1>7 DEF IInv, Screen

\* The page of the sessions opens a handle of its own, and no game runs behind it.
LEMMA OpenHistoryKeeps ==
  ASSUME IInv, OpenHistory
  PROVE  IInv'
<1>1. /\ Store' /\ H' = H /\ T' = T
      /\ cache' \in [Handles -> [head : Ends, tail : Ends] \cup {NotOpen}]
      /\ \A h \in Handles : cache'[h] # NotOpen /\ cache'[h].head = H' /\ cache'[h].tail = T'
  BY InitApi DEF IInv, OpenHistory
<1>2. /\ shown' = Select /\ ~ready' /\ ready' = FALSE /\ session' = Missing
      /\ board' = New /\ given' = FALSE
  BY DEF OpenHistory
<1>3. ScreenTypes'
  BY <1>1, <1>2, Parameters DEF ScreenTypes
<1>4. HandlesAgree' /\ Plays'
  BY <1>1, <1>2, Ranges DEF HandlesAgree, Plays
<1>5. QED
  BY <1>1, <1>2, <1>3, <1>4, GivenKeeps

\* The question whether to delete changes nothing that is stored.
LEMMA OpenDeleteKeeps ==
  ASSUME IInv, OpenDelete
  PROVE  IInv'
<1>1. /\ shown = Select /\ shown' = Delete
      /\ UNCHANGED <<head, tail, cell, lastMove, gameOf, dated, lastSess, cache>>
      /\ UNCHANGED <<gameId, board, session, ready, given>>
  BY DEF OpenDelete, db
<1>2. H' = H /\ T' = T /\ Store'
  <2>1. H' = H /\ T' = T
    BY <1>1 DEF H, T
  <2>2. QED
    BY <1>1, <2>1, StoreSame DEF IInv, Store, Types
<1>3. ~ready'
  BY <1>1, Ranges DEF IInv, Screen, Plays
<1>4. ScreenTypes'
  BY <1>1 DEF IInv, Screen, ScreenTypes
<1>5. HandlesAgree' /\ Plays'
  BY <1>1, <1>2, <1>3, Ranges DEF IInv, Screen, HandlesAgree, Plays
<1>6. QED
  BY <1>2, <1>3, <1>4, <1>5, GivenKeeps

\* The oldest session is deleted while no game runs.
LEMMA DeleteTailKeeps ==
  ASSUME IInv, DeleteTail
  PROVE  IInv'
<1>1. /\ shown = Delete /\ Db!delete_session(browser)
      /\ UNCHANGED <<shown, gameId, board, session, ready, given>>
      /\ cache[browser] # NotOpen
  BY DEF DeleteTail, Db!delete_session, Db!IsOpen, NotOpen
<1>2. /\ Store' /\ H' = H
      /\ cache' \in [Handles -> [head : Ends, tail : Ends] \cup {NotOpen}]
      /\ cache'[app] = cache[app]
      /\ cache'[browser] # NotOpen /\ cache'[browser].head = H' /\ cache'[browser].tail = T'
  BY <1>1, DeleteKeepsStore DEF IInv, Screen, ScreenTypes, HandlesAgree
<1>3. ~ready'
  BY <1>1, Ranges DEF IInv, Screen, Plays
<1>4. ScreenTypes'
  BY <1>1, <1>2 DEF IInv, Screen, ScreenTypes
<1>5. HandlesAgree' /\ Plays'
  BY <1>1, <1>2, <1>3, Ranges DEF IInv, Screen, HandlesAgree, Plays
<1>6. QED
  BY <1>2, <1>3, <1>4, <1>5, GivenKeeps

-----------------------------------------------------------------------------
(* The invariant holds *)

\* The store is empty at first.
LEMMA InitHolds == Init => IInv
<1> SUFFICES ASSUME Init PROVE IInv
  OBVIOUS
<1>1. /\ head = Missing /\ tail = Missing
      /\ cell = [s \in Ids |-> [m \in Moves |-> Missing]]
      /\ lastMove = [s \in Ids |-> Missing] /\ gameOf = [s \in Ids |-> Missing]
      /\ lastSess = [g \in Games |-> Missing] /\ cache = [h \in Handles |-> NotOpen]
      /\ shown = Missing /\ board = New /\ session = Missing /\ ready = FALSE /\ given = FALSE
  BY DEF Init, Db!Init, Ids, Moves, NotOpen
<1>2. Types /\ H = 0 /\ T = 0
  BY <1>1 DEF Types, H, T, Db!OrElse
<1>3. Sessions
  <2>1. \A s \in Ids : Fresh(s) /\ ~(s < 0) /\ (0 <= s /\ s < 0 => FALSE)
    BY <1>1, Ranges DEF Fresh
  <2>2. QED
    BY <1>2, <2>1 DEF Sessions
<1>4. Cells /\ Lasts /\ OneGamePerLaterSession
  <2>1. \A s \in Ids, m \in Moves : cell[s][m] = Missing
    BY <1>1
  <2>2. QED
    BY <1>1, <2>1 DEF Cells, Lasts, OneGamePerLaterSession, OneGame, Ids, Moves
<1>5. ScreenTypes
  BY <1>1, Parameters DEF ScreenTypes
<1>6. HandlesAgree /\ Plays /\ Reloads /\ ScreenIsCursor
  BY <1>1, Ranges DEF HandlesAgree, Plays, Reloads, ScreenIsCursor, Running
<1>7. QED
  BY <1>2, <1>3, <1>4, <1>5, <1>6 DEF IInv, Store, Screen

\* Each operation of the page and the games keeps the invariant.
LEMMA NextHolds == IInv /\ [Next]_vars => IInv'
<1> SUFFICES ASSUME IInv, [Next]_vars PROVE IInv'
  OBVIOUS
<1>1. ASSUME NEW g \in Games, Open(g) PROVE IInv'
  BY <1>1, OpenKeeps
<1>2. ASSUME NEW g \in FromUrl, NEW b \in Boards, OpenUrl(g, b) PROVE IInv'
  BY <1>2, OpenUrlKeeps
<1>3. ASSUME NEW g \in Games, NEW b \in Boards, Move(g, b) \/ ReceiveState(g, b) PROVE IInv'
  BY <1>3, SaveKeeps DEF Move, ReceiveState
<1>4. ASSUME NEW g \in Games, NEW b \in Boards, ReceiveMoveChess(g, b) PROVE IInv'
  BY <1>4, ReceiveMoveChessKeeps
<1>5. ASSUME NEW g \in Games, NEW b \in Boards, ShowReceived(g, b) PROVE IInv'
  BY <1>5, ShowReceivedKeeps
<1>6. ASSUME NEW g \in Games, NEW d \in {-1, 1}, UndoRedo(g, d) PROVE IInv'
  BY <1>6, UndoRedoKeeps
<1>7. ASSUME NEW g \in Games, NewGame(g) PROVE IInv'
  BY <1>7, NewGameKeeps
<1>8. ASSUME NEW g \in Games, NewGameUnsaved(g) PROVE IInv'
  BY <1>8, NewGameUnsavedKeeps
<1>9. CASE OpenHistory
  BY <1>9, OpenHistoryKeeps
<1>10. CASE OpenDelete
  BY <1>10, OpenDeleteKeeps
<1>11. CASE DeleteTail
  BY <1>11, DeleteTailKeeps
<1>12. ASSUME NEW s \in Ids, NEW m \in 0 .. MaxMove, LoadGame(s, m) PROVE IInv'
  BY <1>12, LoadGameKeeps
<1>13. CASE UNCHANGED vars
  <2>1. /\ UNCHANGED <<head, tail, cell, lastMove, gameOf, dated, lastSess, cache>>
        /\ UNCHANGED <<shown, gameId, board, session, ready, given>>
    BY <1>13 DEF vars, db
  <2>2. Store' /\ H' = H /\ T' = T
    <3>1. H' = H /\ T' = T
      BY <2>1 DEF H, T
    <3>2. QED
      BY <2>1, <3>1, StoreSame DEF IInv, Store, Types
  <2>3. ScreenTypes' /\ HandlesAgree' /\ Plays'
    BY <2>1, <2>2 DEF IInv, Screen, ScreenTypes, HandlesAgree, Plays
  <2>4. Reloads'
    BY <2>1, <2>2 DEF IInv, Screen, Reloads, Running, Unsaved, Saved
  <2>5. ScreenIsCursor'
    BY <2>1 DEF IInv, Screen, ScreenIsCursor, Running, Has, At, Db!has_saved_state_offset
  <2>6. QED
    BY <2>2, <2>3, <2>4, <2>5 DEF IInv, Screen
<1>14. QED
  BY <1>1, <1>2, <1>3, <1>4, <1>5, <1>6, <1>7, <1>8, <1>9, <1>10, <1>11, <1>12, <1>13 DEF Next, Ids

\* The inductive invariant of a page: what is stored, what its handles know of the
\* store, and how the screen follows from both.
THEOREM InvariantHolds == Spec => []IInv
<1>1. Init => IInv
  BY InitHolds
<1>2. IInv /\ [Next]_vars => IInv'
  BY NextHolds
<1>3. QED
  BY <1>1, <1>2, PTL DEF Spec

\* However the user goes from game to game and sessions are deleted, a session
\* other than the first never holds states of two games.
THEOREM SessionsAreNotMixed == Spec => []OneGamePerLaterSession
<1>1. IInv => OneGamePerLaterSession
  BY DEF IInv, Store
<1>2. QED
  BY <1>1, InvariantHolds, PTL

\* Undo and Redo start from the board on the screen, in every game that saves each
\* change of it.
THEOREM CursorIsOnScreen == Spec => []ScreenIsCursor
<1>1. IInv => ScreenIsCursor
  BY DEF IInv, Screen
<1>2. QED
  BY <1>1, InvariantHolds, PTL

\* What a reload of the page comes to.
LEMMA ReloadShowsBoard ==
  ASSUME IInv, NEW g \in {"chess", "checkers", "free_cell"} \cap Games,
         Running(g), ~given, Open(g), session \in Ids => OneGame(session)
  PROVE  ready' /\ board' = board
<1>1. StartFirst(g) \/ StartChess(g) \/ StartLua(g) \/ StartFreeCell(g)
  BY DEF Open, StartReversi
<1>2. CASE Unsaved(g)
  <2>1. board = New
    BY <1>2 DEF Unsaved
  <2>2. CASE lastSess[g] = Missing
    BY <1>1, <2>1, <2>2 DEF StartFirst, StartChess, StartLua, StartFreeCell, last_session, Show
  <2>3. CASE lastSess[g] # Missing
    <3>1. g # "checkers" /\ lastSess[g] < T
      BY <1>2, <2>3 DEF Unsaved
    <3>2. PICK l \in Ids : l = lastSess[g] /\ (Has(l, 0) => T <= l)
      BY <2>3, LastSession DEF IInv
    <3>3. l \in Nat /\ T \in Nat
      BY EndsTyped, Ranges DEF IInv, Store, EndsFit
    <3>4. ~Has(lastSess[g], 0)
      BY <3>1, <3>2, <3>3
    <3>5. QED
      BY <1>1, <2>1, <2>3, <3>1, <3>4 DEF StartFirst, StartChess, StartLua, StartFreeCell, last_session, Show
  <2>4. QED
    BY <2>2, <2>3
<1>3. CASE Saved(g)
  <2>1. PICK s \in Ids : /\ s = session /\ lastSess[g] = s /\ T <= s /\ s < H
                         /\ \E m \in Moves : cell[s][m] # Missing /\ cell[s][m][1] = g
    BY <1>3 DEF Saved
  <2>2. /\ Has(s, 0) /\ At(s, 0) = cell[s][lastMove[s]] /\ At(s, 0) # Missing
        /\ lastMove[s] \in Moves /\ gameOf[s] # Missing /\ s # Missing
    BY <2>1, HasIsKept, Ranges DEF IInv, KeptHave
  <2>3. \A m \in Moves : cell[s][m] # Missing => cell[s][m][1] = gameOf[s]
    BY <2>1, <2>2 DEF OneGame, Readable, Moves
  <2>4. Readable(g, At(s, 0))
    BY <2>1, <2>2, <2>3 DEF Readable
  <2>5. board = At(s, 0)[2]
    <3>1. ToInt(session) = s
      BY <2>1, <2>2 DEF ToInt
    <3>2. g \in SaveAll \cap Games
      BY DEF SaveAll
    <3>3. QED
      BY <2>2, <2>4, <3>1, <3>2 DEF IInv, Screen, ScreenIsCursor
  <2>6. Load(g, At(s, 0), s)
    BY <1>1, <2>1, <2>2 DEF StartFirst, StartChess, StartLua, StartFreeCell, last_session
  <2>7. QED
    BY <2>4, <2>5, <2>6 DEF Load, Show
<1>4. QED
  BY <1>2, <1>3 DEF IInv, Screen, Reloads

\* A reload of the page shows the same board, however the game got to it.
THEOREM ReloadIsHarmless == Spec => ReloadKeepsBoard
<1>1. ASSUME IInv, [Next]_vars
      PROVE  [\A g \in {"chess", "checkers", "free_cell"} \cap Games :
                Running(g) /\ ~given /\ Open(g) /\ (session \in Db!SessionIds => OneGame(session))
                  => ready' /\ board' = board]_vars
  BY <1>1, ReloadShowsBoard DEF Ids
<1>2. QED
  BY <1>1, InvariantHolds, PTL DEF Spec, ReloadKeepsBoard

-----------------------------------------------------------------------------
(* The history browser *)

W == Browser!Windows
Places == Spots \cup {<<0, 0>>}
Touches == [id : Nat, at : Places]
Mice == [down : BOOLEAN, left : BOOLEAN, y : Nat]

\* Everything has its type, and the list is scrolled within its length.
BrowserTypes ==
  /\ \A s \in DOMAIN saved : saved[s].last \in Nat
  /\ window \in W \cup {"closed", "game"}
  /\ press \in [W -> Touches] /\ scroll \in Touches /\ mouse \in Mice
  /\ pointer \in {"touch", "mouse"} /\ touches \in Nat
  /\ down \subseteq Nat \ {0}
  /\ y_pos \in -Browser!max_y_pos(list) .. 0
  /\ window = "closed" => y_pos = 0

\* Whom the handlers wait for.
Hands ==
  /\ window \in W => press[window].id \in down \cup lost \cup {0}
  /\ window # "delete" => press["delete"].id = 0
  /\ window \in {"closed", "select"} => press["move"].id = 0
  /\ window \in {"closed", "move"} => press["select"].id = 0 /\ ~mouse.down /\ ~mouse.left
  /\ scroll.id \in down \cup lost \cup missed \cup {0}
  /\ window = "select" => (mouse.down /\ ~mouse.left => down # {})
  /\ pointer = "mouse" => scroll.id = 0 /\ \A w \in W : press[w].id = 0
  /\ pointer = "touch" => ~mouse.down /\ ~mouse.left

\* An entry of the list, whose canvas shows its session.
Shown(d, e) == e.canvas \in 1 .. MaxPreviews /\ e.canvas \in DOMAIN d /\ d[e.canvas][1] = e.session

\* What the canvases show.
Pictures ==
  /\ Len(list) \in Nat /\ list \in [1 .. Len(list) -> {list[i] : i \in 1 .. Len(list)}]
  /\ \A i \in 1 .. Len(list) : Shown(drawn, list[i])
  /\ Browser!MovePreview \in DOMAIN drawn
  /\ window \in W /\ canvas # Browser!Page => \E i \in 1 .. Len(list) : list[i].session \notin DOMAIN saved
  /\ window = "move" =>
       /\ \E i \in 1 .. Len(list) : list[i].session = chosen[1]
       /\ chosen = <<chosen[1], chosen[2]>>
       /\ chosen[1] \in DOMAIN saved => chosen[2] \in 0 .. saved[chosen[1]].last /\ drawn[Browser!MovePreview] = chosen
  /\ window = "game" => drawn[Browser!MovePreview] = chosen

-----------------------------------------------------------------------------
\* What the constants are.
LEMMA Constants ==
  /\ \A p \in Spots : p[1] \in Nat /\ p[2] \in Nat
  /\ \A s \in Stores : \A i \in DOMAIN s : s[i].last \in Nat
  /\ MaxPreviews \in Nat /\ WheelSteps \subseteq Int /\ Pointers \subseteq {"touch", "mouse"}
BY BrowserAssumption DEF Browser!HistoryBrowserAssumption

\* A TouchPressHandler waits for the finger it waited for, for one that is put down, or
\* for none; and not for one that is lifted.
LEMMA PressWaits ==
  ASSUME NEW h \in Touches, NEW f \in Nat, NEW p \in Spots,
         NEW evt \in {"touchstart", "touchmove", "touchend"}
  PROVE  LET r == Browser!touch_press(h, evt, f, p)
         IN  /\ r \in Touches
             /\ r.id = h.id \/ r.id = 0 \/ (evt = "touchstart" /\ r.id = f)
             /\ evt = "touchend" /\ f # 0 => r.id # f
             /\ Browser!is_press(h, evt, f, p) => r.id = 0
BY DEF Browser!touch_press, Browser!is_press, Browser!NoTouch, Browser!Nobody, Touches, Places

\* The same of a TouchScrollHandler.
LEMMA ScrollWaits ==
  ASSUME NEW h \in Touches, NEW f \in Nat, NEW p \in Spots,
         NEW evt \in {"touchstart", "touchmove", "touchend"}
  PROVE  LET r == Browser!touch_scroll(h, evt, f, p)
         IN  /\ r \in Touches
             /\ r.id = h.id \/ r.id = 0 \/ (evt = "touchstart" /\ r.id = f)
             /\ evt = "touchend" /\ f # 0 => r.id # f
             /\ Browser!touch_scroll_diff(h, evt, f, p) \in Int
<1>1. h.at[1] \in Int /\ p[1] \in Int BY Constants DEF Touches, Places
<1>2. Browser!touch_scroll_diff(h, evt, f, p) \in Int BY <1>1 DEF Browser!touch_scroll_diff
<1> QED
  BY <1>2 DEF Browser!touch_scroll, Browser!NoTouch, Browser!Nobody, Touches, Places

\* A MouseScrollHandler follows what is held before and after, once it has seen that
\* the button is still down.
LEMMA MouseFollows ==
  ASSUME NEW h \in Mice, NEW y \in Nat, NEW b \in BOOLEAN
  PROVE  LET r == Browser!mouse_move(h, y, b)
         IN  /\ r \in Mice /\ ~r.left /\ Browser!mouse_diff(h, y, b) \in Int
             /\ r.down => h.down /\ (h.left => b)
<1> DEFINE c == Browser!mouse_back(h, y, b)
<1>1. c \in Mice /\ ~c.left /\ (c.down => h.down /\ (h.left => b))
  BY DEF Browser!mouse_back, Mice
<1> HIDE DEF c
<1> QED BY <1>1 DEF Browser!mouse_move, Browser!mouse_diff, c, Mice

\* What the handler makes of the button and of leaving.
LEMMA MouseButton ==
  ASSUME NEW h \in Mice, NEW y \in Nat, NEW evt \in {"down", "up", "leave"}
  PROVE  LET r == Browser!mouse_evt(h, evt, y)
         IN  /\ r \in Mice
             /\ r.down /\ ~r.left => evt = "down" \/ (h.down /\ ~h.left /\ evt # "up")
<1>1. CASE evt = "down" BY <1>1 DEF Browser!mouse_evt, Mice
<1>2. CASE evt = "up" BY <1>2 DEF Browser!mouse_evt, Mice
<1>3. CASE evt = "leave" BY <1>3 DEF Browser!mouse_evt, Mice
<1> QED BY <1>1, <1>2, <1>3

\* The list is never scrolled past its ends.
LEMMA ListStays ==
  ASSUME NEW l, Len(l) \in Nat, NEW m, m = Browser!max_y_pos(l)
  PROVE  m \in Nat /\ \A v \in Int : Browser!clip(-m, v, 0) \in -m .. 0
<1>1. Len(l) * (Browser!session_preview_size + Browser!spacing) - Browser!CANVAS_HEIGHT \in Int
  BY DEF Browser!session_preview_size, Browser!spacing, Browser!CANVAS_HEIGHT
<1>2. m \in Nat BY <1>1 DEF Browser!max_y_pos, Browser!clip
<1>3. \A v \in Int : Browser!clip(-m, v, 0) \in -m .. 0 BY <1>2 DEF Browser!clip
<1> QED BY <1>2, <1>3

-----------------------------------------------------------------------------
\* A preview's game saves nothing.
LEMMA PreviewsSaveNothing == \A s, m : Browser!init_game(s, m) => saved' = saved
BY DEF Browser!init_game, Browser!create_preview_draw_callbacks, Browser!PassedOn

\* What drawing a chosen state does: its preview is on its canvas and the page's canvas
\* is active again, or it cannot be read and nothing is drawn.
LEMMA DrawsTheChosen ==
  ASSUME Pictures, NEW c, c = <<c[1], c[2]>>, Browser!MoveUpdate(c)
  PROVE  /\ saved' = saved
         /\ \A i \in 1 .. Len(list) : Shown(drawn', list[i])
         /\ Browser!MovePreview \in DOMAIN drawn'
         /\ canvas' # Browser!Page => c[1] \notin DOMAIN saved \/ c[2] \notin 0 .. saved[c[1]].last
         /\ c[1] \in DOMAIN saved /\ c[2] \in 0 .. saved[c[1]].last => drawn'[Browser!MovePreview] = c
<1> DEFINE readable == c[1] \in DOMAIN saved /\ c[2] \in 0 .. saved[c[1]].last
<1>1. Browser!read_state(c[1], c[2]) <=> readable
  BY DEF Browser!read_state, Browser!Saved, Browser!Session
<1>2. CASE readable
  <2>1. drawn' = [drawn EXCEPT ![Browser!MovePreview] = c] /\ saved' = saved /\ canvas' = Browser!Page
    BY <1>1, <1>2, PreviewsSaveNothing DEF Browser!MoveUpdate
  <2>2. \A k \in 1 .. MaxPreviews : k # Browser!MovePreview BY Constants DEF Browser!MovePreview
  <2>3. \A i \in 1 .. Len(list) : Shown(drawn', list[i])
    BY <2>1, <2>2 DEF Pictures, Shown
  <2> QED BY <2>1, <2>3, <1>2 DEF Pictures
<1>3. CASE ~readable
  <2>1. saved' = saved /\ drawn' = drawn BY <1>1, <1>3 DEF Browser!MoveUpdate
  <2> QED BY <2>1, <1>3 DEF Pictures
<1> QED BY <1>2, <1>3

\* A button of the second window chooses a move the session has.
LEMMA ChoosesAMove ==
  ASSUME Pictures, BrowserTypes, window = "move", chosen[1] \in DOMAIN saved, NEW id
  PROVE  /\ Browser!move_select_btn_clicked(id) \in 0 .. saved[chosen[1]].last
         /\ id = "none" => Browser!move_select_btn_clicked(id) = chosen[2]
<1>1. chosen[2] \in 0 .. saved[chosen[1]].last /\ saved[chosen[1]].last \in Nat
  BY DEF Pictures, BrowserTypes
<1>2. Browser!get_last_move_id(chosen[1]) = saved[chosen[1]].last
  BY DEF Browser!get_last_move_id, Browser!Saved, Browser!Session
<1> QED BY <1>1, <1>2 DEF Browser!move_select_btn_clicked

\* No button lies over the preview.
LEMMA PreviewIsNoButton ==
  ASSUME NEW p \in Spots, Browser!InPreview(p)
  PROVE  Browser!button_pressed(Browser!move_select_buttons, p) = "none"
<1> DEFINE bs == Browser!move_select_buttons
<1>1. p[1] \in Nat BY Constants
<1>2. /\ Browser!info_btn_y_start = 428 /\ Browser!padding = 5 /\ Browser!button_size_y = 40
      /\ Browser!move_preview_y_start = 50 /\ Browser!move_preview_size = 373
  <2>1. Browser!info_size = 60 BY DEF Browser!info_size, Browser!CANVAS_HEIGHT
  <2> QED
    BY <2>1 DEF Browser!info_btn_y_start, Browser!move_preview_y_start, Browser!move_preview_size,
       Browser!button_size_y, Browser!padding, Browser!CANVAS_HEIGHT, Browser!text_size,
       Browser!date_text_size
<1>3. p[1] \in 50 .. 423 BY <1>2 DEF Browser!InPreview
<1>4. /\ Len(bs) = 5
      /\ \A i \in 1 .. 4 : bs[i].y = 428 .. 468
      /\ bs[5].y = 5 .. 45
  <2>1. \A y, x, ysize, xsize, id : Browser!fromSize(y, x, ysize, xsize, id).y = y .. y + ysize
    BY DEF Browser!fromSize
  <2>2. Len(bs) = 5 BY DEF Browser!move_select_buttons
  <2> DEFINE top == Browser!info_btn_y_start
             size == Browser!button_size_y
             w == (Browser!CANVAS_WIDTH - 2 * Browser!padding) \div 6
             b1 == Browser!fromSize(top, 5, size, w, "first")
             b2 == Browser!fromSize(top, 10 + w, size, w, "prev")
             b3 == Browser!fromSize(top, Browser!CANVAS_WIDTH - 15 - 2 * w, size, w, "next")
             b4 == Browser!fromSize(top, Browser!CANVAS_WIDTH - 10 - w, size, w, "last")
             b5 == Browser!fromSize(Browser!padding, Browser!padding, size, w, "back")
  <2>3. bs = <<b1, b2, b3, b4, b5>> BY DEF Browser!move_select_buttons
  <2>4. /\ b1.y = top .. top + size /\ b2.y = top .. top + size
        /\ b3.y = top .. top + size /\ b4.y = top .. top + size
        /\ b5.y = Browser!padding .. Browser!padding + size
    BY <2>1
  <2> HIDE DEF b1, b2, b3, b4, b5, bs
  <2>5. bs[1] = b1 /\ bs[2] = b2 /\ bs[3] = b3 /\ bs[4] = b4 /\ bs[5] = b5 BY <2>3
  <2>6. top = 428 /\ top + size = 468 /\ Browser!padding = 5 /\ Browser!padding + size = 45 BY <1>2
  <2>7. \A i \in 1 .. 4 : bs[i].y = top .. top + size
    <3> SUFFICES ASSUME NEW i \in 1 .. 4 PROVE bs[i].y = top .. top + size OBVIOUS
    <3> HIDE DEF top, size
    <3>1. CASE i = 1 BY <3>1, <2>4, <2>5
    <3>2. CASE i = 2 BY <3>2, <2>4, <2>5
    <3>3. CASE i = 3 BY <3>3, <2>4, <2>5
    <3>4. CASE i = 4 BY <3>4, <2>4, <2>5
    <3> QED BY <3>1, <3>2, <3>3, <3>4
  <2>8. bs[5].y = 5 .. 45 BY <2>4, <2>5, <2>6
  <2>9. top .. top + size = 428 .. 468 BY <2>6
  <2> HIDE DEF top, size
  <2>10. \A i \in 1 .. 4 : bs[i].y = 428 .. 468 BY <2>7, <2>9
  <2> QED BY <2>2, <2>8, <2>10
<1> HIDE DEF bs
<1>5. \A i \in 1 .. 5 : p[1] \notin bs[i].y BY <1>1, <1>3, <1>4
<1>6. {i \in 1 .. Len(bs) : p[1] \in bs[i].y /\ p[2] \in bs[i].x} = {} BY <1>4, <1>5
<1> QED BY <1>6 DEF Browser!button_pressed, bs

-----------------------------------------------------------------------------
\* What is drawn stays right while nothing is drawn, though sessions be deleted.
LEMMA PicturesStay ==
  ASSUME Pictures, UNCHANGED <<list, drawn, canvas, chosen>>,
         DOMAIN saved' \subseteq DOMAIN saved, \A s \in DOMAIN saved' : saved'[s] = saved[s],
         window' = window \/ (window' = "delete" /\ window \in W)
  PROVE  Pictures'
<1>1. /\ Len(list') \in Nat /\ list' \in [1 .. Len(list') -> {list'[i] : i \in 1 .. Len(list')}]
      /\ \A i \in 1 .. Len(list') : Shown(drawn', list'[i])
      /\ Browser!MovePreview \in DOMAIN drawn'
  BY DEF Pictures
<1>2. window' \in W /\ canvas' # Browser!Page =>
        \E i \in 1 .. Len(list') : list'[i].session \notin DOMAIN saved'
  BY DEF Pictures, W, Browser!Windows
<1>3. window' = "move" =>
        /\ \E i \in 1 .. Len(list') : list'[i].session = chosen'[1]
        /\ chosen' = <<chosen'[1], chosen'[2]>>
        /\ chosen'[1] \in DOMAIN saved' =>
             chosen'[2] \in 0 .. saved'[chosen'[1]].last /\ drawn'[Browser!MovePreview] = chosen'
  BY DEF Pictures
<1>4. window' = "game" => drawn'[Browser!MovePreview] = chosen' BY DEF Pictures
<1> QED BY <1>1, <1>2, <1>3, <1>4 DEF Pictures, Browser!MovePreview, Browser!Page

\* A press in the last window draws nothing, and at most deletes a session.
LEMMA PressesDelete ==
  ASSUME Pictures, NEW p, Browser!DeletePressed(p)
  PROVE  /\ DOMAIN saved' \subseteq DOMAIN saved /\ \A s \in DOMAIN saved' : saved'[s] = saved[s]
         /\ UNCHANGED <<drawn, canvas, chosen, window>> /\ window = "delete"
BY DEF Browser!DeletePressed, Browser!Saved

\* The session chosen from the list is one that is on it.
LEMMA ChoosesFromTheList ==
  ASSUME BrowserTypes, Pictures, NEW p \in Spots, ~(Browser!item_selected(p) > Len(list))
  PROVE  Browser!item_selected(p) \in 1 .. Len(list)
<1>1. p[1] \in Nat BY Constants
<1>2. Browser!max_y_pos(list) \in Nat BY ListStays DEF Pictures
<1>3. y_pos \in Int /\ y_pos <= 0 BY <1>2 DEF BrowserTypes
<1>4. Browser!session_select_button_y_size + Browser!padding = 215
  BY DEF Browser!session_select_button_y_size, Browser!padding, Browser!session_preview_size
<1>5. p[1] - y_pos \in Nat BY <1>1, <1>3
<1>6. (p[1] - y_pos) \div 215 \in Nat BY <1>5
<1> QED BY <1>4, <1>6 DEF Browser!item_selected, Pictures

\* A press in the list keeps what is drawn right.
LEMMA PressesSelect ==
  ASSUME BrowserTypes, Pictures, NEW p \in Spots, Browser!SelectPressed(p), list' = list
  PROVE  Pictures' /\ saved' = saved /\ window = "select" /\ window' \in {"select", "move"}
<1>1. CASE Browser!item_selected(p) > Len(list)
  <2>1. UNCHANGED <<chosen, window, drawn, canvas, saved>> /\ window = "select"
    BY <1>1 DEF Browser!SelectPressed, Browser!update
  <2> QED BY <2>1, PicturesStay
<1>2. CASE ~(Browser!item_selected(p) > Len(list))
  <2> DEFINE k == Browser!item_selected(p)
             s == list[k].session
  <2>1. k \in 1 .. Len(list) BY <1>2, ChoosesFromTheList
  <2>2. /\ chosen' = <<s, Browser!get_last_move_id(s)>> /\ window' = "move" /\ window = "select"
        /\ Browser!MoveUpdate(chosen')
    BY <1>2 DEF Browser!SelectPressed, Browser!update
  <2>3. chosen' = <<chosen'[1], chosen'[2]>> /\ chosen'[1] = s BY <2>2
  <2>4. chosen'[1] \in DOMAIN saved =>
          chosen'[2] \in 0 .. saved[chosen'[1]].last
    BY <2>2 DEF Browser!get_last_move_id, Browser!Saved, Browser!Session, BrowserTypes
  <2>5. /\ saved' = saved
        /\ \A i \in 1 .. Len(list) : Shown(drawn', list[i])
        /\ Browser!MovePreview \in DOMAIN drawn'
        /\ canvas' # Browser!Page =>
             chosen'[1] \notin DOMAIN saved \/ chosen'[2] \notin 0 .. saved[chosen'[1]].last
        /\ chosen'[1] \in DOMAIN saved /\ chosen'[2] \in 0 .. saved[chosen'[1]].last =>
             drawn'[Browser!MovePreview] = chosen'
    BY <2>2, <2>3, DrawsTheChosen
  <2> HIDE DEF k
  <2>6. \E i \in 1 .. Len(list') : list'[i].session = chosen'[1] BY <2>1, <2>3
  <2>7. Pictures'
    BY <2>2, <2>3, <2>4, <2>5, <2>6 DEF Pictures, Browser!MovePreview, Browser!Page
  <2> QED BY <2>2, <2>5, <2>7
<1> QED BY <1>1, <1>2

\* A press in the window with the states keeps what is drawn right.
LEMMA PressesMove ==
  ASSUME BrowserTypes, Pictures, NEW p \in Spots, Browser!MovePressed(p), list' = list
  PROVE  Pictures' /\ saved' = saved /\ window = "move" /\ window' \in {"select", "move", "game"}
<1> DEFINE id == Browser!button_pressed(Browser!move_select_buttons, p)
           m == Browser!move_select_btn_clicked(id)
<1>1. window = "move" /\ chosen' = <<chosen[1], m>> BY DEF Browser!MovePressed
<1>2. chosen[1] \in DOMAIN saved => m \in 0 .. saved[chosen[1]].last BY <1>1, ChoosesAMove
<1>3. chosen' = <<chosen'[1], chosen'[2]>> /\ chosen'[1] = chosen[1] /\ chosen'[2] = m BY <1>1
<1>4. \E i \in 1 .. Len(list) : list[i].session = chosen'[1] BY <1>1, <1>3 DEF Pictures
<1>5. CASE Browser!InPreview(p)
  <2>1. /\ window' = IF Browser!read_state(chosen'[1], chosen'[2]) THEN "game" ELSE window
        /\ UNCHANGED <<drawn, canvas, saved>>
    BY <1>5 DEF Browser!MovePressed
  <2>2. id = "none" BY <1>5, PreviewIsNoButton
  <2>3. Browser!read_state(chosen'[1], chosen'[2]) <=> chosen[1] \in DOMAIN saved
    BY <1>2, <1>3 DEF Browser!read_state, Browser!Saved, Browser!Session
  <2>4. chosen[1] \in DOMAIN saved => chosen' = chosen /\ drawn[Browser!MovePreview] = chosen
    BY <1>1, <2>2, ChoosesAMove DEF Pictures
  <2>5. Pictures'
    BY <2>1, <2>3, <2>4, <1>1, <1>2, <1>3, <1>4
    DEF Pictures, Browser!MovePreview, Browser!Page, W, Browser!Windows
  <2> QED BY <2>1, <2>5, <1>1
<1>6. CASE ~Browser!InPreview(p) /\ id = "back"
  <2>1. window' = "select" /\ UNCHANGED <<drawn, canvas, saved>>
    BY <1>6 DEF Browser!MovePressed, Browser!update
  <2>2. Pictures'
    BY <2>1, <1>1 DEF Pictures, Browser!MovePreview, Browser!Page, W, Browser!Windows
  <2> QED BY <2>1, <2>2, <1>1
<1>7. CASE ~Browser!InPreview(p) /\ id # "back"
  <2>1. window' = "move" /\ Browser!MoveUpdate(chosen')
    BY <1>7, <1>1 DEF Browser!MovePressed, Browser!update
  <2>2. /\ saved' = saved
        /\ \A i \in 1 .. Len(list) : Shown(drawn', list[i])
        /\ Browser!MovePreview \in DOMAIN drawn'
        /\ canvas' # Browser!Page =>
             chosen'[1] \notin DOMAIN saved \/ chosen'[2] \notin 0 .. saved[chosen'[1]].last
        /\ chosen'[1] \in DOMAIN saved /\ chosen'[2] \in 0 .. saved[chosen'[1]].last =>
             drawn'[Browser!MovePreview] = chosen'
    BY <2>1, <1>3, DrawsTheChosen
  <2> HIDE DEF m, id
  <2>3. Pictures'
    BY <2>1, <2>2, <1>1, <1>2, <1>3, <1>4 DEF Pictures, Browser!MovePreview, Browser!Page
  <2> QED BY <2>1, <2>2, <2>3, <1>1
<1> QED BY <1>5, <1>6, <1>7

\* What a press, or none, does to the windows and to what is drawn.
Pressed ==
  /\ Pictures'
  /\ \A s \in DOMAIN saved' : saved'[s].last \in Nat
  /\ \/ window' = window
     \/ window = "select" /\ window' = "move"
     \/ window = "move" /\ window' \in {"select", "game"}

\* A press keeps what is drawn right, in whichever window it is.
LEMMA Presses ==
  ASSUME BrowserTypes, Pictures, NEW p \in Spots, NEW from,
         Browser!handle_user_pressed(p, from), list' = list
  PROVE  Pressed /\ window \in W
<1>0. \A s \in DOMAIN saved : saved[s].last \in Nat BY DEF BrowserTypes
<1>1. CASE Browser!SelectPressed(p)
  <2>1. Pictures' /\ saved' = saved /\ window = "select" /\ window' \in {"select", "move"}
    BY <1>1, PressesSelect
  <2> QED BY <2>1, <1>0 DEF Pressed, W, Browser!Windows
<1>2. CASE Browser!MovePressed(p)
  <2>1. Pictures' /\ saved' = saved /\ window = "move" /\ window' \in {"select", "move", "game"}
    BY <1>2, PressesMove
  <2> QED BY <2>1, <1>0 DEF Pressed, W, Browser!Windows
<1>3. CASE Browser!DeletePressed(p)
  <2>1. /\ DOMAIN saved' \subseteq DOMAIN saved /\ \A s \in DOMAIN saved' : saved'[s] = saved[s]
        /\ UNCHANGED <<drawn, canvas, chosen, window>> /\ window = "delete"
    BY <1>3, PressesDelete
  <2>2. Pictures' BY <2>1, PicturesStay
  <2>3. \A s \in DOMAIN saved' : saved'[s].last \in Nat BY <2>1, <1>0
  <2> QED BY <2>1, <2>2, <2>3 DEF Pressed, W, Browser!Windows
<1> QED BY <1>1, <1>2, <1>3 DEF Browser!handle_user_pressed

\* Where there is no press nothing of this changes.
LEMMA NoPresses ==
  ASSUME BrowserTypes, Pictures, UNCHANGED <<saved, drawn, canvas, chosen, window, list>>
  PROVE  Pressed
<1>1. Pictures' BY PicturesStay
<1> QED BY <1>1 DEF Pressed, BrowserTypes

\* A handler waits for whom it waited for, for a finger that is put down, or for none.
Waits(new, old, evt, f) ==
  /\ new.id = old.id \/ new.id = 0 \/ (evt = "touchstart" /\ new.id = f)
  /\ evt = "touchend" => new.id # f

\* What an event of a finger does to the handlers.
LEMMA TouchEvents ==
  ASSUME BrowserTypes, Pictures, NEW f \in Nat \ {0}, NEW p \in Spots,
         NEW evt \in {"touchstart", "touchmove", "touchend"}, Browser!handle_touch_evt(evt, f, p)
  PROVE  /\ window \in W
         /\ press' \in [W -> Touches] /\ scroll' \in Touches
         /\ y_pos' \in -Browser!max_y_pos(list') .. 0
         /\ UNCHANGED <<list, mouse, pointer>>
         /\ \A w \in W : w # window => press'[w] = press[w]
         /\ Waits(press'[window], press[window], evt, f)
         /\ Browser!is_press(press[window], evt, f, p) => press'[window].id = 0
         /\ IF window = "select" THEN Waits(scroll', scroll, evt, f) ELSE scroll' = scroll
<1>1. window \in W BY DEF Browser!handle_touch_evt, W
<1>2. press[window] \in Touches /\ scroll \in Touches /\ press \in [W -> Touches]
  BY <1>1 DEF BrowserTypes
<1> DEFINE r == Browser!touch_press(press[window], evt, f, p)
           c == Browser!touch_scroll(scroll, evt, f, p)
           d == Browser!touch_scroll_diff(scroll, evt, f, p)
<1>3. /\ press' = [press EXCEPT ![window] = r] /\ UNCHANGED <<list, mouse, pointer>>
      /\ IF window = "select" THEN scroll' = c /\ y_pos' = Browser!Scrolled(d)
         ELSE scroll' = scroll /\ y_pos' = y_pos
  BY DEF Browser!handle_touch_evt
<1>4. r \in Touches /\ Waits(r, press[window], evt, f)
      /\ (Browser!is_press(press[window], evt, f, p) => r.id = 0)
  BY <1>2, PressWaits DEF Waits
<1>5. c \in Touches /\ Waits(c, scroll, evt, f) /\ d \in Int
  BY <1>2, ScrollWaits DEF Waits
<1>6. Browser!max_y_pos(list) \in Nat /\ y_pos \in -Browser!max_y_pos(list) .. 0
  BY ListStays DEF Pictures, BrowserTypes
<1>7. Browser!Scrolled(d) \in -Browser!max_y_pos(list) .. 0
  <2>1. y_pos + d \in Int BY <1>5, <1>6
  <2> QED BY <2>1, ListStays DEF Browser!Scrolled, Pictures
<1> HIDE DEF r, c, d
<1>8. press' \in [W -> Touches] /\ press'[window] = r /\ \A w \in W : w # window => press'[w] = press[w]
  BY <1>1, <1>2, <1>3, <1>4
<1>9. list' = list /\ y_pos' \in -Browser!max_y_pos(list) .. 0 BY <1>3, <1>6, <1>7
<1>10. y_pos' \in -Browser!max_y_pos(list') .. 0
  BY <1>9 DEF Browser!max_y_pos, Browser!session_preview_size, Browser!spacing, Browser!CANVAS_HEIGHT
<1>11. scroll' \in Touches /\ IF window = "select" THEN Waits(scroll', scroll, evt, f) ELSE scroll' = scroll
  BY <1>2, <1>3, <1>5
<1> QED BY <1>1, <1>3, <1>4, <1>8, <1>10, <1>11

\* The types hold after a step that leaves the browser opened or closed as it was.
LEMMA TypesStay ==
  ASSUME BrowserTypes, Pressed, press' \in [W -> Touches], scroll' \in Touches, mouse' \in Mice,
         pointer' = pointer, touches' \in Nat, down' \subseteq Nat \ {0},
         y_pos' \in -Browser!max_y_pos(list') .. 0, window = "closed" => y_pos' = 0
  PROVE  BrowserTypes'
<1>1. window' \in W \cup {"closed", "game"} /\ (window' = "closed" => window = "closed")
  BY DEF BrowserTypes, Pressed, W, Browser!Windows
<1>2. \A s \in DOMAIN saved' : saved'[s].last \in Nat BY DEF Pressed
<1>3. pointer' \in {"touch", "mouse"} BY DEF BrowserTypes
<1>4. y_pos' \in -Browser!max_y_pos(list') .. 0 /\ (window' = "closed" => y_pos' = 0) BY <1>1
<1> QED
  BY <1>1, <1>2, <1>3, <1>4
  DEF BrowserTypes, W, Touches, Mice, Places, Browser!max_y_pos, Browser!session_preview_size,
      Browser!spacing, Browser!CANVAS_HEIGHT, Browser!Windows, Browser!clip

-----------------------------------------------------------------------------
\* The inductive invariant of the history browser.
BrowserInv == BrowserTypes /\ Hands /\ Pictures

\* A finger that is put down keeps the invariant.
LEMMA TouchKeeps ==
  ASSUME BrowserInv, NEW p \in Spots, Browser!Touch(p)
  PROVE  BrowserInv'
<1> DEFINE f == touches'
<1> USE DEF BrowserInv
<1>1. /\ pointer = "touch" /\ touches' = touches + 1 /\ down' = down \cup {f}
      /\ Browser!handle_touch_evt("touchstart", f, p) /\ Browser!NotPressed
      /\ UNCHANGED <<lost, missed>>
  BY DEF Browser!Touch
<1>2. f \in Nat \ {0} BY <1>1 DEF BrowserTypes
<1>3. /\ window \in W
      /\ press' \in [W -> Touches] /\ scroll' \in Touches
      /\ y_pos' \in -Browser!max_y_pos(list') .. 0
      /\ UNCHANGED <<list, mouse, pointer>>
      /\ \A w \in W : w # window => press'[w] = press[w]
      /\ Waits(press'[window], press[window], "touchstart", f)
      /\ IF window = "select" THEN Waits(scroll', scroll, "touchstart", f) ELSE scroll' = scroll
  BY <1>1, <1>2, TouchEvents
<1>4. UNCHANGED <<saved, drawn, canvas, chosen, window>> BY <1>1 DEF Browser!NotPressed
<1>5. Pressed BY <1>3, <1>4, NoPresses
<1>6. BrowserTypes'
  <2>1. down' \subseteq Nat \ {0} /\ touches' \in Nat BY <1>1, <1>2 DEF BrowserTypes
  <2>2. mouse' \in Mice /\ window # "closed" BY <1>3 DEF BrowserTypes, W, Browser!Windows
  <2> QED BY <1>3, <1>5, <2>1, <2>2, TypesStay
<1>7. Hands'
  <2> HIDE DEF f
  <2> QED BY <1>1, <1>3, <1>4 DEF Hands, Waits, W, Browser!Windows
<1> QED BY <1>5, <1>6, <1>7 DEF Pressed

\* So does one that moves.
LEMMA MoveFingerKeeps ==
  ASSUME BrowserInv, NEW f, NEW p \in Spots, Browser!MoveFinger(f, p)
  PROVE  BrowserInv'
<1> USE DEF BrowserInv
<1>1. /\ pointer = "touch" /\ f \in down
      /\ Browser!handle_touch_evt("touchmove", f, p) /\ Browser!NotPressed
      /\ UNCHANGED <<down, lost, missed, touches>>
  BY DEF Browser!MoveFinger
<1>2. f \in Nat \ {0} BY <1>1 DEF BrowserTypes
<1>3. /\ window \in W
      /\ press' \in [W -> Touches] /\ scroll' \in Touches
      /\ y_pos' \in -Browser!max_y_pos(list') .. 0
      /\ UNCHANGED <<list, mouse, pointer>>
      /\ \A w \in W : w # window => press'[w] = press[w]
      /\ Waits(press'[window], press[window], "touchmove", f)
      /\ IF window = "select" THEN Waits(scroll', scroll, "touchmove", f) ELSE scroll' = scroll
  BY <1>1, <1>2, TouchEvents
<1>4. UNCHANGED <<saved, drawn, canvas, chosen, window>> BY <1>1 DEF Browser!NotPressed
<1>5. Pressed BY <1>3, <1>4, NoPresses
<1>6. BrowserTypes'
  <2>1. down' \subseteq Nat \ {0} /\ touches' \in Nat BY <1>1 DEF BrowserTypes
  <2>2. mouse' \in Mice /\ window # "closed" BY <1>3 DEF BrowserTypes, W, Browser!Windows
  <2> QED BY <1>3, <1>5, <2>1, <2>2, TypesStay
<1>7. Hands' BY <1>1, <1>3, <1>4 DEF Hands, Waits, W, Browser!Windows
<1> QED BY <1>5, <1>6, <1>7 DEF Pressed

\* So does one that is lifted, whether it presses or not: a press lets go of the list
\* that it leaves.
LEMMA LiftKeeps ==
  ASSUME BrowserInv, NEW f, NEW p \in Spots, Browser!Lift(f, p)
  PROVE  BrowserInv'
<1> USE DEF BrowserInv
<1> DEFINE isPress == Browser!is_press(press[window], "touchend", f, p)
<1>1. /\ pointer = "touch" /\ f \in down /\ down' = down \ {f}
      /\ Browser!handle_touch_evt("touchend", f, p)
      /\ IF isPress THEN Browser!handle_user_pressed(p, press[window].at) ELSE Browser!NotPressed
      /\ missed' = IF window = "select" THEN missed ELSE missed \cup {f}
      /\ UNCHANGED <<lost, touches>>
  BY DEF Browser!Lift
<1>2. f \in Nat \ {0} BY <1>1 DEF BrowserTypes
<1>3. /\ window \in W
      /\ press' \in [W -> Touches] /\ scroll' \in Touches
      /\ y_pos' \in -Browser!max_y_pos(list') .. 0
      /\ UNCHANGED <<list, mouse, pointer>>
      /\ \A w \in W : w # window => press'[w] = press[w]
      /\ Waits(press'[window], press[window], "touchend", f)
      /\ isPress => press'[window].id = 0
      /\ IF window = "select" THEN Waits(scroll', scroll, "touchend", f) ELSE scroll' = scroll
  BY <1>1, <1>2, TouchEvents
<1> HIDE DEF isPress
<1>4. isPress \/ window' = window BY <1>1 DEF Browser!NotPressed
<1>5. Pressed
  <2>1. CASE isPress BY <2>1, <1>1, <1>3, Presses
  <2>2. CASE ~isPress
    <3>1. UNCHANGED <<saved, drawn, canvas, chosen, window>> BY <2>2, <1>1 DEF Browser!NotPressed
    <3> QED BY <3>1, <1>3, NoPresses
  <2> QED BY <2>1, <2>2
<1>6. BrowserTypes'
  <2>1. down' \subseteq Nat \ {0} /\ touches' \in Nat BY <1>1 DEF BrowserTypes
  <2>2. mouse' \in Mice /\ window # "closed" BY <1>3 DEF BrowserTypes, W, Browser!Windows
  <2> QED BY <1>3, <1>5, <2>1, <2>2, TypesStay
<1>7. Hands'
  <2>1. \/ window' = window
        \/ window = "select" /\ window' = "move" /\ isPress
        \/ window = "move" /\ window' \in {"select", "game"} /\ isPress
    BY <1>4, <1>5 DEF Pressed
  <2>2. scroll'.id \in down' \cup lost' \cup missed' \cup {0}
    BY <1>1, <1>3 DEF Hands, Waits
  <2>3. ~mouse'.down /\ ~mouse'.left /\ pointer' = "touch" BY <1>1, <1>3 DEF Hands
  <2>4. \A w \in W : /\ press'[w].id = press[w].id \/ press'[w].id = 0
                     /\ w = window => press'[w].id # f
    BY <1>3 DEF Waits
  <2>5. press'[window].id \in down' \cup lost' \cup {0}
    BY <1>1, <1>3, <2>4 DEF Hands
  <2>6. CASE window' = window
    BY <2>2, <2>3, <2>4, <2>5, <2>6, <1>3 DEF Hands, W, Browser!Windows
  <2>7. CASE window = "select" /\ window' = "move" /\ isPress
    BY <2>2, <2>3, <2>4, <2>7, <1>3 DEF Hands, W, Browser!Windows
  <2>8. CASE window = "move" /\ window' \in {"select", "game"} /\ isPress
    BY <2>2, <2>3, <2>4, <2>8, <1>3 DEF Hands, W, Browser!Windows
  <2> QED BY <2>1, <2>6, <2>7, <2>8
<1> QED BY <1>5, <1>6, <1>7 DEF Pressed

\* A touch that the system takes over keeps it.
LEMMA SystemTakesTouchKeeps ==
  ASSUME BrowserInv, NEW f, Browser!SystemTakesTouch(f)
  PROVE  BrowserInv'
<1> USE DEF BrowserInv, Browser!SystemTakesTouch
<1>1. Pressed BY NoPresses
<1>2. BrowserTypes'
  <2>1. down' \subseteq Nat \ {0} /\ touches' \in Nat BY DEF BrowserTypes
  <2>2. y_pos' \in -Browser!max_y_pos(list') .. 0 /\ (window = "closed" => y_pos' = 0)
    BY DEF BrowserTypes, Browser!max_y_pos, Browser!session_preview_size,
      Browser!spacing, Browser!CANVAS_HEIGHT, Browser!clip
  <2> QED BY <1>1, <2>1, <2>2, TypesStay DEF BrowserTypes
<1>3. Hands' BY DEF Hands, W, Browser!Windows
<1> QED BY <1>1, <1>2, <1>3 DEF Pressed

\* What holds while the mouse is used: no handler waits for a finger.
LEMMA MouseHasNoFingers ==
  ASSUME BrowserInv, pointer = "mouse"
  PROVE  /\ scroll.id = 0 /\ \A w \in W : press[w].id = 0
         /\ window \in {"closed", "move"} => ~mouse.down /\ ~mouse.left
         /\ window = "select" => (mouse.down /\ ~mouse.left => down # {})
BY DEF BrowserInv, Hands

\* What a step of the mouse must do to keep the invariant.
LEMMA MouseStepKeeps ==
  ASSUME BrowserInv, pointer = "mouse", Pressed, UNCHANGED <<press, scroll, pointer>>,
         mouse' \in Mice, down' \subseteq Nat \ {0}, touches' \in Nat,
         y_pos' \in -Browser!max_y_pos(list') .. 0, window = "closed" => y_pos' = 0,
         window' = "move" => ~mouse'.down /\ ~mouse'.left,
         window' = "select" => (mouse'.down /\ ~mouse'.left => down' # {}),
         window = "closed" => UNCHANGED mouse
  PROVE  BrowserInv'
<1>1. BrowserTypes' BY TypesStay DEF BrowserInv, BrowserTypes
<1>2. scroll.id = 0 /\ \A w \in W : press[w].id = 0 BY MouseHasNoFingers
<1>3. window' = "closed" => window = "closed" BY DEF Pressed
<1>4. window' = "closed" => ~mouse'.down /\ ~mouse'.left BY <1>3, MouseHasNoFingers
<1>5. Hands' BY <1>2, <1>4 DEF Hands, W, Browser!Windows
<1> QED BY <1>1, <1>5 DEF Pressed, BrowserInv

\* Where the list is scrolled to is within its length.
LEMMA ScrolledStays ==
  ASSUME BrowserInv, list' = list
  PROVE  /\ \A d \in Int : Browser!Scrolled(d) \in -Browser!max_y_pos(list') .. 0
         /\ y_pos \in -Browser!max_y_pos(list') .. 0
<1>1. Browser!max_y_pos(list) \in Nat /\ y_pos \in -Browser!max_y_pos(list) .. 0
  BY ListStays DEF Pictures, BrowserTypes, BrowserInv
<1>2. \A d \in Int : y_pos + d \in Int BY <1>1
<1>3. \A d \in Int : Browser!Scrolled(d) \in -Browser!max_y_pos(list) .. 0
  BY <1>2, ListStays DEF Browser!Scrolled, Pictures, BrowserInv
<1>4. Browser!max_y_pos(list') = Browser!max_y_pos(list)
  BY DEF Browser!max_y_pos, Browser!session_preview_size, Browser!spacing, Browser!CANVAS_HEIGHT
<1> QED BY <1>1, <1>3, <1>4

\* The mouse that moves keeps the invariant: outside of the canvas it forgets the list.
LEMMA MouseMoveKeeps ==
  ASSUME BrowserInv, NEW p \in Spots, Browser!handle_mousemove(p)
  PROVE  BrowserInv'
<1> DEFINE held == down # {}
           r == Browser!mouse_move(mouse, p[1], held)
           d == Browser!mouse_diff(mouse, p[1], held)
<1>1. /\ pointer = "mouse" /\ window \in W /\ touches' = touches + 1
      /\ IF window = "select" THEN mouse' = r /\ y_pos' = Browser!Scrolled(d)
         ELSE UNCHANGED <<mouse, y_pos>>
      /\ UNCHANGED <<saved, drawn, canvas, chosen, window, list, press, scroll, pointer, down>>
  BY DEF Browser!handle_mousemove, Browser!MouseSteps, Browser!NotPressed, Browser!held, W
<1>2. mouse \in Mice /\ p[1] \in Nat /\ held \in BOOLEAN BY Constants DEF BrowserInv, BrowserTypes
<1>3. r \in Mice /\ ~r.left /\ d \in Int /\ (r.down => mouse.down /\ (mouse.left => held))
  BY <1>2, MouseFollows
<1> HIDE DEF r, d
<1>4. Pressed BY <1>1, NoPresses DEF BrowserInv
<1>5. y_pos' \in -Browser!max_y_pos(list') .. 0 BY <1>1, <1>3, ScrolledStays
<1>6. mouse' \in Mice BY <1>1, <1>2, <1>3
<1>7. down' \subseteq Nat \ {0} /\ touches' \in Nat BY <1>1 DEF BrowserInv, BrowserTypes
<1>8. window # "closed" BY <1>1 DEF W, Browser!Windows
<1>9. window' = "move" => ~mouse'.down /\ ~mouse'.left BY <1>1, MouseHasNoFingers
<1>10. window' = "select" => (mouse'.down /\ ~mouse'.left => down' # {})
  BY <1>1, <1>3, MouseHasNoFingers
<1> QED BY <1>1, <1>4, <1>5, <1>6, <1>7, <1>8, <1>9, <1>10, MouseStepKeeps

\* So do its button and its leaving.
LEMMA MouseEvtKeeps ==
  ASSUME BrowserInv, NEW evt \in {"down", "up", "leave"}, NEW p \in Spots,
         Browser!handle_mouse_evt(evt, p)
  PROVE  BrowserInv'
<1> DEFINE r == Browser!mouse_evt(mouse, evt, p[1])
<1>1. /\ pointer = "mouse" /\ window \in W /\ touches' = touches + 1
      /\ down' = CASE evt = "down" -> {1} [] evt = "up" -> {} [] OTHER -> down
      /\ mouse' = IF window = "select" THEN r ELSE mouse
      /\ UNCHANGED <<saved, drawn, canvas, chosen, window, list, press, scroll, pointer, y_pos>>
  BY DEF Browser!handle_mouse_evt, Browser!MouseSteps, Browser!NotPressed, W
<1>2. mouse \in Mice /\ p[1] \in Nat BY Constants DEF BrowserInv, BrowserTypes
<1>3. r \in Mice /\ (r.down /\ ~r.left => evt = "down" \/ (mouse.down /\ ~mouse.left /\ evt # "up"))
  BY <1>2, MouseButton
<1> HIDE DEF r
<1>4. Pressed BY <1>1, NoPresses DEF BrowserInv
<1>5. y_pos' \in -Browser!max_y_pos(list') .. 0 BY <1>1, ScrolledStays
<1>6. mouse' \in Mice BY <1>1, <1>2, <1>3
<1>7. down' \subseteq Nat \ {0} /\ touches' \in Nat
  BY <1>1 DEF BrowserInv, BrowserTypes
<1>8. window # "closed" BY <1>1 DEF W, Browser!Windows
<1>9. window' = "move" => ~mouse'.down /\ ~mouse'.left BY <1>1, MouseHasNoFingers
<1>10. window' = "select" => (mouse'.down /\ ~mouse'.left => down' # {})
  BY <1>1, <1>3, MouseHasNoFingers
<1> QED BY <1>1, <1>4, <1>5, <1>6, <1>7, <1>8, <1>9, <1>10, MouseStepKeeps

\* So does the button outside of the canvas, for then the mouse has left.
LEMMA ButtonOutsideKeeps ==
  ASSUME BrowserInv, Browser!ButtonOutside
  PROVE  BrowserInv'
<1>1. /\ pointer = "mouse" /\ mouse.left /\ touches' = touches + 1 /\ down' = {1} \ down
      /\ UNCHANGED <<saved, drawn, canvas, chosen, window, list, press, scroll, pointer, y_pos, mouse>>
  BY DEF Browser!ButtonOutside, Browser!MouseSteps
<1>2. Pressed BY <1>1, NoPresses DEF BrowserInv
<1>3. y_pos' \in -Browser!max_y_pos(list') .. 0 BY <1>1, ScrolledStays
<1>4. down' \subseteq Nat \ {0} /\ touches' \in Nat /\ mouse' \in Mice
  BY <1>1 DEF BrowserInv, BrowserTypes
<1>5. window # "closed" /\ window' # "move" BY <1>1, MouseHasNoFingers
<1> QED BY <1>1, <1>2, <1>3, <1>4, <1>5, MouseStepKeeps

\* So does the wheel.
LEMMA WheelKeeps ==
  ASSUME BrowserInv, NEW dy \in WheelSteps, Browser!handle_wheel_changed(dy)
  PROVE  BrowserInv'
<1>1. /\ pointer = "mouse" /\ window \in W /\ touches' = touches + 1
      /\ y_pos' = IF window = "select" THEN Browser!Scrolled(-dy) ELSE y_pos
      /\ UNCHANGED <<saved, drawn, canvas, chosen, window, list, press, scroll, pointer, mouse, down>>
  BY DEF Browser!handle_wheel_changed, Browser!MouseSteps, Browser!NotPressed, W
<1>2. Pressed BY <1>1, NoPresses DEF BrowserInv
<1>3. -dy \in Int BY Constants
<1>4. y_pos' \in -Browser!max_y_pos(list') .. 0 BY <1>1, <1>3, ScrolledStays
<1>5. down' \subseteq Nat \ {0} /\ touches' \in Nat /\ mouse' \in Mice
  BY <1>1 DEF BrowserInv, BrowserTypes
<1>6. window # "closed" BY <1>1 DEF W, Browser!Windows
<1>7. /\ window' = "move" => ~mouse'.down /\ ~mouse'.left
      /\ window' = "select" => (mouse'.down /\ ~mouse'.left => down' # {})
  BY <1>1, MouseHasNoFingers
<1> QED BY <1>1, <1>2, <1>4, <1>5, <1>6, <1>7, MouseStepKeeps

\* So does a click: the button is up, so the list that it leaves follows nobody.
LEMMA ClickKeeps ==
  ASSUME BrowserInv, NEW p \in Spots, Browser!handle_user_clicked(p)
  PROVE  BrowserInv'
<1>1. /\ pointer = "mouse" /\ touches' = touches + 1 /\ ~mouse.left /\ down = {}
      /\ Browser!handle_user_pressed(p, p)
      /\ UNCHANGED <<list, press, scroll, pointer, mouse, down, y_pos>>
  BY DEF Browser!handle_user_clicked, Browser!MouseSteps, Browser!held
<1>2. Pressed /\ window \in W BY <1>1, Presses DEF BrowserInv
<1>3. y_pos' \in -Browser!max_y_pos(list') .. 0 BY <1>1, ScrolledStays
<1>4. down' \subseteq Nat \ {0} /\ touches' \in Nat /\ mouse' \in Mice
  BY <1>1 DEF BrowserInv, BrowserTypes
<1>5. window # "closed" BY <1>2 DEF W, Browser!Windows
<1>6. window' = "move" => ~mouse'.down /\ ~mouse'.left
  BY <1>1, <1>2, MouseHasNoFingers DEF Pressed
<1>7. window' = "select" => (mouse'.down /\ ~mouse'.left => down' # {})
  BY <1>1, <1>2, MouseHasNoFingers DEF Pressed
<1> QED BY <1>1, <1>2, <1>3, <1>4, <1>5, <1>6, <1>7, MouseStepKeeps

\* The window that deletes leaves everything where it is.
LEMMA OptionKeeps ==
  ASSUME BrowserInv, Browser!handle_game_option_evt
  PROVE  BrowserInv'
<1> USE DEF Browser!handle_game_option_evt
<1>1. Pictures' BY PicturesStay DEF W, Browser!Windows, BrowserInv
<1>2. BrowserTypes'
  BY DEF BrowserInv, BrowserTypes, W, Touches, Mice, Places, Browser!max_y_pos,
         Browser!session_preview_size, Browser!spacing, Browser!CANVAS_HEIGHT, Browser!Windows,
         Browser!clip
<1>3. Hands' BY DEF BrowserInv, Hands, W, Browser!Windows
<1> QED BY <1>1, <1>2, <1>3 DEF BrowserInv

\* So does another page that deletes.
LEMMA OtherPageKeeps ==
  ASSUME BrowserInv, Browser!OtherPageDeletes
  PROVE  BrowserInv'
<1>1. /\ window \in {"select", "move"}
      /\ saved' = [s \in DOMAIN saved \ {Browser!Min(DOMAIN saved)} |-> saved[s]]
      /\ UNCHANGED <<list, drawn, canvas, window, chosen, y_pos, press, scroll, mouse, pointer,
                     down, lost, missed, touches>>
  BY DEF Browser!OtherPageDeletes, Browser!Saved
<1>2. DOMAIN saved' \subseteq DOMAIN saved /\ \A s \in DOMAIN saved' : saved'[s] = saved[s] BY <1>1
<1>3. Pictures' BY <1>1, <1>2, PicturesStay DEF BrowserInv
<1>4. BrowserTypes'
  <2>1. \A s \in DOMAIN saved' : saved'[s].last \in Nat BY <1>2 DEF BrowserInv, BrowserTypes
  <2> QED
    BY <1>1, <2>1 DEF BrowserInv, BrowserTypes, W, Touches, Mice, Places, Browser!max_y_pos,
       Browser!session_preview_size, Browser!spacing, Browser!CANVAS_HEIGHT, Browser!Windows,
       Browser!clip
<1>5. Hands' BY <1>1 DEF BrowserInv, Hands, W, Browser!Windows
<1> QED BY <1>3, <1>4, <1>5 DEF BrowserInv

-----------------------------------------------------------------------------
\* A function on 1..n is a sequence of length n.
LEMMA SequenceOf ==
  ASSUME NEW n \in Nat, NEW S, NEW q \in [1 .. n -> S]
  PROVE  q \in Seq(S) /\ Len(q) = n
OBVIOUS

\* The module of the browser counts as this one does.
LEMMA CountsAlike == \A S : Browser!Cardinality(S) = Cardinality(S)
BY DEF Browser!Cardinality, Cardinality

\* The sessions looked at are at most as many as there are canvases, and one of the
\* orders in which the list may show them has an entry for each canvas it names.
LEMMA PreviewsAreShown ==
  ASSUME NEW l \in Browser!Previews
  PROVE  /\ Len(l) \in Nat /\ l \in [1 .. Len(l) -> {l[i] : i \in 1 .. Len(l)}]
         /\ Len(Browser!Examined) \in Nat
         /\ \A i \in 1 .. Len(l) :
              /\ l[i].canvas \in 1 .. MaxPreviews /\ l[i].canvas \in 1 .. Len(Browser!Examined)
              /\ l[i].session = Browser!Examined[l[i].canvas]
<1> DEFINE upTo == {i \in 0 .. MaxPreviews - 1 : \A j \in 0 .. i : newest - 1 - j \in Browser!Saved}
           K == Cardinality(upTo)
           E == Browser!Examined
<1>1. K \in Nat /\ K <= MaxPreviews
  <2>1. MaxPreviews \in Nat BY Constants
  <2>2. 0 \in Int /\ MaxPreviews - 1 \in Int BY <2>1
  <2>3. IsFiniteSet(0 .. MaxPreviews - 1) /\ Cardinality(0 .. MaxPreviews - 1) <= MaxPreviews
    <3>1. /\ IsFiniteSet(0 .. MaxPreviews - 1)
          /\ Cardinality(0 .. MaxPreviews - 1) =
               IF 0 > MaxPreviews - 1 THEN 0 ELSE MaxPreviews - 1 - 0 + 1
      BY <2>2, FS_Interval
    <3> QED BY <3>1, <2>1
  <2>4. upTo \subseteq 0 .. MaxPreviews - 1 OBVIOUS
  <2> HIDE DEF upTo
  <2>5. IsFiniteSet(upTo) /\ Cardinality(upTo) <= Cardinality(0 .. MaxPreviews - 1)
    BY <2>3, <2>4, FS_Subset
  <2>6. Cardinality(upTo) \in Nat /\ Cardinality(0 .. MaxPreviews - 1) \in Nat
    BY <2>3, <2>5, FS_CardinalityType
  <2> QED BY <2>1, <2>3, <2>5, <2>6
<1>2. E = [i \in 1 .. K |-> newest - i] BY CountsAlike DEF Browser!Examined
<1> HIDE DEF upTo, K
<1>3. Len(E) = K
  <2>1. E \in [1 .. K -> {newest - i : i \in 1 .. K}] BY <1>2
  <2> HIDE DEF E
  <2> QED BY <1>1, <2>1, SequenceOf
<1> DEFINE known == {j \in 1 .. Len(E) : Browser!Session(E[j]).known}
           f == [i \in known |-> [session |-> E[i], canvas |-> i]]
           entries == {[session |-> E[i], canvas |-> i] : i \in known}
<1>4. l \in [1 .. Cardinality(entries) -> entries] BY CountsAlike DEF Browser!Previews
<1>5. known \subseteq 1 .. K BY <1>3
<1>7. IsFiniteSet(known)
  <2>1. IsFiniteSet(1 .. K) BY <1>1, FS_Interval
  <2> QED BY <2>1, <1>5, FS_Subset
<1>8. Cardinality(entries) \in Nat
  <2>1. f \in Surjection(known, entries) BY DEF Surjection
  <2> HIDE DEF known, f, entries
  <2>2. IsFiniteSet(entries) BY <1>7, <2>1, FS_Surjection
  <2> QED BY <2>2, FS_CardinalityType
<1>9. \A e \in entries : e.canvas \in 1 .. K /\ e.session = E[e.canvas]
  <2> HIDE DEF E
  <2> QED BY <1>5
<1> HIDE DEF entries, known, E
<1>10. Len(l) = Cardinality(entries) /\ l \in [1 .. Len(l) -> entries] BY <1>4, <1>8, SequenceOf
<1>11. \A i \in 1 .. Len(l) : l[i] \in entries BY <1>10
<1>12. l \in [1 .. Len(l) -> {l[i] : i \in 1 .. Len(l)}] BY <1>10
<1>13. 1 .. K \subseteq 1 .. MaxPreviews BY <1>1, Constants
<1> QED BY <1>1, <1>3, <1>8, <1>9, <1>10, <1>11, <1>12, <1>13 DEF E

\* Opening the browser keeps the invariant: every entry of the list has a canvas that
\* shows its session.
LEMMA BrowserOpenKeeps ==
  ASSUME BrowserInv, Browser!init_lib
  PROVE  BrowserInv'
<1> DEFINE E == Browser!Examined
<1>1. /\ window = "closed" /\ window' = "select" /\ list' \in Browser!Previews
      /\ drawn' = [c \in 1 .. Len(E) \cup {Browser!MovePreview} |->
                     IF c = Browser!MovePreview THEN <<0, 0>>
                     ELSE <<E[c], Browser!get_last_move_id(E[c])>>]
      /\ canvas' = Browser!Page
      /\ UNCHANGED <<saved, newest, chosen, y_pos, press, scroll, mouse, pointer, down, lost, missed,
                     touches>>
  BY DEF Browser!init_lib, Browser!generate_state_previews
<1>2. /\ Len(list') \in Nat /\ list' \in [1 .. Len(list') -> {list'[i] : i \in 1 .. Len(list')}]
      /\ \A i \in 1 .. Len(list') :
           /\ list'[i].canvas \in 1 .. MaxPreviews /\ list'[i].canvas \in 1 .. Len(E)
           /\ list'[i].session = E[list'[i].canvas]
  BY <1>1, PreviewsAreShown
<1> HIDE DEF E
<1>3. \A k \in 1 .. MaxPreviews : k # Browser!MovePreview BY Constants DEF Browser!MovePreview
<1>4. \A i \in 1 .. Len(list') : Shown(drawn', list'[i])
  <2> SUFFICES ASSUME NEW i \in 1 .. Len(list') PROVE Shown(drawn', list'[i]) OBVIOUS
  <2> DEFINE c == list'[i].canvas
  <2>1. c \in 1 .. MaxPreviews /\ c \in 1 .. Len(E) /\ list'[i].session = E[c] /\ c # Browser!MovePreview
    BY <1>2, <1>3
  <2> HIDE DEF c
  <2>2. c \in DOMAIN drawn' /\ drawn'[c] = <<E[c], Browser!get_last_move_id(E[c])>> BY <1>1, <2>1
  <2>3. drawn'[c][1] = E[c] BY <2>2
  <2> QED BY <2>1, <2>2, <2>3 DEF Shown, c
<1>5. Browser!MovePreview \in DOMAIN drawn' BY <1>1
<1>6. Pictures' BY <1>1, <1>2, <1>4, <1>5 DEF Pictures, Browser!Page, Browser!MovePreview
<1>7. BrowserTypes'
  <2>1. Browser!max_y_pos(list') \in Nat BY <1>2, ListStays
  <2>2. y_pos' = 0 BY <1>1 DEF BrowserInv, BrowserTypes
  <2>3. y_pos' \in -Browser!max_y_pos(list') .. 0 BY <2>1, <2>2
  <2> QED
    BY <1>1, <2>3 DEF BrowserInv, BrowserTypes, W, Touches, Mice, Places, Browser!max_y_pos,
         Browser!session_preview_size, Browser!spacing, Browser!CANVAS_HEIGHT, Browser!Windows,
         Browser!clip
<1>8. Hands' BY <1>1 DEF BrowserInv, Hands, W, Browser!Windows
<1> QED BY <1>6, <1>7, <1>8 DEF BrowserInv

\* The browser that nobody opened yet.
LEMMA BrowserStarts == Browser!Init => BrowserInv
<1> SUFFICES ASSUME Browser!Init PROVE BrowserInv OBVIOUS
<1> USE DEF Browser!Init
<1>1. Len(list) = 0 /\ list = <<>> OBVIOUS
<1>2. Pictures BY <1>1 DEF Pictures, W, Browser!Windows, Browser!MovePreview, Browser!Page, Shown
<1>3. 0 \in -Browser!max_y_pos(list) .. 0
  <2>1. Browser!max_y_pos(list) \in Nat BY <1>1, ListStays
  <2> QED BY <2>1
<1>4. BrowserTypes
  <2>1. Browser!NoTouch \in Touches BY DEF Browser!NoTouch, Browser!Nobody, Touches, Places
  <2>2. mouse \in Mice BY DEF Browser!NoMouse, Mice
  <2>3. press \in [W -> Touches] /\ scroll \in Touches BY <2>1 DEF W
  <2>4. pointer \in {"touch", "mouse"} BY Constants
  <2>5. \A s \in DOMAIN saved : saved[s].last \in Nat BY Constants
  <2>6. window = "closed" /\ y_pos = 0 /\ touches \in Nat /\ down \subseteq Nat \ {0} OBVIOUS
  <2> QED BY <1>3, <2>2, <2>3, <2>4, <2>5, <2>6 DEF BrowserTypes
<1>5. Hands
  BY DEF Hands, W, Browser!Windows, Browser!NoTouch, Browser!NoMouse, Browser!Nobody
<1> QED BY <1>2, <1>4, <1>5 DEF BrowserInv

\* Every step of the browser keeps its invariant.
LEMMA BrowserKeeps == BrowserInv /\ Browser!Next => BrowserInv'
<1> SUFFICES ASSUME BrowserInv, Browser!Next PROVE BrowserInv' OBVIOUS
<1>1. CASE Browser!init_lib BY <1>1, BrowserOpenKeeps
<1>2. CASE \E p \in Spots : Browser!Touch(p) \/ Browser!handle_user_clicked(p)
  BY <1>2, TouchKeeps, ClickKeeps
<1>3. CASE \E f \in 1 .. MaxTouches : \/ Browser!SystemTakesTouch(f)
                                      \/ \E p \in Spots : Browser!MoveFinger(f, p) \/ Browser!Lift(f, p)
  BY <1>3, SystemTakesTouchKeeps, MoveFingerKeeps, LiftKeeps
<1>4. CASE \E p \in Spots : Browser!handle_mousemove(p) BY <1>4, MouseMoveKeeps
<1>5. CASE Browser!ButtonOutside BY <1>5, ButtonOutsideKeeps
<1>6. CASE \E evt \in {"down", "up", "leave"}, p \in Spots : Browser!handle_mouse_evt(evt, p)
  BY <1>6, MouseEvtKeeps
<1>7. CASE \E dy \in WheelSteps : Browser!handle_wheel_changed(dy) BY <1>7, WheelKeeps
<1>8. CASE Browser!handle_game_option_evt BY <1>8, OptionKeeps
<1>9. CASE Browser!OtherPageDeletes BY <1>9, OtherPageKeeps
<1> QED BY <1>1, <1>2, <1>3, <1>4, <1>5, <1>6, <1>7, <1>8, <1>9 DEF Browser!Next

-----------------------------------------------------------------------------
\* Only a press of the list opens a session: a finger that is lifted near where it was
\* put down, or a click.  Neither scrolls the list.
LEMMA OnlyPressesOpen ==
  ASSUME BrowserInv, Browser!Next, window = "select", window' = "move"
  PROVE  /\ UNCHANGED <<list, y_pos>>
         /\ \E p \in Spots : \E from :
              /\ Browser!SelectPressed(p) /\ pressed' = [at |-> p, from |-> from]
              /\ \A k \in {1, 2} : Browser!Away(p[k], from[k]) < Browser!far
<1>0. ASSUME NEW p, NEW from, Browser!handle_user_pressed(p, from)
      PROVE  Browser!SelectPressed(p) /\ pressed' = [at |-> p, from |-> from]
  BY <1>0 DEF Browser!handle_user_pressed, Browser!MovePressed, Browser!DeletePressed
<1>1. ~Browser!NotPressed BY DEF Browser!NotPressed
<1>2. ~Browser!init_lib /\ ~Browser!ButtonOutside /\ ~Browser!handle_game_option_evt
      /\ ~Browser!OtherPageDeletes
  BY DEF Browser!init_lib, Browser!ButtonOutside, Browser!handle_game_option_evt,
         Browser!OtherPageDeletes
<1>3. \A f : ~Browser!SystemTakesTouch(f) BY DEF Browser!SystemTakesTouch
<1>4. /\ \A p : ~Browser!Touch(p) /\ ~Browser!handle_mousemove(p)
      /\ \A f, p : ~Browser!MoveFinger(f, p) /\ ~Browser!handle_mouse_evt(f, p)
      /\ \A dy : ~Browser!handle_wheel_changed(dy)
  BY <1>1 DEF Browser!Touch, Browser!handle_mousemove, Browser!MoveFinger, Browser!handle_mouse_evt,
              Browser!handle_wheel_changed
<1>5. \/ \E p \in Spots : Browser!handle_user_clicked(p)
      \/ \E f \in 1 .. MaxTouches : \E p \in Spots : Browser!Lift(f, p)
  BY <1>2, <1>3, <1>4 DEF Browser!Next
<1>6. CASE \E p \in Spots : Browser!handle_user_clicked(p)
  <2> PICK p \in Spots : Browser!handle_user_clicked(p) BY <1>6
  <2>1. Browser!handle_user_pressed(p, p) /\ UNCHANGED <<list, y_pos>>
    BY DEF Browser!handle_user_clicked
  <2>2. p[1] \in Nat /\ p[2] \in Nat BY Constants
  <2>3. \A k \in {1, 2} : Browser!Away(p[k], p[k]) < Browser!far
    BY <2>2 DEF Browser!Away, Browser!far
  <2> QED BY <2>1, <2>3, <1>0
<1>7. CASE \E f \in 1 .. MaxTouches : \E p \in Spots : Browser!Lift(f, p)
  <2> PICK f \in 1 .. MaxTouches, p \in Spots : Browser!Lift(f, p) BY <1>7
  <2> DEFINE from == press[window].at
  <2>1. Browser!is_press(press[window], "touchend", f, p) /\ Browser!handle_user_pressed(p, from)
    BY <1>1 DEF Browser!Lift
  <2>2. \A k \in {1, 2} : Browser!Away(p[k], from[k]) < Browser!far
    BY <2>1 DEF Browser!is_press
  <2>3. list' = list /\ y_pos' = Browser!Scrolled(0)
    BY DEF Browser!Lift, Browser!handle_touch_evt, Browser!touch_scroll_diff
  <2>4. y_pos' = y_pos
    <3>1. Browser!max_y_pos(list) \in Nat /\ y_pos \in -Browser!max_y_pos(list) .. 0
      BY ListStays DEF Pictures, BrowserTypes, BrowserInv
    <3> QED BY <2>3, <3>1 DEF Browser!Scrolled, Browser!clip
  <2> HIDE DEF from
  <2> QED BY <2>1, <2>2, <2>3, <2>4, <1>0
<1> QED BY <1>5, <1>6, <1>7

\* A press inside an entry selects it, wherever the list is scrolled.
LEMMA EntriesAreWhereDrawn ==
  ASSUME BrowserInv, NEW p \in Spots, NEW i \in 1 .. Len(list), UNCHANGED <<list, y_pos>>,
         p[1] \in Browser!EntryTop(i)' .. Browser!EntryTop(i)' + Browser!session_select_button_y_size - 1
  PROVE  Browser!item_selected(p) = i
<1>1. p[1] \in Nat BY Constants
<1>2. y_pos \in Int
  <2>1. Browser!max_y_pos(list) \in Nat BY ListStays DEF Pictures, BrowserInv
  <2> QED BY <2>1 DEF BrowserInv, BrowserTypes
<1>3. i \in Int BY DEF BrowserInv, Pictures
<1>4. Browser!session_select_button_y_size = 210 /\ Browser!padding = 5
      /\ Browser!session_preview_size + Browser!spacing = 215
  BY DEF Browser!session_select_button_y_size, Browser!padding, Browser!session_preview_size,
         Browser!spacing
<1>5. Browser!EntryTop(i)' = 5 + (i - 1) * 215 + y_pos
  BY <1>4 DEF Browser!EntryTop, Browser!padding, Browser!session_preview_size, Browser!spacing
<1>6. p[1] - y_pos >= (i - 1) * 215 /\ p[1] - y_pos < (i - 1) * 215 + 215
  BY <1>1, <1>2, <1>3, <1>4, <1>5
<1>7. (p[1] - y_pos) \div 215 = i - 1 BY <1>1, <1>2, <1>3, <1>6
<1> QED BY <1>3, <1>4, <1>7 DEF Browser!item_selected

\* A step that opens a session opens the one that is shown where the press was.
LEMMA OpensWhatIsShown ==
  ASSUME BrowserInv, Browser!Next, window = "select", window' = "move"
  PROVE  /\ \A i \in 1 .. Len(list) :
              pressed'.at[1] \in
                 Browser!EntryTop(i)' .. Browser!EntryTop(i)' + Browser!session_select_button_y_size - 1 =>
              chosen'[1] = list[i].session /\ drawn[list[i].canvas][1] = chosen'[1]
         /\ \A k \in {1, 2} : Browser!Away(pressed'.at[k], pressed'.from[k]) < Browser!far
<1>1. UNCHANGED <<list, y_pos>> BY OnlyPressesOpen
<1>2. \E p \in Spots : \E from :
        /\ Browser!SelectPressed(p) /\ pressed' = [at |-> p, from |-> from]
        /\ \A k \in {1, 2} : Browser!Away(p[k], from[k]) < Browser!far
  BY OnlyPressesOpen
<1>3. PICK p \in Spots :
        /\ Browser!SelectPressed(p) /\ pressed'.at = p
        /\ \A k \in {1, 2} : Browser!Away(p[k], pressed'.from[k]) < Browser!far
  BY <1>2
<1>4. ASSUME NEW i \in 1 .. Len(list),
             pressed'.at[1] \in
               Browser!EntryTop(i)' .. Browser!EntryTop(i)' + Browser!session_select_button_y_size - 1
      PROVE  chosen'[1] = list[i].session /\ drawn[list[i].canvas][1] = chosen'[1]
  <2>1. Browser!item_selected(p) = i BY <1>1, <1>3, <1>4, EntriesAreWhereDrawn
  <2>2. ~(i > Len(list)) BY DEF BrowserInv, Pictures
  <2>3. chosen' = <<list[i].session, Browser!get_last_move_id(list[i].session)>>
    BY <1>3, <2>1, <2>2 DEF Browser!SelectPressed
  <2>4. drawn[list[i].canvas][1] = list[i].session BY DEF BrowserInv, Pictures, Shown
  <2> QED BY <2>3, <2>4
<1> QED BY <1>3, <1>4

-----------------------------------------------------------------------------
\* The browser's invariant holds throughout the sessions of the games.
THEOREM BrowserIsConsistent == SessionsSpec => []BrowserInv
<1>1. SessionsInit => BrowserInv BY BrowserStarts DEF SessionsInit
<1>2. BrowserInv /\ [SessionsNext]_<<part, vars, browserVars>> => BrowserInv'
  <2> SUFFICES ASSUME BrowserInv, [SessionsNext]_<<part, vars, browserVars>> PROVE BrowserInv'
    OBVIOUS
  <2>1. CASE Browser_Next BY <2>1, BrowserKeeps DEF Browser_Next
  <2>2. CASE UNCHANGED browserVars
    <3>1. Pictures' BY <2>2, PicturesStay DEF browserVars, BrowserInv
    <3>2. BrowserTypes'
      BY <2>2 DEF browserVars, BrowserInv, BrowserTypes, W, Touches, Mice, Places, Browser!max_y_pos,
         Browser!session_preview_size, Browser!spacing, Browser!CANVAS_HEIGHT, Browser!Windows,
         Browser!clip
    <3>3. Hands' BY <2>2 DEF browserVars, BrowserInv, Hands, W, Browser!Windows
    <3> QED BY <3>1, <3>2, <3>3 DEF BrowserInv
  <2> QED BY <2>1, <2>2 DEF SessionsNext, Games_Next
<1> QED BY <1>1, <1>2, PTL DEF SessionsSpec

\* The window that is shown waits only for fingers that are on the screen or were taken
\* over, and the list follows the mouse only while its button is held.
THEOREM TheListFollowsTheHand == SessionsSpec => []FollowsWhatIsHeld
<1>1. BrowserInv => FollowsWhatIsHeld
  BY DEF BrowserInv, Hands, FollowsWhatIsHeld, Browser!FollowsWhatIsHeld, Browser!held, Browser!Nobody, W
<1> QED BY <1>1, BrowserIsConsistent, PTL

\* The browser draws on the page unless a session it lists is gone, and the game is
\* given the state that its preview shows.
THEOREM CanvasesShowTheirSessions == SessionsSpec => []CanvasesAreRight
<1>1. BrowserInv => CanvasesAreRight
  BY DEF BrowserInv, Pictures, CanvasesAreRight, Browser!CanvasesAreRight, Browser!DrawsOnPage,
         Browser!LoadsWhatIsShown, Browser!Saved, W
<1> QED BY <1>1, BrowserIsConsistent, PTL

\* A press opens the session whose last state is drawn where it is, however far the list
\* is scrolled, and only where the finger was put down.
THEOREM PressesOpenTheirEntry == SessionsSpec => PressOpensWhatIsShown
<1> DEFINE Opens ==
      window = "select" /\ window' = "move" =>
        /\ \A i \in 1 .. Len(list) :
             pressed'.at[1] \in
                Browser!EntryTop(i)' .. Browser!EntryTop(i)' + Browser!session_select_button_y_size - 1 =>
             chosen'[1] = list[i].session /\ drawn[list[i].canvas][1] = chosen'[1]
        /\ \A k \in {1, 2} : Browser!Away(pressed'.at[k], pressed'.from[k]) < Browser!far
<1>1. BrowserInv /\ [SessionsNext]_<<part, vars, browserVars>> => [Opens]_Browser!vars
  <2> SUFFICES ASSUME BrowserInv, [SessionsNext]_<<part, vars, browserVars>> PROVE [Opens]_Browser!vars
    OBVIOUS
  <2>1. CASE Browser_Next
    <3>1. Opens BY <2>1, OpensWhatIsShown DEF Browser_Next
    <3> QED BY <3>1
  <2>2. CASE UNCHANGED browserVars BY <2>2 DEF browserVars, Browser!vars
  <2> QED BY <2>1, <2>2 DEF SessionsNext, Games_Next
<1>2. PressOpensWhatIsShown <=> [][Opens]_Browser!vars
  BY DEF PressOpensWhatIsShown, Browser!PressOpensWhatIsShown
<1> HIDE DEF Opens
<1> QED BY <1>1, <1>2, BrowserIsConsistent, PTL DEF SessionsSpec
=============================================================================
