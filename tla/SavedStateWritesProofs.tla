------------------------ MODULE SavedStateWritesProofs ------------------------
(***************************************************************************)
(* Proofs about SavedStateWrites, for any number of games, states,         *)
(* sessions, moves and kills.                                              *)
(***************************************************************************)
EXTENDS SavedStateWrites, SequenceTheorems, FiniteSetTheorems, TLAPS

Values   == Nat \cup States \cup Games \cup {Missing, Date}
Commands == [key : Keys, value : Values]
Ends     == 0 .. MaxSession + 1

-----------------------------------------------------------------------------
(* The keys *)

\* A key is one of the store, and says what it is of.
LEMMA KeysKnown ==
  /\ HeadKey \in Keys /\ TailKey \in Keys
  /\ \A s \in SessionIds, m \in MoveIds : StateKey(s, m) \in Keys
  /\ \A s \in SessionIds : MoveKey(s) \in Keys /\ GameKey(s) \in Keys /\ DateKey(s) \in Keys
  /\ \A g \in Games : LastKey(g) \in Keys
<1> DEFINE Cells == {StateKey(s, m) : s \in SessionIds, m \in MoveIds}
           Rest  == {{MoveKey(s), GameKey(s), DateKey(s)} : s \in SessionIds}
           Lasts == {LastKey(g) : g \in Games}
<1>1. \A s \in SessionIds, m \in MoveIds : StateKey(s, m) \in Cells
  OBVIOUS
<1>2. \A s \in SessionIds : {MoveKey(s), GameKey(s), DateKey(s)} \in Rest
  OBVIOUS
<1>3. \A g \in Games : LastKey(g) \in Lasts
  OBVIOUS
<1>4. Keys = {HeadKey, TailKey} \cup Cells \cup (UNION Rest) \cup Lasts
  BY DEF Keys
<1> HIDE DEF Cells, Rest, Lasts
<1>5. \A s \in SessionIds : {MoveKey(s), GameKey(s), DateKey(s)} \subseteq UNION Rest
  BY <1>2
<1>6. HeadKey \in Keys /\ TailKey \in Keys
  BY <1>4
<1>7. \A s \in SessionIds, m \in MoveIds : StateKey(s, m) \in Keys
  BY <1>1, <1>4
<1>8. \A s \in SessionIds : MoveKey(s) \in Keys /\ GameKey(s) \in Keys /\ DateKey(s) \in Keys
  BY <1>4, <1>5
<1>9. \A g \in Games : LastKey(g) \in Keys
  BY <1>3, <1>4
<1>10. QED
  BY <1>6, <1>7, <1>8, <1>9

\* Keys of different kinds, of different sessions and of different moves differ.
LEMMA KeyNames ==
  /\ HeadKey[1] = "sess_head" /\ TailKey[1] = "sess_tail"
  /\ \A s, m : StateKey(s, m)[1] = "state" /\ StateKey(s, m)[2] = s /\ StateKey(s, m)[3] = m
  /\ \A s : /\ MoveKey(s)[1] = "last_move_id" /\ MoveKey(s)[2] = s
            /\ GameKey(s)[1] = "game_id" /\ GameKey(s)[2] = s
            /\ DateKey(s)[1] = "last_updated" /\ DateKey(s)[2] = s
  /\ \A g : LastKey(g)[1] = "last_sess_id" /\ LastKey(g)[2] = g
BY DEF HeadKey, TailKey, StateKey, MoveKey, GameKey, DateKey, LastKey

-----------------------------------------------------------------------------
(* What a list of writes leaves behind *)

\* Under no key two writes.
Once(ws) == \A i, j \in DOMAIN ws : ws[i].key = ws[j].key => i = j

\* Without writes the store is as it was.
LEMMA AfterNothing ==
  ASSUME NEW d \in [Keys -> Values]
  PROVE  After(d, <<>>) = d
<1>1. \A k \in Keys : Writes(<<>>, k) = {}
  BY DEF Writes
<1>2. QED
  BY <1>1 DEF After

\* What is not written is as it was.
LEMMA AfterElse ==
  ASSUME NEW d, NEW ws, NEW k \in Keys, \A i \in DOMAIN ws : ws[i].key # k
  PROVE  After(d, ws)[k] = d[k]
<1>1. Writes(ws, k) = {}
  BY DEF Writes
<1>2. QED
  BY <1>1 DEF After

\* What is written once is what was written.
LEMMA AfterAt ==
  ASSUME NEW d, NEW ws \in Seq(Commands), Once(ws), NEW i \in DOMAIN ws
  PROVE  After(d, ws)[ws[i].key] = ws[i].value
<1>1. DOMAIN ws = 1 .. Len(ws) /\ Len(ws) \in Nat
  BY LenProperties
<1>2. ws[i] \in Commands /\ i \in Nat
  BY <1>1, ElementOfSeq
<1>3. PICK k \in Keys : k = ws[i].key
  BY <1>2 DEF Commands
<1>4. Writes(ws, k) = {i}
  BY <1>3 DEF Writes, Once
<1>5. LastOf({i}) = i
  BY <1>2 DEF LastOf
<1>6. QED
  BY <1>3, <1>4, <1>5 DEF After

\* A store keeps its type.
LEMMA AfterTyped ==
  ASSUME NEW d \in [Keys -> Values], NEW ws \in Seq(Commands), Once(ws)
  PROVE  After(d, ws) \in [Keys -> Values]
<1>1. \A i \in DOMAIN ws : ws[i] \in Commands
  <2>1. DOMAIN ws = 1 .. Len(ws)
    BY LenProperties
  <2>2. \A i \in 1 .. Len(ws) : ws[i] \in Commands
    BY ElementOfSeq
  <2>3. QED
    BY <2>1, <2>2
<1>2. ASSUME NEW k \in Keys PROVE After(d, ws)[k] \in Values
  <2>1. CASE \E i \in DOMAIN ws : ws[i].key = k
    <3>1. PICK i \in DOMAIN ws : ws[i].key = k
      BY <2>1
    <3>2. After(d, ws)[k] = ws[i].value
      BY <3>1, AfterAt
    <3>3. ws[i].value \in Values
      BY <1>1 DEF Commands
    <3>4. QED
      BY <3>2, <3>3
  <2>2. CASE \A i \in DOMAIN ws : ws[i].key # k
    BY <2>2, AfterElse
  <2>3. QED
    BY <2>1, <2>2
<1>3. After(d, ws) = [k \in Keys |-> After(d, ws)[k]]
  BY DEF After
<1>4. QED
  BY <1>2, <1>3

\* When the first write is made, what the rest leaves behind stays the same.
LEMMA AfterHead ==
  ASSUME NEW d \in [Keys -> Values], NEW ws \in Seq(Commands), ws # <<>>, Once(ws)
  PROVE  /\ After(Write(d, Head(ws)), Tail(ws)) = After(d, ws)
         /\ Tail(ws) \in Seq(Commands) /\ Once(Tail(ws))
         /\ Len(Tail(ws)) = Len(ws) - 1 /\ DOMAIN Tail(ws) = 1 .. Len(ws) - 1
         /\ \A i \in 1 .. Len(ws) - 1 : Tail(ws)[i] = ws[i + 1]
         /\ Write(d, Head(ws)) \in [Keys -> Values]
         /\ ws[1].key \in Keys /\ 1 \in DOMAIN ws /\ DOMAIN ws = 1 .. Len(ws) /\ Len(ws) \in Nat
         /\ Write(d, Head(ws))[ws[1].key] = ws[1].value
         /\ \A k \in Keys : k # ws[1].key => Write(d, Head(ws))[k] = d[k]
<1> DEFINE w == ws[1]
           b == Write(d, w)
           r == Tail(ws)
<1>1. /\ Len(ws) \in Nat \ {0} /\ DOMAIN ws = 1 .. Len(ws) /\ Head(ws) = w
      /\ \A i \in DOMAIN ws : ws[i] \in Commands
  <2>1. Len(ws) \in Nat \ {0} /\ DOMAIN ws = 1 .. Len(ws)
    BY EmptySeq, LenProperties
  <2>2. Head(ws) = w
    OBVIOUS
  <2>3. QED
    BY <2>1, <2>2, ElementOfSeq
<1>2. /\ r \in Seq(Commands) /\ DOMAIN r = 1 .. Len(ws) - 1 /\ Len(r) = Len(ws) - 1
      /\ \A i \in 1 .. Len(ws) - 1 : r[i] = ws[i + 1]
  <2>1. r \in Seq(Commands) /\ Len(r) = Len(ws) - 1 /\ \A i \in 1 .. Len(r) : r[i] = ws[i + 1]
    BY HeadTailProperties
  <2>2. DOMAIN r = 1 .. Len(r)
    BY <2>1, LenProperties
  <2>3. QED
    BY <2>1, <2>2
<1>3. w.key \in Keys /\ w.value \in Values
  BY <1>1 DEF Commands
<1>4. b = [d EXCEPT ![w.key] = w.value] /\ b \in [Keys -> Values]
  BY <1>3 DEF Write
<1> HIDE DEF r, b, w
<1>5. Once(r)
  <2>1. SUFFICES ASSUME NEW i \in DOMAIN r, NEW j \in DOMAIN r, r[i].key = r[j].key PROVE i = j
    BY DEF Once
  <2>2. i + 1 \in DOMAIN ws /\ j + 1 \in DOMAIN ws /\ r[i] = ws[i + 1] /\ r[j] = ws[j + 1]
    BY <1>1, <1>2
  <2>3. i + 1 = j + 1
    BY <2>1, <2>2 DEF Once
  <2>4. i \in Nat /\ j \in Nat
    BY <1>1, <1>2
  <2>5. QED
    BY <2>3, <2>4
<1>6. ASSUME NEW k \in Keys PROVE After(b, r)[k] = After(d, ws)[k]
  <2>1. CASE k = w.key
    <3>1. ASSUME NEW i \in DOMAIN r PROVE r[i].key # k
      <4>1. i + 1 \in DOMAIN ws /\ r[i] = ws[i + 1] /\ 1 \in DOMAIN ws /\ i + 1 # 1
        BY <1>1, <1>2
      <4>2. ws[i + 1].key # ws[1].key
        BY <4>1 DEF Once
      <4>3. QED
        BY <2>1, <4>1, <4>2, Zenon DEF w
    <3>2. After(b, r)[k] = b[k]
      BY <3>1, AfterElse
    <3>3. b[k] = w.value
      BY <1>3, <1>4, <2>1
    <3>4. 1 \in DOMAIN ws
      BY <1>1
    <3>5. After(d, ws)[k] = w.value
      BY <2>1, <3>4, AfterAt DEF w
    <3>6. QED
      BY <3>2, <3>3, <3>5
  <2>2. CASE k # w.key /\ \E i \in DOMAIN r : r[i].key = k
    <3>1. PICK i \in DOMAIN r : r[i].key = k
      BY <2>2
    <3>2. i + 1 \in DOMAIN ws /\ ws[i + 1] = r[i]
      BY <1>1, <1>2, <3>1
    <3>3. After(b, r)[k] = r[i].value
      BY <1>2, <1>5, <3>1, AfterAt
    <3>4. After(d, ws)[k] = r[i].value
      BY <3>1, <3>2, AfterAt
    <3>5. QED
      BY <3>3, <3>4
  <2>3. CASE k # w.key /\ \A i \in DOMAIN r : r[i].key # k
    <3>1. ASSUME NEW i \in DOMAIN ws PROVE ws[i].key # k
      <4>1. CASE i = 1
        BY <2>3, <4>1 DEF w
      <4>2. CASE i # 1
        <5>1. i - 1 \in DOMAIN r /\ r[i - 1] = ws[i]
          BY <1>1, <1>2, <4>2
        <5>2. QED
          BY <2>3, <5>1
      <4>3. QED
        BY <4>1, <4>2
    <3>2. After(b, r)[k] = b[k] /\ After(d, ws)[k] = d[k]
      BY <2>3, <3>1, AfterElse
    <3>3. QED
      BY <1>3, <1>4, <2>3, <3>2
  <2>4. QED
    BY <2>1, <2>2, <2>3
<1>7. After(b, r) = After(d, ws)
  BY <1>6 DEF After
<1>8. b[w.key] = w.value /\ \A k \in Keys : k # w.key => b[k] = d[k]
  BY <1>3, <1>4
<1>9. 1 \in DOMAIN ws
  BY <1>1
<1>10. QED
  BY <1>1, <1>2, <1>3, <1>4, <1>5, <1>7, <1>8, <1>9 DEF b, r, w

-----------------------------------------------------------------------------
(* The invariant *)

HeadOf(d) == Db!OrElse(d[HeadKey], 0)
TailOf(d) == Db!OrElse(d[TailKey], 0)

\* What is stored on a store d is in its range.
Typed(d) ==
  /\ d[HeadKey] \in Ends \cup {Missing} /\ d[TailKey] \in Ends \cup {Missing}
  /\ TailOf(d) <= HeadOf(d)
  /\ \A s \in SessionIds :
       /\ d[MoveKey(s)] \in 0 .. MaxMove \cup {Missing}
       /\ \A m \in MoveIds : d[StateKey(s, m)] # Missing => m <= MaxMove

\* The properties of a disk, of any store.
FreshOn(d) ==
  \A s \in SessionIds : s >= HeadOf(d) =>
    /\ d[MoveKey(s)] = Missing /\ d[GameKey(s)] = Missing /\ d[DateKey(s)] = Missing
    /\ \A m \in MoveIds : d[StateKey(s, m)] = Missing
CursorOn(d) ==
  \A s \in SessionIds :
    d[MoveKey(s)] # Missing => d[StateKey(s, d[MoveKey(s)])] # Missing \/ s = TailOf(d)
WholeOn(d, s) ==
  /\ d[GameKey(s)] # Missing /\ d[DateKey(s)] # Missing /\ d[MoveKey(s)] # Missing
  /\ \A m \in 0 .. d[MoveKey(s)] : d[StateKey(s, m)] # Missing
BrokenOn(d) == {s \in SessionIds : TailOf(d) <= s /\ s < HeadOf(d) /\ ~WholeOn(d, s)}

SoundOn(d) == Typed(d) /\ FreshOn(d) /\ CursorOn(d)

Shapes ==
  /\ disk \in [Keys -> Values] /\ todo \in Seq(Commands)
  /\ cache \in [head : Ends, tail : Ends] \cup {NotOpen}
  /\ crashes \in Nat

\* The head is written first and the tail last, and a state before the cursor.
InOrder(ws) ==
  \A i \in DOMAIN ws :
    /\ ws[i].key = HeadKey => i = 1
    /\ ws[i].key = TailKey => i = Len(ws)
    /\ \A s \in SessionIds, m \in MoveIds, j \in DOMAIN ws :
         ws[i].key = StateKey(s, m) /\ ws[j].key = MoveKey(s) => i < j

\* An operation writes to one session t, and moves the tail past no other.
Of(s) == {MoveKey(s), GameKey(s), DateKey(s)} \cup {StateKey(s, m) : m \in MoveIds}
OneSession(d, ws, e) ==
  \E t \in SessionIds :
    /\ \A i \in DOMAIN ws, s \in SessionIds : ws[i].key \in Of(s) => s = t
    /\ TailOf(e) = TailOf(d) \/ (TailOf(e) = TailOf(d) + 1 /\ t = TailOf(d))

\* States are removed from the oldest session only, and others are written ahead
\* of the cursor.
Careful(d, ws) ==
  \A i \in DOMAIN ws, s \in SessionIds, m \in MoveIds :
    ws[i].key = StateKey(s, m) =>
      IF ws[i].value = Missing THEN s = TailOf(d)
      ELSE d[MoveKey(s)] = Missing \/ m > d[MoveKey(s)]

\* The handle knows the ends as they will be.
Known(e) ==
  /\ IsOpen => e[HeadKey] = cache.head /\ e[TailKey] = cache.tail
  /\ todo # <<>> => IsOpen

IInv ==
  /\ Shapes
  /\ Once(todo) /\ InOrder(todo) /\ OneSession(disk, todo, Flushed) /\ Careful(disk, todo)
  /\ Known(Flushed)
  /\ HeadOf(disk) <= HeadOf(Flushed)
  /\ SoundOn(disk) /\ SoundOn(Flushed)
  /\ Cardinality(BrokenOn(Flushed)) <= crashes

-----------------------------------------------------------------------------
(* One write is made *)

\* A write changes one key, and nothing of what the operation will leave.
LEMMA WriteMade ==
  ASSUME IInv, MakeWrite
  PROVE  /\ Flushed' = Flushed /\ Shapes' /\ Once(todo')
         /\ DOMAIN todo = 1 .. Len(todo) /\ Len(todo) \in Nat /\ 1 \in DOMAIN todo
         /\ Len(todo') = Len(todo) - 1 /\ DOMAIN todo' = 1 .. Len(todo) - 1
         /\ \A i \in 1 .. Len(todo) - 1 : todo'[i] = todo[i + 1]
         /\ todo[1].key \in Keys
         /\ disk'[todo[1].key] = todo[1].value /\ Flushed[todo[1].key] = todo[1].value
         /\ \A k \in Keys : k # todo[1].key => disk'[k] = disk[k]
         /\ disk' \in [Keys -> Values] /\ disk \in [Keys -> Values]
         /\ \A k \in Keys : (\A i \in DOMAIN todo : todo[i].key # k) => Flushed[k] = disk[k]
<1>1. /\ disk' = Write(disk, Head(todo)) /\ todo' = Tail(todo) /\ todo # <<>>
      /\ UNCHANGED <<cache, crashes>>
  BY DEF MakeWrite
<1>2. disk \in [Keys -> Values] /\ todo \in Seq(Commands) /\ Once(todo)
  BY DEF IInv, Shapes
<1>3. /\ After(disk', todo') = After(disk, todo)
      /\ todo' \in Seq(Commands) /\ Once(todo')
      /\ Len(todo') = Len(todo) - 1 /\ DOMAIN todo' = 1 .. Len(todo) - 1
      /\ \A i \in 1 .. Len(todo) - 1 : todo'[i] = todo[i + 1]
      /\ disk' \in [Keys -> Values]
      /\ todo[1].key \in Keys /\ 1 \in DOMAIN todo /\ DOMAIN todo = 1 .. Len(todo) /\ Len(todo) \in Nat
      /\ disk'[todo[1].key] = todo[1].value
      /\ \A k \in Keys : k # todo[1].key => disk'[k] = disk[k]
  BY <1>1, <1>2, AfterHead
<1>4. Flushed[todo[1].key] = todo[1].value
  BY <1>2, <1>3, AfterAt DEF Flushed
<1>5. Shapes'
  BY <1>1, <1>3 DEF IInv, Shapes
<1>6. \A k \in Keys : (\A i \in DOMAIN todo : todo[i].key # k) => Flushed[k] = disk[k]
  BY <1>2, AfterElse DEF Flushed
<1>7. QED
  BY <1>2, <1>3, <1>4, <1>5, <1>6 DEF Flushed

\* With the last write the disk is what it was to be.
LEMMA LastWriteMade ==
  ASSUME IInv, MakeWrite, Len(todo) = 1
  PROVE  disk' = Flushed /\ todo' = <<>>
<1>1. DOMAIN todo = 1 .. 1 /\ DOMAIN todo' = 1 .. 0 /\ todo' \in Seq(Commands) /\ Len(todo') = 0
  BY WriteMade DEF Shapes
<1>2. todo' = <<>>
  BY <1>1, EmptySeq
<1>3. After(disk', todo') = disk'
  BY <1>2, WriteMade, AfterNothing
<1>4. QED
  BY <1>2, <1>3, WriteMade DEF Flushed

\* What is left of a list in order is in order.
LEMMA WriteKeepsOrder ==
  ASSUME IInv, MakeWrite
  PROVE  InOrder(todo')
<1>1. ASSUME NEW i \in DOMAIN todo' 
      PROVE  /\ i + 1 \in DOMAIN todo /\ todo'[i] = todo[i + 1] /\ i \in Nat /\ i # 0
  BY WriteMade
<1>2. \A i \in DOMAIN todo' : todo'[i].key = HeadKey => i = 1
  BY <1>1 DEF IInv, InOrder
<1>3. \A i \in DOMAIN todo' : todo'[i].key = TailKey => i = Len(todo')
  BY <1>1, WriteMade DEF IInv, InOrder
<1>4. ASSUME NEW i \in DOMAIN todo', NEW j \in DOMAIN todo', NEW s \in SessionIds, NEW m \in MoveIds,
             todo'[i].key = StateKey(s, m), todo'[j].key = MoveKey(s)
      PROVE  i < j
  <2>1. i + 1 < j + 1
    BY <1>1, <1>4 DEF IInv, InOrder
  <2>2. QED
    BY <1>1, <2>1
<1>5. QED
  BY <1>2, <1>3, <1>4 DEF InOrder

\* Any other write than the last leaves the tail.
LEMMA EndsInBetween ==
  ASSUME IInv, MakeWrite, Len(todo) # 1
  PROVE  /\ todo[1].key # TailKey /\ TailOf(disk') = TailOf(disk)
         /\ HeadOf(disk) \in Nat /\ HeadOf(Flushed) \in Nat
         /\ todo[1].key # HeadKey => HeadOf(disk') = HeadOf(disk) /\ HeadOf(Flushed) = HeadOf(disk)
         /\ todo[1].key = HeadKey => HeadOf(disk') = HeadOf(Flushed)
         /\ HeadOf(disk) <= HeadOf(disk') /\ HeadOf(disk') <= HeadOf(Flushed)
<1>1. todo[1].key # TailKey
  BY WriteMade DEF IInv, InOrder
<1>2. disk'[TailKey] = disk[TailKey]
  BY <1>1, WriteMade, KeysKnown
<1>3. HeadOf(disk) \in Nat /\ HeadOf(Flushed) \in Nat
  BY WritesAssumption DEF IInv, SoundOn, Typed, Ends, HeadOf, Db!OrElse
<1>4. ASSUME todo[1].key # HeadKey
      PROVE  disk'[HeadKey] = disk[HeadKey] /\ Flushed[HeadKey] = disk[HeadKey]
  <2>1. \A i \in DOMAIN todo : todo[i].key # HeadKey
    BY <1>4 DEF IInv, InOrder
  <2>2. QED
    BY <1>4, <2>1, WriteMade, KeysKnown
<1>5. ASSUME todo[1].key = HeadKey PROVE disk'[HeadKey] = Flushed[HeadKey]
  BY <1>5, WriteMade
<1>6. HeadOf(disk) <= HeadOf(Flushed)
  BY DEF IInv
<1>7. QED
  BY <1>1, <1>2, <1>3, <1>4, <1>5, <1>6 DEF HeadOf, TailOf

\* A key of a session is that of no other, and neither the head nor the tail.
LEMMA KeysOf ==
  ASSUME NEW s \in SessionIds, NEW k \in Of(s)
  PROVE  /\ k \in Keys /\ k # HeadKey /\ k # TailKey
         /\ \A t \in SessionIds : k \in Of(t) => s = t
BY KeyNames, KeysKnown DEF Of

\* Between two writes the ids from the head up stay free.
LEMMA WriteKeepsFresh ==
  ASSUME IInv, MakeWrite, Len(todo) # 1
  PROVE  FreshOn(disk')
<1>1. ASSUME NEW s \in SessionIds, s >= HeadOf(disk'), NEW k \in Of(s)
      PROVE  disk'[k] = Missing
  <2>1. s >= HeadOf(disk) /\ disk[k] = Missing
    <3>1. s >= HeadOf(disk)
      BY <1>1, EndsInBetween DEF SessionIds, IInv, SoundOn, Typed, Ends, HeadOf, Db!OrElse
    <3>2. QED
      BY <1>1, <3>1 DEF IInv, SoundOn, FreshOn, Of
  <2>2. CASE k # todo[1].key
    BY <1>1, <2>1, <2>2, WriteMade, KeysOf
  <2>3. CASE k = todo[1].key
    <3>1. HeadOf(Flushed) = HeadOf(disk)
      BY <1>1, <2>3, EndsInBetween, KeysOf
    <3>2. Flushed[k] = Missing
      BY <1>1, <2>1, <3>1 DEF IInv, SoundOn, FreshOn, Of
    <3>3. QED
      BY <2>3, <3>2, WriteMade
  <2>4. QED
    BY <2>2, <2>3
<1>2. QED
  BY <1>1 DEF FreshOn, Of

\* Between two writes every value is the old one or the new one.
LEMMA WriteKeepsTypes ==
  ASSUME IInv, MakeWrite, Len(todo) # 1
  PROVE  Typed(disk')
<1>1. \A k \in Keys : disk'[k] \in {disk[k], Flushed[k]}
  BY WriteMade
<1>2. disk'[HeadKey] \in Ends \cup {Missing} /\ disk'[TailKey] \in Ends \cup {Missing}
  BY <1>1, KeysKnown DEF IInv, SoundOn, Typed
<1>3. TailOf(disk') <= HeadOf(disk')
  <2>1. TailOf(disk') = TailOf(disk) /\ TailOf(disk) <= HeadOf(disk) /\ HeadOf(disk) <= HeadOf(disk')
    BY EndsInBetween DEF IInv, SoundOn, Typed
  <2>2. TailOf(disk) \in Nat /\ HeadOf(disk) \in Nat /\ HeadOf(disk') \in Nat
    BY <1>2, WritesAssumption DEF IInv, SoundOn, Typed, Ends, HeadOf, TailOf, Db!OrElse
  <2>3. QED
    BY <2>1, <2>2
<1>4. ASSUME NEW s \in SessionIds PROVE disk'[MoveKey(s)] \in 0 .. MaxMove \cup {Missing}
  <2>1. MoveKey(s) \in Keys
    BY KeysKnown
  <2>2. QED
    BY <1>1, <2>1 DEF IInv, SoundOn, Typed
<1>5. ASSUME NEW s \in SessionIds, NEW m \in MoveIds, disk'[StateKey(s, m)] # Missing PROVE m <= MaxMove
  <2>1. StateKey(s, m) \in Keys
    BY KeysKnown
  <2>2. QED
    BY <1>1, <1>5, <2>1 DEF IInv, SoundOn, Typed
<1>6. QED
  BY <1>2, <1>3, <1>4, <1>5 DEF Typed

\* Between two writes every cursor but the oldest session's points to a state.
LEMMA WriteKeepsCursor ==
  ASSUME IInv, MakeWrite, Len(todo) # 1
  PROVE  CursorOn(disk')
<1>1. SUFFICES ASSUME NEW s \in SessionIds, disk'[MoveKey(s)] # Missing, s # TailOf(disk')
               PROVE  disk'[StateKey(s, disk'[MoveKey(s)])] # Missing
  BY DEF CursorOn
<1>2. PICK m : m = disk'[MoveKey(s)]
  OBVIOUS
<1>3. m \in MoveIds
  BY <1>1, <1>2, WriteKeepsTypes, WritesAssumption DEF Typed, MoveIds
<1>4. s # TailOf(disk)
  BY <1>1, EndsInBetween
<1>5. MoveKey(s) \in Keys /\ StateKey(s, m) \in Keys /\ MoveKey(s) # StateKey(s, m)
  BY <1>3, KeysKnown, KeyNames
<1>6. CASE todo[1].key = StateKey(s, m)
  <2>1. todo[1].value # Missing
    BY <1>3, <1>4, <1>6, WriteMade DEF IInv, Careful
  <2>2. QED
    BY <1>2, <1>6, <2>1, WriteMade
<1>7. CASE todo[1].key = MoveKey(s)
  <2>1. Flushed[MoveKey(s)] = m
    BY <1>2, <1>7, WriteMade
  <2>2. s # TailOf(Flushed)
    <3>1. PICK t \in SessionIds :
            /\ \A i \in DOMAIN todo, u \in SessionIds : todo[i].key \in Of(u) => u = t
            /\ TailOf(Flushed) = TailOf(disk) \/ (TailOf(Flushed) = TailOf(disk) + 1 /\ t = TailOf(disk))
      BY DEF IInv, OneSession
    <3>2. s = t
      BY <1>7, <3>1, WriteMade DEF Of
    <3>3. QED
      BY <1>4, <3>1, <3>2
  <2>3. Flushed[StateKey(s, m)] # Missing
    BY <1>1, <1>2, <2>1, <2>2 DEF IInv, SoundOn, CursorOn
  <2>4. \A i \in DOMAIN todo : todo[i].key # StateKey(s, m)
    <3>1. ASSUME NEW i \in DOMAIN todo, todo[i].key = StateKey(s, m) PROVE FALSE
      <4>1. i < 1
        BY <1>3, <1>7, <3>1, WriteMade DEF IInv, InOrder
      <4>2. QED
        BY <4>1, WriteMade
    <3>2. QED
      BY <3>1
  <2>5. disk'[StateKey(s, m)] = Flushed[StateKey(s, m)]
    BY <1>5, <1>7, <2>4, WriteMade
  <2>6. QED
    BY <1>2, <2>3, <2>5
<1>8. CASE todo[1].key # StateKey(s, m) /\ todo[1].key # MoveKey(s)
  <2>1. disk'[MoveKey(s)] = disk[MoveKey(s)] /\ disk'[StateKey(s, m)] = disk[StateKey(s, m)]
    BY <1>5, <1>8, WriteMade
  <2>2. QED
    BY <1>1, <1>2, <1>4, <2>1 DEF IInv, SoundOn, CursorOn
<1>9. QED
  BY <1>6, <1>7, <1>8

\* The writes that are left are those of the same session, and as careful.
LEMMA WriteKeepsCare ==
  ASSUME IInv, MakeWrite, Len(todo) # 1
  PROVE  OneSession(disk', todo', Flushed) /\ Careful(disk', todo')
<1>1. ASSUME NEW i \in DOMAIN todo' PROVE i + 1 \in DOMAIN todo /\ todo'[i] = todo[i + 1] /\ i \in Nat /\ i # 0
  BY WriteMade
<1>2. OneSession(disk', todo', Flushed)
  <2>1. PICK t \in SessionIds :
          /\ \A i \in DOMAIN todo, s \in SessionIds : todo[i].key \in Of(s) => s = t
          /\ TailOf(Flushed) = TailOf(disk) \/ (TailOf(Flushed) = TailOf(disk) + 1 /\ t = TailOf(disk))
    BY DEF IInv, OneSession
  <2>2. \A i \in DOMAIN todo', s \in SessionIds : todo'[i].key \in Of(s) => s = t
    BY <1>1, <2>1
  <2>3. TailOf(disk') = TailOf(disk)
    BY EndsInBetween
  <2>4. QED
    BY <2>1, <2>2, <2>3 DEF OneSession
<1>3. ASSUME NEW i \in DOMAIN todo', NEW s \in SessionIds, NEW m \in MoveIds,
             todo'[i].key = StateKey(s, m)
      PROVE  IF todo'[i].value = Missing THEN s = TailOf(disk')
             ELSE disk'[MoveKey(s)] = Missing \/ m > disk'[MoveKey(s)]
  <2>1. IF todo'[i].value = Missing THEN s = TailOf(disk)
        ELSE disk[MoveKey(s)] = Missing \/ m > disk[MoveKey(s)]
    BY <1>1, <1>3 DEF IInv, Careful
  <2>2. todo[1].key # MoveKey(s)
    <3>1. ASSUME todo[1].key = MoveKey(s) PROVE FALSE
      <4>1. i + 1 < 1
        BY <1>1, <1>3, <3>1, WriteMade DEF IInv, InOrder
      <4>2. QED
        BY <1>1, <4>1
    <3>2. QED
      BY <3>1
  <2>3. disk'[MoveKey(s)] = disk[MoveKey(s)]
    BY <2>2, WriteMade, KeysKnown
  <2>4. TailOf(disk') = TailOf(disk)
    BY EndsInBetween
  <2>5. QED
    BY <2>1, <2>3, <2>4
<1>4. QED
  BY <1>2, <1>3 DEF Careful

\* A list without writes is in order.
LEMMA NothingInOrder ==
  ASSUME NEW d, NEW e, TailOf(e) = TailOf(d)
  PROVE  InOrder(<<>>) /\ OneSession(d, <<>>, e) /\ Careful(d, <<>>) /\ Once(<<>>)
<1>1. DOMAIN <<>> = {}
  OBVIOUS
<1>2. 0 \in SessionIds
  BY WritesAssumption DEF SessionIds
<1>3. QED
  BY <1>1, <1>2 DEF InOrder, OneSession, Careful, Once

\* A write keeps the invariant.
LEMMA MakeWriteKeeps ==
  ASSUME IInv, MakeWrite
  PROVE  IInv'
<1>1. Flushed' = Flushed /\ Shapes' /\ Once(todo') /\ UNCHANGED <<cache, crashes>>
  BY WriteMade DEF MakeWrite
<1>2. InOrder(todo')
  BY WriteKeepsOrder
<1>3. Known(Flushed)'
  BY <1>1 DEF IInv, Known, IsOpen, MakeWrite
<1>4. Cardinality(BrokenOn(Flushed)) <= crashes /\ SoundOn(Flushed)
  BY DEF IInv
<1>5. CASE Len(todo) = 1
  <2>1. disk' = Flushed /\ todo' = <<>>
    BY <1>5, LastWriteMade
  <2>2. OneSession(Flushed, <<>>, Flushed) /\ Careful(Flushed, <<>>)
    BY NothingInOrder
  <2>3. HeadOf(Flushed) <= HeadOf(Flushed)
    BY <1>4, WritesAssumption DEF SoundOn, Typed, Ends, HeadOf, Db!OrElse
  <2>4. QED
    BY <1>1, <1>2, <1>3, <1>4, <2>1, <2>2, <2>3 DEF IInv
<1>6. CASE Len(todo) # 1
  <2>1. SoundOn(disk')
    BY <1>6, WriteKeepsTypes, WriteKeepsFresh, WriteKeepsCursor DEF SoundOn
  <2>2. OneSession(disk', todo', Flushed) /\ Careful(disk', todo')
    BY <1>6, WriteKeepsCare
  <2>3. HeadOf(disk') <= HeadOf(Flushed)
    BY <1>6, EndsInBetween
  <2>4. QED
    BY <1>1, <1>2, <1>3, <1>4, <2>1, <2>2, <2>3 DEF IInv
<1>7. QED
  BY <1>5, <1>6

-----------------------------------------------------------------------------
(* A kill *)

\* At most one session is damaged on the disk and would not be if the running
\* operation came to its end.
LEMMA DamageInBetween ==
  ASSUME IInv
  PROVE  /\ IsFiniteSet(BrokenOn(disk)) /\ IsFiniteSet(BrokenOn(Flushed))
         /\ Cardinality(BrokenOn(disk)) <= Cardinality(BrokenOn(Flushed)) + 1
<1>1. PICK t \in SessionIds :
        /\ \A i \in DOMAIN todo, s \in SessionIds : todo[i].key \in Of(s) => s = t
        /\ TailOf(Flushed) = TailOf(disk) \/ (TailOf(Flushed) = TailOf(disk) + 1 /\ t = TailOf(disk))
  BY DEF IInv, OneSession
<1>2. ASSUME NEW s \in SessionIds, s # t, NEW k \in Of(s) PROVE Flushed[k] = disk[k]
  <2>1. \A i \in DOMAIN todo : todo[i].key # k
    BY <1>1, <1>2
  <2>2. k \in Keys
    BY KeysOf
  <2>3. QED
    BY <2>1, <2>2, AfterElse DEF Flushed
<1>3. ASSUME NEW s \in SessionIds, s # t, WholeOn(Flushed, s) PROVE WholeOn(disk, s)
  <2>1. /\ Flushed[GameKey(s)] = disk[GameKey(s)] /\ Flushed[DateKey(s)] = disk[DateKey(s)]
        /\ Flushed[MoveKey(s)] = disk[MoveKey(s)]
    BY <1>2, <1>3 DEF Of
  <2>2. disk[MoveKey(s)] \in 0 .. MaxMove
    BY <1>3, <2>1 DEF WholeOn, IInv, SoundOn, Typed
  <2>3. ASSUME NEW m \in 0 .. disk[MoveKey(s)] PROVE disk[StateKey(s, m)] # Missing
    <3>1. m \in MoveIds
      BY <2>2, WritesAssumption DEF MoveIds
    <3>2. Flushed[StateKey(s, m)] = disk[StateKey(s, m)]
      BY <1>2, <1>3, <3>1 DEF Of
    <3>3. QED
      BY <1>3, <2>1, <3>2 DEF WholeOn
  <2>4. QED
    BY <1>3, <2>1, <2>3 DEF WholeOn
<1>4. BrokenOn(disk) \subseteq BrokenOn(Flushed) \cup {t}
  <2>1. SUFFICES ASSUME NEW s \in BrokenOn(disk), s # t PROVE s \in BrokenOn(Flushed)
    OBVIOUS
  <2>2. s \in SessionIds /\ TailOf(disk) <= s /\ s < HeadOf(disk) /\ ~WholeOn(disk, s)
    BY DEF BrokenOn
  <2>3. /\ HeadOf(disk) \in Nat /\ HeadOf(Flushed) \in Nat /\ HeadOf(disk) <= HeadOf(Flushed)
        /\ TailOf(disk) \in Nat
    BY WritesAssumption DEF IInv, SoundOn, Typed, Ends, HeadOf, TailOf, Db!OrElse
  <2>4. TailOf(Flushed) <= s /\ s < HeadOf(Flushed)
    BY <1>1, <2>1, <2>2, <2>3 DEF SessionIds
  <2>5. QED
    BY <1>3, <2>1, <2>2, <2>4 DEF BrokenOn
<1>5. IsFiniteSet(SessionIds)
  BY FS_Interval, WritesAssumption DEF SessionIds
<1>6. IsFiniteSet(BrokenOn(disk)) /\ IsFiniteSet(BrokenOn(Flushed))
  <2>1. BrokenOn(disk) \subseteq SessionIds /\ BrokenOn(Flushed) \subseteq SessionIds
    BY DEF BrokenOn
  <2>2. QED
    BY <1>5, <2>1, FS_Subset
<1>7. /\ IsFiniteSet(BrokenOn(Flushed) \cup {t})
      /\ Cardinality(BrokenOn(Flushed) \cup {t}) <= Cardinality(BrokenOn(Flushed)) + 1
  <2>1. Cardinality(BrokenOn(Flushed)) \in Nat
    BY <1>6, FS_CardinalityType
  <2>2. QED
    BY <1>6, <2>1, FS_AddElement
<1>8. Cardinality(BrokenOn(disk)) <= Cardinality(BrokenOn(Flushed) \cup {t})
  BY <1>4, <1>7, FS_Subset
<1>9. QED
  <2>1. /\ Cardinality(BrokenOn(disk)) \in Nat /\ Cardinality(BrokenOn(Flushed)) \in Nat
        /\ Cardinality(BrokenOn(Flushed) \cup {t}) \in Nat
    BY <1>6, <1>7, FS_CardinalityType
  <2>2. QED
    BY <1>6, <1>7, <1>8, <2>1

\* A kill keeps the invariant, at the cost of one session.
LEMMA CrashKeeps ==
  ASSUME IInv, Crash
  PROVE  IInv'
<1>1. todo' = <<>> /\ cache' = NotOpen /\ disk' = disk /\ crashes' = crashes + 1
  BY DEF Crash
<1>2. disk \in [Keys -> Values] /\ crashes \in Nat
  BY DEF IInv, Shapes
<1>3. Flushed' = disk'
  BY <1>1, <1>2, AfterNothing DEF Flushed
<1>4. Shapes'
  BY <1>1, <1>2, EmptySeq DEF Shapes
<1>5. InOrder(todo') /\ OneSession(disk', todo', Flushed') /\ Careful(disk', todo') /\ Once(todo')
  BY <1>1, <1>3, NothingInOrder
<1>6. Known(Flushed)'
  BY <1>1 DEF Known, IsOpen
<1>7. SoundOn(disk') /\ SoundOn(Flushed')
  BY <1>1, <1>3 DEF IInv
<1>8. HeadOf(disk') <= HeadOf(Flushed')
  BY <1>3, <1>7, WritesAssumption DEF SoundOn, Typed, Ends, HeadOf, Db!OrElse
<1>9. Cardinality(BrokenOn(Flushed')) <= crashes'
  <2>1. Cardinality(BrokenOn(Flushed)) \in Nat /\ Cardinality(BrokenOn(disk)) \in Nat
    BY DamageInBetween, FS_CardinalityType
  <2>2. Cardinality(BrokenOn(Flushed)) <= crashes
    BY DEF IInv
  <2>3. Cardinality(BrokenOn(disk)) <= crashes + 1
    BY <1>2, <2>1, <2>2, DamageInBetween
  <2>4. QED
    BY <1>1, <1>3, <2>3
<1>10. QED
  BY <1>4, <1>5, <1>6, <1>7, <1>8, <1>9 DEF IInv

-----------------------------------------------------------------------------
(* An operation begins *)

\* Between operations the disk is as it was to be.
LEMMA AtRest ==
  ASSUME IInv, Idle
  PROVE  Flushed = disk
BY AfterNothing DEF IInv, Shapes, Idle, Flushed

\* What every operation has to see to.
LEMMA BeginKeeps ==
  ASSUME IInv, Idle, UNCHANGED <<disk, crashes>>,
         cache' \in [head : Ends, tail : Ends] \cup {NotOpen},
         todo' \in Seq(Commands), Once(todo'), InOrder(todo'), Careful(disk, todo'),
         NEW e, e = After(disk, todo'), OneSession(disk, todo', e), Known(e)',
         HeadOf(disk) <= HeadOf(e), SoundOn(e), BrokenOn(e) \subseteq BrokenOn(disk)
  PROVE  IInv'
<1>1. Flushed' = e
  BY DEF Flushed
<1>2. Shapes'
  BY DEF IInv, Shapes
<1>3. Cardinality(BrokenOn(e)) <= crashes'
  <2>1. Cardinality(BrokenOn(disk)) <= crashes /\ crashes \in Nat
    BY AtRest DEF IInv, Shapes
  <2>2. /\ IsFiniteSet(BrokenOn(e)) /\ IsFiniteSet(BrokenOn(disk))
        /\ Cardinality(BrokenOn(e)) <= Cardinality(BrokenOn(disk))
    BY DamageInBetween, FS_Subset
  <2>3. Cardinality(BrokenOn(e)) \in Nat /\ Cardinality(BrokenOn(disk)) \in Nat
    BY <2>2, FS_CardinalityType
  <2>4. QED
    BY <2>1, <2>2, <2>3
<1>4. SoundOn(disk')
  BY DEF IInv
<1>5. Known(Flushed)'
  BY <1>1
<1>6. QED
  BY <1>1, <1>2, <1>3, <1>4, <1>5 DEF IInv

\* A store with the same ends and the same sessions is as sound.
LEMMA SameSessions ==
  ASSUME NEW d, NEW e, SoundOn(d), HeadOf(e) = HeadOf(d), TailOf(e) = TailOf(d),
         e[HeadKey] \in Ends \cup {Missing}, e[TailKey] \in Ends \cup {Missing},
         \A s \in SessionIds : \A k \in Of(s) : e[k] = d[k]
  PROVE  SoundOn(e) /\ BrokenOn(e) \subseteq BrokenOn(d)
<1>1. ASSUME NEW s \in SessionIds
      PROVE  /\ e[MoveKey(s)] = d[MoveKey(s)] /\ e[GameKey(s)] = d[GameKey(s)]
             /\ e[DateKey(s)] = d[DateKey(s)]
             /\ \A m \in MoveIds : e[StateKey(s, m)] = d[StateKey(s, m)]
  BY DEF Of
<1>2. ASSUME NEW s \in SessionIds
      PROVE  d[MoveKey(s)] # Missing => d[MoveKey(s)] \in 0 .. MaxMove /\ 0 .. d[MoveKey(s)] \subseteq MoveIds
  BY WritesAssumption DEF SoundOn, Typed, MoveIds
<1>3. Typed(e)
  BY <1>1 DEF SoundOn, Typed
<1>4. FreshOn(e)
  BY <1>1 DEF SoundOn, FreshOn
<1>5. CursorOn(e)
  <2>1. SUFFICES ASSUME NEW s \in SessionIds, e[MoveKey(s)] # Missing, s # TailOf(e)
                 PROVE  e[StateKey(s, e[MoveKey(s)])] # Missing
    BY DEF CursorOn
  <2>2. d[StateKey(s, d[MoveKey(s)])] # Missing
    BY <1>1, <2>1 DEF SoundOn, CursorOn
  <2>3. d[MoveKey(s)] \in MoveIds
    BY <1>1, <1>2, <2>1
  <2>4. QED
    BY <1>1, <2>2, <2>3
<1>6. ASSUME NEW s \in SessionIds, WholeOn(d, s) PROVE WholeOn(e, s)
  BY <1>1, <1>2, <1>6 DEF WholeOn
<1>7. QED
  BY <1>3, <1>4, <1>5, <1>6 DEF SoundOn, BrokenOn

\* A new handle keeps the invariant.
LEMMA RefreshKeeps ==
  ASSUME IInv, refresh_internal_state
  PROVE  IInv'
<1>1. PICK h, t : /\ h = HeadOf(disk) /\ t = TailOf(disk)
                  /\ cache' = [head |-> h, tail |-> t]
                  /\ todo' = IF Missing \in {disk[HeadKey], disk[TailKey]}
                             THEN <<Set(HeadKey, h), Set(TailKey, t)>> ELSE <<>>
                  /\ Idle /\ UNCHANGED <<disk, crashes>>
  BY DEF refresh_internal_state, HeadOf, TailOf
<1>2. h \in Ends /\ t \in Ends /\ SoundOn(disk) /\ disk \in [Keys -> Values]
  BY <1>1, WritesAssumption DEF IInv, Shapes, SoundOn, Typed, Ends, HeadOf, TailOf, Db!OrElse
<1>3. h \in Nat /\ t \in Nat /\ h # Missing /\ t # Missing /\ cache' # NotOpen
  BY <1>1, <1>2, WritesAssumption DEF Ends, NotOpen
<1>4. cache' \in [head : Ends, tail : Ends] /\ cache'.head = h /\ cache'.tail = t
  BY <1>1, <1>2
<1>5. PICK e : e = After(disk, todo')
  OBVIOUS
<1>6. CASE Missing \notin {disk[HeadKey], disk[TailKey]}
  <2>1. todo' = <<>> /\ e = disk
    BY <1>1, <1>2, <1>5, <1>6, AfterNothing
  <2>2. InOrder(todo') /\ OneSession(disk, todo', e) /\ Careful(disk, todo') /\ Once(todo')
    BY <2>1, NothingInOrder
  <2>3. Known(e)'
    BY <1>1, <1>4, <1>6, <2>1 DEF Known, IsOpen, HeadOf, TailOf, Db!OrElse
  <2>4. todo' \in Seq(Commands) /\ HeadOf(disk) <= HeadOf(e)
    BY <1>1, <1>3, <2>1, EmptySeq
  <2>5. QED
    BY <1>1, <1>2, <1>4, <1>5, <2>1, <2>2, <2>3, <2>4, BeginKeeps
<1>7. CASE Missing \in {disk[HeadKey], disk[TailKey]}
  <2>1. PICK ws : ws = todo' /\ ws = <<Set(HeadKey, h), Set(TailKey, t)>>
    BY <1>1, <1>7
  <2>2. /\ DOMAIN ws = {1, 2} /\ Len(ws) = 2 /\ ws # <<>>
        /\ ws[1].key = HeadKey /\ ws[1].value = h /\ ws[2].key = TailKey /\ ws[2].value = t
    BY <2>1 DEF Set
  <2>3. ws \in Seq(Commands)
    <3>1. Set(HeadKey, h) \in Commands /\ Set(TailKey, t) \in Commands
      BY <1>3, KeysKnown DEF Set, Commands, Values
    <3>2. QED
      BY <2>1, <3>1
  <2>4. HeadKey # TailKey /\ \A s \in SessionIds : HeadKey \notin Of(s) /\ TailKey \notin Of(s)
    BY KeyNames, KeysOf
  <2>5. Once(ws)
    BY <2>2, <2>4 DEF Once
  <2>6. /\ e[HeadKey] = h /\ e[TailKey] = t
        /\ \A k \in Keys : k # HeadKey /\ k # TailKey => e[k] = disk[k]
    <3>1. e = After(disk, ws)
      BY <1>5, <2>1
    <3>2. e[ws[1].key] = ws[1].value /\ e[ws[2].key] = ws[2].value
      BY <2>2, <2>3, <2>5, <3>1, AfterAt
    <3>3. \A k \in Keys : k # HeadKey /\ k # TailKey => e[k] = disk[k]
      BY <2>2, <3>1, AfterElse
    <3>4. QED
      BY <2>2, <3>2, <3>3
  <2>7. HeadOf(e) = HeadOf(disk) /\ TailOf(e) = TailOf(disk) /\ HeadOf(disk) <= HeadOf(e)
    BY <1>1, <1>3, <2>6 DEF HeadOf, TailOf, Db!OrElse
  <2>8. SoundOn(e) /\ BrokenOn(e) \subseteq BrokenOn(disk)
    <3>1. \A s \in SessionIds : \A k \in Of(s) : e[k] = disk[k]
      BY <2>6, KeysOf
    <3>2. QED
      BY <1>2, <2>6, <2>7, <3>1, SameSessions
  <2>9. Known(e)'
    BY <1>4, <2>6, <1>3 DEF Known, IsOpen
  <2>10. InOrder(ws)
    <3>1. \A s \in SessionIds : \A m \in MoveIds : StateKey(s, m) # HeadKey /\ StateKey(s, m) # TailKey
      BY KeyNames
    <3>2. QED
      BY <2>2, <2>4, <3>1 DEF InOrder
  <2>11. OneSession(disk, ws, e) /\ Careful(disk, ws)
    <3>1. 0 \in SessionIds
      BY WritesAssumption DEF SessionIds
    <3>2. OneSession(disk, ws, e)
      BY <2>2, <2>4, <2>7, <3>1 DEF OneSession
    <3>3. \A s \in SessionIds : \A m \in MoveIds : StateKey(s, m) # HeadKey /\ StateKey(s, m) # TailKey
      BY KeyNames
    <3>4. QED
      BY <2>2, <3>2, <3>3 DEF Careful
  <2>12. QED
    BY <1>1, <1>4, <1>5, <2>1, <2>3, <2>5, <2>7, <2>8, <2>9, <2>10, <2>11, BeginKeeps
<1>8. QED
  BY <1>6, <1>7

\* Undo and redo keep the invariant: the cursor moves by one and to a stored state.
LEMMA UndoRedoKeeps ==
  ASSUME IInv, NEW s \in SessionIds, NEW d \in {-1, 0, 1}, UndoRedo(s, d)
  PROVE  IInv'
<1>1. disk = Flushed
  BY AtRest DEF UndoRedo
<1>2. /\ Idle /\ IsOpen /\ UNCHANGED <<disk, cache, crashes>> /\ disk[MoveKey(s)] # Missing
      /\ disk \in [Keys -> Values] /\ SoundOn(disk) /\ Known(disk)
  BY <1>1 DEF UndoRedo, Db!has_saved_state_offset, IInv, Shapes
<1>3. PICK c \in 0 .. MaxMove : c = disk[MoveKey(s)]
  BY <1>2 DEF SoundOn, Typed
<1>4. PICK n : n = Db!Shift(disk[MoveKey(s)], d)
  OBVIOUS
<1>5. n = (c + d) % Wrap /\ n \in MoveIds
  BY <1>3, <1>4, WritesAssumption DEF Db!Shift, MoveIds
<1>6. disk[StateKey(s, n)] # Missing
  BY <1>1, <1>4, <1>5 DEF UndoRedo, Db!has_saved_state_offset
<1>7. n <= MaxMove
  BY <1>2, <1>5, <1>6 DEF SoundOn, Typed
<1>8. n \in Nat /\ n <= c + 1
  <2>1. n \in Nat
    BY <1>5, WritesAssumption DEF MoveIds
  <2>2. CASE c + d \in MoveIds
    BY <1>3, <1>5, <2>2, WritesAssumption DEF MoveIds
  <2>3. CASE c + d \notin MoveIds
    <3>1. c + d = -1
      BY <1>3, <2>3, WritesAssumption DEF MoveIds
    <3>2. n = Wrap - 1
      BY <1>5, <3>1, WritesAssumption
    <3>3. QED
      BY <1>7, <3>2, WritesAssumption
  <2>4. QED
    BY <2>1, <2>2, <2>3
<1>9. PICK ws : ws = todo' /\ ws = <<Set(MoveKey(s), n)>>
  BY <1>1, <1>4 DEF UndoRedo
<1>10. /\ DOMAIN ws = {1} /\ Len(ws) = 1 /\ ws # <<>>
      /\ ws[1].key = MoveKey(s) /\ ws[1].value = n
  BY <1>9 DEF Set
<1>11. ws \in Seq(Commands) /\ Once(ws)
  <2>1. Set(MoveKey(s), n) \in Commands
    BY <1>8, KeysKnown DEF Set, Commands, Values
  <2>2. QED
    BY <1>9, <1>10, <2>1 DEF Once
<1>12. PICK e : e = After(disk, ws)
  OBVIOUS
<1>13. e[MoveKey(s)] = n /\ \A k \in Keys : k # MoveKey(s) => e[k] = disk[k]
  <2>1. e[ws[1].key] = ws[1].value
    BY <1>10, <1>11, <1>12, AfterAt
  <2>2. \A k \in Keys : k # MoveKey(s) => e[k] = disk[k]
    BY <1>10, <1>12, AfterElse
  <2>3. QED
    BY <1>10, <2>1, <2>2
<1>14. /\ e[HeadKey] = disk[HeadKey] /\ e[TailKey] = disk[TailKey]
       /\ \A t \in SessionIds : /\ e[GameKey(t)] = disk[GameKey(t)] /\ e[DateKey(t)] = disk[DateKey(t)]
                                /\ t # s => e[MoveKey(t)] = disk[MoveKey(t)]
                                /\ \A m \in MoveIds : e[StateKey(t, m)] = disk[StateKey(t, m)]
  BY <1>13, KeyNames, KeysKnown
<1>15. HeadOf(e) = HeadOf(disk) /\ TailOf(e) = TailOf(disk) /\ HeadOf(disk) \in Nat
  BY <1>2, <1>14, WritesAssumption DEF HeadOf, TailOf, Db!OrElse, SoundOn, Typed, Ends
<1>16. Typed(e)
  <2>1. n \in 0 .. MaxMove
    BY <1>7, <1>8, WritesAssumption
  <2>2. QED
    BY <1>2, <1>13, <1>14, <1>15, <2>1 DEF SoundOn, Typed
<1>17. FreshOn(e)
  BY <1>2, <1>14, <1>15 DEF SoundOn, FreshOn
<1>18. CursorOn(e)
  <2>1. ASSUME NEW t \in SessionIds, t # s, e[MoveKey(t)] # Missing, t # TailOf(e)
        PROVE  e[StateKey(t, e[MoveKey(t)])] # Missing
    <3>1. disk[StateKey(t, disk[MoveKey(t)])] # Missing
      BY <1>2, <1>14, <1>15, <2>1 DEF SoundOn, CursorOn
    <3>2. disk[MoveKey(t)] \in MoveIds
      BY <1>2, <1>14, <2>1, WritesAssumption DEF SoundOn, Typed, MoveIds
    <3>3. QED
      BY <1>14, <2>1, <3>1, <3>2
  <2>2. e[StateKey(s, n)] # Missing
    BY <1>5, <1>6, <1>14
  <2>3. QED
    BY <1>13, <2>1, <2>2 DEF CursorOn
<1>19. ASSUME NEW t \in SessionIds, WholeOn(disk, t) PROVE WholeOn(e, t)
  <2>1. disk[MoveKey(t)] \in 0 .. MaxMove
    BY <1>2, <1>19 DEF WholeOn, SoundOn, Typed
  <2>2. \A m \in 0 .. MaxMove : m \in MoveIds
    BY WritesAssumption DEF MoveIds
  <2>3. CASE t # s
    <3>1. e[MoveKey(t)] = disk[MoveKey(t)]
      BY <1>14, <2>3
    <3>2. ASSUME NEW m \in 0 .. disk[MoveKey(t)] PROVE e[StateKey(t, m)] # Missing
      <4>1. m \in MoveIds
        <5>1. PICK q \in 0 .. MaxMove : q = disk[MoveKey(t)]
          BY <2>1
        <5>2. QED
          BY <2>2, <5>1, WritesAssumption
      <4>2. disk[StateKey(t, m)] # Missing
        BY <1>19 DEF WholeOn
      <4>3. QED
        BY <1>14, <4>1, <4>2
    <3>3. QED
      BY <1>14, <1>19, <3>1, <3>2 DEF WholeOn
  <2>4. CASE t = s
    <3>1. ASSUME NEW m \in 0 .. n PROVE e[StateKey(s, m)] # Missing
      <4>1. m \in MoveIds /\ (m = n \/ m \in 0 .. c)
        BY <1>3, <1>7, <1>8, <3>1, WritesAssumption DEF MoveIds
      <4>2. disk[StateKey(s, m)] # Missing
        BY <1>3, <1>6, <1>19, <2>4, <4>1 DEF WholeOn
      <4>3. QED
        BY <1>14, <4>1, <4>2
    <3>2. n # Missing
      BY <1>8, WritesAssumption
    <3>3. QED
      BY <1>13, <1>14, <1>19, <2>4, <3>1, <3>2 DEF WholeOn
  <2>5. QED
    BY <2>3, <2>4
<1>20. BrokenOn(e) \subseteq BrokenOn(disk)
  BY <1>15, <1>19 DEF BrokenOn
<1>21. InOrder(ws) /\ OneSession(disk, ws, e) /\ Careful(disk, ws)
  <2>1. MoveKey(s) # HeadKey /\ MoveKey(s) # TailKey /\ \A t, m : MoveKey(s) # StateKey(t, m)
    BY KeyNames
  <2>2. \A t \in SessionIds : MoveKey(s) \in Of(t) => t = s
    BY KeysOf DEF Of
  <2>3. OneSession(disk, ws, e)
    BY <1>10, <1>15, <2>2 DEF OneSession
  <2>4. QED
    BY <1>10, <2>1, <2>3 DEF InOrder, Careful
<1>22. Known(e)'
  BY <1>2, <1>14 DEF Known, IsOpen
<1>23. cache' \in [head : Ends, tail : Ends] \cup {NotOpen} /\ HeadOf(disk) <= HeadOf(e)
  BY <1>2, <1>15 DEF IInv, Shapes
<1>24. QED
  BY <1>2, <1>9, <1>11, <1>12, <1>16, <1>17, <1>18, <1>20, <1>21, <1>22, <1>23, BeginKeeps DEF SoundOn

-----------------------------------------------------------------------------
(* A state is saved *)

\* The writes of a save are in order, and each does what it says.
LEMMA OldSessionWrites ==
  ASSUME NEW s \in SessionIds, NEW g \in Games, NEW x \in States, NEW m \in 0 .. MaxMove,
         NEW d, NEW ws, ws = <<>> \o AppendWrites(g, s, x, m)
  PROVE  /\ ws \in Seq(Commands) /\ ws # <<>> /\ Once(ws) /\ InOrder(ws)
         /\ After(d, ws)[StateKey(s, m)] = x /\ After(d, ws)[DateKey(s)] = Date
         /\ After(d, ws)[MoveKey(s)] = m /\ After(d, ws)[LastKey(g)] = s
         /\ \A k \in Keys \ {StateKey(s, m), DateKey(s), MoveKey(s), LastKey(g)} : After(d, ws)[k] = d[k]
         /\ \A i \in DOMAIN ws : ws[i] \in {Set(StateKey(s, m), x), Set(DateKey(s), Date), Set(MoveKey(s), m), Set(LastKey(g), s)}
<1>1. m \in Nat /\ m \in MoveIds /\ s \in Nat
  BY WritesAssumption DEF MoveIds, SessionIds
<1>2. \A k \in Keys, v \in Values : Set(k, v) \in Commands /\ Set(k, v).key = k /\ Set(k, v).value = v
  BY DEF Set, Commands
<1>3. PICK a, b, c, l : /\ a = Set(StateKey(s, m), x) /\ b = Set(DateKey(s), Date)
                        /\ c = Set(MoveKey(s), m) /\ l = Set(LastKey(g), s)
  OBVIOUS
<1>4. /\ a \in Commands /\ b \in Commands /\ c \in Commands /\ l \in Commands
      /\ a.key = StateKey(s, m) /\ b.key = DateKey(s) /\ c.key = MoveKey(s) /\ l.key = LastKey(g)
      /\ a.value = x /\ b.value = Date /\ c.value = m /\ l.value = s
  BY <1>1, <1>2, <1>3, KeysKnown DEF Values
<1>5. ws = <<a, b, c, l>> /\ ws \in Seq(Commands)
  <2>1. <<a, b, c, l>> \in Seq(Commands)
    BY <1>4
  <2>2. ws = <<>> \o <<a, b, c, l>>
    BY <1>3 DEF AppendWrites
  <2>3. QED
    BY <2>1, <2>2, ConcatEmptySeq
<1>6. /\ DOMAIN ws = 1 .. 4 /\ Len(ws) = 4 /\ ws # <<>>
      /\ ws[1] = a /\ ws[2] = b /\ ws[3] = c /\ ws[4] = l
  BY <1>5
<1>7. Once(ws)
  BY <1>4, <1>6, KeyNames DEF Once
<1>8. InOrder(ws)
  <2>1. \A i \in DOMAIN ws : ws[i].key # HeadKey /\ ws[i].key # TailKey
    BY <1>4, <1>6, KeyNames
  <2>2. \A i \in DOMAIN ws, t \in SessionIds, n \in MoveIds : ws[i].key = StateKey(t, n) => i = 1
    BY <1>4, <1>6, KeyNames
  <2>3. \A i \in DOMAIN ws, t \in SessionIds : ws[i].key = MoveKey(t) => i = 3
    BY <1>4, <1>6, KeyNames
  <2>4. QED
    BY <2>1, <2>2, <2>3 DEF InOrder
<1>9. /\ After(d, ws)[StateKey(s, m)] = x /\ After(d, ws)[DateKey(s)] = Date
      /\ After(d, ws)[MoveKey(s)] = m /\ After(d, ws)[LastKey(g)] = s
  <2>1. \A i \in 1 .. 4 : After(d, ws)[ws[i].key] = ws[i].value
    BY <1>5, <1>6, <1>7, AfterAt
  <2>2. QED
    BY <1>4, <1>6, <2>1
<1>10. ASSUME NEW k \in Keys \ {StateKey(s, m), DateKey(s), MoveKey(s), LastKey(g)}
       PROVE  After(d, ws)[k] = d[k]
  <2>1. \A i \in DOMAIN ws : ws[i].key # k
    BY <1>4, <1>6
  <2>2. QED
    BY <2>1, AfterElse
<1>11. \A i \in DOMAIN ws : ws[i] \in {a, b, c, l}
  BY <1>6
<1>12. QED
  BY <1>3, <1>5, <1>6, <1>7, <1>8, <1>9, <1>10, <1>11

\* What the writes ws of a save that begins session s do to the store d.
BeginsSession(d, ws, s, g, x, m) ==
  /\ ws \in Seq(Commands) /\ ws # <<>> /\ Once(ws) /\ InOrder(ws)
  /\ After(d, ws)[HeadKey] = s + 1 /\ After(d, ws)[GameKey(s)] = g
  /\ After(d, ws)[StateKey(s, m)] = x /\ After(d, ws)[DateKey(s)] = Date
  /\ After(d, ws)[MoveKey(s)] = m /\ After(d, ws)[LastKey(g)] = s
  /\ \A k \in Keys \ {HeadKey, GameKey(s), StateKey(s, m), DateKey(s), MoveKey(s), LastKey(g)} :
       After(d, ws)[k] = d[k]
  /\ \A i \in DOMAIN ws : ws[i] \in {Set(HeadKey, s + 1), Set(GameKey(s), g),
       Set(StateKey(s, m), x), Set(DateKey(s), Date), Set(MoveKey(s), m), Set(LastKey(g), s)}

\* The head is written first.
LEMMA NewSessionWrites ==
  ASSUME NEW s \in SessionIds, NEW g \in Games, NEW x \in States, NEW m \in 0 .. MaxMove,
         NEW d, NEW ws, ws = NewWrites(g, s) \o AppendWrites(g, s, x, m)
  PROVE  BeginsSession(d, ws, s, g, x, m)
<1>1. m \in Nat /\ m \in MoveIds /\ s \in Nat /\ s + 1 \in Nat
  BY WritesAssumption DEF MoveIds, SessionIds
<1>2. \A k \in Keys, v \in Values : Set(k, v) \in Commands /\ Set(k, v).key = k /\ Set(k, v).value = v
  BY DEF Set, Commands
<1>3. PICK h, o, a, b, c, l :
        /\ h = Set(HeadKey, s + 1) /\ o = Set(GameKey(s), g)
        /\ a = Set(StateKey(s, m), x) /\ b = Set(DateKey(s), Date)
        /\ c = Set(MoveKey(s), m) /\ l = Set(LastKey(g), s)
  OBVIOUS
<1>4. /\ a \in Commands /\ b \in Commands /\ c \in Commands /\ l \in Commands
      /\ a.key = StateKey(s, m) /\ b.key = DateKey(s) /\ c.key = MoveKey(s) /\ l.key = LastKey(g)
      /\ a.value = x /\ b.value = Date /\ c.value = m /\ l.value = s
  BY <1>1, <1>2, <1>3, KeysKnown DEF Values
<1>5. /\ h \in Commands /\ o \in Commands
       /\ h.key = HeadKey /\ o.key = GameKey(s) /\ h.value = s + 1 /\ o.value = g
  BY <1>1, <1>2, <1>3, KeysKnown DEF Values
<1>6. ws \in Seq(Commands) /\ Len(ws) = 6 /\ DOMAIN ws = 1 .. 6
      /\ ws[1] = h /\ ws[2] = o /\ ws[3] = a /\ ws[4] = b /\ ws[5] = c /\ ws[6] = l
  <2>1. PICK p, q : p = <<h, o>> /\ q = <<a, b, c, l>>
    OBVIOUS
  <2>2. /\ p \in Seq(Commands) /\ Len(p) = 2 /\ p[1] = h /\ p[2] = o
        /\ q \in Seq(Commands) /\ Len(q) = 4 /\ q[1] = a /\ q[2] = b /\ q[3] = c /\ q[4] = l
    <3>1. /\ p \in Seq(Commands) /\ Len(p) = 2 /\ p[1] = h /\ p[2] = o
      BY <1>5, <2>1
    <3>2. /\ q \in Seq(Commands) /\ Len(q) = 4 /\ q[1] = a /\ q[2] = b /\ q[3] = c /\ q[4] = l
      BY <1>4, <2>1
    <3>3. QED
      BY <3>1, <3>2
  <2>3. ws = p \o q
    BY <1>3, <2>1 DEF AppendWrites, NewWrites
  <2>4. /\ ws \in Seq(Commands) /\ Len(ws) = 6
        /\ \A i \in 1 .. 6 : ws[i] = IF i <= 2 THEN p[i] ELSE q[i - 2]
    <3>1. /\ ws \in Seq(Commands) /\ Len(ws) = Len(p) + Len(q)
          /\ \A i \in 1 .. Len(p) + Len(q) : ws[i] = IF i <= Len(p) THEN p[i] ELSE q[i - Len(p)]
      <4>1. p \in Seq(Commands) /\ q \in Seq(Commands)
        BY <2>2
      <4>2. QED
        BY <2>3, <4>1, ConcatProperties
    <3>2. Len(p) = 2 /\ Len(q) = 4
      BY <2>2
    <3>3. QED
      BY <3>1, <3>2
  <2>5. DOMAIN ws = 1 .. 6
    BY <2>4, LenProperties
  <2>6. /\ ws[1] = p[1] /\ ws[2] = p[2] /\ ws[3] = q[1] /\ ws[4] = q[2]
        /\ ws[5] = q[3] /\ ws[6] = q[4]
    BY <2>4, SMTT(20)
  <2>7. QED
    BY <2>2, <2>4, <2>5, <2>6
<1>7. ws # <<>> /\ \A i \in DOMAIN ws : i \in {1, 2, 3, 4, 5, 6}
  BY <1>6
<1>8. \A i \in DOMAIN ws :
        \/ i = 1 /\ ws[i] = h /\ ws[i].key = HeadKey
        \/ i = 2 /\ ws[i] = o /\ ws[i].key = GameKey(s)
        \/ i = 3 /\ ws[i] = a /\ ws[i].key = StateKey(s, m)
        \/ i = 4 /\ ws[i] = b /\ ws[i].key = DateKey(s)
        \/ i = 5 /\ ws[i] = c /\ ws[i].key = MoveKey(s)
        \/ i = 6 /\ ws[i] = l /\ ws[i].key = LastKey(g)
  <2>1. SUFFICES ASSUME NEW i \in DOMAIN ws
        PROVE
          \/ i = 1 /\ ws[i] = h /\ ws[i].key = HeadKey
          \/ i = 2 /\ ws[i] = o /\ ws[i].key = GameKey(s)
          \/ i = 3 /\ ws[i] = a /\ ws[i].key = StateKey(s, m)
          \/ i = 4 /\ ws[i] = b /\ ws[i].key = DateKey(s)
          \/ i = 5 /\ ws[i] = c /\ ws[i].key = MoveKey(s)
          \/ i = 6 /\ ws[i] = l /\ ws[i].key = LastKey(g)
    OBVIOUS
  <2>2. /\ ws[1] = h /\ ws[2] = o /\ ws[3] = a /\ ws[4] = b /\ ws[5] = c /\ ws[6] = l
        /\ a.key = StateKey(s, m) /\ b.key = DateKey(s) /\ c.key = MoveKey(s) /\ l.key = LastKey(g)
        /\ h.key = HeadKey /\ o.key = GameKey(s)
    BY <1>4, <1>5, <1>6
  <2>3. CASE i = 1
    BY <2>2, <2>3
  <2>4. CASE i = 2
    BY <2>2, <2>4
  <2>5. CASE i = 3
    BY <2>2, <2>5
  <2>6. CASE i = 4
    BY <2>2, <2>6
  <2>7. CASE i = 5
    BY <2>2, <2>7
  <2>8. CASE i = 6
    BY <2>2, <2>8
  <2>9. QED
    BY <1>7, <2>3, <2>4, <2>5, <2>6, <2>7, <2>8
<1>9. \A i \in DOMAIN ws :
        \/ i = 1 /\ ws[i].key[1] = "sess_head"
        \/ i = 2 /\ ws[i].key[1] = "game_id"
        \/ i = 3 /\ ws[i].key[1] = "state"
        \/ i = 4 /\ ws[i].key[1] = "last_updated"
        \/ i = 5 /\ ws[i].key[1] = "last_move_id"
        \/ i = 6 /\ ws[i].key[1] = "last_sess_id"
  BY <1>8, KeyNames
<1>10. Once(ws)
  <2>1. SUFFICES ASSUME NEW i \in DOMAIN ws, NEW j \in DOMAIN ws, ws[i].key[1] = ws[j].key[1]
                 PROVE  i = j
    BY DEF Once
  <2>2. QED
    BY <1>9, <2>1
<1>11. InOrder(ws)
  <2>1. \A i \in DOMAIN ws : ws[i].key[1] # "sess_tail" /\ (ws[i].key[1] = "sess_head" => i = 1)
    BY <1>9
  <2>2. \A i \in DOMAIN ws : ws[i].key[1] = "state" => i = 3
    BY <1>9
  <2>3. \A i \in DOMAIN ws : ws[i].key[1] = "last_move_id" => i = 5
    BY <1>9
  <2>4. \A i \in DOMAIN ws : ws[i].key # TailKey /\ (ws[i].key = HeadKey => i = 1)
    BY <2>1, KeyNames
  <2>5. \A i \in DOMAIN ws, t \in SessionIds, n \in MoveIds : ws[i].key = StateKey(t, n) => i = 3
    BY <2>2, KeyNames
  <2>6. \A i \in DOMAIN ws, t \in SessionIds : ws[i].key = MoveKey(t) => i = 5
    BY <2>3, KeyNames
  <2>7. QED
    BY <2>4, <2>5, <2>6 DEF InOrder
<1>12. /\ After(d, ws)[HeadKey] = s + 1 /\ After(d, ws)[GameKey(s)] = g
       /\ After(d, ws)[StateKey(s, m)] = x /\ After(d, ws)[DateKey(s)] = Date
       /\ After(d, ws)[MoveKey(s)] = m /\ After(d, ws)[LastKey(g)] = s
  <2>1. /\ After(d, ws)[ws[1].key] = ws[1].value /\ After(d, ws)[ws[2].key] = ws[2].value
        /\ After(d, ws)[ws[3].key] = ws[3].value /\ After(d, ws)[ws[4].key] = ws[4].value
        /\ After(d, ws)[ws[5].key] = ws[5].value /\ After(d, ws)[ws[6].key] = ws[6].value
    <3>1. ws \in Seq(Commands)
      BY <1>6
    <3>2. \A i \in DOMAIN ws : After(d, ws)[ws[i].key] = ws[i].value
      BY <1>10, <3>1, AfterAt
    <3>3. 1 \in DOMAIN ws /\ 2 \in DOMAIN ws /\ 3 \in DOMAIN ws
          /\ 4 \in DOMAIN ws /\ 5 \in DOMAIN ws /\ 6 \in DOMAIN ws
      BY <1>6
    <3>4. QED
      BY <3>2, <3>3
  <2>2. After(d, ws)[HeadKey] = s + 1 /\ After(d, ws)[GameKey(s)] = g
    BY <1>6, <1>5, <2>1
  <2>3. /\ After(d, ws)[StateKey(s, m)] = x /\ After(d, ws)[DateKey(s)] = Date
        /\ After(d, ws)[MoveKey(s)] = m /\ After(d, ws)[LastKey(g)] = s
    BY <1>4, <1>6, <2>1
  <2>4. QED
    BY <2>2, <2>3
<1>13. ASSUME NEW k \in Keys \ {HeadKey, GameKey(s), StateKey(s, m), DateKey(s), MoveKey(s), LastKey(g)}
       PROVE  After(d, ws)[k] = d[k]
  <2>1. \A i \in DOMAIN ws : ws[i].key # k
    BY <1>8
  <2>2. QED
    BY <2>1, AfterElse
<1>14. \A i \in DOMAIN ws : ws[i] \in {h, o, a, b, c, l}
  BY <1>8
<1>15. QED
  BY <1>3, <1>6, <1>7, <1>10, <1>11, <1>12, <1>13, <1>14 DEF BeginsSession

\* The state goes behind the cursor.
LEMMA NextMoveIs ==
  ASSUME IInv, NEW s \in SessionIds, NEW m, m = Db!Shift(Db!OrElse(disk[MoveKey(s)], -1), 1),
         m <= MaxMove
  PROVE  /\ m \in 0 .. MaxMove /\ m \in MoveIds
         /\ disk[MoveKey(s)] = Missing => m = 0
         /\ disk[MoveKey(s)] # Missing => disk[MoveKey(s)] \in 0 .. MaxMove /\ m = disk[MoveKey(s)] + 1
<1>1. CASE disk[MoveKey(s)] = Missing
  <2>1. m = 0
    BY <1>1, WritesAssumption DEF Db!Shift, Db!OrElse
  <2>2. QED
    BY <1>1, <2>1, WritesAssumption DEF MoveIds
<1>2. CASE disk[MoveKey(s)] # Missing
  <2>1. PICK c \in 0 .. MaxMove : c = disk[MoveKey(s)]
    BY <1>2 DEF IInv, SoundOn, Typed
  <2>2. m = (c + 1) % Wrap
    BY <1>2, <2>1 DEF Db!Shift, Db!OrElse
  <2>3. m = c + 1
    BY <2>1, <2>2, WritesAssumption
  <2>4. QED
    BY <1>2, <2>1, <2>3, WritesAssumption DEF MoveIds
<1>3. QED
  BY <1>1, <1>2

\* What a save will have left, of a new session or an old one.
LEMMA SaveLeaves ==
  ASSUME IInv, NEW g \in Games, NEW s \in SessionIds, NEW x \in States, save_state(g, s, x),
         NEW m, m = Db!Shift(Db!OrElse(disk[MoveKey(s)], -1), 1),
         NEW ws, ws = todo', NEW e, e = After(disk, ws)
  PROVE  /\ m <= MaxMove
         /\ ws \in Seq(Commands) /\ ws # <<>> /\ Once(ws) /\ InOrder(ws)
         /\ \A i \in DOMAIN ws : ws[i] \in {Set(HeadKey, s + 1), Set(GameKey(s), g),
              Set(StateKey(s, m), x), Set(DateKey(s), Date), Set(MoveKey(s), m), Set(LastKey(g), s)}
         /\ e[HeadKey] = IF s = cache.head THEN s + 1 ELSE disk[HeadKey]
         /\ e[GameKey(s)] = IF s = cache.head THEN g ELSE disk[GameKey(s)]
         /\ e[StateKey(s, m)] = x /\ e[DateKey(s)] = Date /\ e[MoveKey(s)] = m
         /\ e[LastKey(g)] = s
         /\ \A k \in Keys \ {HeadKey, GameKey(s), StateKey(s, m), DateKey(s), MoveKey(s), LastKey(g)} :
              e[k] = disk[k]
<1>1. m <= MaxMove /\ ws = (IF s = cache.head THEN NewWrites(g, s) ELSE <<>>) \o AppendWrites(g, s, x, m)
  BY DEF save_state
<1>2. m \in 0 .. MaxMove /\ m \in MoveIds
  BY <1>1, NextMoveIs
<1>3. CASE s = cache.head
  <2>1. ws = NewWrites(g, s) \o AppendWrites(g, s, x, m)
    BY <1>1, <1>3
  <2>2. BeginsSession(disk, ws, s, g, x, m)
    BY <1>2, <2>1, NewSessionWrites
  <2>3. QED
    BY <1>1, <1>3, <2>2 DEF BeginsSession
<1>4. CASE s # cache.head
  <2>1. ws = <<>> \o AppendWrites(g, s, x, m)
    BY <1>1, <1>4
  <2>2. /\ ws \in Seq(Commands) /\ ws # <<>> /\ Once(ws) /\ InOrder(ws)
        /\ e[StateKey(s, m)] = x /\ e[DateKey(s)] = Date /\ e[MoveKey(s)] = m /\ e[LastKey(g)] = s
        /\ \A k \in Keys \ {StateKey(s, m), DateKey(s), MoveKey(s), LastKey(g)} : e[k] = disk[k]
        /\ \A i \in DOMAIN ws : ws[i] \in {Set(StateKey(s, m), x), Set(DateKey(s), Date), Set(MoveKey(s), m), Set(LastKey(g), s)}
    BY <1>2, <2>1, OldSessionWrites
  <2>3. e[HeadKey] = disk[HeadKey] /\ e[GameKey(s)] = disk[GameKey(s)]
    BY <2>2, KeyNames, KeysKnown
  <2>4. QED
    BY <1>1, <1>4, <2>2, <2>3
<1>5. QED
  BY <1>3, <1>4

\* A save keeps the invariant.
LEMMA SaveKeeps ==
  ASSUME IInv, NEW g \in Games, NEW s \in SessionIds, NEW x \in States, save_state(g, s, x)
  PROVE  IInv'
<1>1. disk = Flushed
  BY AtRest DEF save_state
<1>2. /\ Idle /\ IsOpen /\ UNCHANGED <<disk, crashes>> /\ SoundOn(disk) /\ Known(disk)
      /\ cache \in [head : Ends, tail : Ends] /\ disk \in [Keys -> Values]
  BY <1>1 DEF save_state, IInv, Shapes, IsOpen
<1>3. PICK m, ws, e : /\ m = Db!Shift(Db!OrElse(disk[MoveKey(s)], -1), 1)
                      /\ ws = todo' /\ e = After(disk, ws)
  OBVIOUS
<1>4. /\ m <= MaxMove
      /\ ws \in Seq(Commands) /\ ws # <<>> /\ Once(ws) /\ InOrder(ws)
      /\ \A i \in DOMAIN ws : ws[i] \in {Set(HeadKey, s + 1), Set(GameKey(s), g),
           Set(StateKey(s, m), x), Set(DateKey(s), Date), Set(MoveKey(s), m), Set(LastKey(g), s)}
  BY <1>3, SaveLeaves
<1>5. /\ e[HeadKey] = IF s = cache.head THEN s + 1 ELSE disk[HeadKey]
      /\ e[GameKey(s)] = IF s = cache.head THEN g ELSE disk[GameKey(s)]
      /\ e[StateKey(s, m)] = x /\ e[DateKey(s)] = Date /\ e[MoveKey(s)] = m
      /\ \A k \in Keys \ {HeadKey, GameKey(s), StateKey(s, m), DateKey(s), MoveKey(s), LastKey(g)} :
           e[k] = disk[k]
  BY <1>3, SaveLeaves
<1>6. /\ m \in 0 .. MaxMove /\ m \in MoveIds
      /\ disk[MoveKey(s)] = Missing => m = 0
      /\ disk[MoveKey(s)] # Missing => disk[MoveKey(s)] \in 0 .. MaxMove /\ m = disk[MoveKey(s)] + 1
  BY <1>3, <1>4, NextMoveIs
<1>7. /\ e[TailKey] = disk[TailKey]
      /\ \A t \in SessionIds : t # s =>
           /\ e[GameKey(t)] = disk[GameKey(t)] /\ e[DateKey(t)] = disk[DateKey(t)]
           /\ e[MoveKey(t)] = disk[MoveKey(t)]
           /\ \A n \in MoveIds : e[StateKey(t, n)] = disk[StateKey(t, n)]
      /\ \A n \in MoveIds : n # m => e[StateKey(s, n)] = disk[StateKey(s, n)]
  <2>1. e[TailKey] = disk[TailKey]
    BY <1>5, KeyNames, KeysKnown
  <2>2. ASSUME NEW t \in SessionIds, t # s
        PROVE  /\ e[GameKey(t)] = disk[GameKey(t)] /\ e[DateKey(t)] = disk[DateKey(t)]
               /\ e[MoveKey(t)] = disk[MoveKey(t)]
    BY <1>5, <2>2, KeyNames, KeysKnown
  <2>3. ASSUME NEW t \in SessionIds, NEW n \in MoveIds, t # s \/ n # m
        PROVE  e[StateKey(t, n)] = disk[StateKey(t, n)]
    BY <1>5, <2>3, KeyNames, KeysKnown
  <2>4. QED
    BY <2>1, <2>2, <2>3
<1>8. PICK h \in Ends, l \in Ends :
        /\ h = cache.head /\ l = cache.tail /\ h = disk[HeadKey] /\ l = disk[TailKey]
        /\ l <= h /\ (s = h \/ (l <= s /\ s < h))
        /\ h \in Nat /\ l \in Nat /\ h # Missing /\ l # Missing
        /\ HeadOf(disk) = h /\ TailOf(disk) = l
  <2>1. PICK h \in Ends, l \in Ends : h = cache.head /\ l = cache.tail
    BY <1>2
  <2>2. h = disk[HeadKey] /\ l = disk[TailKey]
    BY <1>2, <2>1 DEF Known
  <2>3. h \in Nat /\ l \in Nat /\ h # Missing /\ l # Missing
    BY WritesAssumption DEF Ends
  <2>4. HeadOf(disk) = h /\ TailOf(disk) = l
    BY <2>2, <2>3 DEF HeadOf, TailOf, Db!OrElse
  <2>5. l <= h /\ (s = h \/ (l <= s /\ s < h))
    BY <1>2, <2>1, <2>4 DEF SoundOn, Typed, save_state
  <2>6. QED
    BY <2>1, <2>2, <2>3, <2>4, <2>5
<1>9. PICK j \in Ends : /\ j = (IF s = h THEN s + 1 ELSE h) /\ e[HeadKey] = j /\ HeadOf(e) = j
                        /\ h <= j /\ s < j /\ TailOf(e) = l /\ j \in Nat /\ s \in Nat
                        /\ \A t \in SessionIds : t < j /\ t # s => t < h
  <2>1. PICK j : j = (IF s = h THEN s + 1 ELSE h)
    OBVIOUS
  <2>2. j \in Ends /\ h <= j /\ s < j /\ j \in Nat /\ s \in Nat
    BY <1>8, <2>1, WritesAssumption DEF Ends, SessionIds
  <2>3. \A t \in SessionIds : t < j /\ t # s => t < h
    BY <1>8, <2>1, WritesAssumption DEF Ends, SessionIds
  <2>4. e[HeadKey] = j
    BY <1>5, <1>8, <2>1
  <2>5. j # Missing
    BY <2>2, WritesAssumption
  <2>6. HeadOf(e) = j /\ TailOf(e) = l
    BY <1>7, <1>8, <2>4, <2>5 DEF HeadOf, TailOf, Db!OrElse
  <2>7. QED
    BY <2>1, <2>2, <2>3, <2>4, <2>6
<1>10. Typed(e)
  <2>1. l <= j
    BY <1>8, <1>9
  <2>2. ASSUME NEW t \in SessionIds
        PROVE  /\ e[MoveKey(t)] \in 0 .. MaxMove \cup {Missing}
               /\ \A n \in MoveIds : e[StateKey(t, n)] # Missing => n <= MaxMove
    <3>1. CASE t # s
      BY <1>2, <1>7, <3>1 DEF SoundOn, Typed
    <3>2. CASE t = s
      BY <1>2, <1>4, <1>5, <1>6, <1>7, <3>2 DEF SoundOn, Typed
    <3>3. QED
      BY <3>1, <3>2
  <2>3. e[HeadKey] \in Ends /\ e[TailKey] \in Ends
    BY <1>7, <1>8, <1>9
  <2>4. QED
    BY <1>9, <2>1, <2>2, <2>3 DEF Typed
<1>11. FreshOn(e)
  <2>1. SUFFICES ASSUME NEW t \in SessionIds, t >= j
                 PROVE  /\ e[MoveKey(t)] = Missing /\ e[GameKey(t)] = Missing /\ e[DateKey(t)] = Missing
                        /\ \A n \in MoveIds : e[StateKey(t, n)] = Missing
    BY <1>9 DEF FreshOn
  <2>2. t # s /\ t >= h
    BY <1>8, <1>9, <2>1 DEF SessionIds
  <2>3. QED
    BY <1>2, <1>7, <1>8, <2>2 DEF SoundOn, FreshOn
<1>12. x # Missing /\ g # Missing /\ Date # Missing /\ m # Missing
  BY <1>6, WritesAssumption
<1>13. CursorOn(e)
  <2>1. SUFFICES ASSUME NEW t \in SessionIds, e[MoveKey(t)] # Missing, t # TailOf(e)
                 PROVE  e[StateKey(t, e[MoveKey(t)])] # Missing
    BY DEF CursorOn
  <2>2. CASE t = s
    BY <1>5, <1>12, <2>2
  <2>3. CASE t # s
    <3>1. disk[MoveKey(t)] \in MoveIds
      BY <1>2, <1>7, <2>1, <2>3, WritesAssumption DEF SoundOn, Typed, MoveIds
    <3>2. disk[StateKey(t, disk[MoveKey(t)])] # Missing
      BY <1>2, <1>7, <1>8, <1>9, <2>1, <2>3 DEF SoundOn, CursorOn
    <3>3. QED
      BY <1>7, <2>3, <3>1, <3>2
  <2>4. QED
    BY <2>2, <2>3
<1>14. ASSUME NEW t \in SessionIds, t # s, WholeOn(disk, t) PROVE WholeOn(e, t)
  <2>1. PICK q \in 0 .. MaxMove : q = disk[MoveKey(t)]
    BY <1>2, <1>14 DEF WholeOn, SoundOn, Typed
  <2>2. ASSUME NEW n \in 0 .. q PROVE e[StateKey(t, n)] # Missing
    <3>1. n \in MoveIds
      BY <2>1, WritesAssumption DEF MoveIds
    <3>2. disk[StateKey(t, n)] # Missing
      BY <1>14, <2>1 DEF WholeOn
    <3>3. QED
      BY <1>7, <1>14, <3>1, <3>2
  <2>3. QED
    BY <1>7, <1>14, <2>1, <2>2 DEF WholeOn
<1>15. ASSUME s = h \/ WholeOn(disk, s) PROVE WholeOn(e, s)
  <2>1. e[GameKey(s)] # Missing
    BY <1>5, <1>8, <1>12, <1>15 DEF WholeOn
  <2>2. ASSUME NEW n \in 0 .. m PROVE e[StateKey(s, n)] # Missing
    <3>1. n \in MoveIds
      BY <1>6, WritesAssumption DEF MoveIds
    <3>2. CASE n = m
      BY <1>5, <1>12, <3>2
    <3>3. CASE n # m /\ s = h
      <4>1. disk[MoveKey(s)] = Missing
        BY <1>2, <1>8, <3>3 DEF SoundOn, FreshOn
      <4>2. QED
        BY <1>6, <3>3, <4>1
    <3>4. CASE n # m /\ WholeOn(disk, s)
      <4>1. n \in 0 .. disk[MoveKey(s)]
        BY <1>6, <3>4 DEF WholeOn
      <4>2. disk[StateKey(s, n)] # Missing
        BY <3>4, <4>1 DEF WholeOn
      <4>3. QED
        BY <1>7, <3>1, <3>4, <4>2
    <3>5. QED
      BY <1>15, <3>2, <3>3, <3>4
  <2>3. QED
    BY <1>5, <1>12, <2>1, <2>2 DEF WholeOn
<1>16. BrokenOn(e) \subseteq BrokenOn(disk)
  <2>1. SUFFICES ASSUME NEW t \in BrokenOn(e) PROVE t \in BrokenOn(disk)
    OBVIOUS
  <2>2. t \in SessionIds /\ l <= t /\ t < j /\ ~WholeOn(e, t)
    BY <1>9 DEF BrokenOn
  <2>3. t < h /\ ~WholeOn(disk, t)
    BY <1>8, <1>9, <1>14, <1>15, <2>2
  <2>4. QED
    BY <1>8, <2>2, <2>3 DEF BrokenOn
<1>17. OneSession(disk, ws, e)
  <2>1. \A i \in DOMAIN ws : ws[i].key \in {HeadKey, LastKey(g)} \cup Of(s)
    BY <1>4, <1>6 DEF Set, Of
  <2>2. \A t \in SessionIds : HeadKey \notin Of(t) /\ LastKey(g) \notin Of(t)
    BY KeyNames DEF Of
  <2>3. \A i \in DOMAIN ws, t \in SessionIds : ws[i].key \in Of(t) => t = s
    BY <2>1, <2>2, KeysOf
  <2>4. QED
    BY <1>8, <1>9, <2>3 DEF OneSession
<1>18. Careful(disk, ws)
  <2>1. SUFFICES ASSUME NEW i \in DOMAIN ws, NEW t \in SessionIds, NEW n \in MoveIds,
                        ws[i].key = StateKey(t, n)
                 PROVE  ws[i].value # Missing /\ (disk[MoveKey(t)] = Missing \/ n > disk[MoveKey(t)])
    BY DEF Careful
  <2>2. ws[i] = Set(StateKey(s, m), x)
    BY <1>4, <2>1, KeyNames DEF Set
  <2>3. ws[i].value = x /\ t = s /\ n = m
    BY <2>1, <2>2, KeyNames DEF Set
  <2>4. QED
    BY <1>6, <1>12, <2>3
<1>19. PICK f : f = cache' /\ f \in [head : Ends, tail : Ends] /\ f # NotOpen /\ f.head = j /\ f.tail = l
  <2>1. cache' = IF s = cache.head THEN [cache EXCEPT !.head = s + 1] ELSE cache
    BY DEF save_state
  <2>2. cache' \in [head : Ends, tail : Ends] /\ cache'.head = j /\ cache'.tail = l
    BY <1>2, <1>8, <1>9, <2>1
  <2>3. j # Missing
    BY <1>9, WritesAssumption
  <2>4. cache' # NotOpen
    BY <2>2, <2>3 DEF NotOpen
  <2>5. QED
    BY <2>2, <2>4
<1>20. Known(e)'
  BY <1>7, <1>8, <1>9, <1>19 DEF Known, IsOpen
<1>21. QED
  BY <1>2, <1>3, <1>4, <1>8, <1>9, <1>10, <1>11, <1>13, <1>16, <1>17, <1>18, <1>19, <1>20, BeginKeeps
     DEF SoundOn

-----------------------------------------------------------------------------
(* The oldest session is deleted *)

\* What the writes ws of the deletion of session s and its moves up to c do to d.
Deletes(d, ws, s, c) ==
  /\ ws \in Seq(Commands) /\ ws # <<>> /\ Once(ws) /\ InOrder(ws)
  /\ \A i \in DOMAIN ws : ws[i].key \in {TailKey} \cup Of(s)
  /\ \A i \in DOMAIN ws : ws[i].key # TailKey => ws[i].value = Missing
  /\ \A m \in 0 .. c : After(d, ws)[StateKey(s, m)] = Missing
  /\ After(d, ws)[MoveKey(s)] = Missing /\ After(d, ws)[DateKey(s)] = Missing
  /\ After(d, ws)[GameKey(s)] = Missing /\ After(d, ws)[TailKey] = s + 1
  /\ \A k \in Keys \ ({MoveKey(s), DateKey(s), GameKey(s), TailKey}
                        \cup {StateKey(s, m) : m \in 0 .. c}) : After(d, ws)[k] = d[k]

\* The writes of a deletion are in order, and each does what it says.
LEMMA DeletionWrites ==
  ASSUME NEW s \in SessionIds, NEW c \in 0 .. MaxMove, NEW d, NEW ws,
         ws = [i \in 1 .. (c + 1) |-> Del(StateKey(s, i - 1))]
                \o <<Del(MoveKey(s)), Del(DateKey(s)), Del(GameKey(s)), Set(TailKey, s + 1)>>
  PROVE  Deletes(d, ws, s, c)
<1>1. c \in Nat /\ s \in Nat /\ s + 1 \in Nat /\ 0 .. c \subseteq MoveIds
  BY WritesAssumption DEF MoveIds, SessionIds
<1>2. \A k \in Keys, v \in Values : [key |-> k, value |-> v] \in Commands
  BY DEF Commands
<1>3. PICK a, b, g, t :
        a = Del(MoveKey(s)) /\ b = Del(DateKey(s)) /\ g = Del(GameKey(s)) /\ t = Set(TailKey, s + 1)
  OBVIOUS
<1>4. /\ a \in Commands /\ b \in Commands /\ g \in Commands /\ t \in Commands
      /\ a.key = MoveKey(s) /\ b.key = DateKey(s) /\ g.key = GameKey(s) /\ t.key = TailKey
      /\ a.value = Missing /\ b.value = Missing /\ g.value = Missing /\ t.value = s + 1
  BY <1>1, <1>2, <1>3, KeysKnown DEF Values, Set, Del
<1>5. PICK p, q : p = [i \in 1 .. (c + 1) |-> Del(StateKey(s, i - 1))] /\ q = <<a, b, g, t>>
  OBVIOUS
<1>6. /\ p \in Seq(Commands) /\ Len(p) = c + 1
      /\ \A i \in 1 .. c + 1 : p[i].key = StateKey(s, i - 1) /\ p[i].value = Missing
  <2>1. ASSUME NEW i \in 1 .. c + 1 PROVE i - 1 \in 0 .. c /\ i - 1 \in MoveIds
    BY <1>1
  <2>2. ASSUME NEW i \in 1 .. c + 1
        PROVE  /\ Del(StateKey(s, i - 1)) \in Commands
               /\ Del(StateKey(s, i - 1)).key = StateKey(s, i - 1)
               /\ Del(StateKey(s, i - 1)).value = Missing
    BY <1>2, <2>1, KeysKnown DEF Values, Del
  <2>3. p \in [1 .. c + 1 -> Commands]
    BY <1>5, <2>2
  <2>4. p \in Seq(Commands) /\ Len(p) = c + 1
    BY <1>1, <2>3, SeqDef, LenProperties
  <2>5. QED
    BY <1>5, <2>2, <2>4
<1>7. q \in Seq(Commands) /\ Len(q) = 4 /\ q[1] = a /\ q[2] = b /\ q[3] = g /\ q[4] = t
  BY <1>4, <1>5
<1>8. /\ ws \in Seq(Commands) /\ Len(ws) = c + 5 /\ DOMAIN ws = 1 .. c + 5
      /\ \A i \in 1 .. c + 5 : ws[i] = IF i <= c + 1 THEN p[i] ELSE q[i - (c + 1)]
  <2>1. ws = p \o q
    BY <1>3, <1>5
  <2>2. p \in Seq(Commands) /\ q \in Seq(Commands)
    BY <1>6, <1>7
  <2>3. /\ ws \in Seq(Commands) /\ Len(ws) = Len(p) + Len(q)
        /\ \A i \in 1 .. Len(p) + Len(q) : ws[i] = IF i <= Len(p) THEN p[i] ELSE q[i - Len(p)]
    BY <2>1, <2>2, ConcatProperties, ZenonT(40)
  <2>4. Len(p) = c + 1 /\ Len(q) = 4 /\ Len(p) + Len(q) = c + 5
    BY <1>1, <1>6, <1>7
  <2>5. ws \in Seq(Commands) /\ Len(ws) = c + 5
        /\ \A i \in 1 .. c + 5 : ws[i] = IF i <= c + 1 THEN p[i] ELSE q[i - (c + 1)]
    BY <2>3, <2>4
  <2>6. DOMAIN ws = 1 .. c + 5
    BY <2>5, LenProperties
  <2>7. QED
    BY <2>5, <2>6
<1>9. ws[c + 2] = a /\ ws[c + 3] = b /\ ws[c + 4] = g /\ ws[c + 5] = t
  <2>1. /\ c + 2 \in 1 .. c + 5 /\ ~(c + 2 <= c + 1) /\ (c + 2) - (c + 1) = 1
        /\ c + 3 \in 1 .. c + 5 /\ ~(c + 3 <= c + 1) /\ (c + 3) - (c + 1) = 2
        /\ c + 4 \in 1 .. c + 5 /\ ~(c + 4 <= c + 1) /\ (c + 4) - (c + 1) = 3
        /\ c + 5 \in 1 .. c + 5 /\ ~(c + 5 <= c + 1) /\ (c + 5) - (c + 1) = 4
    BY <1>1
  <2>2. /\ ws[c + 2] = q[(c + 2) - (c + 1)] /\ ws[c + 3] = q[(c + 3) - (c + 1)]
        /\ ws[c + 4] = q[(c + 4) - (c + 1)] /\ ws[c + 5] = q[(c + 5) - (c + 1)]
    BY <1>8, <2>1
  <2>3. QED
    BY <1>7, <2>1, <2>2
<1>10. \A i \in 1 .. c + 1 : ws[i].key = StateKey(s, i - 1) /\ ws[i].value = Missing
  <2>1. ASSUME NEW i \in 1 .. c + 1 PROVE i \in 1 .. c + 5 /\ i <= c + 1
    BY <1>1
  <2>2. \A i \in 1 .. c + 1 : ws[i] = p[i]
    BY <1>8, <2>1
  <2>3. QED
    BY <1>6, <2>2
<1>11. \A i \in DOMAIN ws :
         /\ i \in Nat
         /\ \/ i \in 1 .. c + 1
            \/ i = c + 2
            \/ i = c + 3
            \/ i = c + 4
            \/ i = c + 5
  BY <1>1, <1>8, SMTT(20)
<1>12. \A i \in DOMAIN ws :
         \/ i \in 1 .. c + 1 /\ ws[i].key[1] = "state" /\ ws[i].key[3] = i - 1
         \/ i = c + 2 /\ ws[i].key[1] = "last_move_id"
         \/ i = c + 3 /\ ws[i].key[1] = "last_updated"
         \/ i = c + 4 /\ ws[i].key[1] = "game_id"
         \/ i = c + 5 /\ ws[i].key[1] = "sess_tail"
  <2>1. ASSUME NEW i \in 1 .. c + 1 PROVE ws[i].key[1] = "state" /\ ws[i].key[3] = i - 1
    <3>1. ws[i].key = StateKey(s, i - 1)
      BY <1>10
    <3>2. StateKey(s, i - 1)[1] = "state" /\ StateKey(s, i - 1)[3] = i - 1
      BY KeyNames
    <3>3. QED
      BY <3>1, <3>2
  <2>2. /\ ws[c + 2].key[1] = "last_move_id" /\ ws[c + 3].key[1] = "last_updated"
        /\ ws[c + 4].key[1] = "game_id" /\ ws[c + 5].key[1] = "sess_tail"
    BY <1>4, <1>9, KeyNames
  <2>3. QED
    BY <1>11, <2>1, <2>2
<1>13. Once(ws)
  <2>1. SUFFICES ASSUME NEW i \in DOMAIN ws, NEW j \in DOMAIN ws, ws[i].key = ws[j].key
                 PROVE  i = j
    BY DEF Once
  <2>2. ws[i].key[1] = ws[j].key[1] /\ ws[i].key[3] = ws[j].key[3]
    BY <2>1
  <2>3. i \in Nat /\ j \in Nat
    BY <1>11
  <2>4. CASE ws[i].key[1] = "state"
    <3>1. ws[i].key[3] = i - 1 /\ ws[j].key[3] = j - 1
      BY <1>12, <2>2, <2>4
    <3>2. i - 1 = j - 1
      BY <2>2, <3>1
    <3>3. QED
      BY <2>3, <3>2
  <2>5. CASE ws[i].key[1] # "state"
    BY <1>12, <2>2, <2>5
  <2>6. QED
    BY <2>4, <2>5
<1>14. InOrder(ws)
  <2>1. \A i \in DOMAIN ws : ws[i].key[1] # "sess_head" /\ (ws[i].key[1] = "sess_tail" => i = c + 5)
    BY <1>12
  <2>2. \A i \in DOMAIN ws : ws[i].key[1] = "state" => i \in 1 .. c + 1
    BY <1>12
  <2>3. \A i \in DOMAIN ws : ws[i].key[1] = "last_move_id" => i = c + 2
    BY <1>12
  <2>4. \A i \in DOMAIN ws : ws[i].key # HeadKey /\ (ws[i].key = TailKey => i = Len(ws))
    BY <1>8, <2>1, KeyNames
  <2>5. ASSUME NEW i \in DOMAIN ws, NEW u \in SessionIds, NEW n \in MoveIds, ws[i].key = StateKey(u, n)
        PROVE  i < c + 2
    <3>1. ws[i].key[1] = "state"
      BY <2>5, KeyNames
    <3>2. i \in 1 .. c + 1
      BY <2>2, <3>1
    <3>3. QED
      BY <1>1, <3>2
  <2>6. ASSUME NEW i \in DOMAIN ws, NEW u \in SessionIds, ws[i].key = MoveKey(u)
        PROVE  i = c + 2
    <3>1. ws[i].key[1] = "last_move_id"
      BY <2>6, KeyNames
    <3>2. QED
      BY <2>3, <3>1
  <2>7. QED
    BY <2>4, <2>5, <2>6 DEF InOrder
<1>15. \A i \in DOMAIN ws : ws[i].key \in {TailKey} \cup Of(s)
  <2>1. ASSUME NEW i \in 1 .. c + 1 PROVE ws[i].key \in Of(s)
    <3>1. i - 1 \in MoveIds
      BY <1>1
    <3>2. StateKey(s, i - 1) \in {StateKey(s, n) : n \in MoveIds}
      BY <3>1
    <3>3. QED
      BY <1>10, <3>2 DEF Of
  <2>2. /\ ws[c + 2].key \in Of(s) /\ ws[c + 3].key \in Of(s) /\ ws[c + 4].key \in Of(s)
        /\ ws[c + 5].key = TailKey
    BY <1>4, <1>9 DEF Of
  <2>3. QED
    BY <1>11, <2>1, <2>2
<1>16. \A i \in DOMAIN ws : ws[i].key # TailKey => ws[i].value = Missing
  BY <1>4, <1>9, <1>10, <1>11
<1>17. \A i \in DOMAIN ws : After(d, ws)[ws[i].key] = ws[i].value
  BY <1>8, <1>13, AfterAt
<1>18. ASSUME NEW m \in 0 .. c PROVE After(d, ws)[StateKey(s, m)] = Missing
  <2>1. m + 1 \in 1 .. c + 1 /\ m + 1 \in DOMAIN ws /\ (m + 1) - 1 = m
    BY <1>1, <1>8
  <2>2. QED
    BY <1>10, <1>17, <2>1
<1>19. c + 2 \in DOMAIN ws /\ c + 3 \in DOMAIN ws /\ c + 4 \in DOMAIN ws /\ c + 5 \in DOMAIN ws
  BY <1>1, <1>8
<1>20. /\ After(d, ws)[MoveKey(s)] = Missing /\ After(d, ws)[DateKey(s)] = Missing
       /\ After(d, ws)[GameKey(s)] = Missing /\ After(d, ws)[TailKey] = s + 1
  BY <1>4, <1>9, <1>17, <1>19
<1>21. ASSUME NEW k \in Keys \ ({MoveKey(s), DateKey(s), GameKey(s), TailKey}
                                  \cup {StateKey(s, m) : m \in 0 .. c})
       PROVE  After(d, ws)[k] = d[k]
  <2>1. ASSUME NEW i \in 1 .. c + 1 PROVE ws[i].key # k
    <3>1. i - 1 \in 0 .. c
      BY <1>1
    <3>2. QED
      BY <1>10, <1>21, <3>1
  <2>2. ws[c + 2].key # k /\ ws[c + 3].key # k /\ ws[c + 4].key # k /\ ws[c + 5].key # k
    BY <1>4, <1>9
  <2>3. \A i \in DOMAIN ws : ws[i].key # k
    BY <1>11, <2>1, <2>2
  <2>4. QED
    BY <2>3, AfterElse, ZenonT(30)
<1>22. ws # <<>>
  BY <1>8, <1>19
<1>23. QED
  BY <1>8, <1>13, <1>14, <1>15, <1>16, <1>18, <1>20, <1>21, <1>22 DEF Deletes

\* What a deletion will have left, and of which session.
LEMMA DeletionLeaves ==
  ASSUME IInv, delete_session,
         NEW s, s = cache.tail, NEW ws, ws = todo', NEW e, e = After(disk, ws)
  PROVE  /\ s \in SessionIds /\ s < cache.head /\ s = TailOf(disk) /\ cache.head = HeadOf(disk)
         /\ cache \in [head : Ends, tail : Ends] /\ disk[HeadKey] = cache.head
         /\ ws \in Seq(Commands) /\ ws # <<>> /\ Once(ws) /\ InOrder(ws)
         /\ \A i \in DOMAIN ws : ws[i].key \in {TailKey} \cup Of(s)
         /\ \A i \in DOMAIN ws : ws[i].key # TailKey => ws[i].value = Missing
         /\ Db!DeletedMoves(s) = 0 .. Db!OrElse(disk[MoveKey(s)], 0)
         /\ Db!DeletedMoves(s) \subseteq MoveIds
         /\ \A m \in Db!DeletedMoves(s) : e[StateKey(s, m)] = Missing
         /\ e[MoveKey(s)] = Missing /\ e[DateKey(s)] = Missing /\ e[GameKey(s)] = Missing
         /\ e[TailKey] = s + 1
         /\ \A k \in Keys \ ({MoveKey(s), DateKey(s), GameKey(s), TailKey}
                               \cup {StateKey(s, m) : m \in Db!DeletedMoves(s)}) : e[k] = disk[k]
<1>1. disk = Flushed
  BY AtRest DEF delete_session
<1>2. /\ IsOpen /\ s # cache.head /\ todo' = DeleteWrites(s)
      /\ SoundOn(disk) /\ Known(disk) /\ cache \in [head : Ends, tail : Ends]
  BY <1>1 DEF delete_session, IInv, Shapes, IsOpen
<1>3. PICK h \in Ends : h = cache.head /\ h = disk[HeadKey] /\ h = HeadOf(disk)
  <2>1. PICK h \in Ends : h = cache.head
    BY <1>2
  <2>2. h = disk[HeadKey] /\ h # Missing
    BY <1>2, <2>1, WritesAssumption DEF Known, Ends
  <2>3. QED
    BY <2>1, <2>2 DEF HeadOf, Db!OrElse
<1>4. s \in Ends /\ s = TailOf(disk)
  <2>1. s \in Ends
    BY <1>2
  <2>2. s = disk[TailKey] /\ s # Missing
    BY <1>2, <2>1, WritesAssumption DEF Known, Ends
  <2>3. QED
    BY <2>1, <2>2 DEF TailOf, Db!OrElse
<1>5. s < h /\ s \in SessionIds
  <2>1. s <= h
    BY <1>2, <1>3, <1>4 DEF SoundOn, Typed
  <2>2. QED
    BY <1>2, <1>3, <1>4, <2>1, WritesAssumption DEF Ends, SessionIds
<1>6. PICK c \in 0 .. MaxMove : c = Db!OrElse(disk[MoveKey(s)], 0)
  BY <1>2, <1>5, WritesAssumption DEF SoundOn, Typed, Db!OrElse
<1>7. /\ Db!DeletedMoves(s) = 0 .. c
      /\ Cardinality(Db!DeletedMoves(s)) = c + 1 /\ 0 .. c \subseteq MoveIds
  <2>1. c < Wrap \div 2 /\ c \in Nat
    BY WritesAssumption
  <2>2. Db!DeletedMoves(s) = 0 .. c
    BY <1>1, <1>5, <1>6, <2>1 DEF Db!DeletedMoves
  <2>3. Cardinality(0 .. c) = c + 1
    BY <2>1, FS_Interval
  <2>4. QED
    BY <2>2, <2>3, WritesAssumption DEF MoveIds
<1>8. ws = [i \in 1 .. (c + 1) |-> Del(StateKey(s, i - 1))]
                \o <<Del(MoveKey(s)), Del(DateKey(s)), Del(GameKey(s)), Set(TailKey, s + 1)>>
  BY <1>2, <1>7 DEF DeleteWrites
<1>9. Deletes(disk, ws, s, c)
  BY <1>5, <1>8, DeletionWrites
<1>10. QED
  BY <1>2, <1>3, <1>4, <1>5, <1>6, <1>7, <1>9 DEF Deletes

\* A deletion keeps the invariant.
LEMMA DeleteKeeps ==
  ASSUME IInv, delete_session
  PROVE  IInv'
<1>1. disk = Flushed
  BY AtRest DEF delete_session
<1>2. PICK s, ws, e : s = cache.tail /\ ws = todo' /\ e = After(disk, ws)
  OBVIOUS
<1>3. /\ s \in SessionIds /\ s < cache.head /\ s = TailOf(disk) /\ cache.head = HeadOf(disk)
      /\ cache \in [head : Ends, tail : Ends] /\ disk[HeadKey] = cache.head
      /\ ws \in Seq(Commands) /\ ws # <<>> /\ Once(ws) /\ InOrder(ws)
      /\ \A i \in DOMAIN ws : ws[i].key \in {TailKey} \cup Of(s)
      /\ \A i \in DOMAIN ws : ws[i].key # TailKey => ws[i].value = Missing
  BY <1>2, DeletionLeaves
<1>4. /\ \A m \in Db!DeletedMoves(s) : e[StateKey(s, m)] = Missing
      /\ e[MoveKey(s)] = Missing /\ e[DateKey(s)] = Missing /\ e[GameKey(s)] = Missing
      /\ e[TailKey] = s + 1
      /\ \A k \in Keys \ ({MoveKey(s), DateKey(s), GameKey(s), TailKey}
                            \cup {StateKey(s, m) : m \in Db!DeletedMoves(s)}) : e[k] = disk[k]
  BY <1>2, DeletionLeaves
<1>5. /\ Idle /\ IsOpen /\ UNCHANGED <<disk, crashes>> /\ SoundOn(disk) /\ Known(disk)
      /\ cache' = [cache EXCEPT !.tail = s + 1]
  BY <1>1, <1>2 DEF delete_session, IInv
<1>6. PICK h \in Ends :
        /\ h = cache.head /\ h = HeadOf(disk) /\ h = disk[HeadKey] /\ s < h /\ s \in Nat /\ h \in Nat
        /\ h # Missing /\ s + 1 # Missing /\ s + 1 \in Ends /\ s + 1 <= h
  <2>1. PICK h \in Ends : h = cache.head
    BY <1>3
  <2>2. s \in Nat /\ h \in Nat /\ s < h
    BY <1>3, <2>1, WritesAssumption DEF Ends, SessionIds
  <2>3. s + 1 \in Ends /\ s + 1 <= h /\ s + 1 \in Nat
    BY <2>1, <2>2, WritesAssumption DEF Ends
  <2>4. QED
    BY <1>3, <2>1, <2>2, <2>3, WritesAssumption
<1>7. e[HeadKey] = disk[HeadKey]
  BY <1>4, KeyNames, KeysKnown
<1>8. ASSUME NEW t \in SessionIds, t # s
      PROVE  /\ e[GameKey(t)] = disk[GameKey(t)] /\ e[DateKey(t)] = disk[DateKey(t)]
             /\ e[MoveKey(t)] = disk[MoveKey(t)]
             /\ \A n \in MoveIds : e[StateKey(t, n)] = disk[StateKey(t, n)]
  <2>1. ASSUME NEW k \in Of(t) PROVE e[k] = disk[k]
    <3>1. k \in Keys /\ k \notin {MoveKey(s), DateKey(s), GameKey(s), TailKey}
      BY <1>8, KeyNames, KeysKnown DEF Of
    <3>2. \A m : StateKey(s, m) # k
      BY <1>8, KeyNames DEF Of
    <3>3. QED
      BY <1>4, <3>1, <3>2
  <2>2. QED
    BY <2>1 DEF Of
<1>9. ASSUME NEW n \in MoveIds, e[StateKey(s, n)] # Missing PROVE e[StateKey(s, n)] = disk[StateKey(s, n)]
  <2>1. StateKey(s, n) \in Keys /\ StateKey(s, n) \notin {MoveKey(s), DateKey(s), GameKey(s), TailKey}
    BY <1>3, KeyNames, KeysKnown
  <2>2. StateKey(s, n) \notin {StateKey(s, m) : m \in Db!DeletedMoves(s)}
    BY <1>4, <1>9
  <2>3. QED
    BY <1>4, <2>1, <2>2
<1>10. HeadOf(e) = h /\ TailOf(e) = s + 1
  BY <1>4, <1>6, <1>7 DEF HeadOf, TailOf, Db!OrElse
<1>11. Typed(e)
  <2>1. ASSUME NEW t \in SessionIds
        PROVE  /\ e[MoveKey(t)] \in 0 .. MaxMove \cup {Missing}
               /\ \A n \in MoveIds : e[StateKey(t, n)] # Missing => n <= MaxMove
    <3>1. CASE t # s
      BY <1>5, <1>8, <3>1 DEF SoundOn, Typed
    <3>2. CASE t = s
      BY <1>3, <1>4, <1>5, <1>9, <3>2 DEF SoundOn, Typed
    <3>3. QED
      BY <3>1, <3>2
  <2>2. e[HeadKey] \in Ends /\ e[TailKey] \in Ends
    BY <1>4, <1>6, <1>7
  <2>3. QED
    BY <1>6, <1>10, <2>1, <2>2 DEF Typed
<1>12. FreshOn(e)
  <2>1. SUFFICES ASSUME NEW t \in SessionIds, t >= h
                 PROVE  /\ e[MoveKey(t)] = Missing /\ e[GameKey(t)] = Missing /\ e[DateKey(t)] = Missing
                        /\ \A n \in MoveIds : e[StateKey(t, n)] = Missing
    BY <1>10 DEF FreshOn
  <2>2. t # s
    BY <1>6, <2>1
  <2>3. QED
    BY <1>5, <1>6, <1>8, <2>1, <2>2 DEF SoundOn, FreshOn
<1>13. CursorOn(e)
  <2>1. SUFFICES ASSUME NEW t \in SessionIds, e[MoveKey(t)] # Missing
                 PROVE  e[StateKey(t, e[MoveKey(t)])] # Missing
    BY DEF CursorOn
  <2>2. t # s
    BY <1>4, <2>1
  <2>3. disk[MoveKey(t)] \in MoveIds
    BY <1>5, <1>8, <2>1, <2>2, WritesAssumption DEF SoundOn, Typed, MoveIds
  <2>4. disk[StateKey(t, disk[MoveKey(t)])] # Missing
    BY <1>3, <1>5, <1>8, <2>1, <2>2 DEF SoundOn, CursorOn
  <2>5. QED
    BY <1>8, <2>2, <2>3, <2>4
<1>14. ASSUME NEW t \in SessionIds, t # s, WholeOn(disk, t) PROVE WholeOn(e, t)
  <2>1. PICK q \in 0 .. MaxMove : q = disk[MoveKey(t)]
    BY <1>5, <1>14 DEF WholeOn, SoundOn, Typed
  <2>2. ASSUME NEW n \in 0 .. q PROVE e[StateKey(t, n)] # Missing
    <3>1. n \in MoveIds
      BY <2>1, WritesAssumption DEF MoveIds
    <3>2. disk[StateKey(t, n)] # Missing
      BY <1>14, <2>1 DEF WholeOn
    <3>3. QED
      BY <1>8, <1>14, <3>1, <3>2
  <2>3. QED
    BY <1>8, <1>14, <2>1, <2>2 DEF WholeOn
<1>15. BrokenOn(e) \subseteq BrokenOn(disk)
  <2>1. SUFFICES ASSUME NEW t \in BrokenOn(e) PROVE t \in BrokenOn(disk)
    OBVIOUS
  <2>2. t \in SessionIds /\ s + 1 <= t /\ t < h /\ ~WholeOn(e, t)
    BY <1>10 DEF BrokenOn
  <2>3. t # s /\ s <= t
    BY <1>6, <2>2 DEF SessionIds
  <2>4. QED
    BY <1>3, <1>6, <1>14, <2>2, <2>3 DEF BrokenOn
<1>16. OneSession(disk, ws, e)
  <2>1. \A t \in SessionIds : TailKey \notin Of(t)
    BY KeyNames DEF Of
  <2>2. \A i \in DOMAIN ws, t \in SessionIds : ws[i].key \in Of(t) => t = s
    BY <1>3, <2>1, KeysOf
  <2>3. QED
    BY <1>3, <1>10, <2>2 DEF OneSession
<1>17. Careful(disk, ws)
  <2>1. SUFFICES ASSUME NEW i \in DOMAIN ws, NEW t \in SessionIds, NEW n \in MoveIds,
                        ws[i].key = StateKey(t, n)
                 PROVE  ws[i].value = Missing /\ t = TailOf(disk)
    BY DEF Careful
  <2>2. ws[i].key # TailKey /\ ws[i].key \in Of(t)
    BY <2>1, KeyNames DEF Of
  <2>3. QED
    BY <1>3, <2>2, KeysOf
<1>18. PICK f : f = cache' /\ f \in [head : Ends, tail : Ends] /\ f # NotOpen /\ f.head = h /\ f.tail = s + 1
  <2>1. cache' \in [head : Ends, tail : Ends] /\ cache'.head = h /\ cache'.tail = s + 1
    BY <1>3, <1>5, <1>6
  <2>2. cache' # NotOpen
    BY <1>6, <2>1 DEF NotOpen
  <2>3. QED
    BY <2>1, <2>2
<1>19. Known(e)'
  BY <1>4, <1>6, <1>7, <1>18 DEF Known, IsOpen
<1>20. HeadOf(disk) <= HeadOf(e)
  BY <1>6, <1>10
<1>21. QED
  BY <1>2, <1>3, <1>5, <1>11, <1>12, <1>13, <1>15, <1>16, <1>17, <1>18, <1>19, <1>20, BeginKeeps
     DEF SoundOn

-----------------------------------------------------------------------------
(* The theorems *)

\* The empty store satisfies the invariant.
LEMMA InitIInv == Init => IInv
<1> SUFFICES ASSUME Init PROVE IInv
  OBVIOUS
<1>1. disk = [k \in Keys |-> Missing] /\ cache = NotOpen /\ todo = <<>> /\ crashes = 0
  BY DEF Init
<1>2. disk \in [Keys -> Values] /\ todo \in Seq(Commands)
  BY <1>1, EmptySeq DEF Values
<1>3. Flushed = disk
  BY <1>1, <1>2, AfterNothing DEF Flushed
<1>4. \A k \in Keys : disk[k] = Missing
  BY <1>1
<1>5. Shapes
  BY <1>1, <1>2 DEF Shapes
<1>6. Once(todo) /\ InOrder(todo) /\ OneSession(disk, todo, Flushed) /\ Careful(disk, todo)
  BY <1>1, <1>3, NothingInOrder
<1>7. Known(Flushed)
  BY <1>1 DEF Known, IsOpen
<1>8. HeadOf(disk) = 0 /\ TailOf(disk) = 0
  BY <1>4, KeysKnown DEF HeadOf, TailOf, Db!OrElse
<1>9. SoundOn(disk)
  <2>1. Typed(disk)
    BY <1>4, <1>8, KeysKnown DEF Typed
  <2>2. FreshOn(disk)
    BY <1>4, KeysKnown DEF FreshOn
  <2>3. CursorOn(disk)
    BY <1>4, KeysKnown DEF CursorOn
  <2>4. QED
    BY <2>1, <2>2, <2>3 DEF SoundOn
<1>10. Cardinality(BrokenOn(disk)) <= crashes
  <2>1. BrokenOn(disk) = {}
    BY <1>8 DEF BrokenOn, SessionIds
  <2>2. QED
    BY <1>1, <2>1, FS_EmptySet
<1>11. QED
  BY <1>3, <1>5, <1>6, <1>7, <1>8, <1>9, <1>10 DEF IInv

\* Every step keeps the invariant.
LEMMA NextKeeps == IInv /\ [Next]_vars => IInv'
<1> SUFFICES ASSUME IInv, [Next]_vars PROVE IInv'
  OBVIOUS
<1>1. CASE refresh_internal_state
  BY <1>1, RefreshKeeps
<1>2. CASE \E g \in Games, s \in SessionIds, x \in States : save_state(g, s, x)
  BY <1>2, SaveKeeps
<1>3. CASE delete_session
  BY <1>3, DeleteKeeps
<1>4. CASE \E s \in SessionIds, d \in {-1, 0, 1} : UndoRedo(s, d)
  BY <1>4, UndoRedoKeeps
<1>5. CASE MakeWrite
  BY <1>5, MakeWriteKeeps
<1>6. CASE Crash
  BY <1>6, CrashKeeps
<1>7. CASE UNCHANGED vars
  <2>1. disk' = disk /\ cache' = cache /\ todo' = todo /\ crashes' = crashes
    BY <1>7 DEF vars
  <2>2. Flushed' = Flushed
    BY <2>1 DEF Flushed
  <2>3. QED
    BY <2>1, <2>2 DEF IInv, Shapes, Known, IsOpen
<1>8. QED
  BY <1>1, <1>2, <1>3, <1>4, <1>5, <1>6, <1>7 DEF Next

\* The invariant holds wherever the process may be killed.
THEOREM InvariantHolds == Spec => []IInv
BY InitIInv, NextKeeps, PTL DEF Spec

\* At every moment the process can be killed, the next session id on the disk is
\* free and every cursor, except perhaps that of the oldest session, points to a state.
THEOREM DiskAlwaysSound == Spec => []DiskIsSound
<1>1. IInv => DiskIsSound
  <2> SUFFICES ASSUME IInv PROVE DiskIsSound
    OBVIOUS
  <2>1. DiskHead = HeadOf(disk) /\ DiskTail = TailOf(disk) /\ FreshOn(disk) /\ CursorOn(disk)
    BY DEF DiskHead, DiskTail, HeadOf, TailOf, IInv, SoundOn
  <2>2. FreshSessionsOnDisk
    BY <2>1 DEF FreshOn, FreshSessionsOnDisk
  <2>3. CursorOnDisk
    BY <2>1 DEF CursorOn, CursorOnDisk
  <2>4. QED
    BY <2>2, <2>3 DEF DiskIsSound
<1>2. QED
  BY <1>1, InvariantHolds, PTL

\* Each kill costs at most the session that was being written, however many
\* there were before and whatever was done since.
THEOREM KillCostsOneSession == Spec => []OneSessionLostPerCrash
<1>1. IInv => OneSessionLostPerCrash
  <2> SUFFICES ASSUME IInv PROVE OneSessionLostPerCrash
    OBVIOUS
  <2>1. \A s : Whole(s) <=> WholeOn(disk, s)
    BY DEF Whole, WholeOn
  <2>2. {s \in SessionIds : DiskTail <= s /\ s < DiskHead /\ ~Whole(s)} = BrokenOn(disk)
    BY <2>1 DEF BrokenOn, DiskHead, DiskTail, HeadOf, TailOf
  <2>3. /\ Cardinality(BrokenOn(disk)) \in Nat /\ Cardinality(BrokenOn(Flushed)) \in Nat
        /\ Cardinality(BrokenOn(disk)) <= Cardinality(BrokenOn(Flushed)) + 1
        /\ Cardinality(BrokenOn(Flushed)) <= crashes /\ crashes \in Nat
    BY DamageInBetween, FS_CardinalityType DEF IInv, Shapes
  <2>4. CASE Idle
    <3>1. Flushed = disk
      BY <2>4, AtRest
    <3>2. Cardinality(BrokenOn(disk)) <= crashes + 0
      BY <2>3, <3>1
    <3>3. QED
      BY <2>2, <2>4, <3>2 DEF OneSessionLostPerCrash
  <2>5. CASE ~Idle
    BY <2>2, <2>3, <2>5 DEF OneSessionLostPerCrash
  <2>6. QED
    BY <2>4, <2>5
<1>2. QED
  BY <1>1, InvariantHolds, PTL

\* No write, of any operation and after any kill, takes away what could be undone
\* to, but in the session that is being deleted.
THEOREM UndoStackSurvives == Spec => UndoStackOnDisk
<1> DEFINE Kept == \A s \in SessionIds, m \in MoveIds :
      LET k == StateKey(s, m) IN
         disk[MoveKey(s)] # Missing /\ m <= disk[MoveKey(s)] /\ disk[k] # Missing
           => disk'[k] = disk[k] \/ (disk'[k] = Missing /\ s = DiskTail)
<1>1. IInv /\ [Next]_vars => [Kept]_vars
  <2> SUFFICES ASSUME IInv, Next, NEW s \in SessionIds, NEW m \in MoveIds,
                      disk[MoveKey(s)] # Missing, m <= disk[MoveKey(s)]
               PROVE  \/ disk'[StateKey(s, m)] = disk[StateKey(s, m)]
                      \/ disk'[StateKey(s, m)] = Missing /\ s = DiskTail
    OBVIOUS
  <2>1. CASE MakeWrite
    <3>1. StateKey(s, m) \in Keys
      BY KeysKnown
    <3>2. CASE todo[1].key # StateKey(s, m)
      BY <2>1, <3>1, <3>2, WriteMade
    <3>3. CASE todo[1].key = StateKey(s, m)
      <4>1. 1 \in DOMAIN todo /\ disk'[StateKey(s, m)] = todo[1].value
        BY <2>1, <3>3, WriteMade
      <4>2. IF todo[1].value = Missing THEN s = TailOf(disk)
            ELSE disk[MoveKey(s)] = Missing \/ m > disk[MoveKey(s)]
        BY <3>3, <4>1 DEF IInv, Careful
      <4>3. disk[MoveKey(s)] \in 0 .. MaxMove
        BY DEF IInv, SoundOn, Typed
      <4>4. m \in Nat /\ disk[MoveKey(s)] \in Nat
        BY <4>3, WritesAssumption DEF MoveIds
      <4>5. todo[1].value = Missing /\ s = TailOf(disk)
        BY <4>2, <4>4
      <4>6. QED
        BY <4>1, <4>5 DEF DiskTail, TailOf
    <3>4. QED
      BY <3>2, <3>3
  <2>2. CASE ~MakeWrite
    <3>1. disk' = disk
      BY <2>2 DEF Next, refresh_internal_state, save_state, delete_session, UndoRedo, Crash
    <3>2. QED
      BY <3>1
  <2>3. QED
    BY <2>1, <2>2
<1>2. QED
  BY <1>1, InvariantHolds, PTL DEF Spec, UndoStackOnDisk

-----------------------------------------------------------------------------
(* Until the first kill the writes add up to the operations of SavedStateDb *)

\* The variables of SavedStateDb, of a store d and the handle c.
CellOf(d)     == [s \in SessionIds |-> [m \in MoveIds |-> d[StateKey(s, m)]]]
LastMoveOf(d) == [s \in SessionIds |-> d[MoveKey(s)]]
GameOf(d)     == [s \in SessionIds |-> d[GameKey(s)]]
DatedOn(d)    == {s \in SessionIds : d[DateKey(s)] # Missing}
LastSessOf(d) == [g \in Games |-> d[LastKey(g)]]
HandleOf(c)   == [h \in {"app"} |-> c]

\* The empty store is that of SavedStateDb.
LEMMA InitRefines == Init => Db!Init
<1> SUFFICES ASSUME Init PROVE Db!Init
  OBVIOUS
<1>1. disk = [k \in Keys |-> Missing] /\ cache = NotOpen /\ todo = <<>>
  BY DEF Init
<1>2. Flushed = disk
  <2>1. disk \in [Keys -> Values]
    BY <1>1 DEF Values
  <2>2. QED
    BY <1>1, <2>1, AfterNothing DEF Flushed
<1>3. \A k \in Keys : Flushed[k] = Missing
  BY <1>1, <1>2
<1>4. /\ Flushed[HeadKey] = Missing /\ Flushed[TailKey] = Missing
      /\ CellOf(Flushed) = [s \in SessionIds |-> [m \in MoveIds |-> Missing]]
      /\ LastMoveOf(Flushed) = [s \in SessionIds |-> Missing]
      /\ GameOf(Flushed) = [s \in SessionIds |-> Missing]
      /\ DatedOn(Flushed) = {}
      /\ LastSessOf(Flushed) = [g \in Games |-> Missing]
  BY <1>3, KeysKnown DEF CellOf, LastMoveOf, GameOf, DatedOn, LastSessOf
<1>5. HandleOf(cache) = [h \in {"app"} |-> [head |-> Missing, tail |-> Missing]]
  BY <1>1 DEF HandleOf, NotOpen
<1>6. QED
  BY <1>4, <1>5 DEF Db!Init, Db!NotOpen, Db!SessionIds, Db!MoveIds, SessionIds, MoveIds,
     CellOf, LastMoveOf, GameOf, DatedOn, LastSessOf, HandleOf

\* Each operation, as it begins, is the one of SavedStateDb on what it will leave.
LEMMA RefreshRefines ==
  ASSUME IInv, IInv', refresh_internal_state
  PROVE  Db!refresh_internal_state("app")
<1>1. disk = Flushed /\ disk' = disk
  BY AtRest DEF refresh_internal_state
<1>2. PICK r : /\ r = [head |-> Db!OrElse(disk[HeadKey], 0), tail |-> Db!OrElse(disk[TailKey], 0)]
               /\ cache' = r
               /\ todo' = IF Missing \in {disk[HeadKey], disk[TailKey]}
                          THEN <<Set(HeadKey, r.head), Set(TailKey, r.tail)>> ELSE <<>>
  BY DEF refresh_internal_state
<1>3. HandleOf(cache') = [HandleOf(cache) EXCEPT !["app"] = r]
  BY <1>2 DEF HandleOf
<1>4. \A k \in Keys : k # HeadKey /\ k # TailKey => Flushed'[k] = Flushed[k]
  <2>1. ASSUME NEW k \in Keys, k # HeadKey, k # TailKey PROVE \A i \in DOMAIN todo' : todo'[i].key # k
    BY <1>2, <2>1 DEF Set
  <2>2. QED
    BY <1>1, <2>1, AfterElse DEF Flushed
<1>5. /\ CellOf(Flushed') = CellOf(Flushed) /\ LastMoveOf(Flushed') = LastMoveOf(Flushed)
      /\ GameOf(Flushed') = GameOf(Flushed) /\ DatedOn(Flushed') = DatedOn(Flushed)
      /\ LastSessOf(Flushed') = LastSessOf(Flushed)
  BY <1>4, KeyNames, KeysKnown DEF CellOf, LastMoveOf, GameOf, DatedOn, LastSessOf
<1>6. IF Missing \in {Flushed[HeadKey], Flushed[TailKey]}
      THEN Flushed'[HeadKey] = r.head /\ Flushed'[TailKey] = r.tail
      ELSE Flushed'[HeadKey] = Flushed[HeadKey] /\ Flushed'[TailKey] = Flushed[TailKey]
  <2>1. CASE Missing \in {Flushed[HeadKey], Flushed[TailKey]}
    <3>1. IsOpen'
      BY <1>1, <1>2, <2>1 DEF IInv, Known
    <3>2. QED
      BY <1>2, <2>1, <3>1 DEF IInv, Known
  <2>2. CASE Missing \notin {Flushed[HeadKey], Flushed[TailKey]}
    <3>1. todo' = <<>>
      BY <1>1, <1>2, <2>2
    <3>2. Flushed' = disk'
      BY <3>1, <1>1, AfterNothing DEF IInv, Shapes, Flushed
    <3>3. QED
      BY <1>1, <2>2, <3>2
  <2>3. QED
    BY <2>1, <2>2
<1>7. r = [head |-> Db!OrElse(Flushed[HeadKey], 0), tail |-> Db!OrElse(Flushed[TailKey], 0)]
  BY <1>1, <1>2
<1>8. QED
  BY <1>3, <1>5, <1>6, <1>7 DEF Db!refresh_internal_state,
     CellOf, LastMoveOf, GameOf, DatedOn, LastSessOf, HandleOf

\* Undo and redo.
LEMMA UndoRedoRefines ==
  ASSUME IInv, IInv', NEW s \in SessionIds, NEW d \in {-1, 0, 1}, UndoRedo(s, d)
  PROVE  Db!UndoRedo(s, d)
<1>1. disk = Flushed /\ disk' = disk /\ cache' = cache /\ Db!has_saved_state_offset(s, d)
  BY AtRest DEF UndoRedo
<1>2. Flushed[MoveKey(s)] # Missing
  BY <1>1 DEF Db!has_saved_state_offset
<1>3. PICK n : n = Db!Shift(Flushed[MoveKey(s)], d)
  OBVIOUS
<1>4. todo' = <<Set(MoveKey(s), n)>>
  BY <1>1, <1>3 DEF UndoRedo
<1>5. DOMAIN todo' = {1} /\ todo'[1].key = MoveKey(s) /\ todo'[1].value = n
  BY <1>4 DEF Set
<1>6. Flushed'[MoveKey(s)] = n
  <2>1. todo' \in Seq(Commands) /\ Once(todo')
    BY DEF IInv, Shapes
  <2>2. QED
    BY <1>5, <2>1, AfterAt DEF Flushed
<1>7. \A k \in Keys : k # MoveKey(s) => Flushed'[k] = Flushed[k]
  BY <1>1, <1>5, AfterElse DEF Flushed
<1>8. /\ CellOf(Flushed') = CellOf(Flushed) /\ GameOf(Flushed') = GameOf(Flushed)
      /\ DatedOn(Flushed') = DatedOn(Flushed) /\ LastSessOf(Flushed') = LastSessOf(Flushed)
      /\ Flushed'[HeadKey] = Flushed[HeadKey] /\ Flushed'[TailKey] = Flushed[TailKey]
  BY <1>7, KeyNames, KeysKnown DEF CellOf, GameOf, DatedOn, LastSessOf
<1>9. LastMoveOf(Flushed') = [LastMoveOf(Flushed) EXCEPT ![s] = n]
  <2>1. ASSUME NEW t \in SessionIds, t # s PROVE Flushed'[MoveKey(t)] = Flushed[MoveKey(t)]
    BY <1>7, <2>1, KeyNames, KeysKnown
  <2>2. QED
    BY <1>6, <2>1 DEF LastMoveOf
<1>10. LastMoveOf(Flushed)[s] = Flushed[MoveKey(s)]
  BY DEF LastMoveOf
<1>11. LastMoveOf(Flushed') = [LastMoveOf(Flushed) EXCEPT ![s] = Db!Shift(LastMoveOf(Flushed)[s], d)]
  BY <1>3, <1>9, <1>10
<1>12. LastMoveOf(Flushed)[s] # Missing
  BY <1>2, <1>10
<1>13. Db!adjust_saved_state_offset(s, d)
  BY <1>1, <1>8, <1>11, <1>12 DEF Db!adjust_saved_state_offset,
     CellOf, LastMoveOf, GameOf, DatedOn, LastSessOf
<1>14. QED
  BY <1>1, <1>13 DEF Db!UndoRedo

\* A save.
LEMMA SaveRefines ==
  ASSUME IInv, IInv', NEW g \in Games, NEW s \in SessionIds, NEW x \in States, save_state(g, s, x)
  PROVE  Db!save_state("app", g, s, x)
<1>1. disk = Flushed /\ disk' = disk /\ IsOpen
  BY AtRest DEF save_state
<1>2. /\ s = cache.head \/ (cache.tail <= s /\ s < cache.head)
      /\ cache' = IF s = cache.head THEN [cache EXCEPT !.head = s + 1] ELSE cache
  BY DEF save_state
<1>3. PICK m : m = Db!Shift(Db!OrElse(Flushed[MoveKey(s)], -1), 1)
  OBVIOUS
<1>4. PICK e : e = Flushed' /\ e = After(disk, todo')
  BY <1>1 DEF Flushed
<1>5. /\ m <= MaxMove
      /\ e[HeadKey] = IF s = cache.head THEN s + 1 ELSE Flushed[HeadKey]
      /\ e[GameKey(s)] = IF s = cache.head THEN g ELSE Flushed[GameKey(s)]
      /\ e[StateKey(s, m)] = x /\ e[DateKey(s)] = Date /\ e[MoveKey(s)] = m /\ e[LastKey(g)] = s
      /\ \A k \in Keys \ {HeadKey, GameKey(s), StateKey(s, m), DateKey(s), MoveKey(s), LastKey(g)} :
           e[k] = Flushed[k]
  BY <1>1, <1>3, <1>4, SaveLeaves
<1>6. m \in MoveIds
  BY <1>1, <1>3, <1>5, NextMoveIs
<1>7. e[TailKey] = Flushed[TailKey]
  BY <1>5, KeyNames, KeysKnown
<1>8. CellOf(e) = [CellOf(Flushed) EXCEPT ![s][m] = x]
  <2>1. ASSUME NEW t \in SessionIds, NEW n \in MoveIds, t # s \/ n # m
        PROVE  e[StateKey(t, n)] = Flushed[StateKey(t, n)]
    BY <1>5, <2>1, KeyNames, KeysKnown
  <2>2. ASSUME NEW t \in SessionIds, NEW n \in MoveIds
        PROVE  CellOf(e)[t][n] = [CellOf(Flushed) EXCEPT ![s][m] = x][t][n]
    <3>1. CASE t = s /\ n = m
      BY <1>5, <1>6, <3>1 DEF CellOf
    <3>2. CASE t # s
      BY <2>1, <3>2 DEF CellOf
    <3>3. CASE t = s /\ n # m
      BY <2>1, <3>3 DEF CellOf
    <3>4. QED
      BY <3>1, <3>2, <3>3
  <2>3. QED
    BY <2>2 DEF CellOf
<1>9. LastMoveOf(e) = [LastMoveOf(Flushed) EXCEPT ![s] = m]
  <2>1. ASSUME NEW t \in SessionIds, t # s PROVE e[MoveKey(t)] = Flushed[MoveKey(t)]
    BY <1>5, <2>1, KeyNames, KeysKnown
  <2>2. QED
    BY <1>5, <2>1 DEF LastMoveOf
<1>10. GameOf(e) = IF s = cache.head THEN [GameOf(Flushed) EXCEPT ![s] = g] ELSE GameOf(Flushed)
  <2>1. ASSUME NEW t \in SessionIds, t # s PROVE e[GameKey(t)] = Flushed[GameKey(t)]
    BY <1>5, <2>1, KeyNames, KeysKnown
  <2>2. QED
    BY <1>5, <2>1 DEF GameOf
<1>11. DatedOn(e) = DatedOn(Flushed) \cup {s}
  <2>1. ASSUME NEW t \in SessionIds, t # s PROVE e[DateKey(t)] = Flushed[DateKey(t)]
    BY <1>5, <2>1, KeyNames, KeysKnown
  <2>2. QED
    BY <1>5, <2>1, WritesAssumption DEF DatedOn
<1>12. LastSessOf(e) = [LastSessOf(Flushed) EXCEPT ![g] = s]
  <2>1. ASSUME NEW o \in Games, o # g PROVE e[LastKey(o)] = Flushed[LastKey(o)]
    BY <1>5, <2>1, KeyNames, KeysKnown
  <2>2. QED
    BY <1>5, <2>1 DEF LastSessOf
<1>13. Db!NextMove(s) = m
  BY <1>3 DEF Db!NextMove
<1>14. Db!Append(g, s, x)
  BY <1>4, <1>5, <1>8, <1>9, <1>11, <1>12, <1>13
     DEF Db!Append, CellOf, LastMoveOf, DatedOn, LastSessOf
<1>15. Db!IsOpen("app") /\ HandleOf(cache)["app"] = cache
  BY <1>1 DEF Db!IsOpen, IsOpen, NotOpen, Db!NotOpen, HandleOf
<1>16. CASE s = cache.head
  <2>1. HandleOf(cache') = [HandleOf(cache) EXCEPT !["app"].head = s + 1]
    BY <1>2, <1>16 DEF HandleOf
  <2>2. e[HeadKey] = s + 1 /\ GameOf(e) = [GameOf(Flushed) EXCEPT ![s] = g]
    BY <1>5, <1>10, <1>16
  <2>3. s \in Db!SessionIds
    BY DEF Db!SessionIds, SessionIds
  <2>4. Db!SaveNew("app", g, x)
    BY <1>4, <1>7, <1>14, <1>15, <1>16, <2>1, <2>2, <2>3 DEF Db!SaveNew, HandleOf, GameOf
  <2>5. QED
    BY <1>15, <1>16, <2>4 DEF Db!save_state, HandleOf
<1>17. CASE s # cache.head
  <2>1. cache' = cache /\ e[HeadKey] = Flushed[HeadKey] /\ GameOf(e) = GameOf(Flushed)
    BY <1>2, <1>5, <1>10, <1>17
  <2>2. cache.tail <= s /\ s < cache.head
    BY <1>2, <1>17
  <2>3. Db!SaveExisting("app", g, s, x)
    BY <1>4, <1>7, <1>14, <1>15, <2>1, <2>2 DEF Db!SaveExisting, GameOf, HandleOf
  <2>4. QED
    BY <2>3 DEF Db!save_state
<1>18. QED
  BY <1>16, <1>17

\* A deletion.
LEMMA DeleteRefines ==
  ASSUME IInv, IInv', delete_session
  PROVE  Db!delete_session("app")
<1>1. disk = Flushed /\ disk' = disk /\ IsOpen
  BY AtRest DEF delete_session
<1>2. PICK s, e : s = cache.tail /\ e = Flushed' /\ e = After(disk, todo')
  BY <1>1 DEF Flushed
<1>3. s # cache.head /\ cache' = [cache EXCEPT !.tail = s + 1]
  BY <1>2 DEF delete_session
<1>4. /\ s \in SessionIds
      /\ Db!DeletedMoves(s) \subseteq MoveIds
      /\ \A m \in Db!DeletedMoves(s) : e[StateKey(s, m)] = Missing
      /\ e[MoveKey(s)] = Missing /\ e[DateKey(s)] = Missing /\ e[GameKey(s)] = Missing
      /\ e[TailKey] = s + 1
  BY <1>2, DeletionLeaves
<1>5. \A k \in Keys \ ({MoveKey(s), DateKey(s), GameKey(s), TailKey}
                         \cup {StateKey(s, m) : m \in Db!DeletedMoves(s)}) : e[k] = Flushed[k]
  BY <1>1, <1>2, DeletionLeaves
<1>6. PICK gone : gone = Db!DeletedMoves(s)
  OBVIOUS
<1>7. \A k \in Keys : /\ k \notin {MoveKey(s), DateKey(s), GameKey(s), TailKey}
                      /\ \A m \in gone : k # StateKey(s, m)
                      => e[k] = Flushed[k]
  BY <1>5, <1>6
<1>8. e[HeadKey] = Flushed[HeadKey]
  BY <1>7, KeyNames, KeysKnown
<1>9. CellOf(e) = [CellOf(Flushed) EXCEPT ![s] = [m \in MoveIds |-> IF m \in gone THEN Missing ELSE CellOf(Flushed)[s][m]]]
  <2>1. ASSUME NEW t \in SessionIds, NEW n \in MoveIds, t # s \/ n \notin gone
        PROVE  e[StateKey(t, n)] = Flushed[StateKey(t, n)]
    BY <1>7, <2>1, KeyNames, KeysKnown
  <2>2. \A n \in gone : e[StateKey(s, n)] = Missing
    BY <1>4, <1>6
  <2>3. QED
    BY <1>4, <2>1, <2>2, ZenonT(40) DEF CellOf
<1>10. LastMoveOf(e) = [LastMoveOf(Flushed) EXCEPT ![s] = Missing]
  <2>1. ASSUME NEW t \in SessionIds, t # s PROVE e[MoveKey(t)] = Flushed[MoveKey(t)]
    BY <1>7, <2>1, KeyNames, KeysKnown
  <2>2. QED
    BY <1>4, <2>1 DEF LastMoveOf
<1>11. GameOf(e) = [GameOf(Flushed) EXCEPT ![s] = Missing]
  <2>1. ASSUME NEW t \in SessionIds, t # s PROVE e[GameKey(t)] = Flushed[GameKey(t)]
    BY <1>7, <2>1, KeyNames, KeysKnown
  <2>2. QED
    BY <1>4, <2>1 DEF GameOf
<1>12. DatedOn(e) = DatedOn(Flushed) \ {s}
  <2>1. ASSUME NEW t \in SessionIds, t # s PROVE e[DateKey(t)] = Flushed[DateKey(t)]
    BY <1>7, <2>1, KeyNames, KeysKnown
  <2>2. QED
    BY <1>4, <2>1 DEF DatedOn
<1>13. LastSessOf(e) = LastSessOf(Flushed)
  BY <1>7, KeyNames, KeysKnown DEF LastSessOf
<1>14. Db!IsOpen("app") /\ HandleOf(cache)["app"] = cache
  BY <1>1 DEF Db!IsOpen, IsOpen, NotOpen, Db!NotOpen, HandleOf
<1>15. HandleOf(cache') = [HandleOf(cache) EXCEPT !["app"].tail = s + 1]
  BY <1>3 DEF HandleOf
<1>16. s \in Db!SessionIds /\ MoveIds = Db!MoveIds
  BY <1>4 DEF Db!SessionIds, SessionIds, MoveIds, Db!MoveIds
<1>17. QED
  BY <1>2, <1>3, <1>4, <1>6, <1>8, <1>9, <1>10, <1>11, <1>12, <1>13, <1>14, <1>15, <1>16
     DEF Db!delete_session, CellOf, LastMoveOf, GameOf, DatedOn, LastSessOf, HandleOf

\* While the process has not been killed, an operation is the step SavedStateDb
\* takes for it as it begins, and its writes change nothing more.
THEOREM WritesImplementDb == Spec => ImplementsDb
<1>1. IInv /\ IInv' /\ [Next]_vars => [crashes' = 0 => Db!Next \/ UNCHANGED Db!vars]_vars
  <2> SUFFICES ASSUME IInv, IInv', Next, crashes' = 0 PROVE Db!Next \/ UNCHANGED Db!vars
    OBVIOUS
  <2>1. CASE refresh_internal_state
    BY <2>1, RefreshRefines DEF Db!Next
  <2>2. CASE \E g \in Games, s \in SessionIds, x \in States : save_state(g, s, x)
    BY <2>2, SaveRefines DEF Db!Next, Db!SessionIds, SessionIds
  <2>3. CASE delete_session
    BY <2>3, DeleteRefines DEF Db!Next
  <2>4. CASE \E s \in SessionIds, d \in {-1, 0, 1} : UndoRedo(s, d)
    BY <2>4, UndoRedoRefines DEF Db!Next, Db!SessionIds, SessionIds, Db!Offsets
  <2>5. CASE MakeWrite
    <3>1. Flushed' = Flushed /\ cache' = cache
      BY <2>5, WriteMade DEF MakeWrite
    <3>2. QED
      BY <3>1 DEF Db!vars, Db!store
  <2>6. CASE Crash
    BY <2>6 DEF Crash, IInv, Shapes
  <2>7. QED
    BY <2>1, <2>2, <2>3, <2>4, <2>5, <2>6 DEF Next
<1>2. QED
  BY <1>1, InitIInv, InitRefines, NextKeeps, PTL DEF Spec, ImplementsDb
=============================================================================
