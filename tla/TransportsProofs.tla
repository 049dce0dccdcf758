--------------------------- MODULE TransportsProofs ---------------------------
(***************************************************************************)
(* Theorems of the two transports: the bytes of the desktop's sockets, for *)
(* any number of clients and messages of any length; then RelayServer, for *)
(* any number of clients, sessions, messages and leaves, whether or not a  *)
(* send may wait; then, from the theorems of their modules, the two        *)
(* libraries by which connected devices agree on who is who.               *)
(***************************************************************************)
EXTENDS Transports, FiniteSetTheorems, SequenceTheorems, WellFoundedInduction, TLAPS

-----------------------------------------------------------------------------
(* Sequences put one after another *)

\* A set of naturals that has members has a least one.
LEMMA LeastMember ==
  ASSUME NEW S \in SUBSET Nat, S # {}
  PROVE  \E m \in S : \A k \in S : m <= k
<1> DEFINE upTo(x) == {y \in S : y <= x}
           T == {upTo(x) : x \in S}
<1>1. \A x \in S : IsFiniteSet(upTo(x))
  BY FS_BoundedSetOfNaturals
<1>2. T \subseteq FiniteSubsetsOf(S)
  BY <1>1 DEF FiniteSubsetsOf
<1>3. T # {}
  OBVIOUS
<1>4. IsWellFoundedOn(StrictSubsetOrdering(S), FiniteSubsetsOf(S))
  BY FS_StrictSubsetOrderingWellFounded
<1> HIDE DEF T
<1>5. PICK u \in T : \A v \in T : ~(<<v, u>> \in StrictSubsetOrdering(S))
  BY <1>2, <1>3, <1>4, WFMin
<1>6. PICK m \in S : u = upTo(m)
  BY <1>5 DEF T
<1>7. ASSUME NEW k \in S, k < m PROVE FALSE
  <2>1. upTo(k) \in T
    BY DEF T
  <2>2. upTo(k) \subseteq upTo(m)
    <3> SUFFICES ASSUME NEW y \in S, y <= k PROVE y <= m
      OBVIOUS
    <3>1. k \in Nat /\ m \in Nat /\ y \in Nat
      OBVIOUS
    <3>2. QED
      BY <3>1, <1>7
  <2>3. m \in upTo(m) /\ m \notin upTo(k)
    BY <1>7
  <2>4. <<upTo(k), u>> \in StrictSubsetOrdering(S)
    BY <2>2, <2>3, <1>6 DEF StrictSubsetOrdering
  <2>5. QED
    BY <2>1, <2>4, <1>5
<1>8. QED
  BY <1>7

\* A set of naturals with zero and the successor of each of its members has all of them.
LEMMA AllNaturals ==
  ASSUME NEW S, 0 \in S, \A n \in Nat : n \in S => n + 1 \in S
  PROVE  Nat \subseteq S
<1> DEFINE U == Nat \ S
<1> SUFFICES ASSUME U # {} PROVE FALSE
  OBVIOUS
<1>1. PICK m \in U : \A k \in U : m <= k
  <2>1. U \in SUBSET Nat
    OBVIOUS
  <2> HIDE DEF U
  <2>2. QED
    BY <2>1, LeastMember
<1>2. m # 0 /\ m - 1 \in Nat
  BY <1>1
<1>3. m - 1 \in S
  BY <1>1, <1>2
<1>4. QED
  BY <1>1, <1>2, <1>3

\* A sequence of bytes.
Strings == Seq(Nat)

\* f tells what the first 1 .. n of the sequences ss are together.
IsFlat(f, ss, n) ==
  f = [i \in 1 .. n |-> IF i = 1 THEN ss[i] ELSE f[i - 1] \o ss[i]]

\* What is so of 1, and of k if it is of the one before, is so of all up to n.
LEMMA CountUp ==
  ASSUME NEW n \in Nat, NEW T, n # 0 => 1 \in T,
         \A i, k \in 1 .. n : i \in T /\ k = i + 1 => k \in T
  PROVE  1 .. n \subseteq T
<1> DEFINE S == {i \in Nat : i \in 1 .. n => i \in T}
<1>1. 0 \in S
  OBVIOUS
<1>2. ASSUME NEW i \in Nat, i \in S PROVE i + 1 \in S
  <2>1. CASE i + 1 \notin 1 .. n
    BY <2>1
  <2>2. CASE i + 1 \in 1 .. n /\ i = 0
    BY <2>2
  <2>3. CASE i + 1 \in 1 .. n /\ i # 0
    <3>1. i \in 1 .. n
      BY <2>3
    <3>2. QED
      BY <3>1, <2>3, <1>2
  <2>4. QED
    BY <2>1, <2>2, <2>3
<1> HIDE DEF S
<1>3. Nat \subseteq S
  BY <1>1, <1>2, AllNaturals
<1>4. \A i \in 1 .. n : i \in Nat
  BY SMT
<1>5. QED
  BY <1>3, <1>4 DEF S

\* They can be put together one after another.
LEMMA FlatExists ==
  ASSUME NEW ss, NEW n \in Nat
  PROVE  \E f : IsFlat(f, ss, n)
<1> DEFINE S == {m \in Nat : \E f : IsFlat(f, ss, m)}
<1>1. 0 \in S
  <2> DEFINE f == [i \in 1 .. 0 |-> ss[i]]
  <2>1. 1 .. 0 = {}
    BY SMT
  <2>2. IsFlat(f, ss, 0)
    BY <2>1 DEF IsFlat
  <2>3. QED
    BY <2>2
<1>2. ASSUME NEW m \in Nat, m \in S PROVE m + 1 \in S
  <2>1. PICK f : IsFlat(f, ss, m)
    BY <1>2
  <2> DEFINE g == [i \in 1 .. m + 1 |->
                     IF i <= m THEN f[i] ELSE IF i = 1 THEN ss[i] ELSE f[m] \o ss[i]]
  <2>2. ASSUME NEW i \in 1 .. m + 1
        PROVE  g[i] = IF i = 1 THEN ss[i] ELSE g[i - 1] \o ss[i]
    <3>1. CASE i <= m
      <4>1. i \in 1 .. m /\ g[i] = f[i] /\ (i # 1 => g[i - 1] = f[i - 1])
        BY <3>1
      <4>2. f[i] = IF i = 1 THEN ss[i] ELSE f[i - 1] \o ss[i]
        BY <2>1, <4>1 DEF IsFlat
      <4>3. QED
        BY <4>1, <4>2
    <3>2. CASE ~(i <= m)
      <4>1. i - 1 = m /\ (i # 1 => i - 1 \in 1 .. m + 1 /\ i - 1 <= m)
        BY <3>2
      <4>2. QED
        BY <3>2, <4>1
    <3>3. QED
      BY <3>1, <3>2
  <2>3. IsFlat(g, ss, m + 1)
    BY <2>2 DEF IsFlat
  <2>4. QED
    BY <2>3
<1> HIDE DEF S
<1>3. Nat \subseteq S
  BY <1>1, <1>2, AllNaturals
<1>4. QED
  BY <1>3 DEF S

\* What FlattenSeq is: nothing of nothing, or else the last of those.
LEMMA FlattenIs ==
  ASSUME NEW ss, NEW n \in Nat, n = Len(ss)
  PROVE  /\ n = 0 => Net!FlattenSeq(ss) = ss
         /\ n # 0 => \E f : IsFlat(f, ss, n) /\ Net!FlattenSeq(ss) = f[n]
<1>1. \E f : IsFlat(f, ss, n)
  BY FlatExists
<1>2. QED
  BY <1>1 DEF Net!FlattenSeq, IsFlat

\* The first is what ss begins with, and each other one has the next of ss behind it.
Steps(f, ss, n) ==
  /\ n # 0 => f[1] = ss[1]
  /\ \A i, k \in 1 .. n : k = i + 1 => f[k] = f[i] \o ss[k]

\* Those that IsFlat tells are such steps.
LEMMA FlatSteps ==
  ASSUME NEW ss, NEW f, NEW n \in Nat, IsFlat(f, ss, n)
  PROVE  Steps(f, ss, n)
<1>1. \A k \in 1 .. n : f[k] = IF k = 1 THEN ss[k] ELSE f[k - 1] \o ss[k]
  BY DEF IsFlat
<1>2. ASSUME n # 0 PROVE f[1] = ss[1]
  <2>1. 1 \in 1 .. n
    BY <1>2
  <2>2. QED
    BY <2>1, <1>1
<1>3. ASSUME NEW i \in 1 .. n, NEW k \in 1 .. n, k = i + 1 PROVE f[k] = f[i] \o ss[k]
  <2>1. k # 1 /\ k - 1 = i
    BY <1>3
  <2>2. f[k] = IF k = 1 THEN ss[k] ELSE f[k - 1] \o ss[k]
    BY <1>1
  <2>3. QED
    BY <2>1, <2>2, Zenon
<1>4. QED
  BY <1>2, <1>3 DEF Steps

\* Two strings make a string, and it does not matter which of three are put together
\* first.
LEMMA Strung ==
  /\ <<>> \in Strings
  /\ \A x \in Strings : x \o <<>> = x /\ <<>> \o x = x
  /\ \A x, y \in Strings : x \o y \in Strings
  /\ \A x, y, z \in Strings : (x \o y) \o z = x \o (y \o z)
<1>1. <<>> \in Strings
  BY DEF Strings
<1>2. \A x \in Strings : x \o <<>> = x /\ <<>> \o x = x
  BY ConcatEmptySeq DEF Strings
<1>3. \A x, y \in Strings : x \o y \in Strings
  BY ConcatProperties DEF Strings
<1>4. \A x, y, z \in Strings : (x \o y) \o z = x \o (y \o z)
  <2>1. ASSUME NEW x \in Strings, NEW y \in Strings, NEW z \in Strings
        PROVE  (x \o y) \o z = x \o (y \o z)
    BY ConcatAssociative DEF Strings
  <2>2. QED
    BY <2>1
<1>5. QED
  BY <1>1, <1>2, <1>3, <1>4

\* Strings that are put together are a string.
LEMMA FlatIsString ==
  ASSUME NEW ss \in Seq(Strings), NEW f, NEW n \in Nat, n <= Len(ss), Steps(f, ss, n)
  PROVE  \A i \in 1 .. n : f[i] \in Strings
<1> DEFINE T == {i \in 1 .. n : f[i] \in Strings}
<1>1. \A i \in 1 .. n : ss[i] \in Strings
  <2>1. \A i \in 1 .. n : i \in 1 .. Len(ss)
    BY LenProperties
  <2>2. QED
    BY <2>1, ElementOfSeq
<1>2. ASSUME n # 0 PROVE 1 \in T
  <2>1. 1 \in 1 .. n
    BY <1>2
  <2>2. QED
    BY <2>1, <1>1, <1>2 DEF Steps
<1>3. ASSUME NEW i \in 1 .. n, NEW k \in 1 .. n, i \in T, k = i + 1 PROVE k \in T
  <2>1. f[i] \in Strings /\ ss[k] \in Strings
    BY <1>1, <1>3
  <2>2. f[k] = f[i] \o ss[k]
    BY <1>3 DEF Steps
  <2>3. QED
    BY <2>1, <2>2, Strung
<1> HIDE DEF T
<1>4. 1 .. n \subseteq T
  BY <1>2, <1>3, CountUp
<1>5. QED
  BY <1>4 DEF T

\* What is put together of ss, and of what ss begins with.
LEMMA FlatAgree ==
  ASSUME NEW ss, NEW tt, NEW f, NEW g, NEW n \in Nat, NEW m \in Nat, n <= m,
         Steps(f, ss, n), Steps(g, tt, m), \A i \in 1 .. n : tt[i] = ss[i]
  PROVE  \A i \in 1 .. n : f[i] = g[i]
<1> DEFINE T == {i \in 1 .. n : f[i] = g[i]}
<1>1. \A i \in 1 .. n : i \in 1 .. m
  BY SMT
<1>2. ASSUME n # 0 PROVE 1 \in T
  <2>1. 1 \in 1 .. n /\ m # 0
    BY <1>2
  <2>2. QED
    BY <2>1, <1>2 DEF Steps
<1>3. ASSUME NEW i \in 1 .. n, NEW k \in 1 .. n, i \in T, k = i + 1 PROVE k \in T
  <2>1. f[k] = f[i] \o ss[k] /\ g[k] = g[i] \o tt[k] /\ tt[k] = ss[k]
    BY <1>1, <1>3 DEF Steps
  <2>2. QED
    BY <2>1, <1>3
<1> HIDE DEF T
<1>4. 1 .. n \subseteq T
  BY <1>2, <1>3, CountUp
<1>5. QED
  BY <1>4 DEF T

\* Nothing put together is nothing.
LEMMA FlattenNothing == Net!FlattenSeq(<<>>) = <<>>
<1>1. 0 \in Nat /\ 0 = Len(<<>>)
  OBVIOUS
<1>2. QED
  BY <1>1, FlattenIs

\* Something put together is the last step.
LEMMA FlattenSteps ==
  ASSUME NEW ss, NEW n \in Nat, n = Len(ss), n # 0
  PROVE  \E f : Steps(f, ss, n) /\ Net!FlattenSeq(ss) = f[n]
<1>1. PICK f : IsFlat(f, ss, n) /\ Net!FlattenSeq(ss) = f[n]
  BY FlattenIs
<1>2. QED
  BY <1>1, FlatSteps

\* Strings put together are a string.
LEMMA FlattenIsString ==
  ASSUME NEW ss \in Seq(Strings)
  PROVE  Net!FlattenSeq(ss) \in Strings
<1>1. PICK n \in Nat : n = Len(ss)
  BY LenProperties
<1>2. CASE n = 0
  <2>1. ss = <<>>
    BY <1>1, <1>2, EmptySeq
  <2>2. QED
    BY <2>1, FlattenNothing, Strung
<1>3. CASE n # 0
  <2>1. PICK f : Steps(f, ss, n) /\ Net!FlattenSeq(ss) = f[n]
    BY <1>1, <1>3, FlattenSteps
  <2>2. n <= Len(ss) /\ n \in 1 .. n
    BY <1>1, <1>3
  <2>3. QED
    BY <2>1, <2>2, FlatIsString
<1>4. QED
  BY <1>2, <1>3

\* A string at the end comes last.
LEMMA FlattenAppend ==
  ASSUME NEW ss \in Seq(Strings), NEW x \in Strings
  PROVE  Net!FlattenSeq(Append(ss, x)) = Net!FlattenSeq(ss) \o x
<1>1. PICK n \in Nat : n = Len(ss)
  BY LenProperties
<1>2. PICK tt \in Seq(Strings) : tt = Append(ss, x)
  BY AppendProperties
<1>3. PICK m \in Nat : m = n + 1
  OBVIOUS
<1>4. Len(tt) = m /\ tt[m] = x /\ m # 0 /\ \A i \in 1 .. n : tt[i] = ss[i]
  BY <1>1, <1>2, <1>3, AppendProperties
<1>5. PICK g : Steps(g, tt, m) /\ Net!FlattenSeq(tt) = g[m]
  BY <1>4, FlattenSteps
<1>6. CASE n = 0
  <2>1. ss = <<>>
    BY <1>1, <1>6, EmptySeq
  <2>2. m = 1
    BY <1>3, <1>6
  <2>3. Net!FlattenSeq(tt) = x
    BY <1>4, <1>5, <2>2 DEF Steps
  <2>4. QED
    BY <1>2, <2>1, <2>3, FlattenNothing, Strung
<1>7. CASE n # 0
  <2>1. PICK f : Steps(f, ss, n) /\ Net!FlattenSeq(ss) = f[n]
    BY <1>1, <1>7, FlattenSteps
  <2>2. n <= m /\ n \in 1 .. n /\ n \in 1 .. m /\ m \in 1 .. m
    BY <1>3, <1>7
  <2>3. f[n] = g[n]
    BY <1>4, <1>5, <2>1, <2>2, FlatAgree
  <2>4. g[m] = g[n] \o x
    BY <1>3, <1>4, <1>5, <2>2 DEF Steps
  <2>5. QED
    BY <1>2, <1>5, <2>1, <2>3, <2>4
<1>8. QED
  BY <1>6, <1>7

\* The string at the front comes first.
LEMMA FlattenTail ==
  ASSUME NEW ss \in Seq(Strings), ss # <<>>
  PROVE  Net!FlattenSeq(ss) = Head(ss) \o Net!FlattenSeq(Tail(ss))
<1>1. PICK h \in Strings, tt \in Seq(Strings) : h = Head(ss) /\ tt = Tail(ss)
  BY HeadTailProperties
<1>2. PICK n \in Nat : n = Len(tt)
  BY LenProperties
<1>3. PICK m \in Nat : m = n + 1
  OBVIOUS
<1>4. /\ Len(ss) = m /\ m # 0 /\ h = ss[1]
      /\ \A i \in 1 .. n : \A k \in 1 .. m : k = i + 1 => tt[i] = ss[k]
  BY <1>1, <1>2, <1>3, HeadTailProperties, LenProperties
<1>5. PICK f : Steps(f, ss, m) /\ Net!FlattenSeq(ss) = f[m]
  BY <1>4, FlattenSteps
<1>6. f[1] = h
  BY <1>4, <1>5 DEF Steps
<1>7. CASE n = 0
  <2>1. tt = <<>>
    BY <1>2, <1>7, EmptySeq
  <2>2. m = 1
    BY <1>3, <1>7
  <2>3. Net!FlattenSeq(tt) = <<>>
    BY <2>1, FlattenNothing
  <2>4. Net!FlattenSeq(ss) = h /\ h = h \o <<>>
    BY <1>5, <1>6, <2>2, Strung
  <2>5. QED
    BY <1>1, <2>3, <2>4
<1>8. CASE n # 0
  <2>1. PICK g : Steps(g, tt, n) /\ Net!FlattenSeq(tt) = g[n]
    BY <1>2, <1>8, FlattenSteps
  <2>2. n <= Len(tt)
    BY <1>2
  <2>3. \A i \in 1 .. n : g[i] \in Strings
    BY <2>1, <2>2, FlatIsString
  <2>4. \A i \in 1 .. n : tt[i] \in Strings
    BY <1>2, ElementOfSeq
  \* The steps through ss are those through tt, with h before them.
  <2> DEFINE T == {i \in 1 .. n : \A k \in 1 .. m : k = i + 1 => f[k] = h \o g[i]}
  <2>5. ASSUME NEW i \in 1 .. n, NEW k \in 1 .. m, k = i + 1 PROVE f[k] = f[i] \o tt[i]
    <3>1. i \in 1 .. m
      BY <1>3
    <3>2. f[k] = f[i] \o ss[k] /\ tt[i] = ss[k]
      BY <1>4, <1>5, <2>5, <3>1 DEF Steps
    <3>3. QED
      BY <3>2
  <2>6. 1 \in T
    <3>1. 1 \in 1 .. n /\ g[1] = tt[1]
      BY <1>8, <2>1 DEF Steps
    <3>2. QED
      BY <1>6, <2>5, <3>1
  <2>7. ASSUME NEW i \in 1 .. n, NEW j \in 1 .. n, i \in T, j = i + 1 PROVE j \in T
    <3>1. ASSUME NEW k \in 1 .. m, k = j + 1 PROVE f[k] = h \o g[j]
      <4>1. f[k] = f[j] \o tt[j]
        BY <2>5, <3>1
      <4>2. j \in 1 .. m
        BY <1>3
      <4>3. f[j] = h \o g[i]
        BY <2>7, <4>2
      <4>4. g[j] = g[i] \o tt[j]
        BY <2>1, <2>7 DEF Steps
      <4>5. g[i] \in Strings /\ tt[j] \in Strings
        BY <2>3, <2>4
      <4>6. (h \o g[i]) \o tt[j] = h \o (g[i] \o tt[j])
        BY <4>5, Strung
      <4>7. QED
        BY <4>1, <4>3, <4>4, <4>6
    <3>2. QED
      BY <3>1
  <2> HIDE DEF T
  <2>8. 1 .. n \subseteq T
    BY <2>6, <2>7, CountUp
  <2>9. n \in 1 .. n /\ m \in 1 .. m
    BY <1>3, <1>8
  <2>10. f[m] = h \o g[n]
    BY <1>3, <2>8, <2>9 DEF T
  <2>11. QED
    BY <1>1, <1>5, <2>1, <2>10
<1>9. QED
  BY <1>7, <1>8

-----------------------------------------------------------------------------
(* The events of the window's thread *)

\* What an event brings from s.
Part(e, s) == IF e.src = s THEN e.bytes ELSE <<>>
From(q, s) == [i \in DOMAIN q |-> Part(q[i], s)]
\* The bytes of s among the events q.
Said(q, s) == Net!FlattenSeq(From(q, s))
Events(S) == [src : S, bytes : Strings]

\* What an event brings is a string.
LEMMA PartIsString ==
  ASSUME NEW S, NEW e \in Events(S), NEW s
  PROVE  Part(e, s) \in Strings
BY Strung DEF Part, Events

\* What each event brings are strings.
LEMMA FromStrings ==
  ASSUME NEW S, NEW q \in Seq(Events(S)), NEW s
  PROVE  From(q, s) \in Seq(Strings) /\ Len(From(q, s)) = Len(q)
<1>1. PICK n \in Nat : n = Len(q)
  BY LenProperties
<1>2. DOMAIN q = 1 .. n /\ \A i \in 1 .. n : q[i] \in Events(S)
  BY <1>1, LenProperties, ElementOfSeq
<1>3. \A i \in 1 .. n : Part(q[i], s) \in Strings
  BY <1>2, PartIsString
<1>4. From(q, s) \in [1 .. n -> Strings]
  BY <1>2, <1>3 DEF From
<1>5. QED
  BY <1>1, <1>4

\* An event at the end brings its part last.
LEMMA SaidAppend ==
  ASSUME NEW S, NEW q \in Seq(Events(S)), NEW e \in Events(S), NEW s
  PROVE  Said(Append(q, e), s) = Said(q, s) \o Part(e, s)
<1>1. PICK n \in Nat : n = Len(q)
  BY LenProperties
<1>2. PICK r \in Seq(Events(S)) : r = Append(q, e)
  BY AppendProperties
<1>3. /\ DOMAIN q = 1 .. n /\ DOMAIN r = 1 .. n + 1 /\ r[n + 1] = e
      /\ \A i \in 1 .. n : r[i] = q[i]
  BY <1>1, <1>2, AppendProperties, LenProperties
<1>4. PICK f \in Seq(Strings) : f = From(q, s) /\ Len(f) = n
  BY <1>1, FromStrings
<1>5. PICK x \in Strings : x = Part(e, s)
  BY PartIsString
<1>6. PICK g \in Seq(Strings) : g = Append(f, x)
  BY AppendProperties
<1>7. /\ Len(g) = n + 1 /\ DOMAIN g = 1 .. n + 1 /\ g[n + 1] = x
      /\ \A i \in 1 .. n : g[i] = f[i]
  BY <1>4, <1>6, AppendProperties, LenProperties
<1>8. From(r, s) = g
  <2>1. \A i \in 1 .. n + 1 : i \in 1 .. n \/ i = n + 1
    BY SMT
  <2>2. \A i \in 1 .. n : f[i] = Part(q[i], s)
    BY <1>3, <1>4 DEF From
  <2>3. \A i \in 1 .. n + 1 : g[i] = Part(r[i], s)
    BY <1>3, <1>5, <1>7, <2>1, <2>2
  <2>4. g = [i \in 1 .. n + 1 |-> g[i]]
    BY <1>7
  <2>5. QED
    BY <1>3, <2>3, <2>4 DEF From
<1>9. Net!FlattenSeq(g) = Net!FlattenSeq(f) \o x
  BY <1>6, FlattenAppend
<1>10. QED
  BY <1>2, <1>4, <1>5, <1>8, <1>9 DEF Said

\* The first event brings its part first.
LEMMA SaidTail ==
  ASSUME NEW S, NEW q \in Seq(Events(S)), q # <<>>, NEW s
  PROVE  Said(q, s) = Part(Head(q), s) \o Said(Tail(q), s)
<1>1. PICK n \in Nat : n = Len(q) /\ n # 0
  BY LenProperties, EmptySeq
<1>2. PICK r \in Seq(Events(S)) : r = Tail(q)
  BY HeadTailProperties
<1>3. /\ DOMAIN q = 1 .. n /\ DOMAIN r = 1 .. n - 1 /\ q[1] = Head(q)
      /\ \A i \in 1 .. n - 1 : r[i] = q[i + 1] /\ i + 1 \in 1 .. n
  BY <1>1, <1>2, HeadTailProperties, LenProperties
<1>4. PICK f \in Seq(Strings) : f = From(q, s) /\ Len(f) = n
  BY <1>1, FromStrings
<1>5. f # <<>>
  BY <1>1, <1>4
<1>6. PICK g \in Seq(Strings) : g = Tail(f)
  BY <1>5, HeadTailProperties
<1>7. /\ DOMAIN g = 1 .. n - 1 /\ Head(f) = f[1]
      /\ \A i \in 1 .. n - 1 : g[i] = f[i + 1]
  BY <1>4, <1>5, <1>6, HeadTailProperties, LenProperties
<1>8. \A i \in 1 .. n : f[i] = Part(q[i], s)
  BY <1>3, <1>4 DEF From
<1>9. From(r, s) = g
  <2>1. \A i \in 1 .. n - 1 : g[i] = Part(r[i], s)
    BY <1>3, <1>7, <1>8
  <2>2. g = [i \in 1 .. n - 1 |-> g[i]]
    BY <1>7
  <2>3. QED
    BY <1>3, <2>1, <2>2 DEF From
<1>10. Head(f) = Part(Head(q), s)
  <2>1. 1 \in 1 .. n
    BY <1>1
  <2>2. QED
    BY <1>3, <1>7, <1>8, <2>1
<1>11. Net!FlattenSeq(f) = Head(f) \o Net!FlattenSeq(g)
  BY <1>5, <1>6, FlattenTail
<1>12. QED
  BY <1>2, <1>4, <1>9, <1>10, <1>11 DEF Said

\* What events bring is a string, and no events bring nothing.
LEMMA SaidIsString ==
  /\ \A S, s : \A q \in Seq(Events(S)) : Said(q, s) \in Strings
  /\ \A s : Said(<<>>, s) = <<>>
<1>1. ASSUME NEW S, NEW s, NEW q \in Seq(Events(S)) PROVE Said(q, s) \in Strings
  BY FromStrings, FlattenIsString DEF Said
<1>2. ASSUME NEW s PROVE Said(<<>>, s) = <<>>
  <2>1. DOMAIN <<>> = {}
    OBVIOUS
  <2>2. From(<<>>, s) = <<>>
    BY <2>1 DEF From
  <2>3. QED
    BY <2>2, FlattenNothing DEF Said
<1>3. QED
  BY <1>1, <1>2

-----------------------------------------------------------------------------
(* The bytes of a connection *)

\* The bytes of one more message follow those of the messages before it.
LEMMA NumberedOn ==
  ASSUME NEW n \in Nat
  PROVE  /\ Net!Bytes(n) \in Strings /\ Net!Numbered(n) \in Strings
         /\ Net!Numbered(n) \o Net!Bytes(n) = Net!Numbered(n + 1)
<1>1. MsgLen \in Nat
  BY TransportsAssumption DEF Net!DesktopNetAssumption
<1>2. PICK p \in Nat : p = MsgLen * n
  BY <1>1
<1>3. MsgLen * (n + 1) = p + MsgLen
  BY <1>1, <1>2
<1>4. PICK b : b = Net!Bytes(n)
  OBVIOUS
<1>5. PICK a : a = Net!Numbered(n)
  OBVIOUS
<1>6. b = [i \in 1 .. MsgLen |-> p + i]
  BY <1>2, <1>4 DEF Net!Bytes
<1>7. a = [i \in 1 .. p |-> i]
  BY <1>2, <1>5 DEF Net!Numbered
<1>8. b \in Strings /\ Len(b) = MsgLen /\ \A i \in 1 .. MsgLen : b[i] = p + i
  <2>1. \A i \in 1 .. MsgLen : p + i \in Nat
    BY <1>1
  <2>2. QED
    BY <1>1, <1>6, <2>1 DEF Strings
<1>9. a \in Strings /\ Len(a) = p /\ \A i \in 1 .. p : a[i] = i
  <2>1. \A i \in 1 .. p : i \in Nat
    BY SMT
  <2>2. QED
    BY <1>7, <2>1 DEF Strings
<1>10. PICK c \in Strings : c = a \o b
  BY <1>8, <1>9, Strung
<1>11. Len(c) = p + MsgLen /\ \A i \in 1 .. p + MsgLen : c[i] = IF i <= p THEN a[i] ELSE b[i - p]
  <2>1. a \in Seq(Nat) /\ b \in Seq(Nat)
    BY <1>8, <1>9 DEF Strings
  <2>2. Len(c) = Len(a) + Len(b)
    BY <2>1, <1>10, ConcatProperties
  <2>3. \A i \in 1 .. Len(a) + Len(b) : c[i] = IF i <= Len(a) THEN a[i] ELSE b[i - Len(a)]
    BY <2>1, <1>10, ConcatProperties
  <2>4. QED
    BY <1>8, <1>9, <2>2, <2>3
<1>12. \A i \in 1 .. p + MsgLen : c[i] = i
  <2>1. ASSUME NEW i \in 1 .. p + MsgLen PROVE c[i] = i
    <3>1. CASE i <= p
      <4>1. i \in 1 .. p
        BY <3>1
      <4>2. QED
        BY <1>9, <1>11, <3>1, <4>1
    <3>2. CASE ~(i <= p)
      <4>1. i - p \in 1 .. MsgLen /\ p + (i - p) = i
        BY <1>1, <3>2
      <4>2. QED
        BY <1>8, <1>11, <3>2, <4>1
    <3>3. QED
      BY <3>1, <3>2
  <2>2. QED
    BY <2>1
<1>13. c = [i \in 1 .. p + MsgLen |-> i]
  <2>1. c = [i \in 1 .. p + MsgLen |-> c[i]]
    BY <1>11 DEF Strings
  <2>2. QED
    BY <1>12, <2>1
<1>14. c = Net!Numbered(n + 1)
  BY <1>3, <1>13 DEF Net!Numbered
<1>15. QED
  BY <1>4, <1>5, <1>8, <1>9, <1>10, <1>14

\* What is read and what is left are what was there.
LEMMA ReadAndLeft ==
  ASSUME NEW s \in Strings, NEW n \in Net!Readable(s)
  PROVE  /\ SubSeq(s, 1, n) \in Strings /\ Net!recv_msg(s, n) \in Strings
         /\ SubSeq(s, 1, n) \o Net!recv_msg(s, n) = s
<1>1. PICK l \in Nat : l = Len(s)
  BY LenProperties DEF Strings
<1>2. n \in 1 .. l
  BY <1>1 DEF Net!Readable
<1>3. \A i \in 1 .. l : s[i] \in Nat
  BY <1>1, ElementOfSeq DEF Strings
<1>4. (\A i \in 1 .. n : i \in 1 .. l) /\ (\A i \in n + 1 .. l : i \in 1 .. l)
  BY <1>2
<1>5. SubSeq(s, 1, n) \in Strings
  <2>1. \A i \in 1 .. n : s[i] \in Nat
    BY <1>3, <1>4
  <2>2. QED
    BY <1>2, <2>1, SubSeqProperties DEF Strings
<1>6. SubSeq(s, n + 1, l) \in Strings
  <2>1. \A i \in n + 1 .. l : s[i] \in Nat
    BY <1>3, <1>4
  <2>2. QED
    BY <1>2, <2>1, SubSeqProperties DEF Strings
<1>7. SubSeq(s, 1, n) \o SubSeq(s, n + 1, l) = SubSeq(s, 1, l)
  <2>1. 1 \in 1 .. l + 1 /\ n \in 1 - 1 .. l /\ l \in n .. l
    BY <1>2
  <2>2. QED
    BY <1>1, <2>1, ConcatAdjacentSubSeq DEF Strings
<1>8. SubSeq(s, 1, l) = s
  BY <1>1, SubSeqFull DEF Strings
<1>9. QED
  BY <1>1, <1>5, <1>6, <1>7, <1>8 DEF Net!recv_msg

-----------------------------------------------------------------------------
(* Every step keeps the bytes *)

NetTypes ==
  /\ DOMAIN events = Net!Computers
  /\ events[Host] \in Seq(Events(Joiners))
  /\ \A c \in Joiners : events[c] \in Seq(Events({Host}))
  /\ up \in [Joiners -> Strings] /\ down \in [Joiners -> Strings]
  /\ heardUp \in [Joiners -> Strings] /\ heardDown \in [Joiners -> Strings]
  /\ sentUp \in [Joiners -> Nat] /\ sentDown \in [Joiners -> Nat]

\* What was heard, what waits in the events and what is in the connection are together
\* what was sent.
Whole(got, waiting, wire, n) == got \o waiting \o wire = Net!Numbered(n)
UpWhole   == \A c \in Joiners : Whole(heardUp[c], Said(events[Host], c), up[c], sentUp[c])
DownWhole == \A c \in Joiners : Whole(heardDown[c], Said(events[c], Host), down[c], sentDown[c])

NetInv == NetTypes /\ UpWhole /\ DownWhole

\* Bytes that are read go from the wire to the events.
LEMMA ReadKeepsWhole ==
  ASSUME NEW h \in Strings, NEW w \in Strings, NEW b \in Strings, NEW r \in Strings, NEW n,
         Whole(h, w, b \o r, n)
  PROVE  Whole(h, w \o b, r, n)
<1>1. h \o (w \o b) = (h \o w) \o b
  BY Strung
<1>2. h \o w \in Strings
  BY Strung
<1>3. ((h \o w) \o b) \o r = (h \o w) \o (b \o r)
  BY <1>2, Strung
<1>4. QED
  BY <1>1, <1>3 DEF Whole

\* Bytes that are heard go from the events to the game.
LEMMA HeardKeepsWhole ==
  ASSUME NEW h \in Strings, NEW p \in Strings, NEW w \in Strings, NEW r, NEW n,
         Whole(h, p \o w, r, n)
  PROVE  Whole(h \o p, w, r, n)
<1>1. (h \o p) \o w = h \o (p \o w)
  BY Strung
<1>2. QED
  BY <1>1 DEF Whole

\* A message is put on the wire behind what is there.
LEMMA SentKeepsWhole ==
  ASSUME NEW h \in Strings, NEW w \in Strings, NEW b \in Strings, NEW n \in Nat,
         Whole(h, w, b, n)
  PROVE  Whole(h, w, b \o Net!Bytes(n), n + 1)
<1>1. Net!Bytes(n) \in Strings /\ Net!Numbered(n) \o Net!Bytes(n) = Net!Numbered(n + 1)
  BY NumberedOn
<1>2. h \o w \in Strings
  BY Strung
<1>3. (h \o w) \o (b \o Net!Bytes(n)) = ((h \o w) \o b) \o Net!Bytes(n)
  BY <1>1, <1>2, Strung
<1>4. QED
  BY <1>1, <1>3 DEF Whole

\* The host reads from one client.
LEMMA HandlerReadsKeeps ==
  ASSUME NetInv, NEW c \in Joiners, NEW n \in Nat, Net!HandlerReads(c, n)
  PROVE  NetInv'
<1>1. PICK b, r : b = SubSeq(up[c], 1, n) /\ r = Net!recv_msg(up[c], n)
  OBVIOUS
<1>2. b \in Strings /\ r \in Strings /\ up[c] = b \o r
  BY <1>1, ReadAndLeft DEF NetInv, NetTypes, Net!HandlerReads
<1>3. PICK e : e = [src |-> c, bytes |-> b]
  OBVIOUS
<1>4. e \in Events(Joiners) /\ e.src = c /\ e.bytes = b
  BY <1>2, <1>3 DEF Events
<1>5. PICK q : q = Append(events[Host], e)
  OBVIOUS
<1>6. /\ up' = [up EXCEPT ![c] = r] /\ events' = [events EXCEPT ![Host] = q]
      /\ UNCHANGED <<down, sentUp, sentDown, heardUp, heardDown>>
  BY <1>1, <1>3, <1>5 DEF Net!HandlerReads, Net!wx_handle_msg_received
<1>7. Host \in Net!Computers /\ Host \notin Joiners /\ \A d \in Joiners : d \in Net!Computers
  BY TransportsAssumption DEF Net!DesktopNetAssumption, Net!Computers
<1>8. /\ DOMAIN events' = Net!Computers /\ events'[Host] = q
      /\ \A d \in Joiners : events'[d] = events[d]
      /\ up' \in [Joiners -> Strings] /\ up'[c] = r /\ \A d \in Joiners : d # c => up'[d] = up[d]
  BY <1>2, <1>6, <1>7 DEF NetInv, NetTypes
<1>9. q \in Seq(Events(Joiners))
  BY <1>4, <1>5, AppendProperties DEF NetInv, NetTypes
<1>10. NetTypes'
  BY <1>6, <1>8, <1>9 DEF NetInv, NetTypes
<1>11. ASSUME NEW d \in Joiners
       PROVE  Whole(heardUp'[d], Said(events'[Host], d), up'[d], sentUp'[d])
  <2>1. PICK h, w : h = heardUp[d] /\ w = Said(events[Host], d)
    OBVIOUS
  <2>2. h \in Strings /\ w \in Strings /\ Whole(h, w, up[d], sentUp[d])
    BY <2>1, SaidIsString DEF NetInv, NetTypes, UpWhole
  <2>3. Said(q, d) = w \o Part(e, d)
    BY <1>4, <1>5, <2>1, SaidAppend DEF NetInv, NetTypes
  <2>4. CASE d = c
    <3>1. Said(q, d) = w \o b
      BY <1>4, <2>3, <2>4 DEF Part
    <3>2. Whole(h, w \o b, r, sentUp[d])
      BY <1>2, <2>2, <2>4, ReadKeepsWhole
    <3>3. QED
      BY <1>6, <1>8, <2>1, <2>4, <3>1, <3>2
  <2>5. CASE d # c
    <3>1. Said(q, d) = w
      BY <1>4, <2>2, <2>3, <2>5, Strung DEF Part
    <3>2. QED
      BY <1>6, <1>8, <2>1, <2>2, <2>5, <3>1
  <2>6. QED
    BY <2>4, <2>5
<1>12. UpWhole'
  BY <1>11 DEF UpWhole
<1>13. DownWhole'
  BY <1>6, <1>8 DEF NetInv, DownWhole
<1>14. QED
  BY <1>10, <1>12, <1>13 DEF NetInv

\* A client reads from its host.
LEMMA ClientReadsKeeps ==
  ASSUME NetInv, NEW c \in Joiners, NEW n \in Nat, Net!ClientReads(c, n)
  PROVE  NetInv'
<1>1. PICK b, r : b = SubSeq(down[c], 1, n) /\ r = Net!recv_msg(down[c], n)
  OBVIOUS
<1>2. b \in Strings /\ r \in Strings /\ down[c] = b \o r
  BY <1>1, ReadAndLeft DEF NetInv, NetTypes, Net!ClientReads
<1>3. PICK e : e = [src |-> Host, bytes |-> b]
  OBVIOUS
<1>4. e \in Events({Host}) /\ e.src = Host /\ e.bytes = b
  BY <1>2, <1>3 DEF Events
<1>5. PICK q : q = Append(events[c], e)
  OBVIOUS
<1>6. /\ down' = [down EXCEPT ![c] = r] /\ events' = [events EXCEPT ![c] = q]
      /\ UNCHANGED <<up, sentUp, sentDown, heardUp, heardDown>>
  BY <1>1, <1>3, <1>5 DEF Net!ClientReads, Net!wx_handle_msg_received
<1>7. Host \in Net!Computers /\ Host \notin Joiners /\ \A d \in Joiners : d \in Net!Computers
  BY TransportsAssumption DEF Net!DesktopNetAssumption, Net!Computers
<1>8. /\ DOMAIN events' = Net!Computers /\ events'[Host] = events[Host] /\ events'[c] = q
      /\ \A d \in Joiners : d # c => events'[d] = events[d] /\ down'[d] = down[d]
      /\ down' \in [Joiners -> Strings] /\ down'[c] = r
  BY <1>2, <1>6, <1>7 DEF NetInv, NetTypes
<1>9. q \in Seq(Events({Host}))
  BY <1>4, <1>5, AppendProperties DEF NetInv, NetTypes
<1>10. NetTypes'
  BY <1>6, <1>8, <1>9 DEF NetInv, NetTypes
<1>11. Whole(heardDown'[c], Said(events'[c], Host), down'[c], sentDown'[c])
  <2>1. PICK h, w : h = heardDown[c] /\ w = Said(events[c], Host)
    OBVIOUS
  <2>2. h \in Strings /\ w \in Strings /\ Whole(h, w, down[c], sentDown[c])
    BY <2>1, SaidIsString DEF NetInv, NetTypes, DownWhole
  <2>3. Said(q, Host) = w \o Part(e, Host)
    BY <1>4, <1>5, <2>1, SaidAppend DEF NetInv, NetTypes
  <2>4. Said(q, Host) = w \o b
    BY <1>4, <2>3 DEF Part
  <2>5. Whole(h, w \o b, r, sentDown[c])
    BY <1>2, <2>2, ReadKeepsWhole
  <2>6. QED
    BY <1>6, <1>8, <2>1, <2>4, <2>5
<1>12. DownWhole'
  BY <1>6, <1>8, <1>11 DEF NetInv, DownWhole
<1>13. UpWhole'
  BY <1>6, <1>8 DEF NetInv, UpWhole
<1>14. QED
  BY <1>10, <1>12, <1>13 DEF NetInv

\* The host's game is given the bytes of the first event.
LEMMA HostHearsKeeps ==
  ASSUME NetInv, Net!handle_msg_recvd(Host)
  PROVE  NetInv'
<1>1. PICK e, q : e = Head(events[Host]) /\ q = Tail(events[Host])
  OBVIOUS
<1>2. events[Host] # <<>> /\ e \in Events(Joiners) /\ q \in Seq(Events(Joiners))
  BY <1>1, HeadTailProperties DEF NetInv, NetTypes, Net!handle_msg_recvd
<1>3. PICK c, b : c = e.src /\ b = e.bytes
  OBVIOUS
<1>4. c \in Joiners /\ b \in Strings
  BY <1>2, <1>3 DEF Events
<1>5. /\ events' = [events EXCEPT ![Host] = q]
      /\ heardUp' = [heardUp EXCEPT ![c] = heardUp[c] \o b]
      /\ UNCHANGED <<up, down, sentUp, sentDown, heardDown>>
  BY <1>1, <1>3 DEF Net!handle_msg_recvd, Net!Given, Net!wires
<1>6. Host \in Net!Computers /\ Host \notin Joiners /\ \A d \in Joiners : d \in Net!Computers
  BY TransportsAssumption DEF Net!DesktopNetAssumption, Net!Computers
<1>7. heardUp[c] \o b \in Strings
  BY <1>4, Strung DEF NetInv, NetTypes
<1>8. /\ DOMAIN events' = Net!Computers /\ events'[Host] = q
      /\ \A d \in Joiners : events'[d] = events[d]
      /\ heardUp' \in [Joiners -> Strings] /\ heardUp'[c] = heardUp[c] \o b
      /\ \A d \in Joiners : d # c => heardUp'[d] = heardUp[d]
  BY <1>4, <1>5, <1>6, <1>7 DEF NetInv, NetTypes
<1>9. NetTypes'
  BY <1>2, <1>5, <1>8 DEF NetInv, NetTypes
<1>10. ASSUME NEW d \in Joiners
       PROVE  Whole(heardUp'[d], Said(events'[Host], d), up'[d], sentUp'[d])
  <2>1. PICK h, w : h = heardUp[d] /\ w = Said(q, d)
    OBVIOUS
  <2>2. h \in Strings /\ w \in Strings /\ Whole(h, Said(events[Host], d), up[d], sentUp[d])
    BY <1>2, <2>1, SaidIsString DEF NetInv, NetTypes, UpWhole
  <2>3. Said(events[Host], d) = Part(e, d) \o w
    BY <1>1, <1>2, <2>1, SaidTail DEF NetInv, NetTypes
  <2>4. CASE d = c
    <3>1. Said(events[Host], d) = b \o w
      BY <1>3, <2>3, <2>4 DEF Part
    <3>2. Whole(h \o b, w, up[d], sentUp[d])
      BY <1>4, <2>2, <3>1, HeardKeepsWhole
    <3>3. QED
      BY <1>5, <1>8, <2>1, <2>4, <3>2
  <2>5. CASE d # c
    <3>1. Said(events[Host], d) = w
      BY <1>3, <2>2, <2>3, <2>5, Strung DEF Part
    <3>2. QED
      BY <1>5, <1>8, <2>1, <2>2, <2>5, <3>1
  <2>6. QED
    BY <2>4, <2>5
<1>11. UpWhole'
  BY <1>10 DEF UpWhole
<1>12. DownWhole'
  BY <1>5, <1>8 DEF NetInv, DownWhole
<1>13. QED
  BY <1>9, <1>11, <1>12 DEF NetInv

\* The game of a client is given the bytes of its first event.
LEMMA ClientHearsKeeps ==
  ASSUME NetInv, NEW c \in Joiners, Net!handle_msg_recvd(c)
  PROVE  NetInv'
<1>1. PICK e, q : e = Head(events[c]) /\ q = Tail(events[c])
  OBVIOUS
<1>2. events[c] # <<>> /\ e \in Events({Host}) /\ q \in Seq(Events({Host}))
  BY <1>1, HeadTailProperties DEF NetInv, NetTypes, Net!handle_msg_recvd
<1>3. PICK b : b = e.bytes
  OBVIOUS
<1>4. e.src = Host /\ b \in Strings
  BY <1>2, <1>3 DEF Events
<1>5. Host \in Net!Computers /\ Host \notin Joiners /\ \A d \in Joiners : d \in Net!Computers
  BY TransportsAssumption DEF Net!DesktopNetAssumption, Net!Computers
<1>6. /\ events' = [events EXCEPT ![c] = q]
      /\ heardDown' = [heardDown EXCEPT ![c] = heardDown[c] \o b]
      /\ UNCHANGED <<up, down, sentUp, sentDown, heardUp>>
  BY <1>1, <1>3, <1>5 DEF Net!handle_msg_recvd, Net!Given, Net!wires
<1>7. heardDown[c] \o b \in Strings
  BY <1>4, Strung DEF NetInv, NetTypes
<1>8. /\ DOMAIN events' = Net!Computers /\ events'[Host] = events[Host] /\ events'[c] = q
      /\ \A d \in Joiners : d # c => events'[d] = events[d] /\ heardDown'[d] = heardDown[d]
      /\ heardDown' \in [Joiners -> Strings] /\ heardDown'[c] = heardDown[c] \o b
  BY <1>5, <1>6, <1>7 DEF NetInv, NetTypes
<1>9. NetTypes'
  BY <1>2, <1>6, <1>8 DEF NetInv, NetTypes
<1>10. Whole(heardDown'[c], Said(events'[c], Host), down'[c], sentDown'[c])
  <2>1. PICK h, w : h = heardDown[c] /\ w = Said(q, Host)
    OBVIOUS
  <2>2. h \in Strings /\ w \in Strings /\ Whole(h, Said(events[c], Host), down[c], sentDown[c])
    BY <1>2, <2>1, SaidIsString DEF NetInv, NetTypes, DownWhole
  <2>3. Said(events[c], Host) = Part(e, Host) \o w
    BY <1>1, <1>2, <2>1, SaidTail DEF NetInv, NetTypes
  <2>4. Said(events[c], Host) = b \o w
    BY <1>3, <1>4, <2>3 DEF Part
  <2>5. Whole(h \o b, w, down[c], sentDown[c])
    BY <1>4, <2>2, <2>4, HeardKeepsWhole
  <2>6. QED
    BY <1>6, <1>8, <2>1, <2>5
<1>11. DownWhole'
  BY <1>6, <1>8, <1>10 DEF NetInv, DownWhole
<1>12. UpWhole'
  BY <1>6, <1>8 DEF NetInv, UpWhole
<1>13. QED
  BY <1>9, <1>11, <1>12 DEF NetInv

\* The host puts a message on some of the connections.
LEMMA ServerSendsKeeps ==
  ASSUME NetInv, NEW cs, Net!ServerSends(cs)
  PROVE  NetInv'
<1>1. /\ down' = [c \in Joiners |-> IF c \in cs THEN down[c] \o Net!Bytes(sentDown[c]) ELSE down[c]]
      /\ sentDown' = [c \in Joiners |-> IF c \in cs THEN sentDown[c] + 1 ELSE sentDown[c]]
      /\ UNCHANGED <<up, sentUp, events, heardUp, heardDown>>
  BY DEF Net!ServerSends, Net!games
<1>2. ASSUME NEW c \in Joiners
      PROVE  down[c] \o Net!Bytes(sentDown[c]) \in Strings /\ sentDown[c] + 1 \in Nat
  <2>1. PICK b, n : b = down[c] /\ n = sentDown[c]
    OBVIOUS
  <2>2. b \in Strings /\ n \in Nat
    BY <2>1 DEF NetInv, NetTypes
  <2>3. Net!Bytes(n) \in Strings /\ n + 1 \in Nat
    BY <2>2, NumberedOn
  <2>4. b \o Net!Bytes(n) \in Strings
    BY <2>2, <2>3, Strung
  <2>5. QED
    BY <2>1, <2>3, <2>4
<1>3. NetTypes'
  BY <1>1, <1>2 DEF NetInv, NetTypes
<1>4. ASSUME NEW c \in Joiners
      PROVE  Whole(heardDown'[c], Said(events'[c], Host), down'[c], sentDown'[c])
  <2>1. PICK h, w, b, n : /\ h = heardDown[c] /\ w = Said(events[c], Host)
                          /\ b = down[c] /\ n = sentDown[c]
    OBVIOUS
  <2>2. h \in Strings /\ w \in Strings /\ b \in Strings /\ n \in Nat /\ Whole(h, w, b, n)
    BY <2>1, SaidIsString DEF NetInv, NetTypes, DownWhole
  <2>3. Whole(h, w, b \o Net!Bytes(n), n + 1)
    BY <2>2, SentKeepsWhole
  <2>4. CASE c \in cs
    BY <1>1, <2>1, <2>3, <2>4
  <2>5. CASE c \notin cs
    BY <1>1, <2>1, <2>2, <2>5
  <2>6. QED
    BY <2>4, <2>5
<1>5. DownWhole'
  BY <1>4 DEF DownWhole
<1>6. UpWhole'
  BY <1>1 DEF NetInv, UpWhole
<1>7. QED
  BY <1>3, <1>5, <1>6 DEF NetInv

\* A client puts a message on its connection, unless it is closed.
LEMMA ClientSendsKeeps ==
  ASSUME NetInv, NEW c \in Joiners, Net!ClientSends(c)
  PROVE  NetInv'
<1>1. UNCHANGED <<down, sentDown, events, heardUp, heardDown>>
  BY DEF Net!ClientSends, Net!games
<1>2. CASE c \in closed
  <2>1. up' = up /\ sentUp' = sentUp
    BY <1>2 DEF Net!ClientSends
  <2>2. QED
    BY <1>1, <2>1 DEF NetInv, NetTypes, UpWhole, DownWhole
<1>3. CASE c \notin closed
  <2>1. PICK b, n : b = up[c] /\ n = sentUp[c]
    OBVIOUS
  <2>2. up' = [up EXCEPT ![c] = b \o Net!Bytes(n)] /\ sentUp' = [sentUp EXCEPT ![c] = n + 1]
    BY <1>3, <2>1 DEF Net!ClientSends
  <2>3. b \in Strings /\ n \in Nat /\ n + 1 \in Nat /\ b \o Net!Bytes(n) \in Strings
    <3>1. b \in Strings /\ n \in Nat
      BY <2>1 DEF NetInv, NetTypes
    <3>2. n + 1 \in Nat /\ Net!Bytes(n) \in Strings
      BY <3>1, NumberedOn
    <3>3. QED
      BY <3>1, <3>2, Strung
  <2>4. /\ up' \in [Joiners -> Strings] /\ sentUp' \in [Joiners -> Nat]
        /\ up'[c] = b \o Net!Bytes(n) /\ sentUp'[c] = n + 1
        /\ \A d \in Joiners : d # c => up'[d] = up[d] /\ sentUp'[d] = sentUp[d]
    BY <2>2, <2>3 DEF NetInv, NetTypes
  <2>5. NetTypes'
    BY <1>1, <2>4 DEF NetInv, NetTypes
  <2>6. Whole(heardUp[c], Said(events[Host], c), b \o Net!Bytes(n), n + 1)
    <3>1. PICK h, w : h = heardUp[c] /\ w = Said(events[Host], c)
      OBVIOUS
    <3>2. h \in Strings /\ w \in Strings /\ Whole(h, w, b, n)
      BY <2>1, <3>1, SaidIsString DEF NetInv, NetTypes, UpWhole
    <3>3. QED
      BY <2>3, <3>1, <3>2, SentKeepsWhole
  <2>7. UpWhole'
    BY <1>1, <2>4, <2>6 DEF NetInv, UpWhole
  <2>8. DownWhole'
    BY <1>1 DEF NetInv, DownWhole
  <2>9. QED
    BY <2>5, <2>7, <2>8 DEF NetInv
<1>4. QED
  BY <1>2, <1>3

\* Threads that begin and end, and connections that are made and closed, touch no bytes.
LEMMA BytesUntouched ==
  ASSUME NetInv, UNCHANGED <<events, up, down, heardUp, heardDown, sentUp, sentDown>>
  PROVE  NetInv'
BY DEF NetInv, NetTypes, UpWhole, DownWhole

\* Each step keeps the bytes.
LEMMA NetKeeps == NetInv /\ [Net!Next]_net => NetInv'
<1> SUFFICES ASSUME NetInv, [Net!Next]_net PROVE NetInv'
  OBVIOUS
<1>1. CASE UNCHANGED net
  BY <1>1, BytesUntouched DEF net
<1>2. ASSUME NEW d \in Net!Computers, Net!host_server(d) PROVE NetInv'
  BY <1>2, BytesUntouched DEF Net!host_server, Net!wires, Net!games
<1>3. ASSUME NEW d \in Net!Computers, Net!handle_msg_recvd(d) PROVE NetInv'
  BY <1>3, HostHearsKeeps, ClientHearsKeeps DEF Net!Computers
<1>4. ASSUME NEW c \in Joiners,
             \/ Net!join_server(c) \/ Net!wait_for_connections(c) \/ Net!HandlerEnds(c)
             \/ Net!ClientQuits(c) \/ \E ok \in BOOLEAN : Net!Connect(c, ok)
      PROVE  NetInv'
  BY <1>4, BytesUntouched
     DEF Net!join_server, Net!wait_for_connections, Net!HandlerEnds, Net!ClientQuits,
         Net!Connect, Net!wires, Net!games
<1>5. ASSUME NEW c \in Joiners, NEW n \in 1 .. RecvMax, Net!HandlerReads(c, n) \/ Net!ClientReads(c, n)
      PROVE  NetInv'
  <2>1. n \in Nat
    BY SMT
  <2>2. QED
    BY <1>5, <2>1, HandlerReadsKeeps, ClientReadsKeeps
<1>6. ASSUME NEW c \in Joiners, Net!SendTo(c) PROVE NetInv'
  BY <1>6, ServerSendsKeeps DEF Net!SendTo
<1>7. ASSUME NEW c \in Joiners, Net!ClientSends(c) PROVE NetInv'
  BY <1>7, ClientSendsKeeps
<1>8. CASE Net!SendAll
  BY <1>8, ServerSendsKeeps DEF Net!SendAll
<1>9. CASE Net!wx_handle_client_connected \/ Net!RunHandler \/ Net!Register
  BY <1>9, BytesUntouched
     DEF Net!wx_handle_client_connected, Net!RunHandler, Net!Register, Net!wires, Net!games
<1>10. QED
  BY <1>1, <1>2, <1>3, <1>4, <1>5, <1>6, <1>7, <1>8, <1>9 DEF Net!Next

\* Nothing has been sent at first.
LEMMA NetBegins == Net!Init => NetInv
<1> SUFFICES ASSUME Net!Init PROVE NetInv
  OBVIOUS
<1>1. Host \in Net!Computers /\ \A c \in Joiners : c \in Net!Computers
  BY DEF Net!Computers
<1>2. /\ DOMAIN events = Net!Computers /\ \A d \in Net!Computers : events[d] = <<>>
      /\ \A c \in Joiners : /\ up[c] = <<>> /\ down[c] = <<>> /\ sentUp[c] = 0 /\ sentDown[c] = 0
                            /\ heardUp[c] = <<>> /\ heardDown[c] = <<>>
  BY DEF Net!Init, Net!NoBytes
<1>3. NetTypes
  <2>1. \A S : <<>> \in Seq(S)
    OBVIOUS
  <2>2. up \in [Joiners -> Strings] /\ down \in [Joiners -> Strings]
        /\ heardUp \in [Joiners -> Strings] /\ heardDown \in [Joiners -> Strings]
        /\ sentUp \in [Joiners -> Nat] /\ sentDown \in [Joiners -> Nat]
    BY Strung DEF Net!Init, Net!NoBytes
  <2>3. QED
    BY <1>1, <1>2, <2>1, <2>2 DEF NetTypes
<1>4. Net!Numbered(0) = <<>>
  <2>1. MsgLen * 0 = 0
    BY TransportsAssumption DEF Net!DesktopNetAssumption
  <2>2. 1 .. 0 = {}
    BY SMT
  <2>3. Net!Numbered(0) = [i \in 1 .. 0 |-> i]
    BY <2>1 DEF Net!Numbered
  <2>4. QED
    BY <2>2, <2>3
<1>5. Whole(<<>>, <<>>, <<>>, 0)
  BY <1>4, Strung DEF Whole
<1>6. \A s : \A d \in Net!Computers : Said(events[d], s) = <<>>
  BY <1>2, SaidIsString
<1>7. QED
  BY <1>1, <1>2, <1>3, <1>5, <1>6 DEF NetInv, UpWhole, DownWhole

\* Through the socket, the reading thread and the hop to the window's thread, every
\* byte reaches the game of the other device once and in order, or is still on its
\* way, however many clients join, leave and send, and however reads tear messages.
THEOREM BytesArriveInOrder == Net!Spec => []BytesKeepTheirOrder
<1>1. NetInv => BytesKeepTheirOrder
  BY DEF NetInv, UpWhole, DownWhole, Whole, Said, From, Part, BytesKeepTheirOrder,
         Net!BytesKeepTheirOrder, Net!Waiting
<1>2. NetInv /\ [Net!Next]_(Net!vars) => NetInv'
  BY NetKeeps DEF net, Net!vars
<1>3. QED
  BY <1>1, <1>2, NetBegins, PTL DEF Net!Spec

-----------------------------------------------------------------------------
(* The relay server *)

USE Parameters

\* What clients send, and what the server sends.
Requests == [dst : Dsts \cup {"ctrl"}, ask : Firsts \cup {None}, n : Nat]
Notes ==
  [src  : Clients \cup {None},
   kind : {"game", "player_left", "connected"},
   what : Nat \cup Clients \cup Sessions \cup {None}]

Shapes ==
  /\ conn \in [Clients -> {"none", "open", "closed"}]
  /\ toServer \in [Clients -> Seq(Requests)]
  /\ inbox \in [Clients -> Seq(Notes)]
  /\ sent \in [Clients -> Nat]
  /\ room \in [Sessions -> Seq(Clients)]
  /\ pc \in [Clients -> {"none", "start", "register", "recv", "relay", "leaving", "done", "failed"}]
  /\ our \in [Clients -> Sessions \cup {None}]
  /\ job \in [Clients -> [msg : Notes, seen : SUBSET Clients, size : Nat]]

\* A client is in no session until it registers, once, in the one its coroutine
\* names; it leaves it before its coroutine is done.
OneEntry ==
  \A s \in Sessions : \A i, j \in DOMAIN room[s] : room[s][i] = room[s][j] => i = j
Placed ==
  \A s \in Sessions : \A i \in DOMAIN room[s] :
    /\ our[room[s][i]] = s
    /\ pc[room[s][i]] \in {"recv", "relay", "failed"}
    /\ conn[room[s][i]] # "none"
Stages ==
  \A c \in Clients :
    /\ pc[c] = "none" <=> conn[c] = "none"
    /\ pc[c] \in {"none", "start"} => our[c] = None
    /\ pc[c] \in {"register", "recv", "relay", "leaving"} => our[c] \in Sessions
Entries == OneEntry /\ Placed /\ Stages

\* Who leaves tells that it does; who is said to have left is past its leave, and
\* so is in no session for good.
Leaving == \A c \in Clients : pc[c] = "leaving" => job[c].msg = Left(c)
IsGone(c) ==
  /\ pc[c] \in {"leaving", "done", "failed"}
  /\ \A s \in Sessions : \A i \in DOMAIN room[s] : room[s][i] # c
Departed ==
  \A d \in Clients : \A i \in DOMAIN inbox[d] :
    inbox[d][i].kind = "player_left" =>
      inbox[d][i].what \in Clients \ {d} /\ IsGone(inbox[d][i].what)

\* What a client has sent and the server has not received is numbered upwards,
\* and all of it is younger than what the server is relaying or has relayed.
Numbered ==
  \A c \in Clients :
    /\ \A i, j \in DOMAIN toServer[c] : i < j => toServer[c][i].n < toServer[c][j].n
    /\ \A i \in DOMAIN toServer[c] : toServer[c][i].n < sent[c]
Older(c, n) ==
  n < sent[c] /\ \A i \in DOMAIN toServer[c] : n < toServer[c][i].n
Relaying ==
  \A c \in Clients :
    pc[c] = "relay" =>
      /\ job[c].msg.kind = "game" /\ job[c].msg.src = c /\ job[c].msg.what \in Nat
      /\ Older(c, job[c].msg.what)
Relayed ==
  \A d \in Clients : \A j \in DOMAIN inbox[d] :
    inbox[d][j].kind = "game" =>
      LET m == inbox[d][j]
      IN  /\ m.src \in Clients /\ m.what \in Nat
          /\ Older(m.src, m.what)
          /\ pc[m.src] = "relay" =>
               \/ m.what < job[m.src].msg.what
               \/ m.what = job[m.src].msg.what /\ d \in job[m.src].seen

\* Everybody the loop of a relay has passed has the message, if it can have it.
Reached ==
  \A c \in Clients : pc[c] = "relay" =>
    \A d \in job[c].seen \ {c} :
      /\ conn[d] # "none"
      /\ conn[d] = "open" => \E i \in DOMAIN inbox[d] : inbox[d][i] = job[c].msg

IInv ==
  /\ Shapes
  /\ Entries
  /\ Leaving
  /\ Departed
  /\ Numbered
  /\ Relaying
  /\ Relayed
  /\ Reached
  /\ DeliveredInOrder

-----------------------------------------------------------------------------
(* What the steps of a coroutine do to the sequences *)

\* A message sent is the receiver's last; everything else is where it was.
LEMMA SendAppends ==
  ASSUME Shapes, NEW d \in Clients, NEW m \in Notes, SendTo(d, m)
  PROVE  /\ inbox' \in [Clients -> Seq(Notes)]
         /\ DOMAIN inbox'[d] = DOMAIN inbox[d] \cup {Len(inbox[d]) + 1}
         /\ \A i \in DOMAIN inbox[d] : inbox'[d][i] = inbox[d][i] /\ i < Len(inbox[d]) + 1
         /\ inbox'[d][Len(inbox[d]) + 1] = m
         /\ \A e \in Clients \ {d} : inbox'[e] = inbox[e]
<1>1. inbox[d] \in Seq(Notes) /\ inbox' = [inbox EXCEPT ![d] = Append(inbox[d], m)]
  BY DEF Shapes, SendTo
<1>2. inbox'[d] = Append(inbox[d], m)
  BY <1>1 DEF Shapes
<1>3. QED
  BY <1>1, <1>2, AppendProperties DEF Shapes

\* Receiving takes the first message; the others move up by one.
LEMMA RecvTakes ==
  ASSUME Shapes, NEW c \in Clients, Recv(c)
  PROVE  /\ toServer' \in [Clients -> Seq(Requests)]
         /\ 1 \in DOMAIN toServer[c] /\ Head(toServer[c]) = toServer[c][1]
         /\ Head(toServer[c]) \in Requests
         /\ \A i \in DOMAIN toServer'[c] :
              i \in Nat /\ i + 1 > 1 /\ i + 1 \in DOMAIN toServer[c]
                /\ toServer'[c][i] = toServer[c][i + 1]
         /\ \A e \in Clients \ {c} : toServer'[e] = toServer[e]
<1>1. toServer[c] \in Seq(Requests) /\ toServer[c] # <<>>
  BY DEF Shapes, Recv
<1>2. toServer' = [toServer EXCEPT ![c] = Tail(toServer[c])]
  BY DEF Recv
<1>3. toServer'[c] = Tail(toServer[c])
  BY <1>2 DEF Shapes
<1>4. Tail(toServer[c]) \in Seq(Requests)
  BY <1>1, HeadTailProperties
<1>5. QED
  BY <1>1, <1>2, <1>3, <1>4, HeadTailProperties, LenProperties DEF Shapes

\* Who registers is the session's last; the other entries are where they were.
LEMMA RegisterAppends ==
  ASSUME Shapes, NEW c \in Clients, NEW s \in Sessions,
         room' = [room EXCEPT ![s] = Append(@, c)]
  PROVE  /\ room' \in [Sessions -> Seq(Clients)]
         /\ DOMAIN room'[s] = DOMAIN room[s] \cup {Len(room[s]) + 1}
         /\ \A i \in DOMAIN room[s] : room'[s][i] = room[s][i]
         /\ room'[s][Len(room[s]) + 1] = c
         /\ \A r \in Sessions \ {s} : room'[r] = room[r]
<1>1. room[s] \in Seq(Clients) /\ room'[s] = Append(room[s], c)
  BY DEF Shapes
<1>2. QED
  BY <1>1, AppendProperties, SMTT(30) DEF Shapes

\* Removing an entry keeps the others, in their order.
LEMMA RemoveAtKeeps ==
  ASSUME NEW S, NEW q \in Seq(S), NEW k \in DOMAIN q
  PROVE  /\ RemoveAt(q, k) \in Seq(S)
         /\ \A i \in DOMAIN RemoveAt(q, k) :
              RemoveAt(q, k)[i] = IF i < k THEN q[i] ELSE q[i + 1]
         /\ \A i \in DOMAIN RemoveAt(q, k) : i \in Nat /\ i \in DOMAIN q /\ i + 1 \in DOMAIN q
<1> DEFINE front == SubSeq(q, 1, k - 1)
           back == SubSeq(q, k + 1, Len(q))
<1>1. k \in 1 .. Len(q) /\ Len(q) \in Nat
  BY LenProperties
<1>2. front \in Seq(S) /\ Len(front) = k - 1 /\ \A i \in 1 .. k - 1 : front[i] = q[i]
  BY <1>1, SubSeqProperties
<1>3. back \in Seq(S) /\ Len(back) = Len(q) - k
        /\ \A i \in 1 .. Len(q) - k : back[i] = q[k + i]
  BY <1>1, SubSeqProperties
<1>4. RemoveAt(q, k) = front \o back
  BY DEF RemoveAt
<1> HIDE DEF front, back
<1>5. front \o back \in Seq(S) /\ Len(front \o back) = Len(q) - 1
  BY <1>1, <1>2, <1>3, ConcatProperties
<1>6. DOMAIN (front \o back) = 1 .. Len(q) - 1 /\ DOMAIN q = 1 .. Len(q)
  BY <1>5, LenProperties
<1>7. ASSUME NEW i \in 1 .. Len(q) - 1
      PROVE  (front \o back)[i] = IF i < k THEN q[i] ELSE q[i + 1]
  <2>1. i \in 1 .. Len(front) + Len(back)
    BY <1>1, <1>2, <1>3
  <2>2. (front \o back)[i] = IF i <= Len(front) THEN front[i] ELSE back[i - Len(front)]
    BY <2>1, <1>2, <1>3, ConcatProperties
  <2>3. QED
    BY <2>2, <1>1, <1>2, <1>3, SMTT(30)
<1>8. \A i \in 1 .. Len(q) - 1 : i \in Nat /\ i \in 1 .. Len(q) /\ i + 1 \in 1 .. Len(q)
  BY <1>1
<1>9. QED
  BY <1>4, <1>5, <1>6, <1>7, <1>8

\* The server's messages.
LEMMA NotesOfServer ==
  /\ NoJob \in [msg : Notes, seen : SUBSET Clients, size : Nat]
  /\ \A c \in Clients : \A n \in Nat : Game(c, n) \in Notes
  /\ \A c \in Clients : Left(c) \in Notes
  /\ \A s \in Sessions : Connected(s) \in Notes
BY DEF NoJob, Game, Left, Connected, Notes

\* A loop passes one more member and keeps its message.
LEMMA AdvanceSees ==
  ASSUME Shapes, NEW c \in Clients, NEW d \in Clients, Advance(c, d)
  PROVE  /\ \A e \in Clients : job'[e].msg = job[e].msg
         /\ job'[c].seen = job[c].seen \cup {d}
         /\ \A e \in Clients \ {c} : job'[e] = job[e]
BY DEF Advance, Shapes

\* A client numbers its messages by how many it has sent.
LEMMA SayNumbers ==
  ASSUME Shapes, NEW c \in Clients,
         (\E first \in Firsts : Ask(c, first)) \/ (\E dst \in Dsts : Send(c, dst))
  PROVE  \E m \in Requests : m.n = sent[c] /\ Say(c, m)
<1>1. CASE \E first \in Firsts : Ask(c, first)
  <2>1. PICK first \in Firsts : Ask(c, first)
    BY <1>1
  <2>2. [dst |-> "ctrl", ask |-> first, n |-> 0] \in Requests
    BY DEF Requests
  <2>3. QED
    BY <2>1, <2>2 DEF Ask
<1>2. CASE \E dst \in Dsts : Send(c, dst)
  <2>1. PICK dst \in Dsts : Send(c, dst)
    BY <1>2
  <2>2. [dst |-> dst, ask |-> None, n |-> sent[c]] \in Requests
    BY DEF Requests, Shapes
  <2>3. QED
    BY <2>1, <2>2 DEF Send
<1>3. QED
  BY <1>1, <1>2

\* The members of a session are clients, found at some place of it.
LEMMA MembersArePlaces ==
  ASSUME Shapes, NEW s \in Sessions
  PROVE  /\ Members(s) \subseteq Clients
         /\ \A d : d \in Members(s) <=> \E i \in DOMAIN room[s] : room[s][i] = d
<1>1. Members(s) = {room[s][i] : i \in DOMAIN room[s]}
  BY DEF Members, ToSet
<1>2. \A i \in DOMAIN room[s] : room[s][i] \in Clients
  BY ElementOfSeq, LenProperties DEF Shapes
<1>3. QED
  BY <1>1, <1>2

\* A step of a relay's loop passes one more member, which has the message then
\* unless it is the sender or gone.
LEMMA RelayPasses ==
  ASSUME IInv, NEW c \in Clients, RelayNext(c)
  PROVE  /\ pc[c] = "relay" /\ our[c] \in Sessions
         /\ UNCHANGED <<conn, toServer, sent, room, pc, our>>
         /\ \E d \in Members(our[c]) \ job[c].seen :
              /\ d \in Clients
              /\ Advance(c, d)
              /\ \/ d # c /\ conn[d] = "open" /\ SendTo(d, job[c].msg)
                 \/ (d = c \/ conn[d] # "open") /\ UNCHANGED inbox
<1>1. pc[c] = "relay" /\ our[c] \in Sessions
  BY DEF RelayNext, At, IInv, Entries, Stages
<1>2. PICK d \in Rest(c) :
        /\ Advance(c, d)
        /\ IF d # c /\ conn[d] = "open"
           THEN SendTo(d, job[c].msg) /\ MayYield(c)
           ELSE running' = c /\ UNCHANGED inbox
  BY DEF RelayNext
<1>3. d \in Members(our[c]) \ job[c].seen /\ d \in Clients
  BY <1>1, <1>2, MembersArePlaces DEF Rest, IInv
<1>4. UNCHANGED <<conn, toServer, sent, room, pc, our>>
  BY DEF RelayNext
<1>5. QED
  BY <1>1, <1>2, <1>3, <1>4

\* A step of a leave's loop tells one more member.
LEMMA LeaveTells ==
  ASSUME IInv, NEW c \in Clients, LeaveNext(c)
  PROVE  /\ pc[c] = "leaving" /\ our[c] \in Sessions
         /\ UNCHANGED <<conn, toServer, sent, room, pc, our>>
         /\ \E d \in Members(our[c]) \ job[c].seen :
              d \in Clients /\ SendTo(d, job[c].msg) /\ Advance(c, d)
<1>1. pc[c] = "leaving" /\ our[c] \in Sessions
  BY DEF LeaveNext, At, IInv, Entries, Stages
<1>2. PICK d \in Rest(c) : SendTo(d, job[c].msg) /\ Advance(c, d)
  BY DEF LeaveNext
<1>3. d \in Members(our[c]) \ job[c].seen /\ d \in Clients
  BY <1>1, <1>2, MembersArePlaces DEF Rest, IInv
<1>4. UNCHANGED <<conn, toServer, sent, room, pc, our>>
  BY DEF LeaveNext
<1>5. QED
  BY <1>1, <1>2, <1>3, <1>4

\* Who joins a session, or has made one, registers in it.
LEMMA JoiningRegisters ==
  ASSUME IInv, NEW c \in Clients, JoinSession(c) \/ RegisterNew(c)
  PROVE  /\ pc[c] \in {"start", "register"}
         /\ UNCHANGED <<conn, inbox, sent, job>>
         /\ UNCHANGED toServer \/ Recv(c)
         /\ pc' = [pc EXCEPT ![c] = "recv"]
         /\ \E s \in Sessions :
              /\ pc[c] = "register" => our[c] = s
              /\ our' = [our EXCEPT ![c] = s]
              /\ room' = [room EXCEPT ![s] = Append(@, c)]
<1>1. CASE JoinSession(c)
  BY <1>1 DEF JoinSession, At, Register, GoTo
<1>2. CASE RegisterNew(c)
  <2>1. pc[c] = "register" /\ our[c] \in Sessions
    BY <1>2 DEF RegisterNew, At, IInv, Entries, Stages
  <2>2. QED
    BY <1>2, <2>1 DEF RegisterNew, Register, GoTo
<1>3. QED
  BY <1>1, <1>2

\* A leave takes the client's one entry out of its session.
LEMMA LeaveRemoves ==
  ASSUME IInv, NEW c \in Clients, LeaveStart(c)
  PROVE  /\ pc[c] = "recv" /\ our[c] \in Sessions /\ conn[c] = "closed"
         /\ UNCHANGED <<conn, toServer, inbox, sent, our>>
         /\ pc' = [pc EXCEPT ![c] = "leaving"]
         /\ job' \in [Clients -> [msg : Notes, seen : SUBSET Clients, size : Nat]]
         /\ job'[c].msg = Left(c)
         /\ \A e \in Clients \ {c} : job'[e] = job[e]
         /\ room' \in [Sessions -> Seq(Clients)]
         /\ \A s \in Sessions \ {our[c]} : room'[s] = room[s]
         /\ \E k \in DOMAIN room[our[c]] :
              room[our[c]][k] = c /\ room'[our[c]] = RemoveAt(room[our[c]], k)
<1>1. pc[c] = "recv" /\ our[c] \in Sessions /\ conn[c] = "closed"
  BY DEF LeaveStart, At, IInv, Entries, Stages
<1>2. PICK k \in DOMAIN room[our[c]] :
        room[our[c]][k] = c /\ room' = [room EXCEPT ![our[c]] = RemoveAt(room[our[c]], k)]
  BY DEF LeaveStart
<1>3. RemoveAt(room[our[c]], k) \in Seq(Clients)
  BY <1>1, RemoveAtKeeps DEF IInv, Shapes
<1>4. /\ room' \in [Sessions -> Seq(Clients)]
      /\ room'[our[c]] = RemoveAt(room[our[c]], k)
      /\ \A s \in Sessions \ {our[c]} : room'[s] = room[s]
  BY <1>1, <1>2, <1>3 DEF IInv, Shapes
<1>5. Len(room'[our[c]]) \in Nat
  BY <1>1, <1>4, LenProperties
<1>6. [msg |-> Left(c), seen |-> {}, size |-> Len(room'[our[c]])]
        \in [msg : Notes, seen : SUBSET Clients, size : Nat]
  BY <1>5, NotesOfServer
<1>7. job' = [job EXCEPT ![c] = [msg |-> Left(c), seen |-> {}, size |-> Len(room'[our[c]])]]
  BY DEF LeaveStart
<1>8. /\ job' \in [Clients -> [msg : Notes, seen : SUBSET Clients, size : Nat]]
      /\ job'[c].msg = Left(c)
      /\ \A e \in Clients \ {c} : job'[e] = job[e]
  BY <1>6, <1>7 DEF IInv, Shapes
<1>9. pc' = [pc EXCEPT ![c] = "leaving"] /\ UNCHANGED <<conn, toServer, inbox, sent, our>>
  BY DEF LeaveStart, GoTo
<1>10. QED
  BY <1>1, <1>2, <1>4, <1>8, <1>9

\* An exception ends a loop; the room, the inboxes and the messages stay as they are.
LEMMA FailureEnds ==
  ASSUME IInv, NEW c \in Clients, LeaveBroken(c) \/ LoopBroken(c)
  PROVE  /\ pc[c] \in {"relay", "leaving"} /\ our[c] \in Sessions
         /\ Fail(c)
         /\ UNCHANGED <<toServer, inbox, sent, room, our>>
BY DEF LeaveBroken, LoopBroken, At, IInv, Entries, Stages

\* A message to one goes to a member of the sender's session, or to nobody.
LEMMA OneIsSentTo ==
  ASSUME IInv, NEW c \in Clients, RelayToOne(c)
  PROVE  /\ pc[c] = "recv" /\ our[c] \in Sessions /\ Recv(c)
         /\ UNCHANGED <<conn, sent, room, pc, our, job>>
         /\ \/ UNCHANGED inbox
            \/ \E d \in Members(our[c]) \ {c} :
                 d \in Clients /\ SendTo(d, Game(c, Head(toServer[c]).n))
<1>1. pc[c] = "recv" /\ our[c] \in Sessions
  BY DEF RelayToOne, At, IInv, Entries, Stages
<1>2. Members(our[c]) \subseteq Clients
  BY <1>1, MembersArePlaces DEF IInv
<1>3. Recv(c) /\ UNCHANGED <<conn, sent, room, pc, our, job>>
  BY DEF RelayToOne
<1>4. CASE Head(toServer[c]).dst \in Members(our[c]) \ {c} /\ conn[Head(toServer[c]).dst] = "open"
  BY <1>1, <1>2, <1>3, <1>4 DEF RelayToOne
<1>5. CASE ~(Head(toServer[c]).dst \in Members(our[c]) \ {c} /\ conn[Head(toServer[c]).dst] = "open")
  BY <1>1, <1>3, <1>5 DEF RelayToOne
<1>6. QED
  BY <1>4, <1>5

-----------------------------------------------------------------------------
(* The shapes, and who is where *)

\* The server starts with no clients, sessions or messages.
LEMMA InitIInv == Init => IInv
BY NotesOfServer
   DEF Init, IInv, Shapes, Entries, OneEntry, Placed, Stages, Leaving, Departed, Numbered,
       Relaying, Relayed, Reached, DeliveredInOrder, Members

\* Every step keeps the types of the variables.
LEMMA ShapesKeep == IInv /\ [Next]_vars => Shapes'
<1> SUFFICES ASSUME IInv, [Next]_vars PROVE Shapes'
  OBVIOUS
<1> Shapes /\ Entries
  BY DEF IInv
<1>1. ASSUME NEW c \in Clients, Connect(c) PROVE Shapes'
  BY <1>1 DEF Connect, GoTo, Shapes
<1>2. ASSUME NEW c \in Clients, NEW m \in Requests, m.n = sent[c], Say(c, m) PROVE Shapes'
  BY <1>2, AppendProperties DEF Say, Shapes
<1>3. ASSUME NEW c \in Clients, Close(c) PROVE Shapes'
  BY <1>3 DEF Close, Shapes
<1>4. ASSUME NEW c \in Clients, JoinSession(c) \/ RegisterNew(c) PROVE Shapes'
  <2>1. PICK s \in Sessions :
          /\ our' = [our EXCEPT ![c] = s]
          /\ room' = [room EXCEPT ![s] = Append(@, c)]
    BY <1>4, JoiningRegisters
  <2>2. room' \in [Sessions -> Seq(Clients)]
    BY <2>1, RegisterAppends
  <2>3. toServer' \in [Clients -> Seq(Requests)]
    BY <1>4, JoiningRegisters, RecvTakes DEF Shapes
  <2>4. QED
    BY <1>4, <2>1, <2>2, <2>3, JoiningRegisters DEF Shapes
<1>5. ASSUME NEW c \in Clients, NewSession(c) PROVE Shapes'
  BY <1>5, RecvTakes, SendAppends, NotesOfServer DEF NewSession, GoTo, Shapes
<1>6. ASSUME NEW c \in Clients, NeverJoined(c) PROVE Shapes'
  BY <1>6, RecvTakes, NotesOfServer DEF NeverJoined, Fail, GoTo, Shapes
<1>7. ASSUME NEW c \in Clients, RelayStart(c) PROVE Shapes'
  <2>1. our[c] \in Sessions
    BY <1>7 DEF RelayStart, At, Entries, Stages
  <2>2. Len(room[our[c]]) \in Nat
    BY <2>1, LenProperties DEF Shapes
  <2>3. Recv(c) /\ Head(toServer[c]).n \in Nat
    BY <1>7, RecvTakes DEF RelayStart, Requests
  <2>4. QED
    BY <1>7, <2>2, <2>3, RecvTakes, NotesOfServer DEF RelayStart, GoTo, Shapes
<1>8. ASSUME NEW c \in Clients, RelayToOne(c) PROVE Shapes'
  <2>1. Recv(c) /\ Head(toServer[c]).n \in Nat
    BY <1>8, OneIsSentTo, RecvTakes DEF Requests
  <2>2. inbox' \in [Clients -> Seq(Notes)]
    BY <1>8, <2>1, OneIsSentTo, SendAppends, NotesOfServer DEF Shapes
  <2>3. QED
    BY <1>8, <2>1, <2>2, OneIsSentTo, RecvTakes DEF Shapes
<1>9. ASSUME NEW c \in Clients, RelayNext(c) PROVE Shapes'
  <2>1. PICK d \in Clients :
          /\ Advance(c, d)
          /\ SendTo(d, job[c].msg) \/ UNCHANGED inbox
    BY <1>9, RelayPasses
  <2>2. inbox' \in [Clients -> Seq(Notes)]
    BY <2>1, SendAppends DEF Shapes
  <2>3. job' \in [Clients -> [msg : Notes, seen : SUBSET Clients, size : Nat]]
    BY <2>1 DEF Advance, Shapes
  <2>4. QED
    BY <1>9, <2>2, <2>3, RelayPasses DEF Shapes
<1>10. ASSUME NEW c \in Clients, RelayEnd(c) PROVE Shapes'
  BY <1>10, NotesOfServer DEF RelayEnd, GoTo, Shapes
<1>11. ASSUME NEW c \in Clients, LeaveStart(c) PROVE Shapes'
  <2>1. /\ UNCHANGED <<conn, toServer, inbox, sent, our>>
        /\ pc' = [pc EXCEPT ![c] = "leaving"]
        /\ job' \in [Clients -> [msg : Notes, seen : SUBSET Clients, size : Nat]]
        /\ room' \in [Sessions -> Seq(Clients)]
    BY <1>11, LeaveRemoves
  <2>2. QED
    BY <2>1 DEF Shapes
<1>12. ASSUME NEW c \in Clients, LeaveNext(c) PROVE Shapes'
  <2>1. PICK d \in Clients : SendTo(d, job[c].msg) /\ Advance(c, d)
    BY <1>12, LeaveTells
  <2>2. inbox' \in [Clients -> Seq(Notes)]
    BY <2>1, SendAppends DEF Shapes
  <2>3. job' \in [Clients -> [msg : Notes, seen : SUBSET Clients, size : Nat]]
    BY <2>1 DEF Advance, Shapes
  <2>4. QED
    BY <1>12, <2>2, <2>3, LeaveTells DEF Shapes
<1>13. ASSUME NEW c \in Clients, LeaveBroken(c) \/ LoopBroken(c) PROVE Shapes'
  <2>1. Fail(c) /\ UNCHANGED <<toServer, inbox, sent, room, our>>
    BY <1>13, FailureEnds
  <2>2. QED
    BY <2>1, NotesOfServer DEF Fail, GoTo, Shapes
<1>14. ASSUME NEW c \in Clients, LeaveEnd(c) PROVE Shapes'
  BY <1>14, NotesOfServer DEF LeaveEnd, GoTo, Shapes
<1>15. CASE UNCHANGED vars
  BY <1>15 DEF vars, Shapes
<1>16. QED
  BY <1>1, <1>2, <1>3, <1>4, <1>5, <1>6, <1>7, <1>8, <1>9, <1>10, <1>11, <1>12,
     <1>13, <1>14, <1>15, SayNumbers DEF Next, Handler

\* A client registers once, in one session, and is out of it before it is done.
LEMMA EntriesKeep == IInv /\ [Next]_vars => Entries'
<1> SUFFICES ASSUME IInv, [Next]_vars PROVE Entries'
  OBVIOUS
<1> Shapes /\ Entries
  BY DEF IInv
<1> Shapes'
  BY ShapesKeep
<1>1. ASSUME NEW c \in Clients, Connect(c) PROVE Entries'
  BY <1>1 DEF Connect, GoTo, Shapes, Entries, OneEntry, Placed, Stages
<1>2. ASSUME NEW c \in Clients, NEW m \in Requests, m.n = sent[c], Say(c, m) PROVE Entries'
  BY <1>2 DEF Say, Entries, OneEntry, Placed, Stages
<1>3. ASSUME NEW c \in Clients, Close(c) PROVE Entries'
  BY <1>3 DEF Close, Shapes, Entries, OneEntry, Placed, Stages
<1>4. ASSUME NEW c \in Clients, JoinSession(c) \/ RegisterNew(c) PROVE Entries'
  <2>1. PICK s \in Sessions :
          /\ pc[c] = "register" => our[c] = s
          /\ our' = [our EXCEPT ![c] = s]
          /\ room' = [room EXCEPT ![s] = Append(@, c)]
    BY <1>4, JoiningRegisters
  <2>2. pc[c] \in {"start", "register"} /\ pc' = [pc EXCEPT ![c] = "recv"] /\ conn' = conn
    BY <1>4, JoiningRegisters
  <2>3. \A r \in Sessions : \A i \in DOMAIN room[r] : room[r][i] # c
    BY <2>2 DEF Entries, OneEntry, Placed, Stages
  <2>4. /\ DOMAIN room'[s] = DOMAIN room[s] \cup {Len(room[s]) + 1}
        /\ \A i \in DOMAIN room[s] : room'[s][i] = room[s][i]
        /\ room'[s][Len(room[s]) + 1] = c
        /\ \A r \in Sessions \ {s} : room'[r] = room[r]
    BY <2>1, RegisterAppends
  <2>5. OneEntry'
    BY <2>3, <2>4 DEF Entries, OneEntry
  <2>6. ASSUME NEW r \in Sessions, NEW i \in DOMAIN room'[r]
        PROVE  /\ our'[room'[r][i]] = r
               /\ pc'[room'[r][i]] \in {"recv", "relay", "failed"}
               /\ conn'[room'[r][i]] # "none"
    <3>1. room'[r][i] \in Clients
      BY ElementOfSeq, LenProperties DEF Shapes
    <3>2. CASE room'[r][i] = c
      <4>1. r = s
        BY <2>3, <2>4, <3>2
      <4>. our'[c] = s /\ pc'[c] = "recv" /\ conn'[c] = conn[c]
        BY <2>1, <2>2 DEF Shapes
      <4>2. conn[c] # "none"
        BY <2>2 DEF Entries, Stages
      <4>3. QED
        BY <3>2, <4>1, <4>2
    <3>3. CASE room'[r][i] # c
      <4>1. i \in DOMAIN room[r] /\ room'[r][i] = room[r][i]
        BY <2>4, <3>3
      <4>2. our[room[r][i]] = r /\ pc[room[r][i]] \in {"recv", "relay", "failed"} /\ conn[room[r][i]] # "none"
        BY <4>1 DEF Entries, Placed
      <4>3. QED
        BY <2>1, <2>2, <3>1, <3>3, <4>1, <4>2 DEF Shapes
    <3>4. QED
      BY <3>2, <3>3
  <2>7. Stages'
    BY <2>1, <2>2 DEF Entries, Stages, Shapes
  <2>8. QED
    BY <2>5, <2>6, <2>7 DEF Entries, Placed
<1>5. ASSUME NEW c \in Clients, NewSession(c) PROVE Entries'
  BY <1>5 DEF NewSession, At, GoTo, Shapes, Entries, OneEntry, Placed, Stages
<1>6. ASSUME NEW c \in Clients, NeverJoined(c) PROVE Entries'
  BY <1>6 DEF NeverJoined, At, Fail, GoTo, Shapes, Entries, OneEntry, Placed, Stages
<1>7. ASSUME NEW c \in Clients, RelayStart(c) PROVE Entries'
  BY <1>7 DEF RelayStart, At, GoTo, Shapes, Entries, OneEntry, Placed, Stages
<1>8. ASSUME NEW c \in Clients, RelayToOne(c) PROVE Entries'
  BY <1>8 DEF RelayToOne, Entries, OneEntry, Placed, Stages
<1>9. ASSUME NEW c \in Clients, RelayNext(c) PROVE Entries'
  BY <1>9 DEF RelayNext, Entries, OneEntry, Placed, Stages
<1>10. ASSUME NEW c \in Clients, RelayEnd(c) PROVE Entries'
  BY <1>10 DEF RelayEnd, At, GoTo, Shapes, Entries, OneEntry, Placed, Stages
<1>11. ASSUME NEW c \in Clients, LeaveStart(c) PROVE Entries'
  <2>1. /\ pc[c] = "recv" /\ our[c] \in Sessions
        /\ conn' = conn /\ our' = our /\ pc' = [pc EXCEPT ![c] = "leaving"]
        /\ \A s \in Sessions \ {our[c]} : room'[s] = room[s]
    BY <1>11, LeaveRemoves
  <2>2. PICK k \in DOMAIN room[our[c]] :
          room[our[c]][k] = c /\ room'[our[c]] = RemoveAt(room[our[c]], k)
    BY <1>11, LeaveRemoves
  <2>3. \A i \in DOMAIN room'[our[c]] :
          /\ room'[our[c]][i] = IF i < k THEN room[our[c]][i] ELSE room[our[c]][i + 1]
          /\ i \in Nat /\ i \in DOMAIN room[our[c]] /\ i + 1 \in DOMAIN room[our[c]]
    <3>1. room[our[c]] \in Seq(Clients)
      BY <2>1 DEF Shapes
    <3>2. QED
      BY <2>2, <3>1, RemoveAtKeeps
  <2>4. k \in Nat
    <3>1. room[our[c]] \in Seq(Clients)
      BY <2>1 DEF Shapes
    <3>2. QED
      BY <2>2, <3>1, LenProperties
  <2>5. OneEntry'
    BY <2>1, <2>3, <2>4 DEF Entries, OneEntry
  <2>6. ASSUME NEW s \in Sessions, NEW i \in DOMAIN room'[s]
        PROVE  /\ our'[room'[s][i]] = s
               /\ pc'[room'[s][i]] \in {"recv", "relay", "failed"}
               /\ conn'[room'[s][i]] # "none"
    <3>1. PICK j \in DOMAIN room[s] : room'[s][i] = room[s][j] /\ (s = our[c] => j # k)
      BY <2>1, <2>3, <2>4
    <3>2. our[room[s][j]] = s /\ pc[room[s][j]] \in {"recv", "relay", "failed"} /\ conn[room[s][j]] # "none"
      BY DEF Entries, Placed
    <3>3. room[s][j] # c
      BY <2>1, <2>2, <3>1, <3>2 DEF Entries, OneEntry
    <3>4. room[s][j] \in Clients
      BY ElementOfSeq, LenProperties DEF Shapes
    <3>5. QED
      BY <2>1, <3>1, <3>2, <3>3, <3>4 DEF Shapes
  <2>7. Stages'
    BY <2>1 DEF Entries, Stages, Shapes
  <2>8. QED
    BY <2>5, <2>6, <2>7 DEF Entries, Placed
<1>12. ASSUME NEW c \in Clients, LeaveNext(c) PROVE Entries'
  BY <1>12 DEF LeaveNext, Entries, OneEntry, Placed, Stages
<1>13. ASSUME NEW c \in Clients, LeaveBroken(c) \/ LoopBroken(c) PROVE Entries'
  <2>1. pc[c] \in {"relay", "leaving"} /\ Fail(c) /\ room' = room /\ our' = our
    BY <1>13, FailureEnds
  <2>2. QED
    BY <2>1 DEF Fail, GoTo, Shapes, Entries, OneEntry, Placed, Stages
<1>14. ASSUME NEW c \in Clients, LeaveEnd(c) PROVE Entries'
  BY <1>14 DEF LeaveEnd, At, GoTo, Shapes, Entries, OneEntry, Placed, Stages
<1>15. CASE UNCHANGED vars
  BY <1>15 DEF vars, Entries, OneEntry, Placed, Stages
<1>16. QED
  BY <1>1, <1>2, <1>3, <1>4, <1>5, <1>6, <1>7, <1>8, <1>9, <1>10, <1>11, <1>12,
     <1>13, <1>14, <1>15, SayNumbers DEF Next, Handler

-----------------------------------------------------------------------------
(* Who is said to have left *)

\* Who leaves keeps telling that it does.
LEMMA LeavingKeeps == IInv /\ [Next]_vars => Leaving'
<1> SUFFICES ASSUME IInv, [Next]_vars PROVE Leaving'
  OBVIOUS
<1> Shapes /\ Entries /\ Leaving
  BY DEF IInv
<1>1. ASSUME NEW c \in Clients, Connect(c) PROVE Leaving'
  BY <1>1 DEF Connect, GoTo, Shapes, Leaving
<1>2. ASSUME NEW c \in Clients, NEW m \in Requests, m.n = sent[c], Say(c, m) PROVE Leaving'
  BY <1>2 DEF Say, Leaving
<1>3. ASSUME NEW c \in Clients, Close(c) PROVE Leaving'
  BY <1>3 DEF Close, Leaving
<1>4. ASSUME NEW c \in Clients, JoinSession(c) \/ RegisterNew(c) PROVE Leaving'
  BY <1>4, JoiningRegisters DEF Shapes, Leaving
<1>5. ASSUME NEW c \in Clients, NewSession(c) PROVE Leaving'
  BY <1>5 DEF NewSession, GoTo, Shapes, Leaving
<1>6. ASSUME NEW c \in Clients, NeverJoined(c) PROVE Leaving'
  BY <1>6 DEF NeverJoined, Fail, GoTo, Shapes, Leaving
<1>7. ASSUME NEW c \in Clients, RelayStart(c) PROVE Leaving'
  BY <1>7 DEF RelayStart, GoTo, Shapes, Leaving
<1>8. ASSUME NEW c \in Clients, RelayToOne(c) PROVE Leaving'
  BY <1>8 DEF RelayToOne, Leaving
<1>9. ASSUME NEW c \in Clients, RelayNext(c) PROVE Leaving'
  BY <1>9, RelayPasses, AdvanceSees DEF Leaving
<1>10. ASSUME NEW c \in Clients, RelayEnd(c) PROVE Leaving'
  BY <1>10 DEF RelayEnd, GoTo, Shapes, Leaving
<1>11. ASSUME NEW c \in Clients, LeaveStart(c) PROVE Leaving'
  <2>1. /\ pc' = [pc EXCEPT ![c] = "leaving"]
        /\ job'[c].msg = Left(c)
        /\ \A e \in Clients \ {c} : job'[e] = job[e]
    BY <1>11, LeaveRemoves
  <2>2. QED
    BY <2>1 DEF Shapes, Leaving
<1>12. ASSUME NEW c \in Clients, LeaveNext(c) PROVE Leaving'
  BY <1>12, LeaveTells, AdvanceSees DEF Leaving
<1>13. ASSUME NEW c \in Clients, LeaveBroken(c) \/ LoopBroken(c) PROVE Leaving'
  BY <1>13, FailureEnds, ZenonT(40) DEF Fail, GoTo, Shapes, Leaving
<1>14. ASSUME NEW c \in Clients, LeaveEnd(c) PROVE Leaving'
  BY <1>14 DEF LeaveEnd, GoTo, Shapes, Leaving
<1>15. CASE UNCHANGED vars
  BY <1>15 DEF vars, Leaving
<1>16. QED
  BY <1>1, <1>2, <1>3, <1>4, <1>5, <1>6, <1>7, <1>8, <1>9, <1>10, <1>11, <1>12,
     <1>13, <1>14, <1>15, SayNumbers DEF Next, Handler

\* Nobody comes back into a session it is gone from.
LEMMA GoneForGood ==
  ASSUME IInv, [Next]_vars, NEW x \in Clients, IsGone(x)
  PROVE  IsGone(x)'
<1> Shapes /\ Entries
  BY DEF IInv
<1> Shapes'
  BY ShapesKeep
<1> USE DEF IsGone
<1>1. ASSUME NEW c \in Clients, Connect(c) PROVE IsGone(x)'
  BY <1>1 DEF Connect, GoTo, Shapes, Entries, Stages
<1>2. ASSUME NEW c \in Clients, NEW m \in Requests, m.n = sent[c], Say(c, m) PROVE IsGone(x)'
  BY <1>2 DEF Say
<1>3. ASSUME NEW c \in Clients, Close(c) PROVE IsGone(x)'
  BY <1>3 DEF Close
<1>4. ASSUME NEW c \in Clients, JoinSession(c) \/ RegisterNew(c) PROVE IsGone(x)'
  <2>1. PICK s \in Sessions : room' = [room EXCEPT ![s] = Append(@, c)]
    BY <1>4, JoiningRegisters
  <2>2. c # x /\ pc' = [pc EXCEPT ![c] = "recv"]
    BY <1>4, JoiningRegisters
  <2>3. \A r \in Sessions : \A i \in DOMAIN room'[r] :
          room'[r][i] = c \/ (i \in DOMAIN room[r] /\ room'[r][i] = room[r][i])
    BY <2>1, RegisterAppends
  <2>4. QED
    BY <2>2, <2>3 DEF Shapes
<1>5. ASSUME NEW c \in Clients, NewSession(c) PROVE IsGone(x)'
  BY <1>5 DEF NewSession, At, GoTo, Shapes
<1>6. ASSUME NEW c \in Clients, NeverJoined(c) PROVE IsGone(x)'
  BY <1>6 DEF NeverJoined, Fail, GoTo, Shapes
<1>7. ASSUME NEW c \in Clients, RelayStart(c) PROVE IsGone(x)'
  BY <1>7 DEF RelayStart, At, GoTo, Shapes
<1>8. ASSUME NEW c \in Clients, RelayToOne(c) PROVE IsGone(x)'
  BY <1>8 DEF RelayToOne
<1>9. ASSUME NEW c \in Clients, RelayNext(c) PROVE IsGone(x)'
  BY <1>9, RelayPasses
<1>10. ASSUME NEW c \in Clients, RelayEnd(c) PROVE IsGone(x)'
  BY <1>10 DEF RelayEnd, At, GoTo, Shapes
<1>11. ASSUME NEW c \in Clients, LeaveStart(c) PROVE IsGone(x)'
  <2>1. /\ our[c] \in Sessions /\ pc' = [pc EXCEPT ![c] = "leaving"]
        /\ \A s \in Sessions \ {our[c]} : room'[s] = room[s]
    BY <1>11, LeaveRemoves
  <2>2. PICK k \in DOMAIN room[our[c]] : room'[our[c]] = RemoveAt(room[our[c]], k)
    BY <1>11, LeaveRemoves
  <2>3. room[our[c]] \in Seq(Clients)
    BY <2>1 DEF Shapes
  <2>4. \A i \in DOMAIN room'[our[c]] : \E j \in DOMAIN room[our[c]] : room'[our[c]][i] = room[our[c]][j]
    BY <2>2, <2>3, RemoveAtKeeps
  <2>5. \A s \in Sessions : \A i \in DOMAIN room'[s] : room'[s][i] # x
    BY <2>1, <2>4
  <2>6. pc'[x] \in {"leaving", "done", "failed"}
    BY <2>1 DEF Shapes
  <2>7. QED
    BY <2>5, <2>6
<1>12. ASSUME NEW c \in Clients, LeaveNext(c) PROVE IsGone(x)'
  BY <1>12, LeaveTells
<1>13. ASSUME NEW c \in Clients, LeaveBroken(c) \/ LoopBroken(c) PROVE IsGone(x)'
  BY <1>13, FailureEnds DEF Fail, GoTo, Shapes
<1>14. ASSUME NEW c \in Clients, LeaveEnd(c) PROVE IsGone(x)'
  BY <1>14 DEF LeaveEnd, GoTo, Shapes
<1>15. CASE UNCHANGED vars
  BY <1>15 DEF vars
<1>16. QED
  BY <1>1, <1>2, <1>3, <1>4, <1>5, <1>6, <1>7, <1>8, <1>9, <1>10, <1>11, <1>12,
     <1>13, <1>14, <1>15, SayNumbers DEF Next, Handler

\* What is new in an inbox: a number of the server's, a message that is relayed to
\* all or to one, or that another member has left.
LEMMA InboxGrows ==
  ASSUME IInv, [Next]_vars, NEW d \in Clients, NEW i \in DOMAIN inbox'[d]
  PROVE  \/ i \in DOMAIN inbox[d] /\ inbox'[d][i] = inbox[d][i]
         \/ inbox'[d][i].kind \in {"connected", "game"}
         \/ \E c \in Clients \ {d} : pc[c] = "leaving" /\ inbox'[d][i] = Left(c)
<1> DEFINE Grows ==
      \/ i \in DOMAIN inbox[d] /\ inbox'[d][i] = inbox[d][i]
      \/ inbox'[d][i].kind \in {"connected", "game"}
      \/ \E c \in Clients \ {d} : pc[c] = "leaving" /\ inbox'[d][i] = Left(c)
<1> Shapes /\ Entries /\ Leaving /\ Relaying
  BY DEF IInv
<1>1. ASSUME inbox' = inbox PROVE Grows
  BY <1>1
<1>2. ASSUME NEW e \in Clients, NEW m \in Notes, SendTo(e, m)
      PROVE  Grows \/ (e = d /\ inbox'[d][i] = m)
  BY <1>2, SendAppends
<1>3. ASSUME NEW c \in Clients, NewSession(c) PROVE Grows
  <2>1. PICK s \in Sessions : SendTo(c, Connected(s))
    BY <1>3 DEF NewSession
  <2>2. QED
    BY <2>1, <1>2, NotesOfServer DEF Connected
<1>4. ASSUME NEW c \in Clients, RelayToOne(c) PROVE Grows
  <2>1. Recv(c)
    BY <1>4, OneIsSentTo
  <2>2. Head(toServer[c]).n \in Nat
    BY <2>1, RecvTakes DEF Requests
  <2>3. \/ UNCHANGED inbox
        \/ \E e \in Clients : SendTo(e, Game(c, Head(toServer[c]).n))
    BY <1>4, OneIsSentTo
  <2>4. QED
    BY <2>2, <2>3, <1>1, <1>2, NotesOfServer DEF Game
<1>5. ASSUME NEW c \in Clients, RelayNext(c) PROVE Grows
  <2>1. pc[c] = "relay" /\ (UNCHANGED inbox \/ \E e \in Clients : SendTo(e, job[c].msg))
    BY <1>5, RelayPasses
  <2>2. job[c].msg \in Notes /\ job[c].msg.kind = "game"
    BY <2>1 DEF Shapes, Relaying
  <2>3. QED
    BY <2>1, <2>2, <1>1, <1>2
<1>6. ASSUME NEW c \in Clients, LeaveNext(c) PROVE Grows
  <2>1. pc[c] = "leaving" /\ our[c] \in Sessions
    BY <1>6, LeaveTells
  <2>2. PICK e \in Members(our[c]) : e \in Clients /\ SendTo(e, job[c].msg)
    BY <1>6, LeaveTells
  <2>3. e # c
    BY <2>1, <2>2, MembersArePlaces DEF Entries, Placed
  <2>4. job[c].msg = Left(c) /\ Left(c) \in Notes
    BY <2>1, NotesOfServer DEF Leaving
  <2>5. QED
    BY <2>1, <2>2, <2>3, <2>4, <1>2
<1>7. ASSUME UNCHANGED vars PROVE Grows
  BY <1>1, <1>7 DEF vars
<1>8. ASSUME NEW c \in Clients, NEW m \in Requests, m.n = sent[c], Say(c, m) PROVE Grows
  BY <1>1, <1>8 DEF Say
<1>9. ASSUME NEW c \in Clients,
             Connect(c) \/ Close(c) \/ JoinSession(c) \/ RegisterNew(c) \/ NeverJoined(c)
               \/ RelayStart(c) \/ RelayEnd(c) \/ LeaveStart(c) \/ LeaveBroken(c)
               \/ LeaveEnd(c) \/ LoopBroken(c)
      PROVE  Grows
  BY <1>1, <1>9 DEF Connect, Close, JoinSession, RegisterNew, NeverJoined, RelayStart, RelayEnd,
              LeaveStart, LeaveBroken, LeaveEnd, LoopBroken
<1>10. Grows
  <2> HIDE DEF Grows
  <2>1. ASSUME NEW c \in Clients, Handler(c) PROVE Grows
    BY <2>1, <1>3, <1>4, <1>5, <1>6, <1>9 DEF Handler
  <2>2. ASSUME NEW c \in Clients,
               (\E first \in Firsts : Ask(c, first)) \/ (\E dst \in Dsts : Send(c, dst))
        PROVE  Grows
    <3>1. PICK m \in Requests : m.n = sent[c] /\ Say(c, m)
      BY <2>2, SayNumbers
    <3>2. QED
      BY <3>1, <1>8
  <2>3. CASE Next
    BY <2>3, <1>9, <2>1, <2>2 DEF Next
  <2>4. QED
    BY <2>3, <1>7
<1>11. QED
  BY <1>10

\* Who was announced as gone comes back to no session.
LEMMA DepartedKeeps == IInv /\ [Next]_vars => Departed'
<1> SUFFICES ASSUME IInv, [Next]_vars,
                    NEW d \in Clients, NEW i \in DOMAIN inbox'[d],
                    inbox'[d][i].kind = "player_left"
             PROVE  inbox'[d][i].what \in Clients \ {d} /\ IsGone(inbox[d][i].what)'
  BY DEF Departed, IsGone
<1> Shapes /\ Entries /\ Departed
  BY DEF IInv
<1> DEFINE x == inbox'[d][i].what
<1>1. x \in Clients \ {d} /\ IsGone(x)
  <2>1. CASE i \in DOMAIN inbox[d] /\ inbox'[d][i] = inbox[d][i]
    BY <2>1 DEF Departed
  <2>2. CASE \E c \in Clients \ {d} : pc[c] = "leaving" /\ inbox'[d][i] = Left(c)
    <3>1. PICK c \in Clients \ {d} : pc[c] = "leaving" /\ inbox'[d][i] = Left(c)
      BY <2>2
    <3>2. IsGone(c) /\ x = c
      BY <3>1 DEF IsGone, Left, Entries, Placed
    <3>3. QED
      BY <3>2
  <2>3. QED
    BY <2>1, <2>2, InboxGrows
<1>2. PICK y \in Clients : y = x
  BY <1>1
<1>3. IsGone(y)'
  BY <1>1, <1>2, GoneForGood
<1>4. QED
  BY <1>1, <1>2, <1>3 DEF IsGone

\* A coroutine comes into the loop of a relay by starting one, and keeps its
\* message, and whom it has passed, until the loop ends.
LEMMA RelayStays ==
  ASSUME IInv, [Next]_vars, NEW c \in Clients, pc'[c] = "relay", ~RelayStart(c)
  PROVE  /\ pc[c] = "relay" /\ job'[c].msg = job[c].msg
         /\ job[c].seen \subseteq job'[c].seen
         /\ job'[c].seen = job[c].seen \/ RelayNext(c)
<1> DEFINE Stays ==
      /\ pc[c] = "relay" /\ job'[c].msg = job[c].msg
      /\ job[c].seen \subseteq job'[c].seen
      /\ job'[c].seen = job[c].seen \/ RelayNext(c)
<1> Shapes
  BY DEF IInv
<1>1. ASSUME NEW e \in Clients,
             Close(e) \/ RelayToOne(e) \/ (\E m \in Requests : m.n = sent[e] /\ Say(e, m))
      PROVE  Stays
  BY <1>1 DEF Close, RelayToOne, Say
<1>2. ASSUME NEW e \in Clients, Connect(e) \/ NewSession(e) \/ NeverJoined(e) PROVE Stays
  BY <1>2 DEF Connect, NewSession, NeverJoined, Fail, GoTo, Shapes
<1>3. ASSUME NEW e \in Clients, JoinSession(e) \/ RegisterNew(e) PROVE Stays
  BY <1>3, JoiningRegisters DEF Shapes
<1>4. ASSUME NEW e \in Clients, RelayStart(e) PROVE Stays
  BY <1>4 DEF RelayStart, GoTo, Shapes
<1>5. ASSUME NEW e \in Clients, RelayNext(e) PROVE Stays
  BY <1>5, RelayPasses, AdvanceSees
<1>6. ASSUME NEW e \in Clients, LeaveNext(e) PROVE Stays
  BY <1>6, LeaveTells, AdvanceSees
<1>7. ASSUME NEW e \in Clients, RelayEnd(e) \/ LeaveEnd(e) PROVE Stays
  BY <1>7 DEF RelayEnd, LeaveEnd, GoTo, Shapes
<1>8. ASSUME NEW e \in Clients, LeaveStart(e) PROVE Stays
  <2>1. pc' = [pc EXCEPT ![e] = "leaving"] /\ \A x \in Clients \ {e} : job'[x] = job[x]
    BY <1>8, LeaveRemoves
  <2>2. QED
    BY <2>1 DEF Shapes
<1>9. ASSUME NEW e \in Clients, LeaveBroken(e) \/ LoopBroken(e) PROVE Stays
  <2>1. Fail(e)
    BY <1>9, FailureEnds
  <2>2. QED
    BY <2>1 DEF Fail, GoTo, Shapes
<1>10. ASSUME UNCHANGED vars PROVE Stays
  BY <1>10 DEF vars
<1>11. Stays
  <2> HIDE DEF Stays
  <2>1. ASSUME NEW e \in Clients, Handler(e) PROVE Stays
    BY <2>1, <1>1, <1>2, <1>3, <1>4, <1>5, <1>6, <1>7, <1>8, <1>9 DEF Handler
  <2>2. ASSUME NEW e \in Clients,
               (\E first \in Firsts : Ask(e, first)) \/ (\E dst \in Dsts : Send(e, dst))
        PROVE  Stays
    BY <2>2, <1>1, SayNumbers
  <2>3. CASE Next
    BY <2>1, <2>2, <2>3, <1>1, <1>2 DEF Next
  <2>4. QED
    BY <2>3, <1>10
<1>12. QED
  BY <1>11

-----------------------------------------------------------------------------
(* The order of messages *)

\* What a step does to the messages on their way to the server.
LEMMA Traffic ==
  ASSUME IInv, [Next]_vars
  PROVE  \/ UNCHANGED <<toServer, sent>>
         \/ \E c \in Clients : Recv(c) /\ UNCHANGED sent
         \/ \E c \in Clients : \E m \in Requests : m.n = sent[c] /\ Say(c, m)
<1> DEFINE Moved ==
      \/ UNCHANGED <<toServer, sent>>
      \/ \E c \in Clients : Recv(c) /\ UNCHANGED sent
      \/ \E c \in Clients : \E m \in Requests : m.n = sent[c] /\ Say(c, m)
<1> Shapes
  BY DEF IInv
<1>1. ASSUME NEW c \in Clients,
             Connect(c) \/ Close(c) \/ RegisterNew(c) \/ RelayNext(c) \/ RelayEnd(c)
               \/ LeaveStart(c) \/ LeaveNext(c) \/ LeaveBroken(c) \/ LeaveEnd(c) \/ LoopBroken(c)
      PROVE  Moved
  BY <1>1 DEF Connect, Close, RegisterNew, RelayNext, RelayEnd, LeaveStart, LeaveNext,
              LeaveBroken, LeaveEnd, LoopBroken
<1>2. ASSUME NEW c \in Clients,
             JoinSession(c) \/ NewSession(c) \/ NeverJoined(c) \/ RelayStart(c) \/ RelayToOne(c)
      PROVE  Moved
  BY <1>2 DEF JoinSession, NewSession, NeverJoined, RelayStart, RelayToOne
<1>3. ASSUME NEW c \in Clients,
             (\E first \in Firsts : Ask(c, first)) \/ (\E dst \in Dsts : Send(c, dst))
      PROVE  Moved
  BY <1>3, SayNumbers
<1>4. ASSUME UNCHANGED vars PROVE Moved
  BY <1>4 DEF vars
<1>5. Moved
  <2> HIDE DEF Moved
  <2>1. ASSUME NEW c \in Clients, Handler(c) PROVE Moved
    BY <2>1, <1>1, <1>2 DEF Handler
  <2>2. CASE Next
    BY <2>1, <2>2, <1>1, <1>3 DEF Next
  <2>3. QED
    BY <2>2, <1>4
<1>6. QED
  BY <1>5

\* A message said is the last on its way; the others are where they were.
LEMMA SayAppends ==
  ASSUME Shapes, NEW c \in Clients, NEW m \in Requests, Say(c, m)
  PROVE  /\ sent'[c] = sent[c] + 1 /\ sent[c] \in Nat
         /\ DOMAIN toServer'[c] = DOMAIN toServer[c] \cup {Len(toServer[c]) + 1}
         /\ \A i \in DOMAIN toServer[c] : toServer'[c][i] = toServer[c][i] /\ i < Len(toServer[c]) + 1
         /\ toServer'[c][Len(toServer[c]) + 1] = m
         /\ \A e \in Clients \ {c} : toServer'[e] = toServer[e] /\ sent'[e] = sent[e]
<1>1. toServer[c] \in Seq(Requests) /\ toServer'[c] = Append(toServer[c], m)
  BY DEF Say, Shapes
<1>2. sent'[c] = sent[c] + 1 /\ sent[c] \in Nat
  BY DEF Say, Shapes
<1>3. \A e \in Clients \ {c} : toServer'[e] = toServer[e] /\ sent'[e] = sent[e]
  BY DEF Say, Shapes
<1>4. QED
  BY <1>1, <1>2, <1>3, AppendProperties

\* The messages on their way are requests.
LEMMA NumbersAreNat ==
  ASSUME Shapes, NEW c \in Clients, NEW i \in DOMAIN toServer[c]
  PROVE  i \in Nat /\ toServer[c][i].n \in Nat
<1>1. toServer[c] \in Seq(Requests)
  BY DEF Shapes
<1>2. i \in 1 .. Len(toServer[c]) /\ toServer[c][i] \in Requests
  BY <1>1, LenProperties, ElementOfSeq
<1>3. QED
  BY <1>1, <1>2, LenProperties DEF Requests

\* What the server has not received stays numbered upwards.
LEMMA NumberedKeeps == IInv /\ [Next]_vars => Numbered'
<1> SUFFICES ASSUME IInv, [Next]_vars PROVE Numbered'
  OBVIOUS
<1> Shapes /\ Numbered
  BY DEF IInv
<1>1. CASE UNCHANGED <<toServer, sent>>
  BY <1>1 DEF Numbered
<1>2. ASSUME NEW c \in Clients, Recv(c), UNCHANGED sent PROVE Numbered'
  BY <1>2, RecvTakes DEF Numbered
<1>3. ASSUME NEW c \in Clients, NEW m \in Requests, m.n = sent[c], Say(c, m) PROVE Numbered'
  BY <1>3, SayAppends, NumbersAreNat DEF Numbered
<1>4. QED
  BY <1>1, <1>2, <1>3, Traffic

\* What is older than all that is on its way stays so.
LEMMA OlderStays ==
  ASSUME IInv, [Next]_vars, NEW c \in Clients, NEW n \in Nat, Older(c, n)
  PROVE  Older(c, n)'
<1> Shapes
  BY DEF IInv
<1>1. CASE UNCHANGED <<toServer, sent>>
  BY <1>1 DEF Older
<1>2. ASSUME NEW e \in Clients, Recv(e), UNCHANGED sent PROVE Older(c, n)'
  BY <1>2, RecvTakes DEF Older
<1>3. ASSUME NEW e \in Clients, NEW m \in Requests, m.n = sent[e], Say(e, m) PROVE Older(c, n)'
  BY <1>3, SayAppends DEF Older
<1>4. QED
  BY <1>1, <1>2, <1>3, Traffic

\* What is received is older than all that is still on its way.
LEMMA ReceivedIsOlder ==
  ASSUME IInv, NEW c \in Clients, Recv(c), UNCHANGED sent,
         NEW k \in Nat, k = Head(toServer[c]).n
  PROVE  Older(c, k)' /\ \A n \in Nat : Older(c, n) => n < k
<1> Shapes /\ Numbered
  BY DEF IInv
<1>1. /\ 1 \in DOMAIN toServer[c] /\ Head(toServer[c]) = toServer[c][1]
      /\ \A i \in DOMAIN toServer'[c] :
           i + 1 > 1 /\ i + 1 \in DOMAIN toServer[c] /\ toServer'[c][i] = toServer[c][i + 1]
  BY RecvTakes
<1>2. k < sent'[c]
  BY <1>1 DEF Numbered
<1>3. ASSUME NEW i \in DOMAIN toServer'[c] PROVE k < toServer'[c][i].n
  <2>1. PICK j \in DOMAIN toServer[c] : j > 1 /\ toServer'[c][i] = toServer[c][j]
    BY <1>1
  <2>2. 1 < j
    BY <2>1, NumbersAreNat
  <2>3. QED
    BY <1>1, <2>1, <2>2 DEF Numbered
<1>4. Older(c, k)'
  BY <1>2, <1>3 DEF Older
<1>5. QED
  BY <1>1, <1>4 DEF Older

\* What is relayed is older than what is still to be received.
LEMMA RelayingKeeps == IInv /\ [Next]_vars => Relaying'
<1> SUFFICES ASSUME IInv, [Next]_vars, NEW c \in Clients, pc'[c] = "relay"
             PROVE  /\ job'[c].msg.kind = "game" /\ job'[c].msg.src = c /\ job'[c].msg.what \in Nat
                    /\ Older(c, job[c].msg.what)'
  BY DEF Relaying, Older
<1> Shapes /\ Entries /\ Relaying
  BY DEF IInv
<1>1. CASE pc[c] = "relay" /\ job'[c].msg = job[c].msg
  <2>1. job[c].msg.what \in Nat /\ Older(c, job[c].msg.what)
    BY <1>1 DEF Relaying
  <2>2. PICK n \in Nat : n = job[c].msg.what
    BY <2>1
  <2>3. Older(c, n)'
    BY <2>1, <2>2, OlderStays
  <2>4. QED
    BY <1>1, <2>2, <2>3 DEF Relaying, Older
<1>2. CASE RelayStart(c)
  <2>1. Recv(c) /\ UNCHANGED sent
    BY <1>2 DEF RelayStart
  <2>2. PICK k \in Nat : k = Head(toServer[c]).n
    BY <2>1, RecvTakes DEF Requests
  <2>3. Older(c, k)'
    BY <2>1, <2>2, ReceivedIsOlder
  <2>4. job'[c].msg = Game(c, k)
    BY <1>2, <2>2 DEF RelayStart, Shapes
  <2>5. QED
    BY <2>3, <2>4 DEF Game, Older
<1>3. CASE ~RelayStart(c)
  <2>1. pc[c] = "relay" /\ job'[c].msg = job[c].msg
    BY <1>3, RelayStays
  <2>2. QED
    BY <1>1, <2>1
<1>4. QED
  BY <1>2, <1>3

\* A client that is in a session stays with it.
LEMMA OurStays ==
  ASSUME IInv, [Next]_vars, NEW c \in Clients, our[c] # None
  PROVE  our'[c] = our[c]
<1> DEFINE Stays == our'[c] = our[c]
<1> Shapes /\ Entries
  BY DEF IInv
<1>1. ASSUME NEW e \in Clients,
             Connect(e) \/ Close(e) \/ NeverJoined(e) \/ RelayStart(e) \/ RelayToOne(e)
               \/ RelayNext(e) \/ RelayEnd(e) \/ LeaveStart(e) \/ LeaveNext(e)
               \/ LeaveBroken(e) \/ LeaveEnd(e) \/ LoopBroken(e)
               \/ (\E m \in Requests : m.n = sent[e] /\ Say(e, m))
      PROVE  Stays
  BY <1>1 DEF Connect, Close, NeverJoined, RelayStart, RelayToOne, RelayNext, RelayEnd,
              LeaveStart, LeaveNext, LeaveBroken, LeaveEnd, LoopBroken, Say
<1>2. ASSUME NEW e \in Clients, JoinSession(e) \/ RegisterNew(e) PROVE Stays
  <2>1. pc[e] \in {"start", "register"}
    BY <1>2, JoiningRegisters
  <2>2. PICK s \in Sessions :
          (pc[e] = "register" => our[e] = s) /\ our' = [our EXCEPT ![e] = s]
    BY <1>2, JoiningRegisters
  <2>3. CASE e = c
    BY <2>1, <2>2, <2>3 DEF Entries, Stages, Shapes
  <2>4. CASE e # c
    BY <2>2, <2>4 DEF Shapes
  <2>5. QED
    BY <2>3, <2>4
<1>3. ASSUME NEW e \in Clients, NewSession(e) PROVE Stays
  <2>1. our[e] = None /\ \E s \in Sessions : our' = [our EXCEPT ![e] = s]
    BY <1>3 DEF NewSession, At, Entries, Stages
  <2>2. QED
    BY <2>1 DEF Shapes
<1>4. ASSUME UNCHANGED vars PROVE Stays
  BY <1>4 DEF vars
<1>5. Stays
  <2> HIDE DEF Stays
  <2>1. ASSUME NEW e \in Clients, Handler(e) PROVE Stays
    BY <2>1, <1>1, <1>2, <1>3 DEF Handler
  <2>2. ASSUME NEW e \in Clients,
               (\E first \in Firsts : Ask(e, first)) \/ (\E dst \in Dsts : Send(e, dst))
        PROVE  Stays
    BY <2>2, <1>1, SayNumbers
  <2>3. CASE Next
    BY <2>1, <2>2, <2>3, <1>1 DEF Next
  <2>4. QED
    BY <2>3, <1>4
<1>6. QED
  BY <1>5

\* The messages in an inbox stay, each in its place.
LEMMA InboxStays ==
  ASSUME IInv, [Next]_vars, NEW d \in Clients
  PROVE  \A i \in DOMAIN inbox[d] : i \in DOMAIN inbox'[d] /\ inbox'[d][i] = inbox[d][i]
<1> DEFINE Stay == \A i \in DOMAIN inbox[d] : i \in DOMAIN inbox'[d] /\ inbox'[d][i] = inbox[d][i]
<1> Shapes
  BY DEF IInv
<1>1. ASSUME inbox' = inbox PROVE Stay
  BY <1>1
<1>2. ASSUME NEW e \in Clients, NEW m \in Notes, SendTo(e, m) PROVE Stay
  BY <1>2, SendAppends
<1>3. ASSUME NEW c \in Clients,
             Connect(c) \/ Close(c) \/ JoinSession(c) \/ RegisterNew(c) \/ NeverJoined(c)
               \/ RelayStart(c) \/ RelayEnd(c) \/ LeaveStart(c) \/ LeaveBroken(c)
               \/ LeaveEnd(c) \/ LoopBroken(c)
               \/ (\E m \in Requests : m.n = sent[c] /\ Say(c, m))
      PROVE  Stay
  <2>1. inbox' = inbox
    BY <1>3 DEF Connect, Close, JoinSession, RegisterNew, NeverJoined, RelayStart, RelayEnd,
                LeaveStart, LeaveBroken, LeaveEnd, LoopBroken, Say
  <2>2. QED
    BY <2>1, <1>1
<1>4. ASSUME NEW c \in Clients, NewSession(c) PROVE Stay
  <2>1. \E s \in Sessions : SendTo(c, Connected(s))
    BY <1>4 DEF NewSession
  <2>2. QED
    BY <2>1, <1>2, NotesOfServer
<1>5. ASSUME NEW c \in Clients, RelayToOne(c) PROVE Stay
  <2>1. Recv(c)
    BY <1>5, OneIsSentTo
  <2>2. Head(toServer[c]).n \in Nat
    BY <2>1, RecvTakes DEF Requests
  <2>3. UNCHANGED inbox \/ \E e \in Clients : SendTo(e, Game(c, Head(toServer[c]).n))
    BY <1>5, OneIsSentTo
  <2>4. QED
    BY <2>2, <2>3, <1>1, <1>2, NotesOfServer
<1>6. ASSUME NEW c \in Clients, RelayNext(c) \/ LeaveNext(c) PROVE Stay
  <2>1. UNCHANGED inbox \/ \E e \in Clients : SendTo(e, job[c].msg)
    BY <1>6, RelayPasses, LeaveTells
  <2>2. job[c].msg \in Notes
    BY DEF Shapes
  <2>3. QED
    BY <2>1, <2>2, <1>1, <1>2
<1>7. ASSUME UNCHANGED vars PROVE Stay
  BY <1>7, <1>1 DEF vars
<1>8. Stay
  <2> HIDE DEF Stay
  <2>1. ASSUME NEW c \in Clients, Handler(c) PROVE Stay
    BY <2>1, <1>3, <1>4, <1>5, <1>6 DEF Handler
  <2>2. ASSUME NEW c \in Clients,
               (\E first \in Firsts : Ask(c, first)) \/ (\E dst \in Dsts : Send(c, dst))
        PROVE  Stay
    BY <2>2, <1>3, SayNumbers
  <2>3. CASE Next
    BY <2>1, <2>2, <2>3, <1>3 DEF Next
  <2>4. QED
    BY <2>3, <1>7
<1>9. QED
  BY <1>8

\* A game message comes to a member of its sender's session, behind all that is
\* there: the message its sender's coroutine has just received, or the one that it
\* is relaying and that the member has not had yet.
LEMMA GameArrives ==
  ASSUME IInv, [Next]_vars, NEW d \in Clients, NEW j \in DOMAIN inbox'[d],
         j \notin DOMAIN inbox[d], inbox'[d][j].kind = "game"
  PROVE  \E c \in Clients \ {d} :
           /\ inbox'[d][j].src = c /\ our[c] \in Sessions /\ our[d] = our[c]
           /\ \A i \in 1 .. j - 1 : i \in DOMAIN inbox[d]
           /\ \/ RelayToOne(c) /\ inbox'[d][j] = Game(c, Head(toServer[c]).n)
              \/ /\ RelayNext(c) /\ inbox'[d][j] = job[c].msg
                 /\ d \notin job[c].seen /\ d \in job'[c].seen
<1> DEFINE Comes(c) ==
      /\ inbox'[d][j].src = c /\ our[c] \in Sessions /\ our[d] = our[c]
      /\ \A i \in 1 .. j - 1 : i \in DOMAIN inbox[d]
      /\ \/ RelayToOne(c) /\ inbox'[d][j] = Game(c, Head(toServer[c]).n)
         \/ /\ RelayNext(c) /\ inbox'[d][j] = job[c].msg
            /\ d \notin job[c].seen /\ d \in job'[c].seen
    Arrives == \E c \in Clients \ {d} : Comes(c)
<1> Shapes /\ Entries /\ Leaving /\ Relaying
  BY DEF IInv
<1>1. ASSUME inbox' = inbox PROVE FALSE
  BY <1>1
<1>2. ASSUME NEW e \in Clients, NEW m \in Notes, SendTo(e, m)
      PROVE  e = d /\ inbox'[d][j] = m /\ \A i \in 1 .. j - 1 : i \in DOMAIN inbox[d]
  <2>1. e = d
    BY <1>2, SendAppends
  <2>2. inbox'[d][j] = m /\ j = Len(inbox[d]) + 1
    BY <1>2, <2>1, SendAppends
  <2>3. DOMAIN inbox[d] = 1 .. Len(inbox[d]) /\ Len(inbox[d]) \in Nat
    BY LenProperties DEF Shapes
  <2>4. QED
    BY <2>1, <2>2, <2>3
<1>3. ASSUME NEW c \in Clients,
             Connect(c) \/ Close(c) \/ JoinSession(c) \/ RegisterNew(c) \/ NeverJoined(c)
               \/ RelayStart(c) \/ RelayEnd(c) \/ LeaveStart(c) \/ LeaveBroken(c)
               \/ LeaveEnd(c) \/ LoopBroken(c)
               \/ (\E m \in Requests : m.n = sent[c] /\ Say(c, m))
      PROVE  FALSE
  <2>1. inbox' = inbox
    BY <1>3 DEF Connect, Close, JoinSession, RegisterNew, NeverJoined, RelayStart, RelayEnd,
                LeaveStart, LeaveBroken, LeaveEnd, LoopBroken, Say
  <2>2. QED
    BY <2>1, <1>1
<1>4. ASSUME NEW c \in Clients, NewSession(c) PROVE FALSE
  <2>1. PICK s \in Sessions : SendTo(c, Connected(s))
    BY <1>4 DEF NewSession
  <2>2. QED
    BY <2>1, <1>2, NotesOfServer DEF Connected
<1>5. ASSUME NEW c \in Clients, LeaveNext(c) PROVE FALSE
  <2>1. pc[c] = "leaving" /\ \E e \in Clients : SendTo(e, job[c].msg)
    BY <1>5, LeaveTells
  <2>2. job[c].msg = Left(c) /\ Left(c) \in Notes
    BY <2>1, NotesOfServer DEF Leaving
  <2>3. QED
    BY <2>1, <2>2, <1>2 DEF Left
<1>6. ASSUME NEW c \in Clients, RelayToOne(c) PROVE Arrives
  <2>1. Recv(c) /\ our[c] \in Sessions
    BY <1>6, OneIsSentTo
  <2>2. Game(c, Head(toServer[c]).n) \in Notes
    BY <2>1, RecvTakes, NotesOfServer DEF Requests
  <2>3. PICK e \in Members(our[c]) \ {c} :
          e \in Clients /\ SendTo(e, Game(c, Head(toServer[c]).n))
    BY <1>6, <1>1, OneIsSentTo
  <2>4. our[e] = our[c]
    BY <2>1, <2>3, MembersArePlaces DEF Entries, Placed
  <2>5. Comes(c) /\ c # d
    BY <1>6, <2>1, <2>2, <2>3, <2>4, <1>2 DEF Game
  <2>6. QED
    BY <2>5
<1>7. ASSUME NEW c \in Clients, RelayNext(c) PROVE Arrives
  <2>1. pc[c] = "relay" /\ our[c] \in Sessions
    BY <1>7, RelayPasses
  <2>2. PICK e \in Members(our[c]) \ job[c].seen :
          e \in Clients /\ e # c /\ Advance(c, e) /\ SendTo(e, job[c].msg)
    BY <1>7, <1>1, RelayPasses
  <2>3. job[c].msg \in Notes /\ job[c].msg.src = c
    BY <2>1 DEF Shapes, Relaying
  <2>4. our[e] = our[c]
    BY <2>1, <2>2, MembersArePlaces DEF Entries, Placed
  <2>5. e \in job'[c].seen
    BY <2>2, AdvanceSees
  <2>6. Comes(c) /\ c # d
    BY <1>7, <2>1, <2>2, <2>3, <2>4, <2>5, <1>2
  <2>7. QED
    BY <2>6
<1>8. ~ UNCHANGED vars
  BY <1>1 DEF vars
<1>9. Arrives
  <2> HIDE DEF Arrives
  <2>1. ASSUME NEW c \in Clients, Handler(c) PROVE Arrives
    BY <2>1, <1>3, <1>4, <1>5, <1>6, <1>7 DEF Handler
  <2>2. ASSUME NEW c \in Clients,
               (\E first \in Firsts : Ask(c, first)) \/ (\E dst \in Dsts : Send(c, dst))
        PROVE  Arrives
    BY <2>2, <1>3, SayNumbers
  <2>3. CASE Next
    BY <2>1, <2>2, <2>3, <1>3 DEF Next
  <2>4. QED
    BY <2>3, <1>8
<1>10. QED
  BY <1>9

\* What has been relayed is older than what is still to be relayed to the same client.
LEMMA RelayedKeeps == IInv /\ [Next]_vars => Relayed'
<1> SUFFICES ASSUME IInv, [Next]_vars, NEW d \in Clients, NEW j \in DOMAIN inbox'[d],
                    inbox'[d][j].kind = "game",
                    NEW m, m = inbox'[d][j]
             PROVE  /\ m.src \in Clients /\ m.what \in Nat
                    /\ m.what < sent'[m.src]
                    /\ \A i \in DOMAIN toServer'[m.src] : m.what < toServer'[m.src][i].n
                    /\ pc'[m.src] = "relay" =>
                         \/ m.what < job'[m.src].msg.what
                         \/ m.what = job'[m.src].msg.what /\ d \in job'[m.src].seen
  BY DEF Relayed, Older
<1> Shapes /\ Relaying /\ Relayed
  BY DEF IInv
<1>1. CASE j \in DOMAIN inbox[d]
  <2>1. m = inbox[d][j]
    BY <1>1, InboxStays
  <2>2. /\ m.src \in Clients /\ m.what \in Nat
        /\ Older(m.src, m.what)
        /\ pc[m.src] = "relay" =>
             \/ m.what < job[m.src].msg.what
             \/ m.what = job[m.src].msg.what /\ d \in job[m.src].seen
    BY <1>1, <2>1 DEF Relayed
  <2>3. PICK c \in Clients, n \in Nat : c = m.src /\ n = m.what
    BY <2>2
  <2>4. Older(c, n)'
    BY <2>2, <2>3, OlderStays
  <2>5. CASE RelayStart(c)
    <3>1. Recv(c) /\ UNCHANGED sent
      BY <2>5 DEF RelayStart
    <3>2. PICK k \in Nat : k = Head(toServer[c]).n
      BY <3>1, RecvTakes DEF Requests
    <3>3. n < k
      BY <2>2, <2>3, <3>1, <3>2, ReceivedIsOlder
    <3>4. job'[c].msg = Game(c, k)
      BY <2>5, <3>2 DEF RelayStart, Shapes
    <3>5. QED
      BY <2>3, <2>4, <3>3, <3>4 DEF Game, Older
  <2>6. CASE ~RelayStart(c)
    <3>1. pc'[c] = "relay" =>
            pc[c] = "relay" /\ job'[c].msg = job[c].msg /\ job[c].seen \subseteq job'[c].seen
      BY <2>6, RelayStays
    <3>2. QED
      BY <2>2, <2>3, <2>4, <3>1 DEF Older
  <2>7. QED
    BY <2>5, <2>6
<1>2. CASE j \notin DOMAIN inbox[d]
  <2>1. PICK c \in Clients \ {d} :
          \/ RelayToOne(c) /\ m = Game(c, Head(toServer[c]).n)
          \/ RelayNext(c) /\ m = job[c].msg /\ d \in job'[c].seen
    BY <1>2, GameArrives
  <2>2. CASE RelayToOne(c) /\ m = Game(c, Head(toServer[c]).n)
    <3>1. Recv(c) /\ UNCHANGED sent /\ pc[c] = "recv" /\ UNCHANGED pc
      BY <2>2, OneIsSentTo
    <3>2. PICK k \in Nat : k = Head(toServer[c]).n
      BY <3>1, RecvTakes DEF Requests
    <3>3. Older(c, k)'
      BY <3>1, <3>2, ReceivedIsOlder
    <3>4. m.src = c /\ m.what = k
      BY <2>2, <3>2 DEF Game
    <3>5. QED
      BY <3>1, <3>3, <3>4 DEF Older
  <2>3. CASE RelayNext(c) /\ m = job[c].msg /\ d \in job'[c].seen
    <3>1. pc[c] = "relay" /\ UNCHANGED <<sent, toServer, pc>>
      BY <2>3, RelayPasses
    <3>2. job'[c].msg = job[c].msg
      BY <2>3, RelayPasses, AdvanceSees
    <3>3. QED
      BY <2>3, <3>1, <3>2 DEF Relaying, Older
  <2>4. QED
    BY <2>1, <2>2, <2>3
<1>3. QED
  BY <1>1, <1>2

\* No step delivers out of order, twice or to another session.
LEMMA DeliveredInOrderKeeps == IInv /\ [Next]_vars => DeliveredInOrder'
<1> SUFFICES ASSUME IInv, [Next]_vars, NEW d \in Clients, NEW j \in DOMAIN inbox'[d],
                    inbox'[d][j].kind = "game",
                    NEW m, m = inbox'[d][j]
             PROVE  /\ our'[m.src] = our'[d] /\ our'[d] # None
                    /\ \A i \in 1 .. j - 1 :
                         inbox'[d][i].kind = "game" /\ inbox'[d][i].src = m.src =>
                           inbox'[d][i].what < m.what
  BY DEF DeliveredInOrder
<1> Shapes /\ Relaying /\ Relayed /\ DeliveredInOrder
  BY DEF IInv
<1>1. DOMAIN inbox[d] = 1 .. Len(inbox[d]) /\ Len(inbox[d]) \in Nat
  BY LenProperties DEF Shapes
<1>2. \A i \in DOMAIN inbox[d] : inbox'[d][i] = inbox[d][i]
  BY InboxStays
<1>3. CASE j \in DOMAIN inbox[d]
  <2>1. m = inbox[d][j] /\ m.kind = "game" /\ m.src \in Clients
    BY <1>2, <1>3 DEF Relayed
  <2>2. /\ our[m.src] = our[d] /\ our[d] # None
        /\ \A i \in 1 .. j - 1 :
             inbox[d][i].kind = "game" /\ inbox[d][i].src = m.src => inbox[d][i].what < m.what
    BY <1>3, <2>1 DEF DeliveredInOrder
  <2>3. our'[m.src] = our[m.src] /\ our'[d] = our[d]
    BY <2>1, <2>2, OurStays
  <2>4. \A i \in 1 .. j - 1 : i \in DOMAIN inbox[d]
    BY <1>1, <1>3
  <2>5. QED
    BY <1>2, <2>2, <2>3, <2>4
<1>4. CASE j \notin DOMAIN inbox[d]
  <2>1. PICK c \in Clients \ {d} :
          /\ m.src = c /\ our[c] \in Sessions /\ our[d] = our[c]
          /\ \A i \in 1 .. j - 1 : i \in DOMAIN inbox[d]
          /\ \/ RelayToOne(c) /\ m = Game(c, Head(toServer[c]).n)
             \/ RelayNext(c) /\ m = job[c].msg /\ d \notin job[c].seen
    BY <1>4, GameArrives
  <2>2. our'[c] = our[c] /\ our'[d] = our[d] /\ our[d] # None
    BY <2>1, OurStays
  <2>3. ASSUME NEW i \in DOMAIN inbox[d], inbox[d][i].kind = "game", inbox[d][i].src = c
        PROVE  inbox[d][i].what < m.what
    <3>1. /\ inbox[d][i].what \in Nat /\ Older(c, inbox[d][i].what)
          /\ pc[c] = "relay" =>
               \/ inbox[d][i].what < job[c].msg.what
               \/ d \in job[c].seen
      BY <2>3 DEF Relayed
    <3>2. CASE RelayToOne(c) /\ m = Game(c, Head(toServer[c]).n)
      <4>1. Recv(c) /\ UNCHANGED sent
        BY <3>2, OneIsSentTo
      <4>2. PICK k \in Nat : k = Head(toServer[c]).n
        BY <4>1, RecvTakes DEF Requests
      <4>3. QED
        BY <3>1, <3>2, <4>1, <4>2, ReceivedIsOlder DEF Game
    <3>3. CASE RelayNext(c) /\ m = job[c].msg /\ d \notin job[c].seen
      BY <3>1, <3>3, RelayPasses
    <3>4. QED
      BY <2>1, <3>2, <3>3
  <2>4. QED
    BY <1>2, <2>1, <2>2, <2>3
<1>5. QED
  BY <1>3, <1>4

-----------------------------------------------------------------------------
(* Whom a relay reaches *)

\* A connection that is open was open, or is new.
LEMMA ConnectionsEnd ==
  ASSUME IInv, [Next]_vars, NEW d \in Clients, conn[d] # "none"
  PROVE  conn'[d] # "none" /\ (conn'[d] = "open" => conn[d] = "open")
<1> DEFINE Ends == conn'[d] # "none" /\ (conn'[d] = "open" => conn[d] = "open")
<1> Shapes
  BY DEF IInv
<1>1. ASSUME NEW e \in Clients,
             JoinSession(e) \/ NewSession(e) \/ RegisterNew(e) \/ RelayStart(e)
               \/ RelayToOne(e) \/ RelayNext(e) \/ RelayEnd(e) \/ LeaveStart(e)
               \/ LeaveNext(e) \/ LeaveEnd(e) \/ (\E m \in Requests : m.n = sent[e] /\ Say(e, m))
      PROVE  Ends
  <2>1. conn' = conn
    BY <1>1 DEF JoinSession, NewSession, RegisterNew, RelayStart, RelayToOne, RelayNext,
                RelayEnd, LeaveStart, LeaveNext, LeaveEnd, Say
  <2>2. QED
    BY <2>1
<1>2. ASSUME NEW e \in Clients,
             Connect(e) \/ Close(e) \/ NeverJoined(e) \/ LeaveBroken(e) \/ LoopBroken(e)
      PROVE  Ends
  BY <1>2 DEF Connect, Close, NeverJoined, LeaveBroken, LoopBroken, Fail, Shapes
<1>3. ASSUME UNCHANGED vars PROVE Ends
  BY <1>3 DEF vars
<1>4. Ends
  <2> HIDE DEF Ends
  <2>1. ASSUME NEW e \in Clients, Handler(e) PROVE Ends
    BY <2>1, <1>1, <1>2 DEF Handler
  <2>2. ASSUME NEW e \in Clients,
               (\E first \in Firsts : Ask(e, first)) \/ (\E dst \in Dsts : Send(e, dst))
        PROVE  Ends
    BY <2>2, <1>1, SayNumbers
  <2>3. CASE Next
    BY <2>1, <2>2, <2>3, <1>2 DEF Next
  <2>4. QED
    BY <2>3, <1>3
<1>5. QED
  BY <1>4

\* Who has been passed in a relay has the message or is not open.
LEMMA ReachedKeeps == IInv /\ [Next]_vars => Reached'
<1> SUFFICES ASSUME IInv, [Next]_vars, NEW c \in Clients, pc'[c] = "relay",
                    NEW d \in Clients, d \in job'[c].seen \ {c}
             PROVE  /\ conn'[d] # "none"
                    /\ conn'[d] = "open" => \E i \in DOMAIN inbox'[d] : inbox'[d][i] = job'[c].msg
  <2>1. IInv /\ [Next]_vars => \A c \in Clients : job'[c].seen \subseteq Clients
    BY ShapesKeep DEF Shapes
  <2>2. QED
    BY <2>1 DEF Reached
<1> Shapes /\ Reached /\ Entries
  BY DEF IInv
<1>1. ~RelayStart(c)
  BY DEF RelayStart, Shapes
<1>2. pc[c] = "relay" /\ job'[c].msg = job[c].msg
  BY <1>1, RelayStays
<1>3. CASE d \in job[c].seen
  <2>1. conn[d] # "none" /\ (conn[d] = "open" => \E i \in DOMAIN inbox[d] : inbox[d][i] = job[c].msg)
    BY <1>2, <1>3 DEF Reached
  <2>2. QED
    BY <1>2, <2>1, ConnectionsEnd, InboxStays
<1>4. CASE d \notin job[c].seen
  <2>1. RelayNext(c)
    BY <1>1, <1>4, RelayStays
  <2>2. our[c] \in Sessions /\ conn' = conn
    BY <2>1, RelayPasses
  <2>3. PICK e \in Members(our[c]) :
          /\ e \in Clients /\ Advance(c, e)
          /\ (e # c /\ conn[e] = "open" /\ SendTo(e, job[c].msg)) \/ e = c \/ conn[e] # "open"
    BY <2>1, RelayPasses
  <2>4. e = d
    BY <1>4, <2>3, AdvanceSees
  <2>5. conn[d] # "none"
    BY <2>2, <2>3, <2>4, MembersArePlaces DEF Entries, Placed
  <2>6. conn[d] = "open" => \E i \in DOMAIN inbox'[d] : inbox'[d][i] = job[c].msg
    <3>1. SUFFICES ASSUME conn[d] = "open"
                   PROVE  \E i \in DOMAIN inbox'[d] : inbox'[d][i] = job[c].msg
      OBVIOUS
    <3>2. SendTo(d, job[c].msg) /\ job[c].msg \in Notes
      BY <2>3, <2>4, <3>1 DEF Shapes
    <3>3. QED
      BY <3>2, SendAppends
  <2>7. QED
    BY <1>2, <2>2, <2>5, <2>6
<1>5. QED
  BY <1>3, <1>4

\* A coroutine comes out of the loop of a relay only where the loop ends.
LEMMA RelayEnds ==
  ASSUME IInv, [Next]_vars, NEW c \in Clients, pc[c] = "relay", pc'[c] = "recv"
  PROVE  RelayEnd(c)
<1> Shapes
  BY DEF IInv
<1>1. ASSUME NEW e \in Clients,
             Close(e) \/ RelayToOne(e) \/ RelayNext(e) \/ LeaveNext(e)
               \/ (\E m \in Requests : m.n = sent[e] /\ Say(e, m))
      PROVE  FALSE
  <2>1. pc' = pc
    BY <1>1 DEF Close, RelayToOne, RelayNext, LeaveNext, Say
  <2>2. QED
    BY <2>1
<1>2. ASSUME NEW e \in Clients,
             Connect(e) \/ NewSession(e) \/ NeverJoined(e) \/ RelayStart(e) \/ LeaveEnd(e)
               \/ LeaveStart(e) \/ LeaveBroken(e) \/ LoopBroken(e)
      PROVE  FALSE
  BY <1>2 DEF Connect, NewSession, NeverJoined, RelayStart, LeaveEnd, LeaveStart, LeaveBroken,
              LoopBroken, Fail, GoTo, Shapes
<1>3. ASSUME NEW e \in Clients, JoinSession(e) \/ RegisterNew(e) PROVE FALSE
  BY <1>3, JoiningRegisters DEF Shapes
<1>4. ASSUME NEW e \in Clients, RelayEnd(e) PROVE RelayEnd(c)
  BY <1>4 DEF RelayEnd, GoTo, Shapes
<1>5. ~ UNCHANGED vars
  BY DEF vars
<1>6. ASSUME NEW e \in Clients, Handler(e) PROVE RelayEnd(c)
  BY <1>6, <1>1, <1>2, <1>3, <1>4 DEF Handler
<1>7. ASSUME NEW e \in Clients,
             (\E first \in Firsts : Ask(e, first)) \/ (\E dst \in Dsts : Send(e, dst))
      PROVE  FALSE
  BY <1>7, <1>1, SayNumbers
<1>8. CASE Next
  BY <1>8, <1>1, <1>2, <1>6, <1>7 DEF Next
<1>9. QED
  BY <1>5, <1>8

-----------------------------------------------------------------------------
(* The theorems *)

\* Every step keeps the whole invariant.
LEMMA NextKeeps == IInv /\ [Next]_vars => IInv'
BY ShapesKeep, EntriesKeep, LeavingKeeps, DepartedKeeps, NumberedKeeps, RelayingKeeps,
   RelayedKeeps, ReachedKeeps, DeliveredInOrderKeeps
   DEF IInv

\* The invariant holds of every state the server can be in.
THEOREM InvariantHolds == Spec => []IInv
<1>1. Init => IInv
  BY InitIInv
<1>2. IInv /\ [Next]_vars => IInv'
  BY NextKeeps
<1>3. QED
  BY <1>1, <1>2, PTL DEF Spec

\* A game message reaches only clients of its sender's session, what one client
\* sends reaches another in the order sent and at most once, whoever else joins,
\* leaves, relays or fails in between.
THEOREM RelayKeepsOrder == Spec => []DeliveredInOrder
<1>1. IInv => DeliveredInOrder
  BY DEF IInv
<1>2. QED
  BY <1>1, InvariantHolds, PTL

\* Whoever is told that a client has left is right for good: the client is in no
\* session, and it is not the one that is told.
THEOREM LeaveIsTrue == Spec => []LeftIsGone
<1>1. IInv => LeftIsGone
  <2> SUFFICES ASSUME IInv, NEW d \in Clients, NEW i \in DOMAIN inbox[d],
                      inbox[d][i].kind = "player_left"
               PROVE  /\ inbox[d][i].what # d
                      /\ \A s \in Sessions : inbox[d][i].what \notin Members(s)
    BY DEF LeftIsGone
  <2>1. inbox[d][i].what \in Clients \ {d} /\ IsGone(inbox[d][i].what)
    BY DEF IInv, Departed
  <2>2. QED
    BY <2>1, MembersArePlaces DEF IInv, IsGone
<1>2. QED
  BY <1>1, InvariantHolds, PTL

\* A relay to all that ends has reached every member of the session that can
\* still be reached, those that joined while it went on included.
THEOREM RelayIsComplete == Spec => RelayReachesAll
<1> DEFINE All_Reached ==
      \A c \in Clients :
        pc[c] = "relay" /\ pc'[c] = "recv" =>
          \A d \in Members(our[c]) \ {c} :
            conn[d] = "open" => \E i \in DOMAIN inbox[d] : inbox[d][i] = job[c].msg
<1>1. IInv /\ [Next]_vars => All_Reached
  <2> SUFFICES ASSUME IInv, [Next]_vars, NEW c \in Clients, pc[c] = "relay", pc'[c] = "recv",
                      NEW d \in Members(our[c]) \ {c}, conn[d] = "open"
               PROVE  \E i \in DOMAIN inbox[d] : inbox[d][i] = job[c].msg
    OBVIOUS
  <2>1. Members(our[c]) \subseteq job[c].seen
    BY RelayEnds DEF RelayEnd, Rest
  <2>2. QED
    BY <2>1 DEF IInv, Reached
<1>2. IInv /\ [Next]_vars => [All_Reached]_vars
  BY <1>1
<1>3. [All_Reached]_vars <=>
        [\A c \in Clients :
           pc[c] = "relay" /\ pc'[c] = "recv" =>
             \A d \in Members(our[c]) \ {c} :
               conn[d] = "open" => \E i \in DOMAIN inbox[d] : inbox[d][i] = job[c].msg]_vars
  BY DEF All_Reached
<1> HIDE DEF All_Reached
<1>4. QED
  BY <1>2, <1>3, InvariantHolds, PTL DEF Spec, RelayReachesAll

-----------------------------------------------------------------------------
(* The libraries by which connected devices agree: their theorems, for the *)
(* states of this module.                                                  *)

TwoPlayerIs == INSTANCE TwoPlayerProofs WITH inbox <- heard
WaitingIs   == INSTANCE WaitForPlayersProofs WITH OneAtATime <- TRUE

\* The steps of two_player are those of which its theorems speak: each instance has its
\* own copy of every definition, and all of them must be expanded to see that they agree.
LEMMA SamePlayers ==
  /\ Players!Init <=> TwoPlayerIs!Init
  /\ Players!Next <=> TwoPlayerIs!Next
  /\ Players!PlayersAgree <=> TwoPlayerIs!PlayersAgree
<1>1. Players!Init <=> TwoPlayerIs!Init
  BY DEF Players!Init,
     TwoPlayerIs!Init
<1>2. Players!Next <=> TwoPlayerIs!Next
  BY DEF Players!Next, Players!Start, Players!Broadcast, Players!Joined, Players!ChooseLocal,
         Players!ChooseNetwork, Players!Leave, Players!Cardinality, Players!PlayerLeft,
         Players!ChooseColour, Players!add_player, Players!ToSet, Players!AmPlayer, Players!Hear,
         Players!Swallow, Players!Consumed, Players!HearAmPlayer, Players!Receive,
         Players!need_player_reselect, Players!HearJoined, Players!HearPlayerLeft,
         Players!remove_player, Players!RemoveFirst, Players!RemoveAt, Players!SelectInSeq,
         Players!Min,
     TwoPlayerIs!Next, TwoPlayerIs!Start, TwoPlayerIs!Broadcast, TwoPlayerIs!Joined,
     TwoPlayerIs!ChooseLocal, TwoPlayerIs!ChooseNetwork, TwoPlayerIs!Leave,
     TwoPlayerIs!Cardinality, TwoPlayerIs!PlayerLeft, TwoPlayerIs!ChooseColour,
     TwoPlayerIs!add_player, TwoPlayerIs!ToSet, TwoPlayerIs!AmPlayer, TwoPlayerIs!Hear,
     TwoPlayerIs!Swallow, TwoPlayerIs!Consumed, TwoPlayerIs!HearAmPlayer, TwoPlayerIs!Receive,
     TwoPlayerIs!need_player_reselect, TwoPlayerIs!HearJoined, TwoPlayerIs!HearPlayerLeft,
     TwoPlayerIs!remove_player, TwoPlayerIs!RemoveFirst, TwoPlayerIs!RemoveAt,
     TwoPlayerIs!SelectInSeq, TwoPlayerIs!Min
<1>3. Players!PlayersAgree <=> TwoPlayerIs!PlayersAgree
  BY DEF Players!PlayersAgree, Players!ChoicesKnown, Players!AtRest, Players!Network,
         Players!SomebodyIsFirst, Players!Players, Players!am_first_player, Players!ToSet,
         Players!Cardinality,
     TwoPlayerIs!PlayersAgree, TwoPlayerIs!ChoicesKnown, TwoPlayerIs!AtRest,
     TwoPlayerIs!Network, TwoPlayerIs!SomebodyIsFirst, TwoPlayerIs!Players,
     TwoPlayerIs!am_first_player, TwoPlayerIs!ToSet, TwoPlayerIs!Cardinality
<1>4. QED
  BY <1>1, <1>2, <1>3

\* And so are those of wait_for_players.
LEMMA SameWaiters ==
  /\ Waiters!Init <=> WaitingIs!Init
  /\ Waiters!Next <=> WaitingIs!Next
  /\ Waiters!NumbersAgree <=> WaitingIs!NumbersAgree
<1>1. Waiters!Init <=> WaitingIs!Init
  BY DEF Waiters!Init, Waiters!Assign, Waiters!Empty,
     WaitingIs!Init, WaitingIs!Assign, WaitingIs!Empty
<1>2. Waiters!Next <=> WaitingIs!Next
  BY DEF Waiters!Next, Waiters!init, Waiters!MayChange, Waiters!AtRest, Waiters!send_message,
         Waiters!Msg, Waiters!joined, Waiters!get_vacant_player_spot, Waiters!Min, Waiters!Indices,
         Waiters!Cardinality, Waiters!Receive, Waiters!Consumed, Waiters!Assign,
         Waiters!send_messages, Waiters!Welcome, Waiters!InOrder, Waiters!add_player,
         Waiters!handle_popup_btn_clicked, Waiters!start_game, Waiters!Leave, Waiters!player_left,
         Waiters!Borders, Waiters!table_remove, Waiters!Restrict, Waiters!Renumbered, Waiters!ipairs,
         Waiters!clear_players, Waiters!Empty, Waiters!become_client_player,
     WaitingIs!Next, WaitingIs!init, WaitingIs!MayChange, WaitingIs!AtRest,
     WaitingIs!send_message, WaitingIs!Msg, WaitingIs!joined, WaitingIs!get_vacant_player_spot,
     WaitingIs!Min, WaitingIs!Indices, WaitingIs!Cardinality, WaitingIs!Receive,
     WaitingIs!Consumed, WaitingIs!Assign, WaitingIs!send_messages, WaitingIs!Welcome,
     WaitingIs!InOrder, WaitingIs!add_player, WaitingIs!handle_popup_btn_clicked,
     WaitingIs!start_game, WaitingIs!Leave, WaitingIs!player_left, WaitingIs!Borders,
     WaitingIs!table_remove, WaitingIs!Restrict, WaitingIs!Renumbered, WaitingIs!ipairs,
     WaitingIs!clear_players, WaitingIs!Empty, WaitingIs!become_client_player
<1>3. Waiters!NumbersAgree <=> WaitingIs!NumbersAgree
  BY DEF Waiters!NumbersAgree, Waiters!AtRest, Waiters!HostsStay, Waiters!Hosts,
         Waiters!Cardinality,
     WaitingIs!NumbersAgree, WaitingIs!AtRest, WaitingIs!HostsStay, WaitingIs!Hosts,
     WaitingIs!Cardinality
<1>4. QED
  BY <1>1, <1>2, <1>3

\* For any number of devices of two_player, as the run with all transports has them: when
\* no message is on its way they agree on who plays what and in which order they came.
THEOREM TwoPlayerAgrees ==
  Players!Init /\ [][Players!Next]_two => []PlayersAgree
<1>1. TwoPlayerIs!Init /\ [][TwoPlayerIs!Next]_TwoPlayerIs!vars => []TwoPlayerIs!PlayersAgree
  <2>1. TwoPlayerIs!Parameters
    BY TransportsAssumption
       DEF Players!Parameters, Players!IsFiniteSet, TwoPlayerIs!Parameters, TwoPlayerIs!IsFiniteSet
  <2>2. QED
    BY <2>1, TwoPlayerIs!AgreeWithoutFairness
<1>2. [Players!Next]_two => [TwoPlayerIs!Next]_TwoPlayerIs!vars
  BY SamePlayers DEF two, TwoPlayerIs!vars
<1>3. TwoPlayerIs!PlayersAgree => PlayersAgree
  BY SamePlayers DEF PlayersAgree
<1>4. QED
  BY <1>1, <1>2, <1>3, SamePlayers, PTL

\* For any number of devices that wait_for_players numbers, one of which comes or leaves
\* at a time: when nothing is on its way, and no host has left, they agree on the numbers.
THEOREM WaitForPlayersAgrees ==
  Waiters!Init /\ [][Waiters!Next]_waiters => []NumbersAgree
<1>1. WaitingIs!Spec => []WaitingIs!NumbersAgree
  <2>1. WaitingIs!WaitForPlayersAssumption
    BY TransportsAssumption
       DEF Waiters!WaitForPlayersAssumption, Waiters!IsFiniteSet,
           WaitingIs!WaitForPlayersAssumption, WaitingIs!IsFiniteSet
  <2>2. QED
    BY <2>1, WaitingIs!EverybodyIsNumbered
<1>2. [Waiters!Next]_waiters => [WaitingIs!Next]_WaitingIs!vars
  BY SameWaiters DEF waiters, WaitingIs!vars
<1>3. WaitingIs!NumbersAgree => NumbersAgree
  BY SameWaiters DEF NumbersAgree
<1>4. QED
  BY <1>1, <1>2, <1>3, SameWaiters, PTL DEF WaitingIs!Spec
=============================================================================
