-------------------------- MODULE WaitForPlayersProofs --------------------------
(***************************************************************************)
(* Proofs about WaitForPlayers: for any number of devices that come and    *)
(* leave one at a time, they agree on the numbers of the players when      *)
(* nothing is on its way.                                                  *)
(***************************************************************************)
EXTENDS WaitForPlayers, FiniteSetTheorems, SequenceTheorems, WellFoundedInduction, TLAPS

Headers  == {"joined", "start_game", "player", "clear_players", "add_player", "player_left"}
Names    == Devices \cup {You, HostName, None}
Messages == [src : Devices \cup {None}, header : Headers, idx : Nat, name : Names]

-----------------------------------------------------------------------------
(* One device: its inbox q and what it keeps of c = is_client, p = player, *)
(* t = players and ns = player_name_to_idx.  In truth h is the host, and   *)
(* tab tells who has which of the n numbers.                               *)

\* A number for each device of S, of which h has the first.
IsTab(tab, n, h, S) ==
  /\ n \in Nat \ {0} /\ tab \in [1 .. n -> S] /\ tab[1] = h
  /\ \A i, j \in 1 .. n : tab[i] = tab[j] => i = j
  /\ \A x \in S : \E i \in 1 .. n : tab[i] = x

\* The host has no name of its own in the tables.
Right(i, name, tab) == IF i = 1 THEN name \in {You, HostName} ELSE name = tab[i]
Whole(t, tab, n) == DOMAIN t = 1 .. n /\ \A i \in 1 .. n : Right(i, t[i], tab)

\* What may be on its way to x besides a player_left: nothing that is not true.
Letter(m, x, c, h, tab, n) ==
  \/ m.header \in {"start_game", "clear_players"}
  \/ m.header = "joined" /\ c
  \/ m.header = "player" /\ x # h /\ m.idx \in 1 .. n /\ tab[m.idx] = x
  \/ m.header = "add_player" /\ m.idx \in 1 .. n /\ Right(m.idx, m.name, tab)

Adds(m, i) == m.header = "add_player" /\ m.idx = i
Resets(m)  == m.header \in {"player", "clear_players"}
HasAdd(q, i) == \E k \in DOMAIN q : Adds(q[k], i)
NoReset(q)   == \A k \in DOMAIN q : ~Resets(q[k])
NoClear(q)   == \A k \in DOMAIN q : q[k].header # "clear_players"
\* The number i, or that of the device itself, is told and not forgotten again.
Told(q, i)   == \E k \in DOMAIN q : Adds(q[k], i) /\ \A j \in DOMAIN q : j > k => ~Resets(q[j])
SelfTold(q)  == \E k \in DOMAIN q : /\ q[k].header = "player"
                                    /\ \A j \in DOMAIN q : j > k => q[j].header # "clear_players"

\* The next message tells that a player has left.  Who has not heard of that yet still
\* has its number; when it hears of it the table is whole.
Late(q) == q # <<>> /\ Head(q).header = "player_left"
StillKnows(name, t, ns, tab, n) ==
  /\ DOMAIN t = 1 .. n + 1 /\ name \in DOMAIN ns /\ ns[name] \in 1 .. n + 1
  /\ \A i \in 1 .. n : tab[i] # name
  /\ Whole(table_remove(t, ns[name], n + 1), tab, n)

\* What x has and what comes to it is true.
Sound(x, q, c, t, ns, h, tab, n) ==
  /\ \A k \in DOMAIN q : \/ k = 1 /\ q[k].header = "player_left"
                         \/ Letter(q[k], x, c, h, tab, n)
  /\ x = h => ~c
  /\ IF Late(q) THEN StillKnows(Head(q).name, t, ns, tab, n)
     ELSE IF x = h THEN Whole(t, tab, n) ELSE DOMAIN t \subseteq 1 .. n

\* Once its messages are handled, x has the numbers of the others under their names, its
\* table is whole, and it knows its own number.
WillBeNamed(q, ns, tab, n) ==
  \A i \in 2 .. n : HasAdd(q, i) \/ (tab[i] \in DOMAIN ns /\ ns[tab[i]] = i)
WillBeWhole(q, t, tab, n) ==
  \A i \in 1 .. n : Told(q, i) \/ (NoReset(q) /\ i \in DOMAIN t /\ Right(i, t[i], tab))
WillBeNumbered(q, c, p, x, tab, n) ==
  SelfTold(q) \/ (NoClear(q) /\ c /\ p \in 1 .. n /\ tab[p] = x)
Settled(x, q, c, p, t, ns, h, tab, n) ==
  /\ WillBeNamed(q, ns, tab, n)
  /\ x # h => WillBeWhole(q, t, tab, n) /\ WillBeNumbered(q, c, p, x, tab, n)

\* While a newcomer d has not been numbered only its "joined" and starts are on their way.
Waits(d, q) == \A k \in DOMAIN q : q[k].header = "start_game" \/ (q[k].header = "joined" /\ q[k].src = d)
NoJoin(q)   == \A k \in DOMAIN q : q[k].header # "joined"
OneJoin(q)  == \E k \in DOMAIN q : q[k].header = "joined" /\ \A j \in DOMAIN q : q[j].header = "joined" => j = k
Knows(x, c, p, t, ns, h, tab, n) ==
  /\ Whole(t, tab, n)
  /\ \A i \in 2 .. n : tab[i] \in DOMAIN ns /\ ns[tab[i]] = i
  /\ IF x = h THEN ~c ELSE c /\ p \in 1 .. n /\ tab[p] = x

-----------------------------------------------------------------------------
(* The invariant *)

Frame ==
  /\ session \subseteq Devices /\ left \subseteq Devices /\ session \cap left = {}
  /\ is_client \in [Devices -> BOOLEAN]
Types ==
  /\ coming \in [Devices -> Seq(Messages)]
  /\ DOMAIN players = Devices /\ DOMAIN player = Devices /\ DOMAIN player_name_to_idx = Devices

\* Nothing has happened to a device that has not come.
IsNew(d) == /\ ~is_client[d] /\ players[d] = Assign(Empty, 1, You)
            /\ player_name_to_idx[d] = Empty
Untouched == \A d \in Devices \ session :
               coming[d] = <<>> /\ (d \notin left => IsNew(d))

\* When somebody else has yet to hear of a leave, a batch will come that settles x.
MoreThan(x) == \E y \in session \ {x} : Late(coming[y])
IsSound(x, h, tab, n) ==
  Sound(x, coming[x], is_client[x], players[x], player_name_to_idx[x], h, tab, n)
IsSettled(x, h, tab, n) ==
  Settled(x, coming[x], is_client[x], player[x], players[x], player_name_to_idx[x], h, tab, n)
Numbering(h, tab, n) ==
  /\ IsTab(tab, n, h, session)
  /\ \A x \in session : IsSound(x, h, tab, n) /\ (MoreThan(x) \/ IsSettled(x, h, tab, n))

\* While nobody has numbered the newcomer d, its "joined" is on the way to the host.
Unnumbered(d, h, tab, n) ==
  /\ h # d /\ IsTab(tab, n, h, session \ {d}) /\ IsNew(d)
  /\ \A x \in session : Waits(d, coming[x])
  /\ \A x \in session \ {d} :
       Knows(x, is_client[x], player[x], players[x], player_name_to_idx[x], h, tab, n)
  /\ NoJoin(coming[d]) /\ OneJoin(coming[h])
Joining(h, tab, n) == \E d \in session : Unnumbered(d, h, tab, n)

IsOrdered(h, tab, n) == Numbering(h, tab, n) \/ Joining(h, tab, n)
Ordered == \E h \in session, n \in Nat : \E tab \in [1 .. n -> session] : IsOrdered(h, tab, n)
NobodyYet == session = {} /\ left = {}

\* As long as no host has left.
Kept == Types /\ Untouched /\ (NobodyYet \/ Ordered)
IInv == Frame /\ (HostsStay => Kept)

-----------------------------------------------------------------------------
(* Inboxes *)

\* What is so of q without its first message.
Dropped(q, r) ==
  /\ r \in Seq(Messages)
  /\ \A k \in DOMAIN r : \E j \in DOMAIN q : j # 1 /\ r[k] = q[j]
  /\ \A i : HasAdd(q, i) => Adds(q[1], i) \/ HasAdd(r, i)
  /\ NoReset(q) => NoReset(r) /\ ~Resets(q[1])
  /\ NoClear(q) => NoClear(r)
  /\ \A i : Told(q, i) => Told(r, i) \/ (Adds(q[1], i) /\ NoReset(r))
  /\ SelfTold(q) => SelfTold(r) \/ (q[1].header = "player" /\ NoClear(r))

\* The tail of an inbox.
LEMMA DropFirst ==
  ASSUME NEW q \in Seq(Messages), q # <<>>
  PROVE  /\ Head(q) = q[1] /\ q[1] \in Messages /\ 1 \in DOMAIN q
         /\ Dropped(q, Tail(q))
<1>1. PICK n : n = Len(q)
  OBVIOUS
<1>2. PICK r : r = Tail(q)
  OBVIOUS
<1>3. /\ n \in Nat \ {0} /\ DOMAIN q = 1 .. n /\ r \in Seq(Messages)
      /\ DOMAIN r = 1 .. n - 1 /\ \A i \in 1 .. n - 1 : r[i] = q[i + 1]
  BY <1>1, <1>2, HeadTailProperties, LenProperties, EmptySeq
<1>4. /\ \A k \in DOMAIN r : k + 1 \in DOMAIN q /\ k + 1 # 1 /\ r[k] = q[k + 1]
      /\ \A k \in DOMAIN q : k = 1 \/ (k - 1 \in DOMAIN r /\ r[k - 1] = q[k])
      /\ \A j, k \in DOMAIN r : j > k <=> j + 1 > k + 1
      /\ \A j, k \in DOMAIN q : j > k <=> j - 1 > k - 1
      /\ \A k \in DOMAIN r : k + 1 > 1
      /\ \A k \in DOMAIN r : (k + 1) - 1 = k
  BY <1>3
<1>5. ASSUME NEW i, HasAdd(q, i) PROVE Adds(q[1], i) \/ HasAdd(r, i)
  BY <1>4, <1>5 DEF HasAdd
<1>6. NoReset(q) => NoReset(r) /\ ~Resets(q[1])
  <2>1. 1 \in DOMAIN q
    BY <1>3
  <2>2. QED
    BY <2>1, <1>4 DEF NoReset
<1>7. NoClear(q) => NoClear(r)
  BY <1>4 DEF NoClear
<1>8. ASSUME NEW i, Told(q, i) PROVE Told(r, i) \/ (Adds(q[1], i) /\ NoReset(r))
  <2>1. PICK k \in DOMAIN q : Adds(q[k], i) /\ \A j \in DOMAIN q : j > k => ~Resets(q[j])
    BY <1>8 DEF Told
  <2>2. CASE k = 1
    BY <2>1, <2>2, <1>4 DEF NoReset
  <2>3. CASE k # 1
    <3>1. PICK l \in DOMAIN r : l = k - 1 /\ r[l] = q[k] /\ k = l + 1
      BY <2>3, <1>3, <1>4
    <3>2. \A j \in DOMAIN r : j > l => ~Resets(r[j])
      BY <3>1, <2>1, <1>4
    <3>3. QED
      BY <3>1, <3>2, <2>1 DEF Told
  <2>4. QED
    BY <2>2, <2>3
<1>9. ASSUME SelfTold(q) PROVE SelfTold(r) \/ (q[1].header = "player" /\ NoClear(r))
  <2>1. PICK k \in DOMAIN q :
          q[k].header = "player" /\ \A j \in DOMAIN q : j > k => q[j].header # "clear_players"
    BY <1>9 DEF SelfTold
  <2>2. CASE k = 1
    BY <2>1, <2>2, <1>4 DEF NoClear
  <2>3. CASE k # 1
    <3>1. PICK l \in DOMAIN r : l = k - 1 /\ r[l] = q[k] /\ k = l + 1
      BY <2>3, <1>3, <1>4
    <3>2. \A j \in DOMAIN r : j > l => r[j].header # "clear_players"
      BY <3>1, <2>1, <1>4
    <3>3. QED
      BY <3>1, <3>2, <2>1 DEF SelfTold
  <2>4. QED
    BY <2>2, <2>3
<1>10. Dropped(q, r)
  <2>1. \A k \in DOMAIN r : \E j \in DOMAIN q : j # 1 /\ r[k] = q[j]
    BY <1>4
  <2>2. QED
    BY <2>1, <1>3, <1>5, <1>6, <1>7, <1>8, <1>9 DEF Dropped
<1>11. QED
  BY <1>2, <1>3, <1>10

\* What is so of r, which is q and then b.
Grown(q, b, r) ==
  /\ r \in Seq(Messages)
  /\ \A k \in DOMAIN r : (k \in DOMAIN q /\ r[k] = q[k]) \/ \E j \in DOMAIN b : r[k] = b[j]
  /\ q = <<>> \/ (r # <<>> /\ Head(r) = Head(q))
  /\ q # <<>> \/ r = b
  /\ \A i : HasAdd(q, i) \/ HasAdd(b, i) => HasAdd(r, i)
  /\ NoReset(q) /\ NoReset(b) => NoReset(r)
  /\ NoClear(q) /\ NoClear(b) => NoClear(r)
  /\ \A i : Told(b, i) \/ (Told(q, i) /\ NoReset(b)) => Told(r, i)
  /\ SelfTold(b) \/ (SelfTold(q) /\ NoClear(b)) => SelfTold(r)

\* The places of two sequences in the one that they make.
Follows(q, b, r) ==
  LET n == Len(q) IN
  /\ n \in Nat /\ DOMAIN q = 1 .. n /\ DOMAIN b = 1 .. Len(b) /\ Len(b) \in Nat
  /\ r \in Seq(Messages) /\ DOMAIN r = 1 .. n + Len(b)
  /\ \A i \in 1 .. n : r[i] = q[i]
  /\ \A i \in 1 .. Len(b) : r[n + i] = b[i]

\* Sequences one behind the other.
LEMMA Concatenated ==
  ASSUME NEW q \in Seq(Messages), NEW b \in Seq(Messages)
  PROVE  Follows(q, b, q \o b)
<1>1. PICK r : r = q \o b
  OBVIOUS
<1>2. PICK n : n = Len(q)
  OBVIOUS
<1>3. PICK l : l = Len(b)
  OBVIOUS
<1>4. /\ n \in Nat /\ l \in Nat /\ DOMAIN q = 1 .. n /\ DOMAIN b = 1 .. l /\ r \in Seq(Messages)
      /\ Len(r) = n + l /\ \A i \in 1 .. n + l : r[i] = IF i <= n THEN q[i] ELSE b[i - n]
  BY <1>1, <1>2, <1>3, ConcatProperties, LenProperties
<1>5. DOMAIN r = 1 .. n + l
  BY <1>4, LenProperties
<1>6. \A i \in 1 .. n : r[i] = q[i]
  BY <1>4
<1>7. \A i \in 1 .. l : r[n + i] = b[i]
  <2> SUFFICES ASSUME NEW i \in 1 .. l PROVE r[n + i] = b[i]
    OBVIOUS
  <2>1. n + i \in 1 .. n + l /\ ~(n + i <= n) /\ (n + i) - n = i
    BY <1>4
  <2>2. QED
    BY <2>1, <1>4
<1>8. QED
  BY <1>1, <1>2, <1>3, <1>4, <1>5, <1>6, <1>7 DEF Follows

\* What one message becomes at the end of an inbox.
LEMMA AppendedFollows ==
  ASSUME NEW q \in Seq(Messages), NEW m \in Messages
  PROVE  Follows(q, <<m>>, Append(q, m)) /\ <<m>> \in Seq(Messages)
<1>1. PICK r : r = Append(q, m)
  OBVIOUS
<1>2. PICK n : n = Len(q)
  OBVIOUS
<1>3. PICK b : b = <<m>>
  OBVIOUS
<1>4. /\ n \in Nat /\ DOMAIN q = 1 .. n /\ r \in Seq(Messages) /\ Len(r) = n + 1
      /\ r[n + 1] = m /\ \A i \in 1 .. n : r[i] = q[i]
  BY <1>1, <1>2, AppendProperties, LenProperties
<1>5. DOMAIN r = 1 .. n + 1
  BY <1>4, LenProperties
<1>6. b \in Seq(Messages) /\ Len(b) = 1 /\ DOMAIN b = 1 .. 1 /\ b[1] = m
  BY <1>3
<1>7. \A i \in 1 .. 1 : r[n + i] = b[i]
  BY <1>4, <1>6
<1>8. QED
  BY <1>1, <1>2, <1>3, <1>4, <1>5, <1>6, <1>7 DEF Follows

\* What holds of an inbox with more messages behind.
LEMMA Grows ==
  ASSUME NEW q \in Seq(Messages), NEW b \in Seq(Messages), NEW r, Follows(q, b, r)
  PROVE  Grown(q, b, r)
<1>1. PICK n : n = Len(q)
  OBVIOUS
<1>2. PICK l : l = Len(b)
  OBVIOUS
<1>3. /\ n \in Nat /\ l \in Nat /\ DOMAIN q = 1 .. n /\ DOMAIN b = 1 .. l
      /\ r \in Seq(Messages) /\ DOMAIN r = 1 .. n + l
      /\ \A i \in 1 .. n : r[i] = q[i]
      /\ \A i \in 1 .. l : r[n + i] = b[i]
  BY <1>1, <1>2 DEF Follows
<1>4. /\ \A k \in DOMAIN q : k \in DOMAIN r /\ r[k] = q[k]
      /\ \A k \in DOMAIN b : n + k \in DOMAIN r /\ r[n + k] = b[k]
      /\ \A k \in DOMAIN r : k \in DOMAIN q \/ (k - n \in DOMAIN b /\ r[k] = b[k - n])
      /\ \A k \in DOMAIN b : \A j \in DOMAIN r : j > n + k => j - n \in DOMAIN b /\ j - n > k /\ r[j] = b[j - n]
  <2>1. \A k \in 1 .. n : k \in 1 .. n + l
    BY <1>3
  <2>2. \A k \in 1 .. l : n + k \in 1 .. n + l
    BY <1>3
  <2>3. \A k \in 1 .. n + l : k \in 1 .. n \/ (k - n \in 1 .. l /\ n + (k - n) = k)
    BY <1>3
  <2>4. \A k \in 1 .. l, j \in 1 .. n + l : j > n + k => j - n \in 1 .. l /\ j - n > k /\ n + (j - n) = j
    BY <1>3
  <2>5. QED
    BY <1>3, <2>1, <2>2, <2>3, <2>4
<1>5. \A k \in DOMAIN r : (k \in DOMAIN q /\ r[k] = q[k]) \/ \E j \in DOMAIN b : r[k] = b[j]
  BY <1>4
<1>6. q = <<>> \/ (r # <<>> /\ Head(r) = Head(q))
  <2> SUFFICES ASSUME q # <<>> PROVE r # <<>> /\ Head(r) = Head(q)
    OBVIOUS
  <2>1. n # 0
    BY <1>1, EmptySeq
  <2>2. 1 \in 1 .. n /\ 1 \in 1 .. n + l
    BY <2>1, <1>3
  <2>3. r # <<>> /\ r[1] = q[1]
    BY <2>2, <1>3
  <2>4. QED
    BY <2>3, <1>3
<1>7. q # <<>> \/ r = b
  <2> SUFFICES ASSUME q = <<>> PROVE r = b
    OBVIOUS
  <2>1. n = 0
    BY <1>1
  <2>2. DOMAIN r = 1 .. l /\ \A i \in 1 .. l : r[i] = b[i]
    BY <2>1, <1>3
  <2>3. Len(r) = l
    BY <2>2, <1>3, LenProperties
  <2>4. QED
    BY <2>2, <2>3, <1>2, <1>3, SeqEqual
<1>8. ASSUME NEW i, HasAdd(q, i) \/ HasAdd(b, i) PROVE HasAdd(r, i)
  BY <1>4, <1>8 DEF HasAdd
<1>9. NoReset(q) /\ NoReset(b) => NoReset(r)
  BY <1>5 DEF NoReset
<1>10. NoClear(q) /\ NoClear(b) => NoClear(r)
  BY <1>5 DEF NoClear
<1>11. ASSUME NEW i, Told(b, i) PROVE Told(r, i)
  BY <1>4, <1>11 DEF Told
<1>12. ASSUME NEW i, Told(q, i), NoReset(b) PROVE Told(r, i)
  <2>1. PICK k \in DOMAIN q : Adds(q[k], i) /\ \A j \in DOMAIN q : j > k => ~Resets(q[j])
    BY <1>12 DEF Told
  <2>2. \A j \in DOMAIN r : j > k => ~Resets(r[j])
    BY <2>1, <1>5, <1>12 DEF NoReset
  <2>3. QED
    BY <2>1, <2>2, <1>4 DEF Told
<1>13. ASSUME SelfTold(b) PROVE SelfTold(r)
  BY <1>4, <1>13 DEF SelfTold
<1>14. ASSUME SelfTold(q), NoClear(b) PROVE SelfTold(r)
  <2>1. PICK k \in DOMAIN q :
          q[k].header = "player" /\ \A j \in DOMAIN q : j > k => q[j].header # "clear_players"
    BY <1>14 DEF SelfTold
  <2>2. \A j \in DOMAIN r : j > k => r[j].header # "clear_players"
    BY <2>1, <1>5, <1>14 DEF NoClear
  <2>3. QED
    BY <2>1, <2>2, <1>4 DEF SelfTold
<1>15. QED
  BY <1>3, <1>5, <1>6, <1>7, <1>8, <1>9, <1>10, <1>11, <1>12, <1>13, <1>14 DEF Grown

-----------------------------------------------------------------------------
(* What a message changes *)

\* What holds of a device when messages are put behind those in its inbox that are true.
LEMMA MoreIsSound ==
  ASSUME NEW x, NEW q \in Seq(Messages), NEW c, NEW t, NEW ns, NEW h, NEW tab, NEW n,
         NEW b \in Seq(Messages), NEW r, Grown(q, b, r),
         Sound(x, q, c, t, ns, h, tab, n),
         \A k \in DOMAIN b : Letter(b[k], x, c, h, tab, n)
  PROVE  Sound(x, r, c, t, ns, h, tab, n) /\ (Late(r) <=> Late(q))
<1>1. \A k \in DOMAIN b : b[k].header # "player_left"
  BY DEF Letter
<1>2. Late(q) => Late(r) /\ Head(r) = Head(q)
  BY DEF Grown, Late
<1>3. Late(r) => Late(q)
  <2> SUFFICES ASSUME Late(r), ~Late(q) PROVE FALSE
    OBVIOUS
  <2>1. q = <<>> /\ r = b
    BY DEF Late, Grown
  <2>2. b # <<>> /\ Head(b).header = "player_left"
    BY <2>1 DEF Late
  <2>3. Head(b) = b[1] /\ 1 \in DOMAIN b
    BY <2>2, DropFirst
  <2>4. QED
    BY <2>2, <2>3, <1>1
<1>4. \A k \in DOMAIN r : (k = 1 /\ r[k].header = "player_left") \/ Letter(r[k], x, c, h, tab, n)
  <2> SUFFICES ASSUME NEW k \in DOMAIN r
               PROVE  (k = 1 /\ r[k].header = "player_left") \/ Letter(r[k], x, c, h, tab, n)
    OBVIOUS
  <2>1. (k \in DOMAIN q /\ r[k] = q[k]) \/ \E j \in DOMAIN b : r[k] = b[j]
    BY DEF Grown
  <2>2. QED
    BY <2>1 DEF Sound
<1>5. (x = h => ~c) /\ (IF Late(q) THEN StillKnows(Head(q).name, t, ns, tab, n)
                        ELSE IF x = h THEN Whole(t, tab, n) ELSE DOMAIN t \subseteq 1 .. n)
  BY DEF Sound
<1>6. QED
  BY <1>2, <1>3, <1>4, <1>5 DEF Sound

\* What a device will know it still knows with more messages that take nothing back.
LEMMA MoreIsSettled ==
  ASSUME NEW x, NEW q, NEW c, NEW p, NEW t, NEW ns, NEW h, NEW tab, NEW n,
         NEW b, NEW r, Grown(q, b, r), NoReset(b),
         Settled(x, q, c, p, t, ns, h, tab, n)
  PROVE  Settled(x, r, c, p, t, ns, h, tab, n)
<1>1. NoClear(b)
  BY DEF NoReset, NoClear, Resets
<1>2. WillBeNamed(r, ns, tab, n)
  BY DEF Settled, WillBeNamed, Grown
<1>3. ASSUME x # h PROVE WillBeWhole(r, t, tab, n)
  BY <1>3 DEF Settled, WillBeWhole, Grown
<1>4. ASSUME x # h PROVE WillBeNumbered(r, c, p, x, tab, n)
  BY <1>4, <1>1 DEF Settled, WillBeNumbered, Grown
<1>5. QED
  BY <1>2, <1>3, <1>4 DEF Settled

\* A batch that tells everything.
Full(b, x, c, h, tab, n) ==
  /\ b \in Seq(Messages) /\ \A k \in DOMAIN b : Letter(b[k], x, c, h, tab, n)
  /\ \A i \in 1 .. n : Told(b, i)
  /\ x # h => SelfTold(b)

\* Whatever a device has, a batch settles it.
LEMMA BatchSettles ==
  ASSUME NEW x, NEW q, NEW c, NEW p, NEW t, NEW ns, NEW h, NEW tab, NEW n \in Nat,
         NEW b, NEW r, Grown(q, b, r), Full(b, x, c, h, tab, n)
  PROVE  Settled(x, r, c, p, t, ns, h, tab, n)
<1>1. \A i \in 1 .. n : Told(r, i)
  BY DEF Full, Grown
<1>2. \A i \in 1 .. n : HasAdd(r, i)
  BY <1>1 DEF Told, HasAdd
<1>3. \A i \in 2 .. n : i \in 1 .. n
  OBVIOUS
<1>4. WillBeNamed(r, ns, tab, n)
  BY <1>2, <1>3 DEF WillBeNamed
<1>5. WillBeWhole(r, t, tab, n)
  BY <1>1 DEF WillBeWhole
<1>6. x # h => WillBeNumbered(r, c, p, x, tab, n)
  BY DEF Full, Grown, WillBeNumbered
<1>7. QED
  BY <1>4, <1>5, <1>6 DEF Settled

\* The messages behind the first one are letters.
LEMMA TailIsSound ==
  ASSUME NEW x, NEW q \in Seq(Messages), NEW c, NEW t, NEW ns, NEW h, NEW tab, NEW n,
         NEW r, r = Tail(q), q # <<>>, Sound(x, q, c, t, ns, h, tab, n)
  PROVE  /\ \A k \in DOMAIN r : Letter(r[k], x, c, h, tab, n)
         /\ ~Late(r) /\ (x = h => ~c) /\ r \in Seq(Messages)
         /\ q[1].header # "player_left" => ~Late(q) /\ Letter(q[1], x, c, h, tab, n)
         /\ q[1].header = "player_left" => StillKnows(q[1].name, t, ns, tab, n)
<1>1. Head(q) = q[1] /\ 1 \in DOMAIN q /\ Dropped(q, r)
  BY DropFirst
<1>2. \A k \in DOMAIN r : Letter(r[k], x, c, h, tab, n)
  BY <1>1 DEF Dropped, Sound
<1>3. ~Late(r)
  <2> SUFFICES ASSUME Late(r) PROVE FALSE
    OBVIOUS
  <2>1. r \in Seq(Messages) /\ r # <<>>
    BY <1>1 DEF Dropped, Late
  <2>2. Head(r) = r[1] /\ 1 \in DOMAIN r
    BY <2>1, DropFirst
  <2>3. QED
    BY <2>2, <1>2 DEF Late, Letter
<1>4. QED
  BY <1>1, <1>2, <1>3 DEF Sound, Late, Dropped

\* What is left of a device's future when it handles a message that tells it nothing:
\* a start, a join, or what the host ignores.
LEMMA SkipsLetter ==
  ASSUME NEW x, NEW q \in Seq(Messages), NEW c, NEW p, NEW t, NEW ns, NEW h, NEW tab, NEW n,
         NEW r, r = Tail(q), q # <<>>, Sound(x, q, c, t, ns, h, tab, n),
         q[1].header \in {"start_game", "joined"} \/ (q[1].header = "clear_players" /\ x = h)
  PROVE  /\ Sound(x, r, c, t, ns, h, tab, n)
         /\ Settled(x, q, c, p, t, ns, h, tab, n) => Settled(x, r, c, p, t, ns, h, tab, n)
<1>1. Dropped(q, r)
  BY DropFirst
<1>2. q[1].header # "player_left" /\ q[1].header # "add_player" /\ q[1].header # "player"
  OBVIOUS
<1>3. Sound(x, r, c, t, ns, h, tab, n)
  <2>1. /\ \A k \in DOMAIN r : Letter(r[k], x, c, h, tab, n)
        /\ ~Late(r) /\ (x = h => ~c) /\ ~Late(q)
    BY <1>2, TailIsSound
  <2>2. IF x = h THEN Whole(t, tab, n) ELSE DOMAIN t \subseteq 1 .. n
    BY <2>1 DEF Sound
  <2>3. QED
    BY <2>1, <2>2 DEF Sound
<1>4. ASSUME Settled(x, q, c, p, t, ns, h, tab, n) PROVE Settled(x, r, c, p, t, ns, h, tab, n)
  <2>1. WillBeNamed(r, ns, tab, n)
    BY <1>1, <1>2, <1>4 DEF Settled, WillBeNamed, Dropped, Adds
  <2>2. ASSUME x # h PROVE WillBeWhole(r, t, tab, n)
    BY <1>1, <1>2, <1>4, <2>2 DEF Settled, WillBeWhole, Dropped, Adds
  <2>3. ASSUME x # h PROVE WillBeNumbered(r, c, p, x, tab, n)
    BY <1>1, <1>2, <1>4, <2>3 DEF Settled, WillBeNumbered, Dropped
  <2>4. QED
    BY <2>1, <2>2, <2>3 DEF Settled
<1>5. QED
  BY <1>3, <1>4

\* A client is told its number: the rest of the table comes behind.
LEMMA HearsNumber ==
  ASSUME NEW x, NEW q \in Seq(Messages), NEW c, NEW p, NEW t, NEW ns, NEW h, NEW tab, NEW n,
         NEW r, r = Tail(q), q # <<>>, Sound(x, q, c, t, ns, h, tab, n), q[1].header = "player",
         NEW u, DOMAIN u = {q[1].idx}
  PROVE  /\ x # h /\ Sound(x, r, TRUE, u, ns, h, tab, n)
         /\ Settled(x, q, c, p, t, ns, h, tab, n) => Settled(x, r, TRUE, q[1].idx, u, ns, h, tab, n)
<1>1. Dropped(q, r)
  BY DropFirst
<1>2. /\ \A k \in DOMAIN r : Letter(r[k], x, c, h, tab, n)
      /\ ~Late(r) /\ Letter(q[1], x, c, h, tab, n)
  BY TailIsSound
<1>3. x # h /\ q[1].idx \in 1 .. n /\ tab[q[1].idx] = x
  BY <1>2 DEF Letter
<1>4. Sound(x, r, TRUE, u, ns, h, tab, n)
  <2>1. \A k \in DOMAIN r : Letter(r[k], x, TRUE, h, tab, n)
    BY <1>2 DEF Letter
  <2>2. QED
    BY <2>1, <1>2, <1>3 DEF Sound
<1>5. ASSUME Settled(x, q, c, p, t, ns, h, tab, n)
      PROVE  Settled(x, r, TRUE, q[1].idx, u, ns, h, tab, n)
  <2>1. WillBeNamed(r, ns, tab, n)
    BY <1>1, <1>5 DEF Settled, WillBeNamed, Dropped, Adds
  <2>2. WillBeWhole(r, u, tab, n)
    BY <1>1, <1>3, <1>5 DEF Settled, WillBeWhole, Dropped, Adds, Resets
  <2>3. WillBeNumbered(r, TRUE, q[1].idx, x, tab, n)
    BY <1>1, <1>3, <1>5 DEF Settled, WillBeNumbered, Dropped
  <2>4. QED
    BY <2>1, <2>2, <2>3 DEF Settled
<1>6. QED
  BY <1>3, <1>4, <1>5

\* A client, or one that is about to be told its number, clears its table: the rest of
\* the batch comes behind.
LEMMA HearsClear ==
  ASSUME NEW x, NEW q \in Seq(Messages), NEW c, NEW p, NEW t, NEW ns, NEW h, NEW tab, NEW n,
         NEW r, r = Tail(q), q # <<>>, Sound(x, q, c, t, ns, h, tab, n),
         q[1].header = "clear_players", x # h,
         NEW u, NEW v, DOMAIN u \subseteq DOMAIN t
  PROVE  /\ Sound(x, r, c, u, ns, h, tab, n)
         /\ Settled(x, q, c, p, t, ns, h, tab, n) => Settled(x, r, c, v, u, ns, h, tab, n)
<1>1. Dropped(q, r) /\ 1 \in DOMAIN q
  BY DropFirst
<1>2. /\ \A k \in DOMAIN r : Letter(r[k], x, c, h, tab, n)
      /\ ~Late(r) /\ ~Late(q)
  BY TailIsSound
<1>3. Sound(x, r, c, u, ns, h, tab, n)
  BY <1>2 DEF Sound
<1>4. ASSUME Settled(x, q, c, p, t, ns, h, tab, n)
      PROVE  Settled(x, r, c, v, u, ns, h, tab, n)
  <2>1. WillBeNamed(r, ns, tab, n)
    BY <1>1, <1>4 DEF Settled, WillBeNamed, Dropped, Adds
  <2>2. WillBeWhole(r, u, tab, n)
    BY <1>1, <1>4 DEF Settled, WillBeWhole, Dropped, Adds, Resets
  <2>3. WillBeNumbered(r, c, v, x, tab, n)
    BY <1>1, <1>4 DEF Settled, WillBeNumbered, Dropped, NoClear
  <2>4. QED
    BY <2>1, <2>2, <2>3 DEF Settled
<1>5. QED
  BY <1>3, <1>4

\* A device is told one player.
LEMMA HearsAdd ==
  ASSUME NEW x, NEW q \in Seq(Messages), NEW c, NEW p, NEW t, NEW ns, NEW h, NEW tab, NEW n,
         NEW r, r = Tail(q), q # <<>>, Sound(x, q, c, t, ns, h, tab, n),
         q[1].header = "add_player",
         WaitForPlayersAssumption, NEW S \in SUBSET Devices, IsTab(tab, n, h, S)
  PROVE  LET u == Assign(t, q[1].idx, q[1].name)
             w == Assign(ns, q[1].name, q[1].idx)
         IN  /\ Sound(x, r, c, u, w, h, tab, n)
             /\ Settled(x, q, c, p, t, ns, h, tab, n) => Settled(x, r, c, p, u, w, h, tab, n)
<1>1. Dropped(q, r)
  BY DropFirst
<1>2. /\ \A k \in DOMAIN r : Letter(r[k], x, c, h, tab, n)
      /\ ~Late(r) /\ (x = h => ~c) /\ ~Late(q) /\ Letter(q[1], x, c, h, tab, n)
  BY TailIsSound
<1>3. q[1].idx \in 1 .. n /\ Right(q[1].idx, q[1].name, tab)
  BY <1>2 DEF Letter
<1>4. PICK u : u = Assign(t, q[1].idx, q[1].name)
  OBVIOUS
<1>5. PICK w : w = Assign(ns, q[1].name, q[1].idx)
  OBVIOUS
<1>6. /\ DOMAIN u = DOMAIN t \cup {q[1].idx} /\ u[q[1].idx] = q[1].name
      /\ \A i \in DOMAIN t : i # q[1].idx => u[i] = t[i]
  BY <1>4 DEF Assign
<1>7. /\ DOMAIN w = DOMAIN ns \cup {q[1].name} /\ w[q[1].name] = q[1].idx
      /\ \A i \in DOMAIN ns : i # q[1].name => w[i] = ns[i]
  BY <1>5 DEF Assign
<1>8. \A i \in DOMAIN t : i \in 1 .. n /\ Right(i, t[i], tab) => Right(i, u[i], tab)
  BY <1>3, <1>6
<1>9. Sound(x, r, c, u, w, h, tab, n)
  <2>1. ASSUME x = h PROVE Whole(u, tab, n)
    <3>1. Whole(t, tab, n)
      BY <2>1, <1>2 DEF Sound
    <3>2. QED
      BY <3>1, <1>3, <1>6, <1>8 DEF Whole
  <2>2. ASSUME x # h PROVE DOMAIN u \subseteq 1 .. n
    BY <2>2, <1>2, <1>3, <1>6 DEF Sound
  <2>3. QED
    BY <1>2, <2>1, <2>2 DEF Sound
<1>10. ASSUME Settled(x, q, c, p, t, ns, h, tab, n)
       PROVE  Settled(x, r, c, p, u, w, h, tab, n)
  <2>1. WillBeNamed(r, w, tab, n)
    <3> SUFFICES ASSUME NEW i \in 2 .. n, ~HasAdd(r, i)
                 PROVE  tab[i] \in DOMAIN w /\ w[tab[i]] = i
      BY DEF WillBeNamed
    <3>1. i # 1 /\ i \in 1 .. n /\ n \in Nat
      BY DEF IsTab
    <3>2. Adds(q[1], i) \/ (tab[i] \in DOMAIN ns /\ ns[tab[i]] = i)
      BY <1>10, <1>1 DEF Settled, WillBeNamed, Dropped
    <3>3. CASE q[1].idx = i
      <4>1. q[1].name = tab[i]
        BY <3>1, <3>3, <1>3 DEF Right
      <4>2. QED
        BY <4>1, <3>3, <1>7
    <3>4. CASE q[1].idx # i
      <4>1. tab[i] \in DOMAIN ns /\ ns[tab[i]] = i
        BY <3>2, <3>4 DEF Adds
      <4>2. tab[i] \in Devices
        BY <3>1 DEF IsTab
      <4>3. q[1].name # tab[i]
        <5>1. CASE q[1].idx = 1
          <6>1. q[1].name \in {You, HostName}
            BY <5>1, <1>3 DEF Right
          <6>2. QED
            BY <6>1, <4>2 DEF WaitForPlayersAssumption
        <5>2. CASE q[1].idx # 1
          <6>1. q[1].name = tab[q[1].idx]
            BY <5>2, <1>3 DEF Right
          <6>2. QED
            BY <6>1, <3>1, <3>4, <1>3 DEF IsTab
        <5>3. QED
          BY <5>1, <5>2
      <4>4. QED
        BY <4>1, <4>3, <1>7
    <3>5. QED
      BY <3>3, <3>4
  <2>2. ASSUME x # h PROVE WillBeWhole(r, u, tab, n)
    <3> SUFFICES ASSUME NEW i \in 1 .. n, ~Told(r, i)
                 PROVE  NoReset(r) /\ i \in DOMAIN u /\ Right(i, u[i], tab)
      BY DEF WillBeWhole
    <3>1. Told(q, i) \/ (NoReset(q) /\ i \in DOMAIN t /\ Right(i, t[i], tab))
      BY <1>10, <2>2 DEF Settled, WillBeWhole
    <3>2. CASE Told(q, i)
      <4>1. NoReset(r) /\ q[1].idx = i
        BY <3>2, <1>1 DEF Dropped, Adds
      <4>2. QED
        BY <4>1, <1>3, <1>6
    <3>3. CASE NoReset(q) /\ i \in DOMAIN t /\ Right(i, t[i], tab)
      BY <3>3, <1>1, <1>6, <1>8 DEF Dropped
    <3>4. QED
      BY <3>1, <3>2, <3>3
  <2>3. ASSUME x # h PROVE WillBeNumbered(r, c, p, x, tab, n)
    BY <1>1, <1>10, <2>3 DEF Settled, WillBeNumbered, Dropped
  <2>4. QED
    BY <2>1, <2>2, <2>3 DEF Settled
<1>11. QED
  BY <1>4, <1>5, <1>9, <1>10

\* What becomes of a device that hears that a player has left.
Heard(x, q, c, p, t, ns, h, tab, n, name) ==
  LET u == table_remove(t, ns[name], n + 1)
      w == Restrict(ns, DOMAIN ns \ {name})
      r == Tail(q)
  IN  /\ Sound(x, r, c, u, w, h, tab, n) /\ Whole(u, tab, n)
      /\ Settled(x, q, c, p, t, ns, h, tab, n) => Settled(x, r, c, p, u, w, h, tab, n)

\* Its table is whole.
LEMMA HearsLeave ==
  ASSUME NEW x, NEW q \in Seq(Messages), NEW c, NEW p, NEW t, NEW ns, NEW h, NEW tab, NEW n,
         q # <<>>, Sound(x, q, c, t, ns, h, tab, n), q[1].header = "player_left"
  PROVE  Heard(x, q, c, p, t, ns, h, tab, n, q[1].name)
<1> DEFINE r == Tail(q)
           u == table_remove(t, ns[q[1].name], n + 1)
           w == Restrict(ns, DOMAIN ns \ {q[1].name})
<1> HIDE DEF r, u, w
<1>1. Dropped(q, r)
  BY DropFirst DEF r
<1>2. /\ \A k \in DOMAIN r : Letter(r[k], x, c, h, tab, n)
      /\ ~Late(r) /\ (x = h => ~c) /\ StillKnows(q[1].name, t, ns, tab, n)
  BY TailIsSound DEF r
<1>3. Whole(u, tab, n)
  BY <1>2 DEF StillKnows, u
<1>4. Sound(x, r, c, u, w, h, tab, n)
  BY <1>2, <1>3 DEF Sound, Whole
<1>5. ASSUME Settled(x, q, c, p, t, ns, h, tab, n)
      PROVE  Settled(x, r, c, p, u, w, h, tab, n)
  <2>1. WillBeNamed(r, w, tab, n)
    <3> SUFFICES ASSUME NEW i \in 2 .. n, ~HasAdd(r, i)
                 PROVE  tab[i] \in DOMAIN w /\ w[tab[i]] = i
      BY DEF WillBeNamed
    <3>1. tab[i] \in DOMAIN ns /\ ns[tab[i]] = i
      BY <1>5, <1>1 DEF Settled, WillBeNamed, Dropped, Adds
    <3>2. i \in 1 .. n
      OBVIOUS
    <3>3. tab[i] # q[1].name
      BY <3>2, <1>2 DEF StillKnows
    <3>4. QED
      BY <3>1, <3>3 DEF Restrict, w
  <2>2. ASSUME x # h PROVE WillBeWhole(r, u, tab, n)
    BY <1>1, <1>3, <1>5, <2>2 DEF Settled, WillBeWhole, Dropped, Adds, Whole
  <2>3. ASSUME x # h PROVE WillBeNumbered(r, c, p, x, tab, n)
    BY <1>1, <1>5, <2>3 DEF Settled, WillBeNumbered, Dropped
  <2>4. QED
    BY <2>1, <2>2, <2>3 DEF Settled
<1>6. QED
  BY <1>3, <1>4, <1>5 DEF Heard, r, u, w

-----------------------------------------------------------------------------
(* Numbers and tables *)

\* How many indices lie before one of them.
LEMMA IndicesBefore ==
  ASSUME NEW n \in Nat, NEW i \in 1 .. n
  PROVE  Cardinality({j \in 1 .. n : j < i}) = i - 1
<1>1. {j \in 1 .. n : j < i} = 1 .. i - 1
  OBVIOUS
<1>2. Cardinality(1 .. i - 1) = i - 1
  <2>1. 1 \in Int /\ i - 1 \in Int /\ (1 > i - 1 => i - 1 = 0) /\ (i - 1) - 1 + 1 = i - 1
    OBVIOUS
  <2>2. QED
    BY <2>1, FS_Interval
<1>3. QED
  BY <1>1, <1>2

\* The first n indices in their order.
LEMMA InOrderAll ==
  ASSUME NEW n \in Nat
  PROVE  InOrder(1 .. n) = [k \in 1 .. n |-> k]
<1>1. Cardinality(1 .. n) = n
  <2>1. 1 \in Int /\ n \in Int /\ (1 > n => n = 0) /\ n - 1 + 1 = n
    OBVIOUS
  <2>2. QED
    BY <2>1, FS_Interval
<1>2. ASSUME NEW k \in 1 .. n
      PROVE  (CHOOSE i \in 1 .. n : Cardinality({j \in 1 .. n : j < i}) = k - 1) = k
  <2>1. Cardinality({j \in 1 .. n : j < k}) = k - 1
    BY IndicesBefore
  <2>2. ASSUME NEW i \in 1 .. n, Cardinality({j \in 1 .. n : j < i}) = k - 1 PROVE i = k
    <3>1. i - 1 = k - 1
      BY <2>2, IndicesBefore
    <3>2. QED
      BY <3>1
  <2>3. QED
    BY <2>1, <2>2
<1>3. InOrder(1 .. n) = [k \in 1 .. n |->
        CHOOSE i \in 1 .. n : Cardinality({j \in 1 .. n : j < i}) = k - 1]
  BY <1>1 DEF InOrder
<1>4. QED
  BY <1>2, <1>3

\* One index, and none.
LEMMA InOrderFew ==
  /\ InOrder({}) = <<>>
  /\ \A i \in Nat : InOrder({i}) = <<i>>
<1>1. InOrder({}) = <<>>
  <2>1. Cardinality({}) = 0 /\ 1 .. 0 = {}
    BY FS_EmptySet
  <2>2. QED
    BY <2>1 DEF InOrder
<1>2. ASSUME NEW i \in Nat PROVE InOrder({i}) = <<i>>
  <2>1. Cardinality({i}) = 1 /\ Cardinality({}) = 0
    BY FS_Singleton, FS_EmptySet
  <2>2. {j \in {i} : j < i} = {}
    OBVIOUS
  <2>3. (CHOOSE l \in {i} : Cardinality({j \in {i} : j < l}) = 1 - 1) = i
    BY <2>1, <2>2
  <2>4. InOrder({i}) = [k \in 1 .. 1 |-> CHOOSE l \in {i} : Cardinality({j \in {i} : j < l}) = k - 1]
    BY <2>1 DEF InOrder
  <2>5. \A k \in 1 .. 1 : k = 1
    OBVIOUS
  <2>6. InOrder({i}) = [k \in 1 .. 1 |-> i]
    BY <2>3, <2>4, <2>5
  <2>7. QED
    BY <2>6
<1>3. QED
  BY <1>1, <1>2

\* A whole table has one border, and ipairs walks through all of it.
LEMMA WholeTable ==
  ASSUME NEW t, NEW tab, NEW n \in Nat \ {0}, DOMAIN t = 1 .. n
  PROVE  ipairs(t) = 1 .. n /\ Borders(t) = {n}
<1>1. ipairs(t) = 1 .. n
  BY DEF ipairs
<1>2. Borders(t) = {n}
  <2>1. 1 \in DOMAIN t
    OBVIOUS
  <2>2. \A i \in 1 .. n : i + 1 \notin 1 .. n <=> i = n
    OBVIOUS
  <2>3. n \in 1 .. n
    OBVIOUS
  <2>4. QED
    BY <2>1, <2>2, <2>3 DEF Borders
<1>3. QED
  BY <1>1, <1>2

\* There are as many numbers as devices.
LEMMA SizeOfTab ==
  ASSUME WaitForPlayersAssumption, NEW S \in SUBSET Devices, NEW tab, NEW n, NEW h, IsTab(tab, n, h, S)
  PROVE  n = Cardinality(S) /\ n <= Cardinality(Devices) /\ Cardinality(Devices) \in Nat
<1>1. n \in Nat /\ Cardinality(1 .. n) = n /\ IsFiniteSet(1 .. n)
  <2>1. n \in Nat
    BY DEF IsTab
  <2>2. 1 \in Int /\ n \in Int /\ (1 > n => n = 0) /\ n - 1 + 1 = n
    BY <2>1
  <2>3. QED
    BY <2>1, <2>2, FS_Interval
<1>2. ExistsBijection(1 .. n, S)
  <2>1. tab \in [1 .. n -> S] /\ (\A i, j \in 1 .. n : tab[i] = tab[j] => i = j)
        /\ \A x \in S : \E i \in 1 .. n : tab[i] = x
    BY DEF IsTab
  <2>2. tab \in Bijection(1 .. n, S)
    BY <2>1 DEF Bijection, Injection, Surjection, IsInjective
  <2>3. QED
    BY <2>2 DEF ExistsBijection
<1>3. Cardinality(S) = n
  BY <1>1, <1>2, FS_Bijection
<1>4. IsFiniteSet(Devices)
  BY DEF WaitForPlayersAssumption
<1>5. Cardinality(S) <= Cardinality(Devices) /\ Cardinality(Devices) \in Nat
  BY <1>4, FS_Subset, FS_CardinalityType
<1>6. QED
  BY <1>3, <1>5

\* One more device gets the next number.
Extended(tab, n, d) == [i \in 1 .. n + 1 |-> IF i = n + 1 THEN d ELSE tab[i]]

\* A table that grows by a device of its own stays a table.
LEMMA TabExtended ==
  ASSUME NEW S, NEW tab, NEW n, NEW h, IsTab(tab, n, h, S), NEW d, d \notin S
  PROVE  IsTab(Extended(tab, n, d), n + 1, h, S \cup {d})
<1>1. PICK u : u = Extended(tab, n, d)
  OBVIOUS
<1>2. /\ n \in Nat \ {0} /\ n + 1 \in Nat \ {0} /\ 1 # n + 1 /\ 1 \in 1 .. n + 1 /\ n + 1 \in 1 .. n + 1
      /\ \A i \in 1 .. n + 1 : i \in 1 .. n \/ i = n + 1
      /\ \A i \in 1 .. n : i \in 1 .. n + 1 /\ i # n + 1
  BY DEF IsTab
<1>3. u[n + 1] = d /\ (\A i \in 1 .. n : u[i] = tab[i])
  BY <1>1, <1>2 DEF Extended
<1>4. u \in [1 .. n + 1 -> S \cup {d}]
  BY <1>1, <1>2 DEF Extended, IsTab
<1>5. u[1] = h
  BY <1>1, <1>2 DEF Extended, IsTab
<1>6. ASSUME NEW i \in 1 .. n + 1, NEW j \in 1 .. n + 1, u[i] = u[j] PROVE i = j
  <2>1. CASE i \in 1 .. n /\ j \in 1 .. n
    BY <2>1, <1>3, <1>6 DEF IsTab
  <2>2. CASE i \in 1 .. n /\ j = n + 1
    BY <2>2, <1>3, <1>6 DEF IsTab
  <2>3. CASE i = n + 1 /\ j \in 1 .. n
    BY <2>3, <1>3, <1>6 DEF IsTab
  <2>4. QED
    BY <2>1, <2>2, <2>3, <1>2
<1>7. ASSUME NEW x \in S \cup {d} PROVE \E i \in 1 .. n + 1 : u[i] = x
  BY <1>2, <1>3 DEF IsTab
<1>8. QED
  BY <1>1, <1>2, <1>4, <1>5, <1>6, <1>7 DEF IsTab

\* The numbers behind that of a device that leaves move down.
Shortened(tab, n, p) == [i \in 1 .. n - 1 |-> IF i < p THEN tab[i] ELSE tab[i + 1]]

\* A table from which one goes that is not the first stays a table.
LEMMA TabShortened ==
  ASSUME NEW S, NEW tab, NEW n, NEW h, IsTab(tab, n, h, S), NEW p \in 2 .. n
  PROVE  IsTab(Shortened(tab, n, p), n - 1, h, S \ {tab[p]})
<1>1. PICK u : u = Shortened(tab, n, p)
  OBVIOUS
<1>2. PICK m : m = n - 1
  OBVIOUS
<1>3. n \in Nat /\ m \in Nat \ {0} /\ n = m + 1 /\ p \in 1 .. n /\ 1 \in 1 .. m /\ 1 < p
  BY <1>2 DEF IsTab
<1>4. \A i \in 1 .. m : u[i] = IF i < p THEN tab[i] ELSE tab[i + 1]
  BY <1>1, <1>2 DEF Shortened
<1>5. \A i \in 1 .. m : i \in 1 .. n /\ i + 1 \in 1 .. n
  BY <1>3
<1>6. ASSUME NEW i \in 1 .. m PROVE u[i] \in S \ {tab[p]}
  <2>1. CASE i < p
    <3>1. i # p
      BY <2>1, <1>3
    <3>2. QED
      BY <2>1, <3>1, <1>3, <1>4, <1>5 DEF IsTab
  <2>2. CASE ~(i < p)
    <3>1. i + 1 # p
      BY <2>2, <1>3
    <3>2. QED
      BY <2>2, <3>1, <1>3, <1>4, <1>5 DEF IsTab
  <2>3. QED
    BY <2>1, <2>2
<1>7. u \in [1 .. m -> S \ {tab[p]}]
  BY <1>1, <1>2, <1>6 DEF Shortened
<1>8. u[1] = h
  BY <1>3, <1>4 DEF IsTab
<1>9. ASSUME NEW i \in 1 .. m, NEW j \in 1 .. m, u[i] = u[j] PROVE i = j
  <2>1. \A k, l \in 1 .. n : tab[k] = tab[l] => k = l
    BY DEF IsTab
  <2>2. CASE i < p /\ j < p
    BY <2>1, <2>2, <1>4, <1>5, <1>9
  <2>3. CASE i < p /\ ~(j < p)
    <3>1. i = j + 1
      BY <2>1, <2>3, <1>4, <1>5, <1>9
    <3>2. QED
      BY <3>1, <2>3, <1>3
  <2>4. CASE ~(i < p) /\ j < p
    <3>1. i + 1 = j
      BY <2>1, <2>4, <1>4, <1>5, <1>9
    <3>2. QED
      BY <3>1, <2>4, <1>3
  <2>5. CASE ~(i < p) /\ ~(j < p)
    <3>1. i + 1 = j + 1
      BY <2>1, <2>5, <1>4, <1>5, <1>9
    <3>2. QED
      BY <3>1
  <2>6. QED
    BY <2>2, <2>3, <2>4, <2>5
<1>10. ASSUME NEW x \in S \ {tab[p]} PROVE \E i \in 1 .. m : u[i] = x
  <2>1. PICK k \in 1 .. n : tab[k] = x
    BY DEF IsTab
  <2>2. k # p
    BY <2>1
  <2>3. CASE k < p
    <3>1. k \in 1 .. m
      BY <2>3, <1>3
    <3>2. QED
      BY <3>1, <2>1, <2>3, <1>4
  <2>4. CASE ~(k < p)
    <3>1. PICK l : l = k - 1
      OBVIOUS
    <3>2. l \in 1 .. m /\ ~(l < p) /\ l + 1 = k
      BY <3>1, <2>2, <2>4, <1>3
    <3>3. QED
      BY <3>2, <2>1, <1>4
  <2>5. QED
    BY <2>3, <2>4
<1>11. QED
  BY <1>1, <1>2, <1>3, <1>7, <1>8, <1>9, <1>10 DEF IsTab

\* table.remove of a whole table leaves a whole one.
LEMMA RemoveFromWhole ==
  ASSUME NEW t, NEW tab, NEW n \in Nat, Whole(t, tab, n), NEW p \in 2 .. n,
         Cardinality(Devices) \in Nat, n <= Cardinality(Devices)
  PROVE  Whole(table_remove(t, p, n), Shortened(tab, n, p), n - 1)
<1>1. PICK u : u = table_remove(t, p, n)
  OBVIOUS
<1>2. PICK m : m = n - 1
  OBVIOUS
<1>3. n \in Nat /\ m \in Nat \ {0} /\ n = m + 1 /\ p \in 1 .. n /\ 1 \in 1 .. m /\ 1 < p /\ ~(p > n)
  BY <1>2
<1>4. PICK v : v = Shortened(tab, n, p)
  OBVIOUS
<1>5. \A i \in 1 .. m : v[i] = IF i < p THEN tab[i] ELSE tab[i + 1]
  BY <1>2, <1>4 DEF Shortened
<1>6. PICK z : z = Cardinality(Devices) + 1
  OBVIOUS
<1>7. z \in Nat /\ n <= z /\ Indices = 1 .. z
  BY <1>6 DEF Indices
<1>8. u = [i \in {j \in 1 .. z : j # n /\ (IF j \in p .. n - 1 THEN j + 1 ELSE j) \in 1 .. n}
             |-> t[IF i \in p .. n - 1 THEN i + 1 ELSE i]]
  BY <1>1, <1>3, <1>7 DEF table_remove, Whole
<1>9. {j \in 1 .. z : j # n /\ (IF j \in p .. n - 1 THEN j + 1 ELSE j) \in 1 .. n} = 1 .. m
  <2>1. ASSUME NEW j \in 1 .. z, j # n, (IF j \in p .. n - 1 THEN j + 1 ELSE j) \in 1 .. n
        PROVE  j \in 1 .. m
    BY <2>1, <1>3, <1>7
  <2>2. ASSUME NEW j \in 1 .. m
        PROVE  j \in 1 .. z /\ j # n /\ (IF j \in p .. n - 1 THEN j + 1 ELSE j) \in 1 .. n
    BY <1>3, <1>7
  <2>3. QED
    BY <2>1, <2>2
<1>10. DOMAIN u = 1 .. m /\ \A i \in 1 .. m : u[i] = t[IF i \in p .. n - 1 THEN i + 1 ELSE i]
  BY <1>8, <1>9
<1>11. ASSUME NEW i \in 1 .. m PROVE Right(i, u[i], v)
  <2>1. CASE i < p
    <3>1. i \notin p .. n - 1 /\ i \in 1 .. n
      BY <2>1, <1>3
    <3>2. u[i] = t[i] /\ v[i] = tab[i]
      BY <3>1, <2>1, <1>5, <1>10
    <3>3. Right(i, t[i], tab)
      BY <3>1 DEF Whole
    <3>4. QED
      BY <3>2, <3>3 DEF Right
  <2>2. CASE ~(i < p)
    <3>1. i \in p .. n - 1 /\ i # 1
      BY <2>2, <1>3
    <3>2. u[i] = t[i + 1] /\ v[i] = tab[i + 1]
      BY <3>1, <2>2, <1>5, <1>10
    <3>3. i + 1 \in 1 .. n /\ i + 1 # 1
      BY <1>3
    <3>4. Right(i + 1, t[i + 1], tab)
      BY <3>3 DEF Whole
    <3>5. QED
      BY <3>1, <3>2, <3>3, <3>4 DEF Right
  <2>3. QED
    BY <2>1, <2>2
<1>12. QED
  BY <1>1, <1>2, <1>4, <1>10, <1>11 DEF Whole

\* The first number that is free behind a whole table.
LEMMA NextNumber ==
  ASSUME NEW t, NEW n \in Nat, DOMAIN t = 1 .. n,
         Cardinality(Devices) \in Nat, n <= Cardinality(Devices)
  PROVE  get_vacant_player_spot(t) = n + 1
<1>1. PICK z : z = Cardinality(Devices) + 1
  OBVIOUS
<1>2. z \in Nat /\ n + 1 <= z /\ Indices = 1 .. z
  BY <1>1 DEF Indices
<1>3. PICK s : s = {i \in Indices : i \notin DOMAIN t}
  OBVIOUS
<1>4. n + 1 \in s /\ \A i \in s : n + 1 <= i /\ i \in Nat
  BY <1>2, <1>3
<1>5. \A x \in s : (\A y \in s : x <= y) => x = n + 1
  BY <1>4
<1>6. Min(s) = n + 1
  BY <1>4, <1>5 DEF Min
<1>7. QED
  BY <1>3, <1>6 DEF get_vacant_player_spot

-----------------------------------------------------------------------------
(* Batches *)

\* The kinds of letters.
LEMMA LettersAreMessages ==
  ASSUME NEW d \in Devices \cup {None}, NEW i \in Nat, NEW name \in Names, NEW header \in Headers
  PROVE  Msg(d, header, i, name) \in Messages
BY DEF Msg, Messages

\* One message is a batch.
LEMMA OneMessage ==
  ASSUME NEW m \in Messages
  PROVE  /\ <<m>> \in Seq(Messages) /\ \A k \in DOMAIN <<m>> : <<m>>[k] = m
         /\ \A i : Adds(m, i) => Told(<<m>>, i)
         /\ m.header = "player" => SelfTold(<<m>>)
         /\ ~Resets(m) => NoReset(<<m>>)
<1>1. PICK q : q = <<m>>
  OBVIOUS
<1>2. q \in Seq(Messages) /\ DOMAIN q = {1} /\ q[1] = m
  BY <1>1
<1>3. ~ (1 > 1)
  OBVIOUS
<1>4. ASSUME NEW i, Adds(m, i) PROVE Told(q, i)
  BY <1>2, <1>3, <1>4 DEF Told
<1>5. m.header = "player" => SelfTold(q)
  BY <1>2, <1>3 DEF SelfTold
<1>6. ~Resets(m) => NoReset(q)
  BY <1>2 DEF NoReset
<1>7. QED
  BY <1>1, <1>2, <1>4, <1>5, <1>6

\* All players of a table, one message each.
Adding(d, t, n) == [k \in 1 .. n |-> Msg(d, "add_player", k, t[k])]

\* What such messages are.
LEMMA AddingAll ==
  ASSUME NEW d \in Devices, NEW n \in Nat, NEW t, \A i \in 1 .. n : t[i] \in Names
  PROVE  LET q == Adding(d, t, n)
         IN  /\ q \in Seq(Messages) /\ NoReset(q) /\ NoClear(q)
             /\ \A k \in DOMAIN q : k \in 1 .. n /\ q[k] = Msg(d, "add_player", k, t[k])
             /\ \A i \in 1 .. n : Told(q, i)
<1>1. PICK q : q = Adding(d, t, n)
  OBVIOUS
<1>2. DOMAIN q = 1 .. n /\ \A k \in 1 .. n : q[k] = Msg(d, "add_player", k, t[k])
  BY <1>1 DEF Adding
<1>3. \A k \in 1 .. n : q[k] \in Messages
  <2> SUFFICES ASSUME NEW k \in 1 .. n PROVE q[k] \in Messages
    OBVIOUS
  <2>1. k \in Nat /\ t[k] \in Names /\ "add_player" \in Headers /\ d \in Devices \cup {None}
    BY DEF Headers
  <2>2. QED
    BY <2>1, <1>2, LettersAreMessages
<1>4. q \in Seq(Messages)
  <2>1. q \in [1 .. n -> Messages]
    BY <1>1, <1>2, <1>3 DEF Adding
  <2>2. QED
    BY <2>1, SeqDef
<1>5. \A k \in 1 .. n : q[k].header = "add_player" /\ q[k].idx = k
  BY <1>2 DEF Msg
<1>6. NoReset(q) /\ NoClear(q)
  BY <1>2, <1>5 DEF NoReset, NoClear, Resets
<1>7. \A i \in 1 .. n : Told(q, i)
  BY <1>2, <1>5, <1>6 DEF Told, Adds, NoReset
<1>8. QED
  BY <1>1, <1>2, <1>4, <1>6, <1>7

\* The batch after a leave tells a device its number, and all players.
LEMMA RenumberedIsFull ==
  ASSUME WaitForPlayersAssumption, NEW S \in SUBSET Devices, NEW tab, NEW n, NEW h,
         IsTab(tab, n, h, S), NEW t, Whole(t, tab, n), NEW d \in Devices, NEW e \in S, NEW c
  PROVE  Full(Renumbered(t, d, e), e, c, h, tab, n)
<1>1. n \in Nat \ {0} /\ DOMAIN t = 1 .. n
  BY DEF IsTab, Whole
<1>2. \A i \in 1 .. n : tab[i] \in Devices
  BY DEF IsTab
<1>3. \A i \in 1 .. n : Right(i, t[i], tab) /\ t[i] \in Names
  BY <1>2 DEF Whole, Right, Names
<1>4. PICK p \in 1 .. n : tab[p] = e
  BY DEF IsTab
<1>5. PICK A : A = Adding(d, t, n)
  OBVIOUS
<1>6. /\ A \in Seq(Messages) /\ NoReset(A) /\ NoClear(A)
      /\ \A k \in DOMAIN A : k \in 1 .. n /\ A[k] = Msg(d, "add_player", k, t[k])
      /\ \A i \in 1 .. n : Told(A, i)
  BY <1>1, <1>3, <1>5, AddingAll
<1>7. PICK m : m = Msg(d, "clear_players", 0, None)
  OBVIOUS
<1>8. m \in Messages /\ m.header = "clear_players"
  <2>1. d \in Devices \cup {None} /\ 0 \in Nat /\ None \in Names /\ "clear_players" \in Headers
    BY DEF Headers, Names
  <2>2. QED
    BY <2>1, <1>7, LettersAreMessages DEF Msg
<1>9. PICK M : M = <<m>>
  OBVIOUS
<1>10. M \in Seq(Messages) /\ \A k \in DOMAIN M : M[k] = m
  BY <1>8, <1>9, OneMessage
<1>11. PICK own : own = InOrder({i \in ipairs(t) : t[i] = e})
  OBVIOUS
<1>12. PICK O : O = [k \in DOMAIN own |-> Msg(d, "player", own[k], e)]
  OBVIOUS
<1>13. ipairs(t) = 1 .. n
  BY <1>1, WholeTable
<1>14. O \in Seq(Messages) /\ (e # h => SelfTold(O)) /\ \A k \in DOMAIN O : Letter(O[k], e, c, h, tab, n)
  <2>1. ASSUME NEW i \in 1 .. n, t[i] = e PROVE i = p /\ e # h
    <3>1. i # 1
      BY <2>1, <1>3 DEF Right, WaitForPlayersAssumption
    <3>2. tab[i] = e
      BY <2>1, <3>1, <1>3 DEF Right
    <3>3. 1 \in 1 .. n /\ tab[1] = h
      BY <1>1 DEF IsTab
    <3>4. QED
      BY <3>1, <3>2, <3>3, <1>4 DEF IsTab
  <2>2. CASE e = h
    <3>1. {i \in ipairs(t) : t[i] = e} = {}
      BY <2>1, <2>2, <1>13
    <3>2. own = <<>>
      BY <3>1, <1>11, InOrderFew
    <3>3. O = <<>>
      BY <3>2, <1>12
    <3>4. QED
      BY <3>3, <2>2
  <2>3. CASE e # h
    <3>1. p # 1
      BY <2>3, <1>4 DEF IsTab
    <3>2. t[p] = e
      BY <3>1, <1>3, <1>4 DEF Right
    <3>3. {i \in ipairs(t) : t[i] = e} = {p}
      BY <2>1, <3>2, <1>13
    <3>4. own = <<p>>
      BY <3>3, <1>11, InOrderFew
    <3>5. PICK s : s = Msg(d, "player", p, e)
      OBVIOUS
    <3>6. s \in Messages /\ s.header = "player" /\ s.idx = p
      <4>1. d \in Devices \cup {None} /\ p \in Nat /\ e \in Names /\ "player" \in Headers
        BY DEF Headers, Names
      <4>2. QED
        BY <4>1, <3>5, LettersAreMessages DEF Msg
    <3>7. O = <<s>>
      BY <3>4, <3>5, <1>12
    <3>8. O \in Seq(Messages) /\ SelfTold(O) /\ \A k \in DOMAIN O : O[k] = s
      BY <3>6, <3>7, OneMessage
    <3>9. Letter(s, e, c, h, tab, n)
      BY <3>6, <2>3, <1>4 DEF Letter
    <3>10. QED
      BY <3>8, <3>9
  <2>4. QED
    BY <2>2, <2>3
<1>15. PICK P : P = M \o O
  OBVIOUS
<1>16. Grown(M, O, P)
  BY <1>10, <1>14, <1>15, Concatenated, Grows
<1>17. P \in Seq(Messages)
  BY <1>16 DEF Grown
<1>18. PICK B : B = P \o A
  OBVIOUS
<1>19. Grown(P, A, B)
  BY <1>6, <1>17, <1>18, Concatenated, Grows
<1>20. \A k \in DOMAIN P : Letter(P[k], e, c, h, tab, n)
  <2>1. Letter(m, e, c, h, tab, n)
    BY <1>8 DEF Letter
  <2>2. QED
    BY <2>1, <1>10, <1>14, <1>16 DEF Grown
<1>21. \A k \in DOMAIN A : Letter(A[k], e, c, h, tab, n)
  BY <1>3, <1>6 DEF Letter, Msg
<1>22. \A k \in DOMAIN B : Letter(B[k], e, c, h, tab, n)
  BY <1>19, <1>20, <1>21 DEF Grown
<1>23. \A i \in 1 .. n : Told(B, i)
  BY <1>6, <1>19 DEF Grown
<1>24. e # h => SelfTold(B)
  BY <1>6, <1>14, <1>16, <1>19 DEF Grown
<1>25. Full(B, e, c, h, tab, n)
  BY <1>19, <1>22, <1>23, <1>24 DEF Full, Grown
<1>26. B = Renumbered(t, d, e)
  <2>1. InOrder(1 .. n) = [k \in 1 .. n |-> k]
    BY <1>1, InOrderAll
  <2>2. PICK is : is = InOrder(ipairs(t))
    OBVIOUS
  <2>3. DOMAIN is = 1 .. n /\ \A k \in 1 .. n : is[k] = k
    BY <2>1, <2>2, <1>13
  <2>4. [k \in DOMAIN is |-> Msg(d, "add_player", is[k], t[is[k]])] = A
    BY <2>3, <1>5 DEF Adding
  <2>5. Renumbered(t, d, e) = <<m>> \o O \o [k \in DOMAIN is |-> Msg(d, "add_player", is[k], t[is[k]])]
    BY <2>2, <1>7, <1>11, <1>12 DEF Renumbered
  <2>6. QED
    BY <2>4, <2>5, <1>9, <1>15, <1>18
<1>27. QED
  BY <1>25, <1>26

\* The host's answer to a newcomer tells it its number, and all players.
LEMMA WelcomeIsFull ==
  ASSUME WaitForPlayersAssumption, NEW S \in SUBSET Devices, NEW tab, NEW n, NEW h,
         IsTab(tab, n, h, S), NEW t, Whole(t, tab, n), NEW d \in Devices, NEW e \in Devices \ S, NEW c
  PROVE  Full(Welcome(t, d, e, n + 1, e), e, c, h, Extended(tab, n, e), n + 1)
<1>1. /\ n \in Nat \ {0} /\ n + 1 \in Nat /\ DOMAIN t = 1 .. n /\ n + 1 \in 1 .. n + 1
      /\ \A i \in 1 .. n : i \in 1 .. n + 1 /\ i # n + 1
      /\ \A i \in 1 .. n + 1 : i \in 1 .. n \/ i = n + 1
      /\ n + 1 # 1
  BY DEF IsTab, Whole
<1>2. PICK u : u = Extended(tab, n, e)
  OBVIOUS
<1>3. u[n + 1] = e /\ \A i \in 1 .. n : u[i] = tab[i]
  BY <1>1, <1>2 DEF Extended
<1>4. PICK w : w = [i \in 1 .. n |-> IF t[i] = You THEN HostName ELSE t[i]]
  OBVIOUS
<1>5. \A i \in 1 .. n : Right(i, w[i], u) /\ w[i] \in Names
  <2> SUFFICES ASSUME NEW i \in 1 .. n PROVE Right(i, w[i], u) /\ w[i] \in Names
    OBVIOUS
  <2>1. w[i] = (IF t[i] = You THEN HostName ELSE t[i]) /\ Right(i, t[i], tab)
    BY <1>4 DEF Whole
  <2>2. CASE i = 1
    BY <2>1, <2>2 DEF Right, Names
  <2>3. CASE i # 1
    <3>1. t[i] = tab[i] /\ tab[i] \in Devices
      BY <2>1, <2>3 DEF Right, IsTab
    <3>2. w[i] = tab[i]
      BY <2>1, <3>1 DEF WaitForPlayersAssumption
    <3>3. QED
      BY <3>1, <3>2, <2>3, <1>3 DEF Right, Names
  <2>4. QED
    BY <2>2, <2>3
<1>6. PICK A : A = Adding(d, w, n)
  OBVIOUS
<1>7. /\ A \in Seq(Messages) /\ NoReset(A) /\ NoClear(A)
      /\ \A k \in DOMAIN A : k \in 1 .. n /\ A[k] = Msg(d, "add_player", k, w[k])
      /\ \A i \in 1 .. n : Told(A, i)
  BY <1>1, <1>5, <1>6, AddingAll
<1>8. PICK m : m = Msg(d, "player", n + 1, e)
  OBVIOUS
<1>9. PICK a : a = Msg(d, "add_player", n + 1, e)
  OBVIOUS
<1>10. /\ m \in Messages /\ m.header = "player" /\ m.idx = n + 1
       /\ a \in Messages /\ a.header = "add_player" /\ a.idx = n + 1 /\ a.name = e
  <2>1. d \in Devices \cup {None} /\ e \in Names /\ {"player", "add_player"} \subseteq Headers
    BY DEF Headers, Names
  <2>2. QED
    BY <2>1, <1>1, <1>8, <1>9, LettersAreMessages DEF Msg
<1>11. PICK M : M = <<m>>
  OBVIOUS
<1>12. PICK N : N = <<a>>
  OBVIOUS
<1>13. M \in Seq(Messages) /\ SelfTold(M) /\ \A k \in DOMAIN M : M[k] = m
  BY <1>10, <1>11, OneMessage
<1>14. N \in Seq(Messages) /\ NoReset(N) /\ Told(N, n + 1) /\ \A k \in DOMAIN N : N[k] = a
  <2>1. Adds(a, n + 1) /\ ~Resets(a)
    BY <1>10 DEF Adds, Resets
  <2>2. QED
    BY <2>1, <1>10, <1>12, OneMessage
<1>15. NoClear(N)
  BY <1>14 DEF NoReset, NoClear, Resets
<1>16. PICK P : P = M \o A
  OBVIOUS
<1>17. Grown(M, A, P)
  BY <1>7, <1>13, <1>16, Concatenated, Grows
<1>18. P \in Seq(Messages)
  BY <1>17 DEF Grown
<1>19. PICK B : B = P \o N
  OBVIOUS
<1>20. Grown(P, N, B)
  BY <1>14, <1>18, <1>19, Concatenated, Grows
<1>21. e # h
  BY <1>1 DEF IsTab
<1>22. \A k \in DOMAIN B : Letter(B[k], e, c, h, u, n + 1)
  <2>1. Letter(m, e, c, h, u, n + 1)
    BY <1>1, <1>3, <1>10, <1>21 DEF Letter
  <2>2. Letter(a, e, c, h, u, n + 1)
    BY <1>1, <1>3, <1>10 DEF Letter, Right
  <2>3. \A k \in DOMAIN A : Letter(A[k], e, c, h, u, n + 1)
    BY <1>1, <1>5, <1>7 DEF Letter, Msg
  <2>4. \A k \in DOMAIN P : Letter(P[k], e, c, h, u, n + 1)
    BY <2>1, <2>3, <1>13, <1>17 DEF Grown
  <2>5. QED
    BY <2>2, <2>4, <1>14, <1>20 DEF Grown
<1>23. \A i \in 1 .. n + 1 : Told(B, i)
  <2>1. \A i \in 1 .. n : Told(P, i)
    BY <1>7, <1>17 DEF Grown
  <2>2. \A i \in 1 .. n : Told(B, i)
    BY <2>1, <1>14, <1>20 DEF Grown
  <2>3. Told(B, n + 1)
    BY <1>14, <1>20 DEF Grown
  <2>4. QED
    BY <2>2, <2>3, <1>1
<1>24. SelfTold(B)
  BY <1>7, <1>13, <1>15, <1>17, <1>20 DEF Grown
<1>25. Full(B, e, c, h, u, n + 1)
  BY <1>20, <1>22, <1>23, <1>24 DEF Full, Grown
<1>26. B = Welcome(t, d, e, n + 1, e)
  <2>1. PICK is : is = InOrder(DOMAIN t)
    OBVIOUS
  <2>2. DOMAIN is = 1 .. n /\ \A k \in 1 .. n : is[k] = k
    BY <2>1, <1>1, InOrderAll
  <2>3. [k \in DOMAIN is |-> Msg(d, "add_player", is[k], IF t[is[k]] = You THEN HostName ELSE t[is[k]])] = A
    BY <2>2, <1>4, <1>6 DEF Adding
  <2>4. Welcome(t, d, e, n + 1, e) =
          <<m>> \o [k \in DOMAIN is |-> Msg(d, "add_player", is[k], IF t[is[k]] = You THEN HostName ELSE t[is[k]])]
            \o <<a>>
    BY <2>1, <1>8, <1>9 DEF Welcome
  <2>5. QED
    BY <2>3, <2>4, <1>11, <1>12, <1>16, <1>19
<1>27. QED
  BY <1>2, <1>25, <1>26

-----------------------------------------------------------------------------
(* Coming and going *)

\* Without its first message an inbox has its one "joined" still, or none.
LEMMA DropsJoin ==
  ASSUME NEW q \in Seq(Messages), q # <<>>, NEW r, r = Tail(q), NEW d, Waits(d, q)
  PROVE  /\ Waits(d, r) /\ (NoJoin(q) => NoJoin(r))
         /\ OneJoin(q) /\ q[1].header # "joined" => OneJoin(r)
         /\ OneJoin(q) /\ q[1].header = "joined" => NoJoin(r)
<1>1. PICK n : n = Len(q)
  OBVIOUS
<1>2. /\ n \in Nat \ {0} /\ DOMAIN q = 1 .. n /\ r \in Seq(Messages)
      /\ DOMAIN r = 1 .. n - 1 /\ \A i \in 1 .. n - 1 : r[i] = q[i + 1]
  BY <1>1, HeadTailProperties, LenProperties, EmptySeq
<1>3. /\ \A k \in DOMAIN r : k + 1 \in DOMAIN q /\ k + 1 # 1 /\ r[k] = q[k + 1]
      /\ \A k \in DOMAIN q : k = 1 \/ (k - 1 \in DOMAIN r /\ r[k - 1] = q[k])
      /\ \A j, k \in DOMAIN r : j + 1 = k + 1 => j = k
      /\ \A k \in DOMAIN r, j \in DOMAIN q : k + 1 = j => k = j - 1
      /\ 1 \in DOMAIN q
  BY <1>2
<1>4. Waits(d, r)
  BY <1>3 DEF Waits
<1>5. NoJoin(q) => NoJoin(r)
  BY <1>3 DEF NoJoin
<1>6. ASSUME OneJoin(q), q[1].header # "joined" PROVE OneJoin(r)
  <2>1. PICK k \in DOMAIN q : q[k].header = "joined" /\ \A j \in DOMAIN q : q[j].header = "joined" => j = k
    BY <1>6 DEF OneJoin
  <2>2. k # 1
    BY <2>1, <1>6
  <2>3. PICK l \in DOMAIN r : l = k - 1 /\ r[l] = q[k]
    BY <2>2, <1>3
  <2>4. ASSUME NEW j \in DOMAIN r, r[j].header = "joined" PROVE j = l
    <3>1. j + 1 = k
      BY <2>1, <2>4, <1>3
    <3>2. QED
      BY <3>1, <2>3, <1>3
  <2>5. QED
    BY <2>1, <2>3, <2>4 DEF OneJoin
<1>7. ASSUME OneJoin(q), q[1].header = "joined" PROVE NoJoin(r)
  <2>1. \A j \in DOMAIN q : q[j].header = "joined" => j = 1
    BY <1>3, <1>7 DEF OneJoin
  <2>2. QED
    BY <2>1, <1>3 DEF NoJoin
<1>8. QED
  BY <1>4, <1>5, <1>6, <1>7

\* More starts change nothing of an inbox that waits for a newcomer's number.
LEMMA StartsMore ==
  ASSUME NEW q \in Seq(Messages), NEW m \in Messages, m.header = "start_game", NEW d, Waits(d, q)
  PROVE  LET r == Append(q, m)
         IN  /\ Waits(d, r) /\ (NoJoin(q) => NoJoin(r)) /\ (OneJoin(q) => OneJoin(r))
<1>1. PICK r : r = Append(q, m)
  OBVIOUS
<1>2. PICK n : n = Len(q)
  OBVIOUS
<1>3. /\ n \in Nat /\ DOMAIN q = 1 .. n /\ r \in Seq(Messages) /\ Len(r) = n + 1
      /\ r[n + 1] = m /\ \A i \in 1 .. n : r[i] = q[i]
  BY <1>1, <1>2, AppendProperties, LenProperties
<1>4. DOMAIN r = 1 .. n + 1
  BY <1>3, LenProperties
<1>5. /\ \A k \in DOMAIN q : k \in DOMAIN r /\ r[k] = q[k]
      /\ \A k \in DOMAIN r : (k \in DOMAIN q /\ r[k] = q[k]) \/ r[k] = m
  BY <1>3, <1>4
<1>6. Waits(d, r)
  BY <1>5 DEF Waits
<1>7. NoJoin(q) => NoJoin(r)
  BY <1>5 DEF NoJoin
<1>8. ASSUME OneJoin(q) PROVE OneJoin(r)
  <2>1. PICK k \in DOMAIN q : q[k].header = "joined" /\ \A j \in DOMAIN q : q[j].header = "joined" => j = k
    BY <1>8 DEF OneJoin
  <2>2. \A j \in DOMAIN r : r[j].header = "joined" => j = k
    BY <2>1, <1>5
  <2>3. QED
    BY <2>1, <2>2, <1>5 DEF OneJoin
<1>9. QED
  BY <1>1, <1>6, <1>7, <1>8

\* A device to which nothing comes knows all.
LEMMA KnowsAtRest ==
  ASSUME NEW x, NEW c, NEW p, NEW t, NEW ns, NEW h, NEW tab, NEW n, NEW q, q = <<>>,
         Sound(x, q, c, t, ns, h, tab, n), Settled(x, q, c, p, t, ns, h, tab, n)
  PROVE  Knows(x, c, p, t, ns, h, tab, n)
<1>1. DOMAIN q = {}
  OBVIOUS
<1>2. ~Late(q) /\ \A i : ~HasAdd(q, i) /\ ~Told(q, i)
  BY <1>1 DEF Late, HasAdd, Told
<1>3. ~SelfTold(q)
  BY <1>1 DEF SelfTold
<1>4. \A i \in 2 .. n : tab[i] \in DOMAIN ns /\ ns[tab[i]] = i
  BY <1>2 DEF Settled, WillBeNamed
<1>5. CASE x = h
  BY <1>2, <1>4, <1>5 DEF Sound, Knows
<1>6. CASE x # h
  <2>1. \A i \in 1 .. n : i \in DOMAIN t /\ Right(i, t[i], tab)
    BY <1>2, <1>6 DEF Settled, WillBeWhole
  <2>2. DOMAIN t \subseteq 1 .. n
    BY <1>2, <1>6 DEF Sound
  <2>3. c /\ p \in 1 .. n /\ tab[p] = x
    BY <1>3, <1>6 DEF Settled, WillBeNumbered
  <2>4. DOMAIN t = 1 .. n
    BY <2>1, <2>2
  <2>5. QED
    BY <2>1, <2>3, <2>4, <1>4, <1>6 DEF Knows, Whole
<1>7. QED
  BY <1>5, <1>6

\* Who knew all is told of the newcomer.
LEMMA MemberHearsOfNew ==
  ASSUME NEW x, NEW q \in Seq(Messages), NEW c, NEW p, NEW t, NEW ns, NEW h, NEW tab, NEW n,
         NEW S, IsTab(tab, n, h, S), NEW d, d \notin S,
         Waits(d, q), x # h, Knows(x, c, p, t, ns, h, tab, n),
         NEW m \in Messages, m.header = "add_player", m.idx = n + 1, m.name = d,
         NEW r, r = q \o <<m>>
  PROVE  /\ ~Late(r)
         /\ Sound(x, r, c, t, ns, h, Extended(tab, n, d), n + 1)
         /\ Settled(x, r, c, p, t, ns, h, Extended(tab, n, d), n + 1)
<1>1. /\ n \in Nat \ {0} /\ n + 1 \in Nat /\ n + 1 \in 1 .. n + 1 /\ n + 1 # 1
      /\ \A i \in 1 .. n : i \in 1 .. n + 1 /\ i # n + 1
      /\ \A i \in 1 .. n + 1 : i \in 1 .. n \/ i = n + 1
      /\ \A i \in 2 .. n + 1 : i \in 2 .. n \/ i = n + 1
      /\ \A i \in 2 .. n : i \in 1 .. n
  BY DEF IsTab
<1>2. PICK u : u = Extended(tab, n, d)
  OBVIOUS
<1>3. u[n + 1] = d /\ \A i \in 1 .. n : u[i] = tab[i]
  BY <1>1, <1>2 DEF Extended
<1>4. PICK b : b = <<m>>
  OBVIOUS
<1>5. b \in Seq(Messages) /\ NoReset(b) /\ NoClear(b) /\ Told(b, n + 1) /\ \A k \in DOMAIN b : b[k] = m
  <2>1. Adds(m, n + 1) /\ ~Resets(m)
    BY DEF Adds, Resets
  <2>2. b \in Seq(Messages) /\ NoReset(b) /\ Told(b, n + 1) /\ \A k \in DOMAIN b : b[k] = m
    BY <2>1, <1>4, OneMessage
  <2>3. QED
    BY <2>2 DEF NoReset, NoClear, Resets
<1>6. Grown(q, b, r)
  BY <1>4, <1>5, Concatenated, Grows
<1>7. DOMAIN t = 1 .. n /\ (\A i \in 1 .. n : Right(i, t[i], u)) /\ c /\ p \in 1 .. n /\ tab[p] = x
  BY <1>3 DEF Knows, Whole, Right
<1>8. Sound(x, q, c, t, ns, h, u, n + 1) /\ ~Late(q)
  <2>1. \A k \in DOMAIN q : q[k].header # "player_left" /\ Letter(q[k], x, c, h, u, n + 1)
    BY <1>7 DEF Waits, Letter
  <2>2. ~Late(q)
    BY <2>1, DropFirst DEF Late
  <2>3. DOMAIN t \subseteq 1 .. n + 1
    BY <1>1, <1>7
  <2>4. QED
    BY <2>1, <2>2, <2>3 DEF Sound
<1>9. Sound(x, r, c, t, ns, h, u, n + 1) /\ ~Late(r)
  <2>1. Letter(m, x, c, h, u, n + 1)
    BY <1>1, <1>3 DEF Letter, Right
  <2>2. \A k \in DOMAIN b : Letter(b[k], x, c, h, u, n + 1)
    BY <2>1, <1>5
  <2>3. QED
    BY <2>2, <1>5, <1>6, <1>8, MoreIsSound
<1>10. Told(r, n + 1) /\ HasAdd(r, n + 1)
  <2>1. Told(r, n + 1)
    BY <1>5, <1>6 DEF Grown
  <2>2. QED
    BY <2>1 DEF Told, HasAdd
<1>11. NoReset(r) /\ NoClear(r)
  <2>1. NoReset(q) /\ NoClear(q)
    BY DEF Waits, NoReset, NoClear, Resets
  <2>2. QED
    BY <2>1, <1>5, <1>6 DEF Grown
<1>12. WillBeNamed(r, ns, u, n + 1)
  <2> SUFFICES ASSUME NEW i \in 2 .. n + 1 PROVE HasAdd(r, i) \/ (u[i] \in DOMAIN ns /\ ns[u[i]] = i)
    BY DEF WillBeNamed
  <2>1. CASE i = n + 1
    BY <2>1, <1>10
  <2>2. CASE i \in 2 .. n
    <3>1. tab[i] \in DOMAIN ns /\ ns[tab[i]] = i
      BY <2>2 DEF Knows
    <3>2. QED
      BY <3>1, <2>2, <1>1, <1>3
  <2>3. QED
    BY <2>1, <2>2, <1>1
<1>13. WillBeWhole(r, t, u, n + 1)
  BY <1>1, <1>7, <1>10, <1>11 DEF WillBeWhole
<1>14. WillBeNumbered(r, c, p, x, u, n + 1)
  BY <1>1, <1>3, <1>7, <1>11 DEF WillBeNumbered
<1>15. QED
  BY <1>2, <1>9, <1>12, <1>13, <1>14 DEF Settled

\* The host that numbers a newcomer has it in its own table.
LEMMA HostTakesNew ==
  ASSUME NEW q \in Seq(Messages), NEW c, NEW p, NEW t, NEW ns, NEW h, NEW tab, NEW n,
         NEW S, IsTab(tab, n, h, S), NEW d, d \notin S,
         Waits(d, q), NoJoin(q), Knows(h, c, p, t, ns, h, tab, n)
  PROVE  /\ ~Late(q)
         /\ Sound(h, q, c, Assign(t, n + 1, d), Assign(ns, d, n + 1), h, Extended(tab, n, d), n + 1)
         /\ Settled(h, q, c, p, Assign(t, n + 1, d), Assign(ns, d, n + 1), h, Extended(tab, n, d), n + 1)
<1>1. /\ n \in Nat \ {0} /\ n + 1 \in Nat /\ n + 1 \in 1 .. n + 1 /\ n + 1 # 1
      /\ \A i \in 1 .. n : i \in 1 .. n + 1 /\ i # n + 1
      /\ \A i \in 1 .. n + 1 : i \in 1 .. n \/ i = n + 1
      /\ \A i \in 2 .. n + 1 : i \in 2 .. n \/ i = n + 1
      /\ \A i \in 2 .. n : i \in 1 .. n
  BY DEF IsTab
<1>2. PICK u : u = Extended(tab, n, d)
  OBVIOUS
<1>3. u[n + 1] = d /\ \A i \in 1 .. n : u[i] = tab[i]
  BY <1>1, <1>2 DEF Extended
<1>4. PICK v : v = Assign(t, n + 1, d)
  OBVIOUS
<1>5. PICK w : w = Assign(ns, d, n + 1)
  OBVIOUS
<1>6. /\ DOMAIN v = DOMAIN t \cup {n + 1} /\ v[n + 1] = d
      /\ \A i \in DOMAIN t : i # n + 1 => v[i] = t[i]
  BY <1>4 DEF Assign
<1>7. /\ DOMAIN w = DOMAIN ns \cup {d} /\ w[d] = n + 1
      /\ \A i \in DOMAIN ns : i # d => w[i] = ns[i]
  BY <1>5 DEF Assign
<1>8. ~c /\ DOMAIN t = 1 .. n /\ \A i \in 1 .. n : Right(i, t[i], tab)
  BY DEF Knows, Whole
<1>9. Whole(v, u, n + 1)
  <2>1. DOMAIN v = 1 .. n + 1
    BY <1>1, <1>6, <1>8
  <2>2. \A i \in 1 .. n : Right(i, v[i], u)
    BY <1>1, <1>3, <1>6, <1>8 DEF Right
  <2>3. Right(n + 1, v[n + 1], u)
    BY <1>1, <1>3, <1>6 DEF Right
  <2>4. QED
    BY <2>1, <2>2, <2>3, <1>1 DEF Whole
<1>10. \A k \in DOMAIN q : q[k].header = "start_game"
  BY DEF Waits, NoJoin
<1>11. ~Late(q)
  BY <1>10, DropFirst DEF Late
<1>12. Sound(h, q, c, v, w, h, u, n + 1)
  BY <1>8, <1>9, <1>10, <1>11 DEF Sound, Letter
<1>13. WillBeNamed(q, w, u, n + 1)
  <2> SUFFICES ASSUME NEW i \in 2 .. n + 1 PROVE u[i] \in DOMAIN w /\ w[u[i]] = i
    BY DEF WillBeNamed
  <2>1. CASE i = n + 1
    BY <2>1, <1>3, <1>7
  <2>2. CASE i \in 2 .. n
    <3>1. tab[i] \in DOMAIN ns /\ ns[tab[i]] = i
      BY <2>2 DEF Knows
    <3>2. tab[i] # d
      BY <2>2, <1>1 DEF IsTab
    <3>3. QED
      BY <3>1, <3>2, <2>2, <1>1, <1>3, <1>7
  <2>3. QED
    BY <2>1, <2>2, <1>1
<1>14. QED
  BY <1>2, <1>4, <1>5, <1>11, <1>12, <1>13 DEF Settled

\* The newcomer is told all.
LEMMA NewHearsAll ==
  ASSUME NEW q \in Seq(Messages), NEW c, NEW p, NEW t, NEW ns, NEW h, NEW tab, NEW n \in Nat, NEW d,
         Waits(d, q), NoJoin(q), d # h, DOMAIN t = {1},
         NEW b \in Seq(Messages), Full(b, d, c, h, tab, n + 1), NEW r, r = q \o b
  PROVE  /\ ~Late(r)
         /\ Sound(d, r, c, t, ns, h, tab, n + 1)
         /\ Settled(d, r, c, p, t, ns, h, tab, n + 1)
<1>1. Grown(q, b, r)
  BY Concatenated, Grows
<1>2. \A k \in DOMAIN q : q[k].header = "start_game"
  BY DEF Waits, NoJoin
<1>3. ~Late(q)
  BY <1>2, DropFirst DEF Late
<1>4. 1 \in 1 .. n + 1 /\ n + 1 \in Nat
  OBVIOUS
<1>5. Sound(d, q, c, t, ns, h, tab, n + 1)
  BY <1>2, <1>3, <1>4 DEF Sound, Letter
<1>6. Sound(d, r, c, t, ns, h, tab, n + 1) /\ ~Late(r)
  <2>1. \A k \in DOMAIN b : Letter(b[k], d, c, h, tab, n + 1)
    BY DEF Full
  <2>2. QED
    BY <2>1, <1>1, <1>3, <1>5, MoreIsSound
<1>7. Settled(d, r, c, p, t, ns, h, tab, n + 1)
  BY <1>1, <1>4, BatchSettles
<1>8. QED
  BY <1>6, <1>7

\* Who knew all is told that another has left.
LEMMA MemberHearsOfLeave ==
  ASSUME WaitForPlayersAssumption, NEW S \in SUBSET Devices,
         NEW x, NEW c, NEW p, NEW t, NEW ns, NEW h, NEW tab, NEW n, IsTab(tab, n, h, S),
         Knows(x, c, p, t, ns, h, tab, n), NEW k \in 2 .. n,
         NEW m \in Messages, m.header = "player_left", m.name = tab[k],
         NEW q, q = <<m>>
  PROVE  Late(q) /\ Sound(x, q, c, t, ns, h, Shortened(tab, n, k), n - 1)
<1>1. q # <<>> /\ Head(q) = m /\ DOMAIN q = {1} /\ q[1] = m
  OBVIOUS
<1>2. Late(q)
  BY <1>1 DEF Late
<1>3. PICK j : j = n - 1
  OBVIOUS
<1>4. n \in Nat /\ n = j + 1 /\ k \in 1 .. n /\ j \in Nat
  BY <1>3 DEF IsTab
<1>5. DOMAIN t = 1 .. j + 1 /\ tab[k] \in DOMAIN ns /\ ns[tab[k]] = k
  BY <1>4 DEF Knows, Whole
<1>6. PICK v : v = Shortened(tab, n, k)
  OBVIOUS
<1>7. \A i \in 1 .. j : v[i] # tab[k]
  <2>1. IsTab(v, j, h, S \ {tab[k]})
    BY <1>3, <1>6, TabShortened
  <2>2. QED
    BY <2>1 DEF IsTab
<1>8. Whole(table_remove(t, k, n), v, j)
  <2>1. n <= Cardinality(Devices) /\ Cardinality(Devices) \in Nat
    BY SizeOfTab
  <2>2. Whole(t, tab, n)
    BY DEF Knows
  <2>3. QED
    BY <2>1, <2>2, <1>3, <1>4, <1>6, RemoveFromWhole
<1>9. StillKnows(m.name, t, ns, v, j)
  BY <1>4, <1>5, <1>7, <1>8 DEF StillKnows
<1>10. x = h => ~c
  BY DEF Knows
<1>11. Sound(x, q, c, t, ns, h, v, j)
  BY <1>1, <1>2, <1>9, <1>10 DEF Sound
<1>12. QED
  BY <1>2, <1>3, <1>6, <1>11

-----------------------------------------------------------------------------
(* Messages that only their receiver handles *)

Same(e) ==
  /\ is_client'[e] = is_client[e] /\ player'[e] = player[e]
  /\ players'[e] = players[e] /\ player_name_to_idx'[e] = player_name_to_idx[e]

\* d takes its next message out of its inbox, and nothing else happens to the others.
Received(d) ==
  /\ Types' /\ Untouched' /\ session' = session /\ left' = left
  /\ d \in session /\ d \in Devices /\ coming[d] \in Seq(Messages) /\ coming[d] # <<>>
  /\ coming'[d] = Tail(coming[d])
  /\ \A e \in Devices \ {d} : Same(e) /\ coming'[e] = coming[e]

\* What is kept by all messages that change only their receiver.
LEMMA ReceivedBy ==
  ASSUME Frame, Types, Untouched, NEW d \in session, coming[d] # <<>>, coming' = Consumed(d),
         session' = session, left' = left, \A e \in Devices \ {d} : Same(e),
         DOMAIN players' = Devices, DOMAIN player' = Devices, DOMAIN player_name_to_idx' = Devices
  PROVE  Received(d)
<1>1. d \in Devices /\ session \subseteq Devices
  BY DEF Frame
<1>2. coming \in [Devices -> Seq(Messages)] /\ coming[d] \in Seq(Messages)
  BY <1>1 DEF Types
<1>3. Tail(coming[d]) \in Seq(Messages)
  BY <1>2, HeadTailProperties
<1>4. coming' \in [Devices -> Seq(Messages)] /\ coming'[d] = Tail(coming[d])
  BY <1>1, <1>2, <1>3 DEF Consumed
<1>5. \A e \in Devices \ {d} : coming'[e] = coming[e]
  BY <1>2 DEF Consumed
<1>6. Types'
  BY <1>4 DEF Types
<1>7. Untouched'
  <2> SUFFICES ASSUME NEW e \in Devices \ session'
               PROVE  coming'[e] = <<>> /\ (e \notin left' => IsNew(e)')
    BY DEF Untouched
  <2>1. e \in Devices \ {d} /\ e \in Devices \ session
    OBVIOUS
  <2>2. coming[e] = <<>> /\ (e \notin left => IsNew(e))
    BY <2>1 DEF Untouched
  <2>3. QED
    BY <2>1, <2>2, <1>5 DEF Same, IsNew
<1>8. QED
  BY <1>1, <1>2, <1>4, <1>5, <1>6, <1>7 DEF Received

\* The others fit as before, and the receiver does, so all do.
LEMMA NumberingGoesOn ==
  ASSUME NEW d, Received(d), NEW h, NEW tab, NEW n, Numbering(h, tab, n), Frame,
         ~Late(coming[d]), ~Late(coming'[d]), IsSound(d, h, tab, n)',
         IsSettled(d, h, tab, n) => IsSettled(d, h, tab, n)'
  PROVE  Numbering(h, tab, n)'
<1>1. d \in session /\ session' = session /\ session \subseteq Devices
  BY DEF Received, Frame
<1>2. ASSUME NEW y \in session PROVE Late(coming'[y]) <=> Late(coming[y])
  <2>1. CASE y = d
    BY <2>1
  <2>2. CASE y # d
    <3>1. coming'[y] = coming[y]
      BY <2>2, <1>1 DEF Received
    <3>2. QED
      BY <3>1
  <2>3. QED
    BY <2>1, <2>2
<1>3. ASSUME NEW x \in session PROVE MoreThan(x) => MoreThan(x)'
  BY <1>1, <1>2 DEF MoreThan
<1>4. ASSUME NEW x \in session, x # d
      PROVE  /\ IsSound(x, h, tab, n) => IsSound(x, h, tab, n)'
             /\ IsSettled(x, h, tab, n) => IsSettled(x, h, tab, n)'
  <2>1. Same(x) /\ coming'[x] = coming[x]
    BY <1>1, <1>4 DEF Received
  <2>2. QED
    BY <2>1 DEF Same, IsSound, IsSettled
<1>5. ASSUME NEW x \in session PROVE IsSound(x, h, tab, n)' /\ (MoreThan(x)' \/ IsSettled(x, h, tab, n)')
  <2>1. IsSound(x, h, tab, n) /\ (MoreThan(x) \/ IsSettled(x, h, tab, n))
    BY DEF Numbering
  <2>2. CASE x = d
    BY <2>1, <2>2, <1>3
  <2>3. CASE x # d
    BY <2>1, <2>3, <1>3, <1>4
  <2>4. QED
    BY <2>2, <2>3
<1>6. IsTab(tab, n, h, session')
  BY <1>1 DEF Numbering
<1>7. QED
  BY <1>1, <1>5, <1>6 DEF Numbering

\* A receiver that learns nothing changes nothing of a newcomer's wait.
LEMMA WaitGoesOn ==
  ASSUME NEW d, Received(d), Same(d), NEW h, NEW tab, NEW n, NEW e \in session, Frame,
         Unnumbered(e, h, tab, n), d # h \/ coming[d][1].header # "joined"
  PROVE  Unnumbered(e, h, tab, n)'
<1>1. d \in session /\ session' = session /\ session \subseteq Devices /\ h \in session
  BY DEF Received, Frame, Unnumbered, IsTab
<1>2. PICK q : q = coming[d]
  OBVIOUS
<1>3. q \in Seq(Messages) /\ q # <<>> /\ coming'[d] = Tail(q) /\ Waits(e, q)
  BY <1>1, <1>2 DEF Received, Unnumbered
<1>4. PICK r : r = Tail(q)
  OBVIOUS
<1>5. /\ Waits(e, r) /\ (NoJoin(q) => NoJoin(r))
      /\ OneJoin(q) /\ q[1].header # "joined" => OneJoin(r)
  BY <1>3, <1>4, DropsJoin
<1>6. \A x \in session : Same(x) /\ (x # d => coming'[x] = coming[x])
  BY <1>1 DEF Received
<1>7. \A x \in session : Waits(e, coming'[x])
  <2> SUFFICES ASSUME NEW x \in session PROVE Waits(e, coming'[x])
    OBVIOUS
  <2>1. CASE x = d
    BY <2>1, <1>3, <1>4, <1>5
  <2>2. CASE x # d
    BY <2>2, <1>6 DEF Unnumbered
  <2>3. QED
    BY <2>1, <2>2
<1>8. NoJoin(coming'[e])
  <2>1. CASE e = d
    BY <2>1, <1>2, <1>3, <1>4, <1>5 DEF Unnumbered
  <2>2. CASE e # d
    BY <2>2, <1>6 DEF Unnumbered
  <2>3. QED
    BY <2>1, <2>2
<1>9. OneJoin(coming'[h])
  <2>1. CASE h = d
    BY <2>1, <1>2, <1>3, <1>4, <1>5 DEF Unnumbered
  <2>2. CASE h # d
    BY <2>2, <1>1, <1>6 DEF Unnumbered
  <2>3. QED
    BY <2>1, <2>2
<1>10. \A x \in session \ {e} :
         Knows(x, is_client'[x], player'[x], players'[x], player_name_to_idx'[x], h, tab, n)
  BY <1>6 DEF Same, Unnumbered
<1>11. IsNew(e)'
  BY <1>6 DEF Same, Unnumbered, IsNew
<1>12. h # e /\ IsTab(tab, n, h, session' \ {e})
  BY <1>1 DEF Unnumbered
<1>13. QED
  BY <1>1, <1>7, <1>8, <1>9, <1>10, <1>11, <1>12 DEF Unnumbered

\* Who numbers the devices.
LEMMA NumberingIsOrder ==
  ASSUME NEW h, NEW tab, NEW n, Numbering(h, tab, n) PROVE Ordered
<1>1. h \in session /\ n \in Nat /\ tab \in [1 .. n -> session]
  BY DEF Numbering, IsTab
<1>2. QED
  BY <1>1 DEF Ordered, IsOrdered

\* The same after a step.
LEMMA NumberingIsOrderThen ==
  ASSUME NEW h, NEW tab, NEW n, Numbering(h, tab, n)' PROVE Ordered'
<1>1. h \in session' /\ n \in Nat /\ tab \in [1 .. n -> session']
  BY DEF Numbering, IsTab
<1>2. QED
  BY <1>1 DEF Ordered, IsOrdered

\* A newcomer that waits after a step.
LEMMA WaitIsOrderThen ==
  ASSUME NEW h, NEW tab, NEW n, NEW d \in session', Unnumbered(d, h, tab, n)' PROVE Ordered'
<1>1. h \in session' /\ n \in Nat /\ tab \in [1 .. n -> session']
  BY DEF Unnumbered, IsTab
<1>2. Joining(h, tab, n)'
  BY DEF Joining
<1>3. QED
  BY <1>1, <1>2 DEF Ordered, IsOrdered

\* While a newcomer waits, nothing but starts and its "joined" is received.
LEMMA OnlyJoins ==
  ASSUME NEW d \in session, Frame, Types, coming[d] # <<>>, NEW h, NEW tab, NEW n, NEW e,
         Unnumbered(e, h, tab, n)
  PROVE  Head(coming[d]) = coming[d][1] /\ coming[d][1].header \in {"start_game", "joined"}
<1>1. PICK q : q = coming[d]
  OBVIOUS
<1>2. q \in Seq(Messages) /\ q # <<>> /\ Waits(e, q)
  BY <1>1 DEF Frame, Types, Unnumbered
<1>3. Head(q) = q[1] /\ 1 \in DOMAIN q
  BY <1>2, DropFirst
<1>4. QED
  BY <1>1, <1>2, <1>3 DEF Waits

\* Who has been numbered, or waits for it, as long as somebody is there.
LEMMA SomeOrder ==
  ASSUME Kept, NEW d \in session
  PROVE  \E h, n, tab : Numbering(h, tab, n) \/ \E e \in session : Unnumbered(e, h, tab, n)
<1>1. Ordered
  BY DEF Kept, NobodyYet
<1>2. QED
  BY <1>1 DEF Ordered, IsOrdered, Joining

\* A start, or a join that is not the receiver's to answer, changes nothing of the order.
LEMMA SkipKeeps ==
  ASSUME NEW d, Received(d), Same(d), Frame, Kept,
         coming[d][1].header = "start_game" \/ (coming[d][1].header = "joined" /\ is_client[d])
  PROVE  Kept'
<1>1. d \in session
  BY DEF Received
<1>2. PICK h, n, tab : Numbering(h, tab, n) \/ \E e \in session : Unnumbered(e, h, tab, n)
  BY <1>1, SomeOrder
<1>3. CASE Numbering(h, tab, n)
  <2>1. PICK q : q = coming[d]
    OBVIOUS
  <2>2. PICK c : c = is_client[d]
    OBVIOUS
  <2>3. PICK p : p = player[d]
    OBVIOUS
  <2>4. PICK t : t = players[d]
    OBVIOUS
  <2>5. PICK ns : ns = player_name_to_idx[d]
    OBVIOUS
  <2>6. PICK r : r = Tail(q)
    OBVIOUS
  <2>7. /\ q \in Seq(Messages) /\ q # <<>> /\ q[1].header \in {"start_game", "joined"}
        /\ coming'[d] = r
    BY <2>1, <2>6 DEF Received
  <2>8. Sound(d, q, c, t, ns, h, tab, n)
    BY <1>1, <1>3, <2>1, <2>2, <2>4, <2>5 DEF Numbering, IsSound
  <2>9. /\ Sound(d, r, c, t, ns, h, tab, n)
        /\ Settled(d, q, c, p, t, ns, h, tab, n) => Settled(d, r, c, p, t, ns, h, tab, n)
    BY <2>6, <2>7, <2>8, SkipsLetter
  <2>10. ~Late(q) /\ ~Late(r)
    BY <2>6, <2>7, <2>8, TailIsSound
  <2>11. IsSound(d, h, tab, n)'
    BY <2>2, <2>4, <2>5, <2>7, <2>9 DEF IsSound, Same
  <2>12. IsSettled(d, h, tab, n) => IsSettled(d, h, tab, n)'
    BY <2>1, <2>2, <2>3, <2>4, <2>5, <2>7, <2>9 DEF IsSettled, Same
  <2>13. Numbering(h, tab, n)'
    BY <1>3, <2>1, <2>7, <2>10, <2>11, <2>12, NumberingGoesOn
  <2>14. Ordered'
    BY <2>13, NumberingIsOrderThen
  <2>15. QED
    BY <2>14 DEF Received, Kept
<1>4. ASSUME NEW e \in session, Unnumbered(e, h, tab, n) PROVE Kept'
  <2>1. d # h \/ coming[d][1].header # "joined"
    <3>1. h \in session \ {e}
      BY <1>4 DEF Unnumbered, IsTab
    <3>2. ~is_client[h]
      BY <3>1, <1>4 DEF Unnumbered, Knows
    <3>3. QED
      BY <3>2
  <2>2. Unnumbered(e, h, tab, n)'
    BY <1>4, <2>1, WaitGoesOn
  <2>3. e \in session'
    BY DEF Received
  <2>4. Ordered'
    BY <2>2, <2>3, WaitIsOrderThen
  <2>5. QED
    BY <2>4 DEF Received, Kept
<1>5. QED
  BY <1>2, <1>3, <1>4

\* What is common to the receptions of d.
LEMMA ReceptionIs ==
  ASSUME Frame, Kept, NEW d \in Devices, NEW header, Receive(d, header)
  PROVE  /\ Types /\ Untouched /\ d \in session /\ coming[d] \in Seq(Messages) /\ coming[d] # <<>>
         /\ Head(coming[d]) = coming[d][1] /\ coming[d][1].header = header
         /\ coming[d][1] \in Messages
<1>1. Types /\ Untouched /\ d \in session /\ coming[d] # <<>> /\ Head(coming[d]).header = header
  BY DEF Kept, Receive
<1>2. coming[d] \in Seq(Messages)
  BY <1>1 DEF Types
<1>3. QED
  BY <1>1, <1>2, DropFirst

\* The order is kept when a message starts the game.
LEMMA StartKeeps ==
  ASSUME Frame, Kept, NEW d \in Devices, start_game(d) PROVE Kept'
<1>1. Receive(d, "start_game")
  BY DEF start_game
<1>2. /\ Types /\ Untouched /\ d \in session /\ coming[d] # <<>>
      /\ coming[d][1].header = "start_game"
  BY <1>1, ReceptionIs
<1>3. /\ coming' = Consumed(d) /\ session' = session /\ left' = left
      /\ is_client' = is_client /\ player' = player /\ players' = players
      /\ player_name_to_idx' = player_name_to_idx
  BY DEF start_game
<1>4. \A e \in Devices : Same(e)
  BY <1>3 DEF Same
<1>5. Received(d)
  BY <1>2, <1>3, <1>4, ReceivedBy DEF Types
<1>6. QED
  BY <1>2, <1>4, <1>5, SkipKeeps

\* A device that hears something else than starts and joins is in a session where all
\* have been numbered; it fits when what it hears makes it fit.
LEMMA HearingKeeps ==
  ASSUME Frame, Kept, NEW d, Received(d), coming[d][1].header \notin {"start_game", "joined", "player_left"},
         \A h, n, tab : Numbering(h, tab, n) =>
           IsSound(d, h, tab, n)' /\ (IsSettled(d, h, tab, n) => IsSettled(d, h, tab, n)')
  PROVE  Kept'
<1>1. d \in session /\ coming[d] # <<>> /\ Types
  BY DEF Received, Kept
<1>2. PICK h, n, tab : Numbering(h, tab, n) \/ \E e \in session : Unnumbered(e, h, tab, n)
  BY <1>1, SomeOrder
<1>3. ~ \E e \in session : Unnumbered(e, h, tab, n)
  BY <1>1, OnlyJoins
<1>4. Numbering(h, tab, n)
  BY <1>2, <1>3
<1>5. PICK q : q = coming[d]
  OBVIOUS
<1>6. q \in Seq(Messages) /\ q # <<>> /\ q[1].header # "player_left" /\ coming'[d] = Tail(q)
  BY <1>5 DEF Received
<1>7. PICK c : c = is_client[d]
  OBVIOUS
<1>8. PICK t : t = players[d]
  OBVIOUS
<1>9. PICK ns : ns = player_name_to_idx[d]
  OBVIOUS
<1>10. Sound(d, q, c, t, ns, h, tab, n)
  BY <1>1, <1>4, <1>5, <1>7, <1>8, <1>9 DEF Numbering, IsSound
<1>11. PICK r : r = Tail(q)
  OBVIOUS
<1>12. ~Late(q) /\ ~Late(r)
  BY <1>6, <1>10, <1>11, TailIsSound
<1>13. Numbering(h, tab, n)'
  BY <1>4, <1>5, <1>6, <1>11, <1>12, NumberingGoesOn
<1>14. Ordered'
  BY <1>13, NumberingIsOrderThen
<1>15. QED
  BY <1>14 DEF Received, Kept

\* The order is kept when a device is told its number.
LEMMA BecomeKeeps ==
  ASSUME Frame, Kept, NEW d \in Devices, become_client_player(d) PROVE Kept'
<1>1. Receive(d, "player")
  BY DEF become_client_player
<1>2. /\ Types /\ Untouched /\ d \in session /\ coming[d] # <<>> /\ coming[d] \in Seq(Messages)
      /\ coming[d][1].header = "player" /\ Head(coming[d]) = coming[d][1]
  BY <1>1, ReceptionIs
<1>3. PICK q : q = coming[d]
  OBVIOUS
<1>4. PICK u : u = Assign(Empty, q[1].idx, You)
  OBVIOUS
<1>5. DOMAIN u = {q[1].idx}
  BY <1>4 DEF Assign, Empty
<1>6. /\ coming' = Consumed(d) /\ session' = session /\ left' = left
      /\ is_client' = [is_client EXCEPT ![d] = TRUE]
      /\ player' = [player EXCEPT ![d] = q[1].idx]
      /\ players' = [players EXCEPT ![d] = u]
      /\ player_name_to_idx' = player_name_to_idx
  BY <1>2, <1>3, <1>4 DEF become_client_player
<1>7. \A e \in Devices \ {d} : Same(e)
  BY <1>2, <1>6 DEF Same, Types, Frame
<1>8. Received(d)
  BY <1>2, <1>6, <1>7, ReceivedBy DEF Types
<1>9. /\ is_client'[d] = TRUE /\ player'[d] = q[1].idx /\ players'[d] = u
      /\ player_name_to_idx'[d] = player_name_to_idx[d]
  BY <1>2, <1>6 DEF Types, Frame
<1>10. ASSUME NEW h, NEW n, NEW tab, Numbering(h, tab, n)
       PROVE  IsSound(d, h, tab, n)' /\ (IsSettled(d, h, tab, n) => IsSettled(d, h, tab, n)')
  <2>1. PICK c : c = is_client[d]
    OBVIOUS
  <2>2. PICK p : p = player[d]
    OBVIOUS
  <2>3. PICK t : t = players[d]
    OBVIOUS
  <2>4. PICK ns : ns = player_name_to_idx[d]
    OBVIOUS
  <2>5. PICK r : r = Tail(q)
    OBVIOUS
  <2>6. Sound(d, q, c, t, ns, h, tab, n)
    BY <1>2, <1>3, <1>10, <2>1, <2>3, <2>4 DEF Numbering, IsSound
  <2>7. /\ Sound(d, r, TRUE, u, ns, h, tab, n)
        /\ Settled(d, q, c, p, t, ns, h, tab, n) => Settled(d, r, TRUE, q[1].idx, u, ns, h, tab, n)
    BY <1>2, <1>3, <1>5, <2>5, <2>6, HearsNumber
  <2>8. coming'[d] = r
    BY <1>3, <1>8, <2>5 DEF Received
  <2>9. IsSound(d, h, tab, n)'
    BY <1>9, <2>4, <2>7, <2>8 DEF IsSound
  <2>10. IsSettled(d, h, tab, n) => IsSettled(d, h, tab, n)'
    BY <1>3, <1>9, <2>1, <2>2, <2>3, <2>4, <2>7, <2>8 DEF IsSettled
  <2>11. QED
    BY <2>9, <2>10
<1>11. QED
  BY <1>2, <1>8, <1>10, HearingKeeps

\* The order is kept when a device clears its table, or ignores that it should.
LEMMA ClearKeeps ==
  ASSUME Frame, Kept, NEW d \in Devices, clear_players(d) PROVE Kept'
<1>1. Receive(d, "clear_players")
  BY DEF clear_players
<1>2. /\ Types /\ Untouched /\ d \in session /\ coming[d] # <<>> /\ coming[d] \in Seq(Messages)
      /\ coming[d][1].header = "clear_players"
  BY <1>1, ReceptionIs
<1>3. PICK q : q = coming[d]
  OBVIOUS
<1>4. /\ coming' = Consumed(d) /\ session' = session /\ left' = left
      /\ is_client' = is_client /\ player_name_to_idx' = player_name_to_idx
      /\ player' = IF is_client[d] THEN [player EXCEPT ![d] = 0] ELSE player
      /\ players' = IF is_client[d] THEN [players EXCEPT ![d] = Empty] ELSE players
  BY DEF clear_players
<1>5. \A e \in Devices \ {d} : Same(e)
  BY <1>2, <1>4 DEF Same, Types, Frame
<1>6. Received(d)
  BY <1>2, <1>4, <1>5, ReceivedBy DEF Types
<1>7. /\ is_client'[d] = is_client[d] /\ player_name_to_idx'[d] = player_name_to_idx[d]
      /\ ~is_client[d] => players'[d] = players[d] /\ player'[d] = player[d]
      /\ DOMAIN players'[d] \subseteq DOMAIN players[d]
  BY <1>2, <1>4 DEF Types, Empty
<1>8. ASSUME NEW h, NEW n, NEW tab, Numbering(h, tab, n)
      PROVE  IsSound(d, h, tab, n)' /\ (IsSettled(d, h, tab, n) => IsSettled(d, h, tab, n)')
  <2>1. PICK c : c = is_client[d]
    OBVIOUS
  <2>2. PICK p : p = player[d]
    OBVIOUS
  <2>3. PICK t : t = players[d]
    OBVIOUS
  <2>4. PICK ns : ns = player_name_to_idx[d]
    OBVIOUS
  <2>5. PICK r : r = Tail(q)
    OBVIOUS
  <2>6. PICK u : u = players'[d]
    OBVIOUS
  <2>7. PICK v : v = player'[d]
    OBVIOUS
  <2>8. Sound(d, q, c, t, ns, h, tab, n)
    BY <1>2, <1>3, <1>8, <2>1, <2>3, <2>4 DEF Numbering, IsSound
  <2>9. /\ Sound(d, r, c, u, ns, h, tab, n)
        /\ Settled(d, q, c, p, t, ns, h, tab, n) => Settled(d, r, c, v, u, ns, h, tab, n)
    <3>1. CASE d = h
      <4>1. ~is_client[d]
        BY <3>1, <2>1, <2>8 DEF Sound
      <4>2. u = t /\ v = p
        BY <4>1, <1>7, <2>2, <2>3, <2>6, <2>7
      <4>3. QED
        BY <3>1, <4>2, <1>2, <1>3, <2>5, <2>8, SkipsLetter
    <3>2. CASE d # h
      <4>1. DOMAIN u \subseteq DOMAIN t
        BY <1>7, <2>3, <2>6
      <4>2. QED
        BY <3>2, <4>1, <1>2, <1>3, <2>5, <2>8, HearsClear
    <3>3. QED
      BY <3>1, <3>2
  <2>10. coming'[d] = r
    BY <1>3, <1>6, <2>5 DEF Received
  <2>11. IsSound(d, h, tab, n)'
    BY <1>7, <2>1, <2>4, <2>6, <2>9, <2>10 DEF IsSound
  <2>12. IsSettled(d, h, tab, n) => IsSettled(d, h, tab, n)'
    BY <1>3, <1>7, <2>1, <2>2, <2>3, <2>4, <2>6, <2>7, <2>9, <2>10 DEF IsSettled
  <2>13. QED
    BY <2>11, <2>12
<1>9. QED
  BY <1>2, <1>6, <1>8, HearingKeeps

\* The order is kept when a device is told a player.
LEMMA AddKeeps ==
  ASSUME WaitForPlayersAssumption, Frame, Kept, NEW d \in Devices, add_player(d) PROVE Kept'
<1>1. Receive(d, "add_player")
  BY DEF add_player
<1>2. /\ Types /\ Untouched /\ d \in session /\ coming[d] # <<>> /\ coming[d] \in Seq(Messages)
      /\ coming[d][1].header = "add_player" /\ Head(coming[d]) = coming[d][1]
  BY <1>1, ReceptionIs
<1>3. PICK q : q = coming[d]
  OBVIOUS
<1>4. PICK t : t = players[d]
  OBVIOUS
<1>5. PICK ns : ns = player_name_to_idx[d]
  OBVIOUS
<1>6. PICK u : u = Assign(t, q[1].idx, q[1].name)
  OBVIOUS
<1>7. PICK w : w = Assign(ns, q[1].name, q[1].idx)
  OBVIOUS
<1>8. /\ coming' = Consumed(d) /\ session' = session /\ left' = left
      /\ is_client' = is_client /\ player' = player
      /\ players' = [players EXCEPT ![d] = u]
      /\ player_name_to_idx' = [player_name_to_idx EXCEPT ![d] = w]
  BY <1>2, <1>3, <1>4, <1>5, <1>6, <1>7 DEF add_player
<1>9. \A e \in Devices \ {d} : Same(e)
  BY <1>2, <1>8 DEF Same, Types
<1>10. Received(d)
  BY <1>2, <1>8, <1>9, ReceivedBy DEF Types
<1>11. /\ is_client'[d] = is_client[d] /\ player'[d] = player[d] /\ players'[d] = u
       /\ player_name_to_idx'[d] = w
  BY <1>2, <1>8 DEF Types
<1>12. ASSUME NEW h, NEW n, NEW tab, Numbering(h, tab, n)
       PROVE  IsSound(d, h, tab, n)' /\ (IsSettled(d, h, tab, n) => IsSettled(d, h, tab, n)')
  <2>1. PICK c : c = is_client[d]
    OBVIOUS
  <2>2. PICK p : p = player[d]
    OBVIOUS
  <2>3. PICK r : r = Tail(q)
    OBVIOUS
  <2>4. Sound(d, q, c, t, ns, h, tab, n)
    BY <1>2, <1>3, <1>4, <1>5, <1>12, <2>1 DEF Numbering, IsSound
  <2>5. PICK S : S = session
    OBVIOUS
  <2>6. S \in SUBSET Devices /\ IsTab(tab, n, h, S)
    BY <1>12, <2>5 DEF Numbering, Frame
  <2>7. /\ Sound(d, r, c, u, w, h, tab, n)
        /\ Settled(d, q, c, p, t, ns, h, tab, n) => Settled(d, r, c, p, u, w, h, tab, n)
    BY <1>2, <1>3, <1>6, <1>7, <2>3, <2>4, <2>6, HearsAdd
  <2>8. coming'[d] = r
    BY <1>3, <1>10, <2>3 DEF Received
  <2>9. IsSound(d, h, tab, n)'
    BY <1>11, <2>1, <2>7, <2>8 DEF IsSound
  <2>10. IsSettled(d, h, tab, n) => IsSettled(d, h, tab, n)'
    BY <1>3, <1>4, <1>5, <1>11, <2>1, <2>2, <2>7, <2>8 DEF IsSettled
  <2>11. QED
    BY <2>9, <2>10
<1>13. QED
  BY <1>2, <1>10, <1>12, HearingKeeps

-----------------------------------------------------------------------------
(* The start, and what is always so of the session *)

\* At the start nobody has come.
LEMMA InitHolds ==
  ASSUME WaitForPlayersAssumption, Init PROVE IInv
<1>1. Frame
  BY DEF Init, Frame
<1>2. Types
  <2>1. <<>> \in Seq(Messages)
    BY EmptySeq
  <2>2. QED
    BY <2>1 DEF Init, Types
<1>3. Untouched
  BY DEF Init, Untouched, IsNew
<1>4. NobodyYet
  BY DEF Init, NobodyYet
<1>5. QED
  BY <1>1, <1>2, <1>3, <1>4 DEF IInv, Kept

\* Who has left stays away, and is a client or not as it was.
LEMMA FrameKept ==
  ASSUME Frame, [Next]_vars PROVE Frame' /\ (HostsStay' => HostsStay)
<1>1. CASE UNCHANGED vars
  BY <1>1 DEF vars, Frame, HostsStay
<1>2. ASSUME NEW d \in Devices, d \in session,
             session' = session /\ left' = left, is_client' = [is_client EXCEPT ![d] = TRUE]
      PROVE  Frame' /\ (HostsStay' => HostsStay)
  BY <1>2 DEF Frame, HostsStay
<1>3. ASSUME session' \subseteq Devices, left' \subseteq Devices, session' \cap left' = {},
             left \subseteq left', is_client' = is_client
      PROVE  Frame' /\ (HostsStay' => HostsStay)
  BY <1>3 DEF Frame, HostsStay
<1>4. ASSUME session' = session, left' = left, is_client' = is_client
      PROVE  Frame' /\ (HostsStay' => HostsStay)
  BY <1>4 DEF Frame, HostsStay
<1>5. ASSUME NEW d \in Devices, init(d) PROVE Frame' /\ (HostsStay' => HostsStay)
  BY <1>3, <1>5 DEF init, Frame
<1>6. ASSUME NEW d \in Devices, Leave(d) PROVE Frame' /\ (HostsStay' => HostsStay)
  <2>1. /\ d \in session /\ session' = session \ {d} /\ left' = left \cup {d}
        /\ is_client' = is_client
    BY <1>6 DEF Leave
  <2>2. QED
    BY <2>1, <1>3 DEF Frame
<1>7. ASSUME NEW d \in Devices, become_client_player(d) PROVE Frame' /\ (HostsStay' => HostsStay)
  BY <1>2, <1>7 DEF become_client_player, Receive
<1>8. ASSUME NEW d \in Devices,
             \/ handle_popup_btn_clicked(d) \/ clear_players(d) \/ add_player(d)
             \/ player_left(d) \/ joined(d) \/ start_game(d)
      PROVE  Frame' /\ (HostsStay' => HostsStay)
  BY <1>4, <1>8 DEF handle_popup_btn_clicked, clear_players, add_player, player_left, joined, start_game
<1>9. QED
  BY <1>1, <1>5, <1>6, <1>7, <1>8 DEF Next

-----------------------------------------------------------------------------
(* Devices that start the game *)

\* One more message that is true and takes nothing back.
LEMMA OneMore ==
  ASSUME NEW x, NEW q \in Seq(Messages), NEW c, NEW p, NEW t, NEW ns, NEW h, NEW tab, NEW n,
         NEW m \in Messages, m.header = "start_game",
         NEW r, r = Append(q, m), Sound(x, q, c, t, ns, h, tab, n)
  PROVE  /\ Sound(x, r, c, t, ns, h, tab, n) /\ (Late(r) <=> Late(q))
         /\ Settled(x, q, c, p, t, ns, h, tab, n) => Settled(x, r, c, p, t, ns, h, tab, n)
<1>1. PICK b : b = <<m>>
  OBVIOUS
<1>2. /\ b \in Seq(Messages) /\ Follows(q, b, r)
  BY <1>1, AppendedFollows
<1>3. (\A k \in DOMAIN b : b[k] = m) /\ NoReset(b)
  BY <1>1, OneMessage DEF Resets
<1>4. Grown(q, b, r)
  BY <1>2, Grows
<1>5. \A k \in DOMAIN b : Letter(b[k], x, c, h, tab, n)
  BY <1>3 DEF Letter
<1>6. Sound(x, r, c, t, ns, h, tab, n) /\ (Late(r) <=> Late(q))
  BY <1>2, <1>4, <1>5, MoreIsSound
<1>7. Settled(x, q, c, p, t, ns, h, tab, n) => Settled(x, r, c, p, t, ns, h, tab, n)
  BY <1>3, <1>4, MoreIsSettled
<1>8. QED
  BY <1>6, <1>7

\* What becomes of the inboxes when d sends one message.
LEMMA SendsOne ==
  ASSUME Types, Frame, NEW d \in Devices, NEW m \in Messages, NEW box, box = send_message(coming, d, m)
  PROVE  /\ box \in [Devices -> Seq(Messages)]
         /\ \A e \in Devices : coming[e] \in Seq(Messages)
         /\ \A e \in session \ {d} : box[e] = Append(coming[e], m)
         /\ \A e \in Devices : e \notin session \ {d} => box[e] = coming[e]
<1>1. \A e \in Devices : coming[e] \in Seq(Messages) /\ Append(coming[e], m) \in Seq(Messages)
  BY AppendProperties DEF Types
<1>2. session \subseteq Devices
  BY DEF Frame
<1>3. QED
  BY <1>1, <1>2 DEF send_message

\* The order is kept when a host starts the game.
LEMMA ClickKeeps ==
  ASSUME WaitForPlayersAssumption, Frame, Kept, NEW d \in Devices, handle_popup_btn_clicked(d)
  PROVE  Kept'
<1>1. PICK m : m = Msg(d, "start_game", 0, None)
  OBVIOUS
<1>2. m \in Messages /\ m.header = "start_game"
  <2>1. "start_game" \in Headers /\ None \in Names /\ d \in Devices \cup {None} /\ 0 \in Nat
    BY DEF Headers, Names
  <2>2. QED
    BY <1>1, <2>1, LettersAreMessages DEF Msg
<1>3. /\ d \in session /\ coming' = send_message(coming, d, m)
      /\ session' = session /\ left' = left /\ is_client' = is_client /\ player' = player
      /\ players' = players /\ player_name_to_idx' = player_name_to_idx
  BY <1>1 DEF handle_popup_btn_clicked
<1>4. Types /\ Untouched /\ session \subseteq Devices
  BY DEF Kept, Frame
<1>5. /\ coming' \in [Devices -> Seq(Messages)]
      /\ \A e \in Devices : coming[e] \in Seq(Messages)
      /\ \A e \in session \ {d} : coming'[e] = Append(coming[e], m)
      /\ \A e \in Devices : e \notin session \ {d} => coming'[e] = coming[e]
  <2>1. PICK box : box = coming'
    OBVIOUS
  <2>2. /\ box \in [Devices -> Seq(Messages)]
        /\ \A e \in Devices : coming[e] \in Seq(Messages)
        /\ \A e \in session \ {d} : box[e] = Append(coming[e], m)
        /\ \A e \in Devices : e \notin session \ {d} => box[e] = coming[e]
    BY <1>2, <1>3, <1>4, <2>1, SendsOne
  <2>3. QED
    BY <2>1, <2>2
<1>6. Types'
  BY <1>3, <1>4, <1>5 DEF Types
<1>7. Untouched'
  BY <1>3, <1>4, <1>5 DEF Untouched, IsNew
<1>8. PICK h, n, tab : Numbering(h, tab, n) \/ \E e \in session : Unnumbered(e, h, tab, n)
  BY <1>3, SomeOrder
<1>9. CASE Numbering(h, tab, n)
  <2>1. ASSUME NEW x \in session
        PROVE  /\ IsSound(x, h, tab, n)' /\ (Late(coming'[x]) <=> Late(coming[x]))
               /\ IsSettled(x, h, tab, n) => IsSettled(x, h, tab, n)'
    <3>1. IsSound(x, h, tab, n)
      BY <1>9 DEF Numbering
    <3>2. CASE x = d
      <4>1. coming'[x] = coming[x]
        BY <3>2, <1>5
      <4>2. QED
        BY <4>1, <3>1, <1>3 DEF IsSound, IsSettled
    <3>3. CASE x # d
      <4>1. PICK q : q = coming[x]
        OBVIOUS
      <4>2. PICK c : c = is_client[x]
        OBVIOUS
      <4>3. PICK p : p = player[x]
        OBVIOUS
      <4>4. PICK t : t = players[x]
        OBVIOUS
      <4>5. PICK ns : ns = player_name_to_idx[x]
        OBVIOUS
      <4>6. PICK r : r = Append(q, m)
        OBVIOUS
      <4>7. q \in Seq(Messages) /\ coming'[x] = r
        BY <1>4, <1>5, <3>3, <4>1, <4>6
      <4>8. Sound(x, q, c, t, ns, h, tab, n)
        BY <3>1, <4>1, <4>2, <4>4, <4>5 DEF IsSound
      <4>9. /\ Sound(x, r, c, t, ns, h, tab, n) /\ (Late(r) <=> Late(q))
            /\ Settled(x, q, c, p, t, ns, h, tab, n) => Settled(x, r, c, p, t, ns, h, tab, n)
        BY <1>2, <4>6, <4>7, <4>8, OneMore
      <4>10. IsSound(x, h, tab, n)' /\ (Late(coming'[x]) <=> Late(coming[x]))
        BY <1>3, <4>1, <4>2, <4>4, <4>5, <4>7, <4>9 DEF IsSound
      <4>11. IsSettled(x, h, tab, n) => IsSettled(x, h, tab, n)'
        BY <1>3, <4>1, <4>2, <4>3, <4>4, <4>5, <4>7, <4>9 DEF IsSettled
      <4>12. QED
        BY <4>10, <4>11
    <3>4. QED
      BY <3>2, <3>3
  <2>2. \A x \in session : MoreThan(x) => MoreThan(x)'
    BY <1>3, <2>1 DEF MoreThan
  <2>3. IsTab(tab, n, h, session')
    BY <1>3, <1>9 DEF Numbering
  <2>4. \A x \in session' : IsSound(x, h, tab, n)' /\ (MoreThan(x)' \/ IsSettled(x, h, tab, n)')
    BY <1>3, <1>9, <2>1, <2>2 DEF Numbering
  <2>5. Numbering(h, tab, n)'
    BY <2>3, <2>4 DEF Numbering
  <2>6. Ordered'
    BY <2>5, NumberingIsOrderThen
  <2>7. QED
    BY <1>6, <1>7, <2>6 DEF Kept
<1>10. ASSUME NEW e \in session, Unnumbered(e, h, tab, n) PROVE Kept'
  <2>1. h # e /\ IsTab(tab, n, h, session \ {e}) /\ IsNew(e) /\ NoJoin(coming[e]) /\ OneJoin(coming[h])
    BY <1>10 DEF Unnumbered
  <2>2. h \in session
    BY <2>1 DEF IsTab
  <2>3. ASSUME NEW x \in session
        PROVE  /\ Waits(e, coming'[x]) /\ (NoJoin(coming[x]) => NoJoin(coming'[x]))
               /\ OneJoin(coming[x]) => OneJoin(coming'[x])
    <3>1. Waits(e, coming[x])
      BY <1>10 DEF Unnumbered
    <3>2. CASE x = d
      BY <3>1, <3>2, <1>5
    <3>3. CASE x # d
      <4>1. PICK q : q = coming[x]
        OBVIOUS
      <4>2. q \in Seq(Messages) /\ coming'[x] = Append(q, m) /\ Waits(e, q)
        BY <1>4, <1>5, <3>1, <3>3, <4>1
      <4>3. /\ Waits(e, Append(q, m)) /\ (NoJoin(q) => NoJoin(Append(q, m)))
            /\ OneJoin(q) => OneJoin(Append(q, m))
        BY <1>2, <4>2, StartsMore
      <4>4. QED
        BY <4>1, <4>2, <4>3
    <3>4. QED
      BY <3>2, <3>3
  <2>4. \A x \in session \ {e} :
          Knows(x, is_client[x], player[x], players[x], player_name_to_idx[x], h, tab, n)
    BY <1>10 DEF Unnumbered
  <2>5. Unnumbered(e, h, tab, n)'
    BY <1>3, <2>1, <2>2, <2>3, <2>4 DEF Unnumbered, IsNew
  <2>6. Ordered'
    BY <1>3, <2>5, WaitIsOrderThen
  <2>7. QED
    BY <1>6, <1>7, <2>6 DEF Kept
<1>11. QED
  BY <1>8, <1>9, <1>10

-----------------------------------------------------------------------------
(* Devices that come *)

\* All have been numbered and know it.
AllKnow(h, tab, n) ==
  /\ IsTab(tab, n, h, session)
  /\ \A x \in session :
       Knows(x, is_client[x], player[x], players[x], player_name_to_idx[x], h, tab, n)

\* When nothing is on its way all know their numbers.
LEMMA AtRestAllKnow ==
  ASSUME Frame, Kept, AtRest, NEW d \in session
  PROVE  \E h, n, tab : AllKnow(h, tab, n)
<1>1. PICK h, n, tab : Numbering(h, tab, n) \/ \E e \in session : Unnumbered(e, h, tab, n)
  BY SomeOrder
<1>2. \A x \in session : coming[x] = <<>>
  BY DEF AtRest
<1>3. ASSUME NEW e \in session, Unnumbered(e, h, tab, n) PROVE FALSE
  <2>1. h \in session /\ OneJoin(coming[h])
    BY <1>3 DEF Unnumbered, IsTab
  <2>2. OneJoin(<<>>)
    BY <2>1, <1>2
  <2>3. QED
    BY <2>2 DEF OneJoin
<1>4. Numbering(h, tab, n)
  BY <1>1, <1>3
<1>5. ASSUME NEW x \in session
      PROVE  Knows(x, is_client[x], player[x], players[x], player_name_to_idx[x], h, tab, n)
  <2>1. ~MoreThan(x)
    BY <1>2 DEF MoreThan, Late
  <2>2. IsSound(x, h, tab, n) /\ IsSettled(x, h, tab, n)
    BY <1>4, <2>1 DEF Numbering
  <2>3. PICK q : q = coming[x]
    OBVIOUS
  <2>4. PICK c : c = is_client[x]
    OBVIOUS
  <2>5. PICK p : p = player[x]
    OBVIOUS
  <2>6. PICK t : t = players[x]
    OBVIOUS
  <2>7. PICK ns : ns = player_name_to_idx[x]
    OBVIOUS
  <2>8. Sound(x, q, c, t, ns, h, tab, n) /\ Settled(x, q, c, p, t, ns, h, tab, n) /\ q = <<>>
    BY <1>2, <2>2, <2>3, <2>4, <2>5, <2>6, <2>7 DEF IsSound, IsSettled
  <2>9. Knows(x, c, p, t, ns, h, tab, n)
    BY <2>8, KnowsAtRest
  <2>10. QED
    BY <2>4, <2>5, <2>6, <2>7, <2>9
<1>6. AllKnow(h, tab, n)
  BY <1>4, <1>5 DEF AllKnow, Numbering
<1>7. QED
  BY <1>6

\* The order is kept when a device comes: the first is the host, a later one waits for
\* its number.
LEMMA InitKeeps ==
  ASSUME WaitForPlayersAssumption, OneAtATime, Frame, Kept, NEW d \in Devices, init(d)
  PROVE  Kept'
<1>1. PICK m : m = Msg(d, "joined", 0, None)
  OBVIOUS
<1>2. m \in Messages /\ m.header = "joined" /\ m.src = d
  <2>1. "joined" \in Headers /\ None \in Names /\ d \in Devices \cup {None} /\ 0 \in Nat
    BY DEF Headers, Names
  <2>2. QED
    BY <1>1, <2>1, LettersAreMessages DEF Msg
<1>3. /\ d \notin session /\ d \notin left /\ coming' = send_message(coming, d, m)
      /\ session' = session \cup {d} /\ left' = left /\ is_client' = is_client /\ player' = player
      /\ players' = players /\ player_name_to_idx' = player_name_to_idx
  BY <1>1 DEF init
<1>4. Types /\ Untouched /\ session \subseteq Devices
  BY DEF Kept, Frame
<1>5. AtRest
  BY DEF init, MayChange
<1>6. /\ coming' \in [Devices -> Seq(Messages)]
      /\ \A e \in session : coming'[e] = Append(coming[e], m)
      /\ \A e \in Devices : e \notin session => coming'[e] = coming[e]
  <2>1. PICK box : box = coming'
    OBVIOUS
  <2>2. /\ box \in [Devices -> Seq(Messages)]
        /\ \A e \in Devices : coming[e] \in Seq(Messages)
        /\ \A e \in session \ {d} : box[e] = Append(coming[e], m)
        /\ \A e \in Devices : e \notin session \ {d} => box[e] = coming[e]
    BY <1>2, <1>3, <1>4, <2>1, SendsOne
  <2>3. QED
    BY <2>1, <2>2, <1>3
<1>7. \A e \in session : coming'[e] = <<m>>
  <2>1. Append(<<>>, m) = <<m>>
    OBVIOUS
  <2>2. QED
    BY <2>1, <1>5, <1>6 DEF AtRest
<1>8. Types'
  BY <1>3, <1>4, <1>6 DEF Types
<1>9. Untouched'
  BY <1>3, <1>4, <1>6 DEF Untouched, IsNew
<1>10. coming'[d] = <<>> /\ IsNew(d)
  BY <1>3, <1>4, <1>6 DEF Untouched
<1>11. CASE session = {}
  <2>1. PICK tab : tab = [i \in 1 .. 1 |-> d]
    OBVIOUS
  <2>2. session' = {d} /\ 1 .. 1 = {1} /\ 2 .. 1 = {}
    BY <1>3, <1>11
  <2>3. IsTab(tab, 1, d, session')
    BY <2>1, <2>2 DEF IsTab
  <2>4. Whole(players[d], tab, 1) /\ ~is_client[d]
    BY <1>10, <2>2 DEF IsNew, Assign, Empty, Whole, Right
  <2>5. IsSound(d, d, tab, 1)'
    BY <1>3, <1>10, <2>4 DEF IsSound, Sound, Late
  <2>6. IsSettled(d, d, tab, 1)'
    BY <2>2 DEF IsSettled, Settled, WillBeNamed
  <2>7. Numbering(d, tab, 1)'
    BY <2>2, <2>3, <2>5, <2>6 DEF Numbering
  <2>8. Ordered'
    BY <2>7, NumberingIsOrderThen
  <2>9. QED
    BY <1>8, <1>9, <2>8 DEF Kept
<1>12. CASE session # {}
  <2>1. PICK h, n, tab : AllKnow(h, tab, n)
    BY <1>5, <1>12, AtRestAllKnow
  <2>2. h \in session
    BY <2>1 DEF AllKnow, IsTab
  <2>3. d \in session' /\ h # d /\ session' \ {d} = session
    BY <1>3, <2>2
  <2>4. DOMAIN <<m>> = {1} /\ <<m>>[1] = m
    OBVIOUS
  <2>5. Waits(d, <<m>>) /\ OneJoin(<<m>>)
    BY <1>2, <2>4 DEF Waits, OneJoin
  <2>6. Waits(d, <<>>) /\ NoJoin(<<>>)
    BY DEF Waits, NoJoin
  <2>7. \A x \in session' : Waits(d, coming'[x])
    BY <1>3, <1>7, <1>10, <2>5, <2>6
  <2>8. NoJoin(coming'[d]) /\ OneJoin(coming'[h])
    BY <1>7, <1>10, <2>2, <2>5, <2>6
  <2>9. \A x \in session :
          Knows(x, is_client'[x], player'[x], players'[x], player_name_to_idx'[x], h, tab, n)
    BY <1>3, <2>1 DEF AllKnow
  <2>10. IsTab(tab, n, h, session' \ {d})
    BY <2>1, <2>3 DEF AllKnow
  <2>11. IsNew(d)'
    BY <1>3, <1>10 DEF IsNew
  <2>12. Unnumbered(d, h, tab, n)'
    BY <2>3, <2>7, <2>8, <2>9, <2>10, <2>11 DEF Unnumbered
  <2>13. Ordered'
    BY <2>3, <2>12, WaitIsOrderThen
  <2>14. QED
    BY <1>8, <1>9, <2>13 DEF Kept
<1>13. QED
  BY <1>11, <1>12

-----------------------------------------------------------------------------
(* Devices that leave *)

\* The order is kept when a device leaves that is no host: everybody has yet to hear of
\* it, and somebody else's answer will tell each what it needs.
LEMMA LeaveKeeps ==
  ASSUME WaitForPlayersAssumption, OneAtATime, Frame, Kept, NEW d \in Devices, Leave(d), HostsStay'
  PROVE  Kept'
<1>1. PICK m : m = Msg(None, "player_left", 0, d)
  OBVIOUS
<1>2. m \in Messages /\ m.header = "player_left" /\ m.name = d
  <2>1. "player_left" \in Headers /\ d \in Names /\ None \in Devices \cup {None} /\ 0 \in Nat
    BY DEF Headers, Names
  <2>2. QED
    BY <1>1, <2>1, LettersAreMessages DEF Msg
<1>3. /\ d \in session /\ coming' = [send_message(coming, d, m) EXCEPT ![d] = <<>>]
      /\ session' = session \ {d} /\ left' = left \cup {d} /\ is_client' = is_client /\ player' = player
      /\ players' = players /\ player_name_to_idx' = player_name_to_idx
  BY <1>1 DEF Leave
<1>4. Types /\ Untouched /\ session \subseteq Devices
  BY DEF Kept, Frame
<1>5. AtRest
  BY DEF Leave, MayChange
<1>6. /\ coming' \in [Devices -> Seq(Messages)] /\ coming'[d] = <<>>
      /\ \A e \in session \ {d} : coming'[e] = <<m>>
      /\ \A e \in Devices : e \notin session => coming'[e] = coming[e]
  <2>1. PICK box : box = send_message(coming, d, m)
    OBVIOUS
  <2>2. /\ box \in [Devices -> Seq(Messages)]
        /\ \A e \in Devices : coming[e] \in Seq(Messages)
        /\ \A e \in session \ {d} : box[e] = Append(coming[e], m)
        /\ \A e \in Devices : e \notin session \ {d} => box[e] = coming[e]
    BY <1>2, <1>4, <2>1, SendsOne
  <2>3. coming' = [box EXCEPT ![d] = <<>>]
    BY <1>3, <2>1
  <2>4. <<>> \in Seq(Messages) /\ Append(<<>>, m) = <<m>>
    BY EmptySeq
  <2>5. \A e \in session : coming[e] = <<>>
    BY <1>5 DEF AtRest
  <2>6. QED
    BY <1>3, <1>4, <2>2, <2>3, <2>4, <2>5
<1>7. Types'
  BY <1>3, <1>4, <1>6 DEF Types
<1>8. Untouched'
  <2> SUFFICES ASSUME NEW e \in Devices \ session'
               PROVE  coming'[e] = <<>> /\ (e \notin left' => IsNew(e)')
    BY DEF Untouched
  <2>1. CASE e = d
    BY <2>1, <1>3, <1>6
  <2>2. CASE e # d
    <3>1. e \in Devices \ session
      BY <2>2, <1>3
    <3>2. coming[e] = <<>> /\ (e \notin left => IsNew(e))
      BY <3>1, <1>4 DEF Untouched
    <3>3. QED
      BY <3>1, <3>2, <1>3, <1>6 DEF IsNew
  <2>3. QED
    BY <2>1, <2>2
<1>9. PICK h, n, tab : AllKnow(h, tab, n)
  BY <1>3, <1>5, AtRestAllKnow
<1>10. IsTab(tab, n, h, session) /\ h \in session /\ ~is_client[h] /\ n \in Nat \ {0}
  <2>1. IsTab(tab, n, h, session) /\ h \in session /\ n \in Nat \ {0}
    BY <1>9 DEF AllKnow, IsTab
  <2>2. Knows(h, is_client[h], player[h], players[h], player_name_to_idx[h], h, tab, n)
    BY <1>9, <2>1 DEF AllKnow
  <2>3. QED
    BY <2>1, <2>2 DEF Knows
<1>11. d # h
  BY <1>3, <1>10 DEF HostsStay
<1>12. PICK k \in 2 .. n : tab[k] = d
  <2>1. PICK i \in 1 .. n : tab[i] = d
    BY <1>3, <1>10 DEF IsTab
  <2>2. i # 1
    BY <1>10, <1>11, <2>1 DEF IsTab
  <2>3. i \in 2 .. n
    BY <1>10, <2>1, <2>2
  <2>4. QED
    BY <2>1, <2>3
<1>13. PICK new : new = Shortened(tab, n, k)
  OBVIOUS
<1>14. IsTab(new, n - 1, h, session')
  <2>1. PICK S : S = session
    OBVIOUS
  <2>2. IsTab(tab, n, h, S)
    BY <1>10, <2>1
  <2>3. IsTab(Shortened(tab, n, k), n - 1, h, S \ {tab[k]})
    BY <2>2, TabShortened
  <2>4. QED
    BY <1>3, <1>12, <1>13, <2>1, <2>3
<1>15. ASSUME NEW x \in session' PROVE Late(coming'[x]) /\ IsSound(x, h, new, n - 1)'
  <2>1. x \in session /\ coming'[x] = <<m>>
    BY <1>3, <1>6
  <2>2. PICK c : c = is_client[x]
    OBVIOUS
  <2>3. PICK p : p = player[x]
    OBVIOUS
  <2>4. PICK t : t = players[x]
    OBVIOUS
  <2>5. PICK ns : ns = player_name_to_idx[x]
    OBVIOUS
  <2>6. PICK S : S = session
    OBVIOUS
  <2>7. PICK q : q = <<m>>
    OBVIOUS
  <2>8. S \in SUBSET Devices /\ IsTab(tab, n, h, S)
    BY <1>4, <1>10, <2>6
  <2>9. Knows(x, c, p, t, ns, h, tab, n)
    BY <1>9, <2>1, <2>2, <2>3, <2>4, <2>5 DEF AllKnow
  <2>10. Late(q) /\ Sound(x, q, c, t, ns, h, Shortened(tab, n, k), n - 1)
    BY <1>2, <1>12, <2>7, <2>8, <2>9, MemberHearsOfLeave
  <2>11. QED
    BY <1>3, <1>13, <2>1, <2>2, <2>4, <2>5, <2>7, <2>10 DEF IsSound
<1>16. ASSUME NEW x \in session' PROVE MoreThan(x)' \/ IsSettled(x, h, new, n - 1)'
  <2>1. CASE \E y \in session' : y # x
    <3>1. PICK y \in session' : y # x
      BY <2>1
    <3>2. Late(coming'[y]) /\ y \in session' \ {x}
      BY <1>15, <3>1
    <3>3. MoreThan(x)'
      BY <3>2 DEF MoreThan
    <3>4. QED
      BY <3>3
  <2>2. CASE ~ \E y \in session' : y # x
    <3>1. h \in session' /\ new[1] = h /\ n - 1 \in Nat \ {0} /\ new \in [1 .. n - 1 -> session']
          /\ \A i, j \in 1 .. n - 1 : new[i] = new[j] => i = j
      BY <1>14 DEF IsTab
    <3>2. x = h
      BY <2>2, <3>1
    <3>3. 2 .. n - 1 = {}
      <4> SUFFICES ASSUME n # 2 PROVE FALSE
        OBVIOUS
      <4>1. n - 1 # 1 /\ n - 1 \in Nat \ {0}
        BY <1>10, <3>1
      <4>2. 1 \in 1 .. n - 1 /\ 2 \in 1 .. n - 1
        BY <1>10, <4>1
      <4>3. new[1] = x /\ new[2] = x
        BY <2>2, <3>1, <4>2
      <4>4. QED
        BY <3>1, <4>2, <4>3
    <3>4. QED
      BY <3>2, <3>3 DEF IsSettled, Settled, WillBeNamed
  <2>3. QED
    BY <2>1, <2>2
<1>17. Numbering(h, new, n - 1)'
  BY <1>14, <1>15, <1>16 DEF Numbering
<1>18. Ordered'
  BY <1>17, NumberingIsOrderThen
<1>19. QED
  BY <1>7, <1>8, <1>18 DEF Kept

-----------------------------------------------------------------------------
(* Devices that answer *)

\* The inboxes once d has handled a message and answered it with a batch.
Answered(d, batch, box) ==
  /\ box \in [Devices -> Seq(Messages)] /\ box[d] = Tail(coming[d])
  /\ \A e \in session \ {d} : box[e] = coming[e] \o batch[e]
  /\ \A e \in Devices : e \notin session => box[e] = coming[e]

\* What becomes of the inboxes by such an answer.
LEMMA SendsBatch ==
  ASSUME Types, Frame, NEW d \in session, coming[d] # <<>>, NEW batch,
         \A e \in session \ {d} : batch[e] \in Seq(Messages),
         NEW box, box = send_messages(Consumed(d), d, batch)
  PROVE  Answered(d, batch, box)
<1>1. d \in Devices /\ session \subseteq Devices /\ coming \in [Devices -> Seq(Messages)]
  BY DEF Frame, Types
<1>2. coming[d] \in Seq(Messages)
  BY <1>1
<1>3. Tail(coming[d]) \in Seq(Messages)
  BY <1>2, HeadTailProperties
<1>4. PICK f : f = Consumed(d)
  OBVIOUS
<1>5. f \in [Devices -> Seq(Messages)] /\ f[d] = Tail(coming[d])
  BY <1>1, <1>3, <1>4 DEF Consumed
<1>6. \A e \in Devices \ {d} : f[e] = coming[e]
  BY <1>1, <1>4 DEF Consumed
<1>7. box = [e \in Devices |-> IF e \in session \ {d} THEN f[e] \o batch[e] ELSE f[e]]
  BY <1>4 DEF send_messages
<1>8. \A e \in session \ {d} : coming[e] \o batch[e] \in Seq(Messages)
  <2> SUFFICES ASSUME NEW e \in session \ {d} PROVE coming[e] \o batch[e] \in Seq(Messages)
    OBVIOUS
  <2>1. coming[e] \in Seq(Messages) /\ batch[e] \in Seq(Messages)
    BY <1>1
  <2>2. QED
    BY <2>1, ConcatProperties
<1>9. \A e \in session \ {d} : box[e] = coming[e] \o batch[e]
  BY <1>1, <1>6, <1>7
<1>10. \A e \in Devices : e \notin session \ {d} => box[e] = f[e]
  BY <1>7
<1>11. \A e \in Devices : box[e] \in Seq(Messages)
  BY <1>5, <1>8, <1>9, <1>10
<1>12. box \in [Devices -> Seq(Messages)]
  BY <1>7, <1>11
<1>13. QED
  BY <1>1, <1>5, <1>6, <1>9, <1>10, <1>12 DEF Answered

\* The order is kept when a device hears that another has left: its batch settles the
\* rest, and it is settled itself unless somebody else has still to answer.
LEMMA LeftKeeps ==
  ASSUME WaitForPlayersAssumption, Frame, Kept, NEW d \in Devices, player_left(d) PROVE Kept'
<1>1. Receive(d, "player_left")
  BY DEF player_left
<1>2. /\ Types /\ Untouched /\ d \in session /\ coming[d] # <<>> /\ coming[d] \in Seq(Messages)
      /\ coming[d][1].header = "player_left" /\ Head(coming[d]) = coming[d][1]
      /\ session \subseteq Devices
  BY <1>1, ReceptionIs DEF Frame
<1>3. PICK h, n, tab : Numbering(h, tab, n) \/ \E e \in session : Unnumbered(e, h, tab, n)
  BY <1>2, SomeOrder
<1>4. ~ \E e \in session : Unnumbered(e, h, tab, n)
  BY <1>2, OnlyJoins
<1>5. Numbering(h, tab, n)
  BY <1>3, <1>4
<1>6. PICK S : S = session
  OBVIOUS
<1>7. S \in SUBSET Devices /\ IsTab(tab, n, h, S) /\ n \in Nat \ {0}
  BY <1>2, <1>5, <1>6 DEF Numbering, IsTab
<1>8. PICK q : q = coming[d]
  OBVIOUS
<1>9. PICK c : c = is_client[d]
  OBVIOUS
<1>10. PICK p : p = player[d]
  OBVIOUS
<1>11. PICK t : t = players[d]
  OBVIOUS
<1>12. PICK ns : ns = player_name_to_idx[d]
  OBVIOUS
<1>13. PICK r : r = Tail(q)
  OBVIOUS
<1>14. PICK name : name = q[1].name
  OBVIOUS
<1>15. PICK u : u = table_remove(t, ns[name], n + 1)
  OBVIOUS
<1>16. PICK w : w = Restrict(ns, DOMAIN ns \ {name})
  OBVIOUS
<1>17. Sound(d, q, c, t, ns, h, tab, n)
  BY <1>2, <1>5, <1>8, <1>9, <1>11, <1>12 DEF Numbering, IsSound
<1>18. ~Late(r) /\ StillKnows(name, t, ns, tab, n)
  BY <1>2, <1>8, <1>13, <1>14, <1>17, TailIsSound
<1>19. /\ Sound(d, r, c, u, w, h, tab, n) /\ Whole(u, tab, n)
       /\ Settled(d, q, c, p, t, ns, h, tab, n) => Settled(d, r, c, p, u, w, h, tab, n)
  <2>1. q \in Seq(Messages) /\ q # <<>> /\ q[1].header = "player_left"
    BY <1>2, <1>8
  <2>2. Heard(d, q, c, p, t, ns, h, tab, n, name)
    BY <1>14, <1>17, <2>1, HearsLeave
  <2>3. QED
    BY <1>13, <1>15, <1>16, <2>2 DEF Heard
<1>20. /\ session' = session /\ left' = left /\ is_client' = is_client /\ player' = player
       /\ players' = [players EXCEPT ![d] = u]
       /\ player_name_to_idx' = [player_name_to_idx EXCEPT ![d] = w]
       /\ coming' = send_messages(Consumed(d), d, [e \in Devices |-> Renumbered(u, d, e)])
  <2>1. PICK size \in Borders(t) :
          IF name \notin DOMAIN ns \/ ns[name] > size + 1
          THEN /\ coming' = Consumed(d)
               /\ UNCHANGED <<players, player_name_to_idx, shown>>
          ELSE /\ players' = [players EXCEPT ![d] = table_remove(@, ns[name], size)]
               /\ player_name_to_idx' = [player_name_to_idx EXCEPT ![d] = Restrict(@, DOMAIN @ \ {name})]
               /\ coming' = send_messages(Consumed(d), d, [e \in Devices |-> Renumbered(players'[d], d, e)])
               /\ shown' = shown \cup {d}
    BY <1>2, <1>8, <1>11, <1>12, <1>14 DEF player_left
  <2>2. DOMAIN t = 1 .. n + 1 /\ name \in DOMAIN ns /\ ns[name] \in 1 .. n + 1
    BY <1>18 DEF StillKnows
  <2>3. Borders(t) = {n + 1}
    <3>1. n + 1 \in Nat \ {0}
      BY <1>7
    <3>2. QED
      BY <2>2, <3>1, WholeTable
  <2>4. size = n + 1 /\ ~(name \notin DOMAIN ns \/ ns[name] > size + 1)
    BY <1>7, <2>1, <2>2, <2>3
  <2>5. /\ players' = [players EXCEPT ![d] = table_remove(@, ns[name], size)]
        /\ player_name_to_idx' = [player_name_to_idx EXCEPT ![d] = Restrict(@, DOMAIN @ \ {name})]
        /\ coming' = send_messages(Consumed(d), d, [e \in Devices |-> Renumbered(players'[d], d, e)])
    BY <2>1, <2>4
  <2>6. players' = [players EXCEPT ![d] = u] /\ player_name_to_idx' = [player_name_to_idx EXCEPT ![d] = w]
    BY <2>4, <2>5, <1>11, <1>12, <1>15, <1>16
  <2>7. players'[d] = u
    BY <1>2, <2>6 DEF Types
  <2>8. session' = session /\ left' = left /\ is_client' = is_client /\ player' = player
    BY DEF player_left
  <2>9. QED
    BY <2>5, <2>6, <2>7, <2>8
<1>21. ASSUME NEW x \in session, NEW cx
       PROVE  Full(Renumbered(u, d, x), x, cx, h, tab, n)
  BY <1>6, <1>7, <1>19, RenumberedIsFull
<1>22. /\ coming' \in [Devices -> Seq(Messages)] /\ coming'[d] = r
       /\ \A e \in session \ {d} : coming'[e] = coming[e] \o Renumbered(u, d, e)
       /\ \A e \in Devices : e \notin session => coming'[e] = coming[e]
  <2>1. PICK batch : batch = [e \in Devices |-> Renumbered(u, d, e)]
    OBVIOUS
  <2>2. \A e \in session : batch[e] = Renumbered(u, d, e)
    BY <1>2, <2>1
  <2>3. \A e \in session \ {d} : batch[e] \in Seq(Messages)
    BY <1>21, <2>2 DEF Full
  <2>4. PICK box : box = coming'
    OBVIOUS
  <2>5. box = send_messages(Consumed(d), d, batch)
    BY <1>20, <2>1, <2>4
  <2>6. Answered(d, batch, box)
    BY <1>2, <2>3, <2>5, SendsBatch
  <2>7. QED
    BY <1>8, <1>13, <2>2, <2>4, <2>6 DEF Answered
<1>23. \A e \in Devices \ {d} : Same(e)
  BY <1>2, <1>20 DEF Same, Types
<1>24. /\ is_client'[d] = c /\ player'[d] = p /\ players'[d] = u /\ player_name_to_idx'[d] = w
  BY <1>2, <1>9, <1>10, <1>20 DEF Types
<1>25. Types'
  BY <1>2, <1>20, <1>22 DEF Types
<1>26. Untouched'
  <2> SUFFICES ASSUME NEW e \in Devices \ session'
               PROVE  coming'[e] = <<>> /\ (e \notin left' => IsNew(e)')
    BY DEF Untouched
  <2>1. e \in Devices \ session /\ e # d
    BY <1>2, <1>20
  <2>2. coming[e] = <<>> /\ (e \notin left => IsNew(e))
    BY <1>2, <2>1 DEF Untouched
  <2>3. QED
    BY <1>20, <1>22, <1>23, <2>1, <2>2 DEF Same, IsNew
<1>27. ASSUME NEW x \in session \ {d}
       PROVE  /\ IsSound(x, h, tab, n)' /\ (Late(coming'[x]) <=> Late(coming[x]))
              /\ IsSettled(x, h, tab, n)'
  <2>1. PICK qx : qx = coming[x]
    OBVIOUS
  <2>2. PICK cx : cx = is_client[x]
    OBVIOUS
  <2>3. PICK px : px = player[x]
    OBVIOUS
  <2>4. PICK tx : tx = players[x]
    OBVIOUS
  <2>5. PICK nx : nx = player_name_to_idx[x]
    OBVIOUS
  <2>6. PICK b : b = Renumbered(u, d, x)
    OBVIOUS
  <2>7. PICK rx : rx = qx \o b
    OBVIOUS
  <2>8. Full(b, x, cx, h, tab, n)
    BY <1>21, <2>6
  <2>9. qx \in Seq(Messages) /\ b \in Seq(Messages) /\ coming'[x] = rx
    BY <1>2, <1>22, <2>1, <2>6, <2>7, <2>8 DEF Types, Full
  <2>10. Follows(qx, b, rx)
    BY <2>7, <2>9, Concatenated
  <2>11. Grown(qx, b, rx)
    BY <2>9, <2>10, Grows
  <2>12. Sound(x, qx, cx, tx, nx, h, tab, n)
    BY <1>5, <2>1, <2>2, <2>4, <2>5 DEF Numbering, IsSound
  <2>13. Sound(x, rx, cx, tx, nx, h, tab, n) /\ (Late(rx) <=> Late(qx))
    BY <2>8, <2>9, <2>11, <2>12, MoreIsSound DEF Full
  <2>14. Settled(x, rx, cx, px, tx, nx, h, tab, n)
    BY <1>7, <2>8, <2>11, BatchSettles
  <2>15. /\ is_client'[x] = cx /\ player'[x] = px /\ players'[x] = tx
         /\ player_name_to_idx'[x] = nx
    BY <1>2, <1>23, <2>2, <2>3, <2>4, <2>5 DEF Same
  <2>16. QED
    BY <2>1, <2>9, <2>13, <2>14, <2>15 DEF IsSound, IsSettled
<1>28. IsSound(d, h, tab, n)' /\ (MoreThan(d)' \/ IsSettled(d, h, tab, n)')
  <2>1. IsSound(d, h, tab, n)'
    BY <1>19, <1>22, <1>24 DEF IsSound
  <2>2. MoreThan(d) => MoreThan(d)'
    BY <1>20, <1>27 DEF MoreThan
  <2>3. IsSettled(d, h, tab, n) => IsSettled(d, h, tab, n)'
    BY <1>8, <1>9, <1>10, <1>11, <1>12, <1>19, <1>22, <1>24 DEF IsSettled
  <2>4. MoreThan(d) \/ IsSettled(d, h, tab, n)
    BY <1>2, <1>5 DEF Numbering
  <2>5. QED
    BY <2>1, <2>2, <2>3, <2>4
<1>29. IsTab(tab, n, h, session')
  BY <1>5, <1>20 DEF Numbering
<1>30. \A x \in session' : IsSound(x, h, tab, n)' /\ (MoreThan(x)' \/ IsSettled(x, h, tab, n)')
  BY <1>20, <1>27, <1>28
<1>31. Numbering(h, tab, n)'
  BY <1>29, <1>30 DEF Numbering
<1>32. Ordered'
  BY <1>31, NumberingIsOrderThen
<1>33. QED
  BY <1>25, <1>26, <1>32 DEF Kept

\* The order is kept when a device hears that another has come: a client ignores it, and
\* the host gives it its number.
LEMMA JoinedKeeps ==
  ASSUME WaitForPlayersAssumption, Frame, Kept, NEW d \in Devices, joined(d) PROVE Kept'
<1>1. Receive(d, "joined")
  BY DEF joined
<1>2. /\ Types /\ Untouched /\ d \in session /\ coming[d] # <<>> /\ coming[d] \in Seq(Messages)
      /\ coming[d][1].header = "joined" /\ Head(coming[d]) = coming[d][1]
      /\ session \subseteq Devices
  BY <1>1, ReceptionIs DEF Frame
<1>3. CASE is_client[d]
  <2>1. /\ coming' = Consumed(d) /\ session' = session /\ left' = left
        /\ is_client' = is_client /\ player' = player /\ players' = players
        /\ player_name_to_idx' = player_name_to_idx
    BY <1>3 DEF joined
  <2>2. \A e \in Devices : Same(e)
    BY <2>1 DEF Same
  <2>3. Received(d)
    BY <1>2, <2>1, <2>2, ReceivedBy DEF Types
  <2>4. QED
    BY <1>2, <1>3, <2>2, <2>3, SkipKeeps
<1>4. CASE ~is_client[d]
  <2>1. PICK h, n, tab : Numbering(h, tab, n) \/ \E e \in session : Unnumbered(e, h, tab, n)
    BY <1>2, SomeOrder
  <2>2. PICK q : q = coming[d]
    OBVIOUS
  <2>3. PICK c : c = is_client[d]
    OBVIOUS
  <2>4. PICK p : p = player[d]
    OBVIOUS
  <2>5. PICK t : t = players[d]
    OBVIOUS
  <2>6. PICK ns : ns = player_name_to_idx[d]
    OBVIOUS
  <2>7. PICK r : r = Tail(q)
    OBVIOUS
  <2>8. q \in Seq(Messages) /\ q # <<>> /\ q[1].header = "joined" /\ 1 \in DOMAIN q
    BY <1>2, <2>2, DropFirst
  <2>9. ~Numbering(h, tab, n)
    <3>1. SUFFICES ASSUME Numbering(h, tab, n) PROVE FALSE
      OBVIOUS
    <3>2. Sound(d, q, c, t, ns, h, tab, n)
      BY <1>2, <2>2, <2>3, <2>5, <2>6, <3>1 DEF Numbering, IsSound
    <3>3. Letter(q[1], d, c, h, tab, n)
      BY <2>7, <2>8, <3>2, TailIsSound
    <3>4. QED
      BY <1>4, <2>3, <2>8, <3>3 DEF Letter
  <2>10. PICK e \in session : Unnumbered(e, h, tab, n)
    BY <2>1, <2>9
  <2>11. PICK S : S = session \ {e}
    OBVIOUS
  <2>12. /\ h # e /\ IsTab(tab, n, h, S) /\ IsNew(e) /\ NoJoin(coming[e]) /\ OneJoin(coming[h])
         /\ \A x \in session : Waits(e, coming[x])
         /\ \A x \in S : Knows(x, is_client[x], player[x], players[x], player_name_to_idx[x], h, tab, n)
    BY <2>10, <2>11 DEF Unnumbered
  <2>13. d = h
    <3>1. d # e
      BY <2>2, <2>8, <2>12 DEF NoJoin
    <3>2. Knows(d, is_client[d], player[d], players[d], player_name_to_idx[d], h, tab, n)
      BY <1>2, <2>11, <2>12, <3>1
    <3>3. QED
      BY <1>4, <3>2 DEF Knows
  <2>14. /\ S \in SUBSET Devices /\ h \in S /\ e \in Devices /\ e \notin S /\ S \cup {e} = session
         /\ n \in Nat \ {0}
    BY <1>2, <2>11, <2>12 DEF IsTab
  <2>15. Knows(h, c, p, t, ns, h, tab, n)
    BY <2>3, <2>4, <2>5, <2>6, <2>12, <2>13, <2>14
  <2>16. Whole(t, tab, n) /\ DOMAIN t = 1 .. n
    BY <2>15 DEF Knows, Whole
  <2>17. q[1].src = e
    BY <1>2, <2>2, <2>8, <2>12 DEF Waits
  <2>18. get_vacant_player_spot(t) = n + 1
    <3>1. n <= Cardinality(Devices) /\ Cardinality(Devices) \in Nat
      BY <2>12, <2>14, SizeOfTab
    <3>2. n \in Nat
      BY <2>14
    <3>3. QED
      BY <2>16, <3>1, <3>2, NextNumber
  <2>19. PICK u : u = Assign(t, n + 1, e)
    OBVIOUS
  <2>20. PICK w : w = Assign(ns, e, n + 1)
    OBVIOUS
  <2>21. /\ session' = session /\ left' = left /\ is_client' = is_client /\ player' = player
         /\ players' = [players EXCEPT ![d] = u]
         /\ player_name_to_idx' = [player_name_to_idx EXCEPT ![d] = w]
         /\ coming' = send_messages(Consumed(d), d, [x \in Devices |-> Welcome(t, d, e, n + 1, x)])
    <3>1. Head(coming[d]).src = e /\ get_vacant_player_spot(players[d]) = n + 1
      BY <1>2, <2>2, <2>5, <2>17, <2>18
    <3>2. /\ players' = [players EXCEPT ![d] = Assign(@, n + 1, e)]
          /\ player_name_to_idx' = [player_name_to_idx EXCEPT ![d] = Assign(@, e, n + 1)]
          /\ coming' = send_messages(Consumed(d), d, [x \in Devices |-> Welcome(players[d], d, e, n + 1, x)])
          /\ UNCHANGED <<session, left, is_client, player, started>>
      BY <1>4, <3>1 DEF joined
    <3>3. QED
      BY <2>5, <2>6, <2>19, <2>20, <3>2
  <2>22. PICK m : m = Msg(d, "add_player", n + 1, e)
    OBVIOUS
  <2>23. m \in Messages /\ m.header = "add_player" /\ m.idx = n + 1 /\ m.name = e
    <3>1. "add_player" \in Headers /\ e \in Names /\ d \in Devices \cup {None} /\ n + 1 \in Nat
      BY <2>14 DEF Headers, Names
    <3>2. QED
      BY <2>22, <3>1, LettersAreMessages DEF Msg
  <2>24. \A x \in Devices \ {e} : Welcome(t, d, e, n + 1, x) = <<m>>
    BY <2>22 DEF Welcome
  <2>25. PICK b : b = Welcome(t, d, e, n + 1, e)
    OBVIOUS
  <2>26. PICK new : new = Extended(tab, n, e)
    OBVIOUS
  <2>27. ASSUME NEW cx PROVE Full(b, e, cx, h, new, n + 1)
    <3>1. e \in Devices \ S
      BY <2>14
    <3>2. Full(Welcome(t, d, e, n + 1, e), e, cx, h, Extended(tab, n, e), n + 1)
      BY <2>12, <2>14, <2>16, <3>1, WelcomeIsFull
    <3>3. QED
      BY <2>25, <2>26, <3>2
  <2>28. b \in Seq(Messages)
    BY <2>27 DEF Full
  <2>29. /\ coming' \in [Devices -> Seq(Messages)] /\ coming'[h] = r /\ coming'[e] = coming[e] \o b
         /\ \A x \in session \ {h, e} : coming'[x] = coming[x] \o <<m>>
         /\ \A x \in Devices : x \notin session => coming'[x] = coming[x]
    <3>1. PICK batch : batch = [x \in Devices |-> Welcome(t, d, e, n + 1, x)]
      OBVIOUS
    <3>2. batch[e] = b /\ \A x \in session \ {e} : batch[x] = <<m>>
      BY <1>2, <2>14, <2>24, <2>25, <3>1
    <3>3. <<m>> \in Seq(Messages)
      BY <2>23, OneMessage
    <3>4. \A x \in session \ {d} : batch[x] \in Seq(Messages)
      BY <2>28, <3>2, <3>3
    <3>5. PICK box : box = coming'
      OBVIOUS
    <3>6. box = send_messages(Consumed(d), d, batch)
      BY <2>21, <3>1, <3>5
    <3>7. Answered(d, batch, box)
      BY <1>2, <3>4, <3>6, SendsBatch
    <3>8. QED
      BY <2>2, <2>7, <2>12, <2>13, <3>2, <3>5, <3>7 DEF Answered
  <2>30. \A x \in Devices \ {d} : Same(x)
    BY <1>2, <2>21 DEF Same, Types
  <2>31. is_client'[h] = c /\ player'[h] = p /\ players'[h] = u /\ player_name_to_idx'[h] = w
    BY <1>2, <2>3, <2>4, <2>13, <2>21 DEF Types
  <2>32. Types'
    BY <1>2, <2>21, <2>29 DEF Types
  <2>33. Untouched'
    <3> SUFFICES ASSUME NEW x \in Devices \ session'
                 PROVE  coming'[x] = <<>> /\ (x \notin left' => IsNew(x)')
      BY DEF Untouched
    <3>1. x \in Devices \ session /\ x # d
      BY <1>2, <2>21
    <3>2. coming[x] = <<>> /\ (x \notin left => IsNew(x))
      BY <1>2, <3>1 DEF Untouched
    <3>3. QED
      BY <2>21, <2>29, <2>30, <3>1, <3>2 DEF Same, IsNew
  <2>34. IsTab(new, n + 1, h, session')
    <3>1. IsTab(Extended(tab, n, e), n + 1, h, S \cup {e})
      BY <2>12, <2>14, TabExtended
    <3>2. QED
      BY <2>14, <2>21, <2>26, <3>1
  <2>35. IsSound(h, h, new, n + 1)' /\ IsSettled(h, h, new, n + 1)'
    <3>1. Waits(e, q) /\ OneJoin(q)
      BY <1>2, <2>2, <2>12, <2>13
    <3>2. Waits(e, r) /\ NoJoin(r) /\ r \in Seq(Messages)
      BY <2>7, <2>8, <3>1, DropsJoin, HeadTailProperties
    <3>3. /\ Sound(h, r, c, Assign(t, n + 1, e), Assign(ns, e, n + 1), h, Extended(tab, n, e), n + 1)
          /\ Settled(h, r, c, p, Assign(t, n + 1, e), Assign(ns, e, n + 1), h, Extended(tab, n, e), n + 1)
      BY <2>12, <2>14, <2>15, <3>2, HostTakesNew
    <3>4. QED
      BY <2>19, <2>20, <2>26, <2>29, <2>31, <3>3 DEF IsSound, IsSettled
  <2>36. IsSound(e, h, new, n + 1)' /\ IsSettled(e, h, new, n + 1)'
    <3>1. PICK qx : qx = coming[e]
      OBVIOUS
    <3>2. PICK cx : cx = is_client[e]
      OBVIOUS
    <3>3. PICK px : px = player[e]
      OBVIOUS
    <3>4. PICK tx : tx = players[e]
      OBVIOUS
    <3>5. PICK nx : nx = player_name_to_idx[e]
      OBVIOUS
    <3>6. PICK rx : rx = qx \o b
      OBVIOUS
    <3>7. qx \in Seq(Messages) /\ Waits(e, qx) /\ NoJoin(qx)
      BY <1>2, <2>12, <2>14, <3>1 DEF Types
    <3>8. DOMAIN tx = {1}
      BY <2>12, <3>4 DEF IsNew, Assign, Empty
    <3>9. n \in Nat /\ e # h /\ Full(b, e, cx, h, new, n + 1)
      BY <2>12, <2>14, <2>27
    <3>10. /\ Sound(e, rx, cx, tx, nx, h, new, n + 1)
           /\ Settled(e, rx, cx, px, tx, nx, h, new, n + 1)
      BY <2>28, <3>6, <3>7, <3>8, <3>9, NewHearsAll
    <3>11. /\ coming'[e] = rx /\ is_client'[e] = cx /\ player'[e] = px /\ players'[e] = tx
           /\ player_name_to_idx'[e] = nx
      BY <2>12, <2>13, <2>14, <2>29, <2>30, <3>1, <3>2, <3>3, <3>4, <3>5, <3>6 DEF Same
    <3>12. QED
      BY <3>10, <3>11 DEF IsSound, IsSettled
  <2>37. ASSUME NEW x \in session \ {h, e}
         PROVE  IsSound(x, h, new, n + 1)' /\ IsSettled(x, h, new, n + 1)'
    <3>1. PICK qx : qx = coming[x]
      OBVIOUS
    <3>2. PICK cx : cx = is_client[x]
      OBVIOUS
    <3>3. PICK px : px = player[x]
      OBVIOUS
    <3>4. PICK tx : tx = players[x]
      OBVIOUS
    <3>5. PICK nx : nx = player_name_to_idx[x]
      OBVIOUS
    <3>6. PICK rx : rx = qx \o <<m>>
      OBVIOUS
    <3>7. qx \in Seq(Messages) /\ Waits(e, qx) /\ x # h
      BY <1>2, <2>12, <3>1 DEF Types
    <3>8. Knows(x, cx, px, tx, nx, h, tab, n)
      BY <2>11, <2>12, <3>2, <3>3, <3>4, <3>5
    <3>9. /\ Sound(x, rx, cx, tx, nx, h, Extended(tab, n, e), n + 1)
          /\ Settled(x, rx, cx, px, tx, nx, h, Extended(tab, n, e), n + 1)
      BY <2>12, <2>14, <2>23, <3>6, <3>7, <3>8, MemberHearsOfNew
    <3>10. /\ coming'[x] = rx /\ is_client'[x] = cx /\ player'[x] = px /\ players'[x] = tx
           /\ player_name_to_idx'[x] = nx
      BY <1>2, <2>13, <2>29, <2>30, <3>1, <3>2, <3>3, <3>4, <3>5, <3>6 DEF Same
    <3>11. QED
      BY <2>26, <3>9, <3>10 DEF IsSound, IsSettled
  <2>38. \A x \in session' : IsSound(x, h, new, n + 1)' /\ (MoreThan(x)' \/ IsSettled(x, h, new, n + 1)')
    BY <2>21, <2>35, <2>36, <2>37
  <2>39. Numbering(h, new, n + 1)'
    BY <2>34, <2>38 DEF Numbering
  <2>40. Ordered'
    BY <2>39, NumberingIsOrderThen
  <2>41. QED
    BY <2>32, <2>33, <2>40 DEF Kept
<1>5. QED
  BY <1>3, <1>4

-----------------------------------------------------------------------------
(* All steps *)

\* Every step keeps the invariant.
LEMMA StepKeeps ==
  ASSUME WaitForPlayersAssumption, OneAtATime, IInv, [Next]_vars PROVE IInv'
<1>1. Frame' /\ (HostsStay' => HostsStay)
  BY FrameKept DEF IInv
<1>2. SUFFICES ASSUME HostsStay' PROVE Kept'
  BY <1>1 DEF IInv
<1>3. Frame /\ Kept
  BY <1>1, <1>2 DEF IInv
<1>4. CASE UNCHANGED vars
  <2>1. session' = session /\ left' = left /\ is_client' = is_client /\ player' = player
        /\ players' = players /\ player_name_to_idx' = player_name_to_idx /\ coming' = coming
    BY <1>4 DEF vars
  <2>2. Types' /\ Untouched' /\ (NobodyYet => NobodyYet')
    BY <1>3, <2>1 DEF Kept, Types, Untouched, IsNew, NobodyYet
  <2>3. ASSUME Ordered PROVE Ordered'
    BY <2>1, <2>3 DEF Ordered, IsOrdered, Numbering, Joining, Unnumbered, IsNew, IsSound, IsSettled, MoreThan
  <2>4. QED
    BY <1>3, <2>2, <2>3 DEF Kept
<1>5. ASSUME NEW d \in Devices, init(d) PROVE Kept'
  BY <1>3, <1>5, InitKeeps
<1>6. ASSUME NEW d \in Devices, handle_popup_btn_clicked(d) PROVE Kept'
  BY <1>3, <1>6, ClickKeeps
<1>7. ASSUME NEW d \in Devices, Leave(d) PROVE Kept'
  BY <1>2, <1>3, <1>7, LeaveKeeps
<1>8. ASSUME NEW d \in Devices, become_client_player(d) PROVE Kept'
  BY <1>3, <1>8, BecomeKeeps
<1>9. ASSUME NEW d \in Devices, clear_players(d) PROVE Kept'
  BY <1>3, <1>9, ClearKeeps
<1>10. ASSUME NEW d \in Devices, add_player(d) PROVE Kept'
  BY <1>3, <1>10, AddKeeps
<1>11. ASSUME NEW d \in Devices, player_left(d) PROVE Kept'
  BY <1>3, <1>11, LeftKeeps
<1>12. ASSUME NEW d \in Devices, joined(d) PROVE Kept'
  BY <1>3, <1>12, JoinedKeeps
<1>13. ASSUME NEW d \in Devices, start_game(d) PROVE Kept'
  BY <1>3, <1>13, StartKeeps
<1>14. QED
  BY <1>4, <1>5, <1>6, <1>7, <1>8, <1>9, <1>10, <1>11, <1>12, <1>13 DEF Next

\* What the invariant says when nothing is on its way.
LEMMA RestAgrees ==
  ASSUME WaitForPlayersAssumption, IInv PROVE NumbersAgree
<1>1. SUFFICES ASSUME AtRest, HostsStay, session # {}
      PROVE  \E h \in Hosts :
               /\ DOMAIN players[h] = 1 .. Cardinality(session)
               /\ \A c \in session \ {h} :
                    /\ is_client[c] /\ player[c] \in DOMAIN players[h]
                    /\ players[h][player[c]] = c
  BY DEF NumbersAgree
<1>2. Frame /\ Kept
  BY <1>1 DEF IInv
<1>3. PICK h, n, tab : AllKnow(h, tab, n)
  BY <1>1, <1>2, AtRestAllKnow
<1>4. IsTab(tab, n, h, session) /\ h \in session /\ n \in Nat \ {0} /\ tab[1] = h
  BY <1>3 DEF AllKnow, IsTab
<1>5. n = Cardinality(session)
  <2>1. PICK S : S = session
    OBVIOUS
  <2>2. S \in SUBSET Devices /\ IsTab(tab, n, h, S)
    BY <1>2, <1>4, <2>1 DEF Frame
  <2>3. QED
    BY <2>1, <2>2, SizeOfTab
<1>6. Knows(h, is_client[h], player[h], players[h], player_name_to_idx[h], h, tab, n)
  BY <1>3, <1>4 DEF AllKnow
<1>7. h \in Hosts /\ Whole(players[h], tab, n)
  BY <1>4, <1>6 DEF Hosts, Knows
<1>8. ASSUME NEW c \in session \ {h}
      PROVE  is_client[c] /\ player[c] \in DOMAIN players[h] /\ players[h][player[c]] = c
  <2>1. Knows(c, is_client[c], player[c], players[c], player_name_to_idx[c], h, tab, n)
    BY <1>3 DEF AllKnow
  <2>2. is_client[c] /\ player[c] \in 1 .. n /\ tab[player[c]] = c
    BY <2>1 DEF Knows
  <2>3. player[c] # 1
    BY <1>4, <2>2
  <2>4. QED
    BY <1>7, <2>2, <2>3 DEF Whole, Right
<1>9. DOMAIN players[h] = 1 .. Cardinality(session)
  BY <1>5, <1>7 DEF Whole
<1>10. QED
  BY <1>7, <1>8, <1>9

\* For any number of devices: when they come and leave one at a time and no host leaves,
\* they agree on the numbers of the players whenever nothing is on its way
\* (wait_for_players.lua:146-240).
THEOREM EverybodyIsNumbered ==
  ASSUME WaitForPlayersAssumption, OneAtATime
  PROVE  Spec => []NumbersAgree
<1>1. Init => IInv
  BY InitHolds
<1>2. IInv /\ [Next]_vars => IInv'
  BY StepKeeps
<1>3. IInv => NumbersAgree
  BY RestAgrees
<1>4. QED
  BY <1>1, <1>2, <1>3, PTL DEF Spec
=============================================================================
