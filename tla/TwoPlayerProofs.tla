---------------------------- MODULE TwoPlayerProofs ----------------------------
(***************************************************************************)
(* Proofs about TwoPlayer: what the devices know of each other when no     *)
(* message is on its way, for any number of devices, colours, choices and  *)
(* leaves, and what two devices with one colour do, for any number of      *)
(* choices.                                                                *)
(***************************************************************************)
EXTENDS TwoPlayer, FiniteSetTheorems, SequenceTheorems, WellFoundedInduction, TLAPS

Answers == Colours \cup {None}

Messages == {AmPlayer(e, c) : e \in Devices, c \in Colours}
              \cup {Joined(e) : e \in Devices} \cup {PlayerLeft(e) : e \in Devices}

\* What a message says of the colour of e is its field colour, which is None when e
\* has left.
Tells(m, e) == m.src = e /\ m.header # "joined"

\* The last word about e in the messages q is v.
LastWord(q, e, v) ==
  \E i \in DOMAIN q : Tells(q[i], e) /\ q[i].colour = v /\ \A j \in DOMAIN q : Tells(q[j], e) => j <= i

\* Who knows k of e knows v when the messages q are handled.
Comes(q, e, k, v) ==
  \/ k = v /\ \A i \in DOMAIN q : ~Tells(q[i], e)
  \/ LastWord(q, e, v)

On(q, m) == \E i \in DOMAIN q : q[i] = m

-----------------------------------------------------------------------------
(* The invariant *)

Typing ==
  /\ here \subseteq Devices /\ gone \subseteq Devices /\ here \cap gone = {}
  /\ type \in [Devices -> {None, "local", "network"}]
  /\ mine \in [Devices -> Answers]
  /\ known \in [Devices -> [Devices -> Answers]]
  /\ popup \in [Devices -> {None, "type", "choice"}]
  /\ inbox \in [Devices -> Seq(Messages)]

\* Nobody writes to itself, and nobody is said to have left who has not.
Letters ==
  \A d \in Devices, m \in Messages :
    On(inbox[d], m) => m.src # d /\ (m.header = "player_left" => m.src \in gone)

\* A device that has not come yet knows nothing, one that is asked for its type has
\* none, and only one in a network game is asked for a colour.
Phases ==
  \A d \in Devices :
    /\ d \notin here \cup gone => type[d] = None /\ inbox[d] = <<>> /\ \A e \in Devices : known[d][e] = None
    /\ d \in here => (type[d] = None <=> popup[d] = "type") /\ (popup[d] = "choice" => type[d] = "network")
    /\ type[d] = None => mine[d] = None

\* What d knows of e when its messages are handled is what e has chosen, or nothing as
\* long as the "joined" of d is on its way to e; of whoever is not in a network game
\* it is nothing.
Sees(d, e, v) == Comes(inbox[d], e, known[d][e], v)
Agrees(d, e) ==
  IF e \in Network THEN Sees(d, e, mine[e]) \/ (Sees(d, e, None) /\ On(inbox[e], Joined(d)))
  ELSE Sees(d, e, None)
Agreement == \A d \in here, e \in Devices : type[d] # "local" /\ d # e => Agrees(d, e)

IInv == Typing /\ Letters /\ Phases /\ Agreement

-----------------------------------------------------------------------------
(* Messages *)

\* The three kinds of message.
MessageKinds ==
  \A m \in Messages :
    /\ m.src \in Devices /\ m.header \in {"am_player", "joined", "player_left"}
    /\ m.header = "am_player" => m.colour \in Colours /\ m.colour # None
    /\ m.header # "am_player" => m.colour = None
    /\ m.header = "joined" => m = Joined(m.src)
    /\ m.colour \in Answers

\* Every message is of one of the three kinds, and only am_player tells a colour.
LEMMA KindsOfMessages == MessageKinds
BY TwoPlayerAssumption DEF MessageKinds, Messages, AmPlayer, Joined, PlayerLeft, Answers, Parameters

\* What the constructors of messages give.
MessageParts ==
  \A e \in Devices :
    /\ \A c \in Colours :
         /\ AmPlayer(e, c) \in Messages /\ AmPlayer(e, c).colour = c
         /\ AmPlayer(e, c).src = e /\ AmPlayer(e, c).header = "am_player"
    /\ Joined(e) \in Messages /\ Joined(e).src = e /\ Joined(e).header = "joined"
    /\ PlayerLeft(e) \in Messages /\ PlayerLeft(e).colour = None
    /\ PlayerLeft(e).src = e /\ PlayerLeft(e).header = "player_left"

\* The constructors of messages make messages of their kind from their sender.
LEMMA PartsOfMessages == MessageParts
BY DEF MessageParts, Messages, AmPlayer, Joined, PlayerLeft

\* A message that is put at the end has the last word about its sender, and changes
\* nothing about the others.
Grown(q, m, r) ==
  /\ r \in Seq(Messages)
  /\ \A e : Tells(m, e) => LastWord(r, e, m.colour)
  /\ \A e, v : ~Tells(m, e) /\ LastWord(q, e, v) => LastWord(r, e, v)
  /\ \A e, k, v : ~Tells(m, e) /\ Comes(q, e, k, v) => Comes(r, e, k, v)
  /\ \A x : On(r, x) <=> On(q, x) \/ x = m

\* Appending to an inbox is what Grown says.
LEMMA Appended ==
  ASSUME NEW q \in Seq(Messages), NEW m \in Messages
  PROVE  Grown(q, m, Append(q, m))
<1>1. PICK n : n = Len(q)
  OBVIOUS
<1>2. PICK r : r = Append(q, m)
  OBVIOUS
<1>3. /\ n \in Nat /\ DOMAIN q = 1 .. n /\ r \in Seq(Messages) /\ DOMAIN r = 1 .. n + 1
      /\ r[n + 1] = m /\ \A i \in 1 .. n : r[i] = q[i]
  BY <1>1, <1>2, AppendProperties, LenProperties
<1>4. /\ n + 1 \in 1 .. n + 1 /\ \A i \in 1 .. n : i \in 1 .. n + 1 /\ i <= n + 1
      /\ \A i \in 1 .. n + 1 : i \in 1 .. n \/ i = n + 1
      /\ \A i \in 1 .. n + 1 : i <= n + 1
  BY <1>3
<1>5. ASSUME NEW e, Tells(m, e) PROVE LastWord(r, e, m.colour)
  BY <1>3, <1>4, <1>5 DEF LastWord
<1>6. ASSUME NEW e, NEW v, ~Tells(m, e), LastWord(q, e, v) PROVE LastWord(r, e, v)
  <2>1. PICK i \in 1 .. n : Tells(q[i], e) /\ q[i].colour = v /\ \A j \in 1 .. n : Tells(q[j], e) => j <= i
    BY <1>3, <1>6 DEF LastWord
  <2>2. \A j \in 1 .. n + 1 : Tells(r[j], e) => j <= i
    BY <1>3, <1>4, <1>6, <2>1
  <2>3. QED
    BY <1>3, <1>4, <2>1, <2>2 DEF LastWord
<1>7. ASSUME NEW e, NEW k, NEW v, ~Tells(m, e), Comes(q, e, k, v) PROVE Comes(r, e, k, v)
  <2>1. CASE LastWord(q, e, v)
    BY <1>6, <1>7, <2>1 DEF Comes
  <2>2. CASE k = v /\ \A i \in DOMAIN q : ~Tells(q[i], e)
    BY <1>3, <1>4, <1>7, <2>2 DEF Comes
  <2>3. QED
    BY <1>7, <2>1, <2>2 DEF Comes
<1>8. \A x : On(r, x) <=> On(q, x) \/ x = m
  BY <1>3, <1>4 DEF On
<1>9. QED
  BY <1>2, <1>3, <1>5, <1>6, <1>7, <1>8 DEF Grown

\* Whoever enters what the first message tells comes to know the same in the end.
Shrunk(q, h, r) ==
  /\ h \in Messages /\ r \in Seq(Messages)
  /\ \A e, k, v : Comes(q, e, k, v) => Comes(r, e, IF Tells(h, e) THEN h.colour ELSE k, v)
  /\ \A e, v : LastWord(q, e, v) => LastWord(r, e, v) \/ (Tells(h, e) /\ h.colour = v)
  /\ \A x : On(q, x) <=> x = h \/ On(r, x)

\* Handling the first message of an inbox is what Shrunk says.
LEMMA Taken ==
  ASSUME NEW q \in Seq(Messages), q # <<>>
  PROVE  Shrunk(q, Head(q), Tail(q))
<1>1. PICK n : n = Len(q)
  OBVIOUS
<1>2. PICK h, r : h = Head(q) /\ r = Tail(q)
  OBVIOUS
<1>3. /\ n \in Nat /\ n > 0 /\ DOMAIN q = 1 .. n /\ r \in Seq(Messages) /\ DOMAIN r = 1 .. n - 1
      /\ h = q[1] /\ h \in Messages /\ \A i \in 1 .. n - 1 : r[i] = q[i + 1]
  BY <1>1, <1>2, HeadTailProperties, LenProperties, EmptySeq
<1>4. /\ 1 \in 1 .. n /\ \A i \in 1 .. n - 1 : i + 1 \in 1 .. n
      /\ \A i \in 1 .. n : i = 1 \/ (i - 1 \in 1 .. n - 1 /\ r[i - 1] = q[i])
  BY <1>3
<1>5. ASSUME NEW e, NEW v, LastWord(q, e, v)
      PROVE  \/ LastWord(r, e, v)
             \/ Tells(h, e) /\ h.colour = v /\ \A i \in 1 .. n - 1 : ~Tells(r[i], e)
  <2>1. PICK i \in 1 .. n : Tells(q[i], e) /\ q[i].colour = v /\ \A j \in 1 .. n : Tells(q[j], e) => j <= i
    BY <1>3, <1>5 DEF LastWord
  <2>2. CASE i = 1
    <3>1. \A j \in 1 .. n - 1 : ~(j + 1 <= 1)
      BY <1>3
    <3>2. \A j \in 1 .. n - 1 : ~Tells(r[j], e)
      BY <1>3, <1>4, <2>1, <2>2, <3>1
    <3>3. QED
      BY <1>3, <2>1, <2>2, <3>2
  <2>3. CASE i # 1
    <3>1. i - 1 \in 1 .. n - 1 /\ r[i - 1] = q[i]
      BY <1>4, <2>3
    <3>2. \A j \in 1 .. n - 1 : Tells(r[j], e) => j + 1 <= i
      BY <1>3, <1>4, <2>1
    <3>3. \A j \in 1 .. n - 1 : Tells(r[j], e) => j <= i - 1
      BY <1>3, <3>2
    <3>4. QED
      BY <1>3, <2>1, <3>1, <3>3 DEF LastWord
  <2>4. QED
    BY <2>2, <2>3
<1>6. ASSUME NEW e, NEW k, NEW v, Comes(q, e, k, v)
      PROVE  Comes(r, e, IF Tells(h, e) THEN h.colour ELSE k, v)
  <2>1. CASE LastWord(q, e, v)
    BY <1>3, <1>5, <2>1 DEF Comes
  <2>2. CASE k = v /\ \A i \in DOMAIN q : ~Tells(q[i], e)
    BY <1>3, <1>4, <2>2 DEF Comes
  <2>3. QED
    BY <1>6, <2>1, <2>2 DEF Comes
<1>7. \A x : On(q, x) <=> x = h \/ On(r, x)
  BY <1>3, <1>4 DEF On
<1>8. QED
  BY <1>2, <1>3, <1>5, <1>6, <1>7 DEF Shrunk

\* Without messages there is nothing to wait for.
LEMMA Nothing ==
  /\ \A e, k, v : Comes(<<>>, e, k, v) <=> k = v
  /\ \A x : ~On(<<>>, x)
  /\ \A e, v : ~LastWord(<<>>, e, v)
  /\ <<>> \in Seq(Messages)
<1>1. DOMAIN <<>> = {}
  OBVIOUS
<1>2. QED
  BY <1>1 DEF Comes, On, LastWord

\* A message to all gets to every device of the session but its sender.
Sending(box, d, m, new) ==
  /\ new \in [Devices -> Seq(Messages)]
  /\ \A e \in Devices : e \in here /\ e # d => Grown(box[e], m, new[e])
  /\ \A e \in Devices : e \notin here \/ e = d => new[e] = box[e]

\* Broadcast is what Sending says.
LEMMA Sent ==
  ASSUME NEW box \in [Devices -> Seq(Messages)], NEW d \in Devices, NEW m \in Messages
  PROVE  Sending(box, d, m, Broadcast(box, d, m))
<1>1. \A e \in Devices : Append(box[e], m) \in Seq(Messages) /\ Grown(box[e], m, Append(box[e], m))
  BY Appended DEF Grown
<1>2. QED
  BY <1>1 DEF Sending, Broadcast

-----------------------------------------------------------------------------
(* What a device knows of another *)

\* A message of somebody else changes nothing.
LEMMA StillAgrees ==
  ASSUME NEW f \in Devices, NEW e \in Devices, NEW m \in Messages, Agrees(f, e),
         e \in Network' <=> e \in Network, mine'[e] = mine[e], known'[f][e] = known[f][e],
         inbox'[f] = inbox[f] \/ (Grown(inbox[f], m, inbox'[f]) /\ ~Tells(m, e)),
         On(inbox[e], Joined(f)) => On(inbox'[e], Joined(f))
  PROVE  Agrees(f, e)'
<1>1. \A v : Sees(f, e, v) => Sees(f, e, v)'
  BY DEF Sees, Grown
<1>2. QED
  BY <1>1 DEF Agrees

\* A message with the right colour settles what there is to know.
LEMMA ToldAgrees ==
  ASSUME NEW f \in Devices, NEW e \in Devices, NEW m \in Messages, Tells(m, e),
         Grown(inbox[f], m, inbox'[f]),
         m.colour = IF e \in Network' THEN mine'[e] ELSE None
  PROVE  Agrees(f, e)'
<1>1. LastWord(inbox'[f], e, m.colour)
  BY DEF Grown
<1>2. QED
  BY <1>1 DEF Agrees, Sees, Comes

\* A message that is handled is entered in what the device knows.
LEMMA TakenAgrees ==
  ASSUME NEW f \in Devices, NEW e \in Devices, NEW h \in Messages, Agrees(f, e),
         e \in Network' <=> e \in Network, mine'[e] = mine[e],
         Shrunk(inbox[f], h, inbox'[f]),
         known'[f][e] = IF Tells(h, e) THEN h.colour ELSE known[f][e],
         On(inbox[e], Joined(f)) => On(inbox'[e], Joined(f))
  PROVE  Agrees(f, e)'
<1>1. \A v : Sees(f, e, v) => Sees(f, e, v)'
  BY DEF Sees, Shrunk
<1>2. QED
  BY <1>1 DEF Agrees

-----------------------------------------------------------------------------
(* Every step keeps the invariant *)

\* A device that joins is told nothing yet, and its Joined is on its way to all others.
LEMMA StartKeeps ==
  ASSUME IInv, NEW d \in Devices, Start(d)
  PROVE  IInv'
<1>1. PICK m \in Messages : m = Joined(d) /\ m.src = d /\ m.header = "joined"
  BY PartsOfMessages DEF MessageParts
<1>2. /\ d \notin here \cup gone /\ here' = here \cup {d}
      /\ popup' = [popup EXCEPT ![d] = "type"] /\ inbox' = Broadcast(inbox, d, m)
      /\ UNCHANGED <<gone, type, mine, known>>
      /\ type[d] = None /\ inbox[d] = <<>> /\ \A e \in Devices : known[d][e] = None
  BY <1>1 DEF Start, IInv, Phases
<1>3. /\ inbox' \in [Devices -> Seq(Messages)]
      /\ \A e \in Devices : e \in here => Grown(inbox[e], m, inbox'[e])
      /\ \A e \in Devices : e \notin here => inbox'[e] = inbox[e]
  <2>1. Sending(inbox, d, m, inbox')
    BY <1>2, Sent DEF IInv, Typing
  <2>2. QED
    BY <1>2, <2>1 DEF Sending
<1>4. Typing'
  BY <1>2, <1>3 DEF IInv, Typing
<1>5. \A e \in Devices : \A x : On(inbox'[e], x) <=> On(inbox[e], x) \/ (e \in here /\ x = m)
  BY <1>3 DEF Grown
<1>6. Letters'
  BY <1>1, <1>2, <1>5 DEF IInv, Letters
<1>7. Phases'
  <2>1. ASSUME NEW e \in Devices, e # d
        PROVE  popup'[e] = popup[e] /\ (e \in here' <=> e \in here) /\ (e \notin here => inbox'[e] = inbox[e])
    BY <1>2, <1>3, <2>1 DEF IInv, Typing
  <2>2. d \in here' /\ popup'[d] = "type"
    BY <1>2 DEF IInv, Typing
  <2>3. ASSUME NEW e \in Devices
        PROVE  /\ e \notin here' \cup gone' =>
                    type'[e] = None /\ inbox'[e] = <<>> /\ \A o \in Devices : known'[e][o] = None
               /\ e \in here' => /\ type'[e] = None <=> popup'[e] = "type"
                                 /\ popup'[e] = "choice" => type'[e] = "network"
               /\ type'[e] = None => mine'[e] = None
    BY <1>2, <2>1, <2>2 DEF IInv, Phases
  <2>4. QED
    BY <2>3 DEF Phases
<1>8. Network' = Network
  BY <1>2, TwoPlayerAssumption DEF Network, Parameters
<1>9. Agreement'
  <2>1. ASSUME NEW f \in here', NEW e \in Devices, type'[f] # "local", f # e
        PROVE  Agrees(f, e)'
    <3>1. CASE f = d
      <4>1. Sees(f, e, None)'
        BY <1>2, <1>3, <3>1, Nothing DEF Sees
      <4>2. e \in Network => On(inbox'[e], m)
        BY <1>5 DEF Network
      <4>3. QED
        BY <1>1, <1>8, <3>1, <4>1, <4>2 DEF Agrees
    <3>2. CASE f # d
      <4>1. f \in here /\ f \in Devices /\ Agrees(f, e)
        BY <1>2, <2>1, <3>2 DEF IInv, Typing, Agreement
      <4>2. ~Tells(m, e)
        BY <1>1 DEF Tells
      <4>3. QED
        BY <1>2, <1>3, <1>5, <1>8, <4>1, <4>2, StillAgrees DEF IInv
    <3>3. QED
      BY <3>1, <3>2
  <2>2. QED
    BY <2>1 DEF Agreement
<1>10. QED
  BY <1>4, <1>6, <1>7, <1>9 DEF IInv

\* Choosing local or network sends nothing: no colour is known of a device that has none.
LEMMA ChooseTypeKeeps ==
  ASSUME IInv, NEW d \in Devices, ChooseLocal(d) \/ ChooseNetwork(d)
  PROVE  IInv'
<1>1. /\ d \in here /\ popup[d] = "type" /\ type[d] = None /\ mine[d] = None
      /\ UNCHANGED <<here, gone, known, inbox>>
  BY DEF ChooseLocal, ChooseNetwork, IInv, Phases
<1>2. \/ /\ type' = [type EXCEPT ![d] = "local"] /\ popup' = [popup EXCEPT ![d] = None]
         /\ \E c \in Answers : mine' = [mine EXCEPT ![d] = c]
      \/ /\ type' = [type EXCEPT ![d] = "network"] /\ popup' = [popup EXCEPT ![d] = "choice"]
         /\ mine' = mine
  BY <1>1 DEF ChooseLocal, ChooseNetwork, Answers
<1>3. Typing'
  BY <1>1, <1>2 DEF IInv, Typing
<1>4. /\ \A e \in Devices : e # d => type'[e] = type[e] /\ mine'[e] = mine[e] /\ popup'[e] = popup[e]
      /\ \/ type'[d] = "local" /\ popup'[d] = None
         \/ type'[d] = "network" /\ popup'[d] = "choice" /\ mine'[d] = None
  BY <1>1, <1>2 DEF IInv, Typing
<1>5. Letters'
  BY <1>1 DEF IInv, Letters
<1>6. None \notin {"local", "network", "type", "choice"}
  BY TwoPlayerAssumption DEF Parameters
<1>7. Phases'
  BY <1>1, <1>4, <1>6 DEF IInv, Phases
<1>8. Agreement'
  <2>1. ASSUME NEW f \in here', NEW e \in Devices, type'[f] # "local", f # e
        PROVE  Agrees(f, e)'
    <3>1. f \in here /\ f \in Devices /\ type[f] # "local"
      BY <1>1, <1>4, <1>6, <2>1 DEF IInv, Typing
    <3>2. Agrees(f, e)
      BY <2>1, <3>1 DEF IInv, Agreement
    <3>3. CASE e = d
      <4>1. Sees(f, d, None)
        BY <1>1, <1>6, <3>2, <3>3 DEF Agrees, Network
      <4>2. Sees(f, d, None)'
        BY <1>1, <4>1 DEF Sees
      <4>3. d \in Network' => mine'[d] = None
        BY <1>4 DEF Network
      <4>4. QED
        BY <3>3, <4>2, <4>3 DEF Agrees
    <3>4. CASE e # d
      BY <1>1, <1>4, <3>2, <3>4 DEF Agrees, Sees, Network
    <3>5. QED
      BY <3>3, <3>4
  <2>2. QED
    BY <2>1 DEF Agreement
<1>9. QED
  BY <1>3, <1>5, <1>7, <1>8 DEF IInv

\* A chosen colour is the last word about its device in every other inbox.
LEMMA ChooseColourKeeps ==
  ASSUME IInv, NEW d \in Devices, NEW c \in Colours, ChooseColour(d, c)
  PROVE  IInv'
<1>1. PICK m \in Messages : m = AmPlayer(d, c) /\ m.src = d /\ m.colour = c /\ m.header = "am_player"
  BY PartsOfMessages DEF MessageParts
<1>2. /\ d \in here /\ popup[d] = "choice" /\ type[d] = "network"
      /\ inbox' = Broadcast(inbox, d, m)
      /\ popup' = [popup EXCEPT ![d] = None] /\ mine' = [mine EXCEPT ![d] = c]
      /\ UNCHANGED <<here, gone, type, known>>
  BY <1>1 DEF ChooseColour, IInv, Phases
<1>3. Sending(inbox, d, m, inbox')
  BY <1>2, Sent DEF IInv, Typing
<1>4. /\ \A e \in Devices : e # d => mine'[e] = mine[e] /\ popup'[e] = popup[e]
      /\ mine'[d] = c /\ popup'[d] = None
      /\ None \notin {"local", "network", "type", "choice"}
  BY <1>2, TwoPlayerAssumption DEF IInv, Typing, Parameters
<1>5. Typing'
  BY <1>2, <1>3 DEF IInv, Typing, Answers, Sending
<1>6. \A e \in Devices : \A x : On(inbox'[e], x) => On(inbox[e], x) \/ (e # d /\ x = m)
  BY <1>2, <1>3 DEF Sending, Grown
<1>7. Letters'
  BY <1>1, <1>2, <1>6 DEF IInv, Letters
<1>8. Phases'
  <2>1. ASSUME NEW e \in Devices, e \notin here \cup gone PROVE inbox'[e] = <<>>
    BY <1>3, <2>1 DEF IInv, Phases, Sending
  <2>2. QED
    BY <1>2, <1>4, <2>1 DEF IInv, Phases
<1>9. Network' = Network /\ d \in Network
  BY <1>2 DEF Network
<1>10. Agreement'
  <2>1. ASSUME NEW f \in here', NEW e \in Devices, type'[f] # "local", f # e
        PROVE  Agrees(f, e)'
    <3>1. f \in here /\ f \in Devices /\ Agrees(f, e)
      BY <1>2, <2>1 DEF IInv, Typing, Agreement
    <3>2. CASE e = d
      <4>1. Grown(inbox[f], m, inbox'[f]) /\ Tells(m, e)
        BY <1>1, <1>3, <2>1, <3>1, <3>2 DEF Sending, Tells
      <4>2. QED
        BY <1>1, <1>4, <1>9, <3>1, <3>2, <4>1, ToldAgrees
    <3>3. CASE e # d
      <4>1. ~Tells(m, e)
        BY <1>1, <3>3 DEF Tells
      <4>2. inbox'[f] = inbox[f] \/ Grown(inbox[f], m, inbox'[f])
        BY <1>3, <3>1 DEF Sending
      <4>3. \A x : On(inbox[e], x) => On(inbox'[e], x)
        BY <1>3 DEF Sending, Grown
      <4>4. QED
        BY <1>2, <1>4, <1>9, <3>1, <3>3, <4>1, <4>2, <4>3, StillAgrees
    <3>4. QED
      BY <3>2, <3>3
  <2>2. QED
    BY <2>1 DEF Agreement
<1>11. QED
  BY <1>5, <1>7, <1>8, <1>10 DEF IInv

\* A device that leaves has player_left as the last word about it in every other inbox.
LEMMA LeaveKeeps ==
  ASSUME IInv, NEW d \in Devices, Leave(d)
  PROVE  IInv'
<1>1. PICK m \in Messages : m = PlayerLeft(d) /\ m.src = d /\ m.colour = None /\ m.header = "player_left"
  BY PartsOfMessages DEF MessageParts
<1>2. PICK box : box = Broadcast(inbox, d, m)
  OBVIOUS
<1>3. /\ d \in here /\ here' = here \ {d} /\ gone' = gone \cup {d}
      /\ inbox' = [box EXCEPT ![d] = <<>>] /\ popup' = [popup EXCEPT ![d] = None]
      /\ UNCHANGED <<type, mine, known>>
  BY <1>1, <1>2 DEF Leave
<1>4. Sending(inbox, d, m, box)
  BY <1>2, Sent DEF IInv, Typing
<1>5. /\ inbox' \in [Devices -> Seq(Messages)] /\ inbox'[d] = <<>>
      /\ \A e \in Devices : e \in here' => Grown(inbox[e], m, inbox'[e])
      /\ \A e \in Devices : e \notin here => inbox'[e] = inbox[e]
  BY <1>3, <1>4, Nothing DEF Sending
<1>6. Typing'
  BY <1>3, <1>5 DEF IInv, Typing
<1>7. \A e \in Devices : \A x : On(inbox'[e], x) => On(inbox[e], x) \/ (e # d /\ x = m)
  <2>1. ASSUME NEW e \in Devices PROVE e = d \/ e \in here' \/ e \notin here
    BY <1>3
  <2>2. QED
    BY <1>5, <2>1, Nothing DEF Grown
<1>8. Letters'
  BY <1>1, <1>3, <1>7 DEF IInv, Letters
<1>9. Phases'
  <2>1. \A e \in Devices : e # d => popup'[e] = popup[e]
    BY <1>3 DEF IInv, Typing
  <2>2. QED
    BY <1>3, <1>5, <2>1 DEF IInv, Phases
<1>10. Network' = Network \ {d}
  BY <1>3 DEF Network
<1>11. Agreement'
  <2>1. ASSUME NEW f \in here', NEW e \in Devices, type'[f] # "local", f # e
        PROVE  Agrees(f, e)'
    <3>1. f \in here /\ f \in Devices /\ f # d /\ Agrees(f, e) /\ Grown(inbox[f], m, inbox'[f])
      BY <1>3, <1>5, <2>1 DEF IInv, Typing, Agreement
    <3>2. CASE e = d
      <4>1. Tells(m, e)
        BY <1>1, <3>2 DEF Tells
      <4>2. QED
        BY <1>1, <1>10, <3>1, <3>2, <4>1, ToldAgrees
    <3>3. CASE e # d
      <4>1. ~Tells(m, e)
        BY <1>1, <3>3 DEF Tells
      <4>2. \A x : On(inbox[e], x) => On(inbox'[e], x)
        BY <1>3, <1>5, <3>3 DEF Grown
      <4>3. QED
        BY <1>3, <1>10, <3>1, <3>3, <4>1, <4>2, StillAgrees
    <3>4. QED
      BY <3>2, <3>3
  <2>2. QED
    BY <2>1 DEF Agreement
<1>12. QED
  BY <1>6, <1>8, <1>9, <1>11 DEF IInv

\* A device takes its next message, and enters what it tells unless it plays alone.
LEMMA TakingKeeps ==
  ASSUME IInv, NEW d \in Devices, d \in here, inbox[d] # <<>>,
         inbox' = Consumed(d), UNCHANGED <<here, gone, type, mine>>,
         popup' \in [Devices -> {None, "type", "choice"}],
         \A e \in Devices : e # d => popup'[e] = popup[e],
         popup'[d] = popup[d] \/ (type[d] = "network" /\ popup'[d] \in {None, "choice"}),
         known' \in [Devices -> [Devices -> Answers]],
         \A e \in Devices : e # d => known'[e] = known[e],
         \A e \in Devices : type[d] # "local" =>
           known'[d][e] = IF Tells(Head(inbox[d]), e) THEN Head(inbox[d]).colour ELSE known[d][e],
         type[d] = "network" => Head(inbox[d]).header # "joined"
  PROVE  IInv'
<1>1. PICK h, r : h = Head(inbox[d]) /\ r = Tail(inbox[d])
  OBVIOUS
<1>2. Shrunk(inbox[d], h, r)
  BY <1>1, Taken DEF IInv, Typing
<1>3. h \in Messages /\ r \in Seq(Messages) /\ inbox' = [inbox EXCEPT ![d] = r]
  BY <1>1, <1>2 DEF Shrunk, Consumed
<1>4. inbox'[d] = r /\ \A e \in Devices : e # d => inbox'[e] = inbox[e]
  BY <1>3 DEF IInv, Typing
<1>5. Typing'
  BY <1>3 DEF IInv, Typing
<1>6. \A e \in Devices : \A x : On(inbox'[e], x) => On(inbox[e], x)
  BY <1>2, <1>4 DEF Shrunk
<1>7. Letters'
  BY <1>6 DEF IInv, Letters
<1>8. None \notin {"local", "network", "type", "choice"}
  BY TwoPlayerAssumption DEF Parameters
<1>9. Phases'
  <2>1. ASSUME NEW e \in Devices, e # d
        PROVE  inbox'[e] = inbox[e] /\ known'[e] = known[e] /\ popup'[e] = popup[e]
    BY <1>4, <2>1
  <2>2. /\ type[d] = None <=> popup'[d] = "type"
        /\ popup'[d] = "choice" => type[d] = "network"
    BY <1>8 DEF IInv, Phases
  <2>3. QED
    BY <2>1, <2>2 DEF IInv, Phases
<1>10. Network' = Network
  BY DEF Network
<1>11. Agreement'
  <2>1. ASSUME NEW f \in here', NEW e \in Devices, type'[f] # "local", f # e
        PROVE  Agrees(f, e)'
    <3>1. f \in here /\ f \in Devices /\ Agrees(f, e) /\ type[f] # "local"
      BY <2>1 DEF IInv, Typing, Agreement
    <3>2. CASE f = d
      <4>1. On(inbox[e], Joined(f)) => On(inbox'[e], Joined(f))
        BY <1>4, <2>1, <3>2
      <4>2. Shrunk(inbox[f], h, inbox'[f])
        BY <1>2, <1>4, <3>2
      <4>3. known'[f][e] = IF Tells(h, e) THEN h.colour ELSE known[f][e]
        BY <1>1, <3>1, <3>2
      <4>4. QED
        BY <1>3, <1>10, <3>1, <4>1, <4>2, <4>3, TakenAgrees
    <3>3. CASE f # d
      <4>1. inbox'[f] = inbox[f] /\ known'[f] = known[f]
        BY <1>4, <3>1, <3>3
      <4>2. CASE e \notin Network
        BY <1>10, <3>1, <4>1, <4>2 DEF Agrees, Sees
      <4>3. CASE e \in Network
        <5>1. On(inbox[e], Joined(f)) => On(inbox'[e], Joined(f))
          <6>1. CASE e # d
            BY <1>4, <6>1
          <6>2. CASE e = d
            <7>1. h.header # "joined"
              BY <1>1, <4>3, <6>2 DEF Network
            <7>2. h # Joined(f)
              BY <3>1, <7>1, PartsOfMessages DEF MessageParts
            <7>3. QED
              BY <1>2, <1>4, <6>2, <7>2 DEF Shrunk
          <6>3. QED
            BY <6>1, <6>2
        <5>2. QED
          BY <1>10, <3>1, <4>1, <4>3, <5>1 DEF Agrees, Sees
      <4>4. QED
        BY <4>2, <4>3
    <3>4. QED
      BY <3>2, <3>3
  <2>2. QED
    BY <2>1 DEF Agreement
<1>12. QED
  BY <1>5, <1>7, <1>9, <1>11 DEF IInv

\* A local game drops the message, and knows nothing that must be right.
LEMMA SwallowKeeps ==
  ASSUME IInv, NEW d \in Devices, Swallow(d)
  PROVE  IInv'
<1>1. /\ d \in here /\ inbox[d] # <<>> /\ type[d] = "local" /\ type[d] # "network"
      /\ inbox' = Consumed(d) /\ UNCHANGED <<here, gone, type, mine, known, popup>>
  BY DEF Swallow
<1>2. popup' \in [Devices -> {None, "type", "choice"}] /\ known' \in [Devices -> [Devices -> Answers]]
  BY <1>1 DEF IInv, Typing
<1>3. QED
  BY <1>1, <1>2, TakingKeeps

\* am_player enters the colour that the message was the last or an earlier word on.
LEMMA HearAmPlayerKeeps ==
  ASSUME IInv, NEW d \in Devices, HearAmPlayer(d)
  PROVE  IInv'
<1>1. PICK h : h = Head(inbox[d])
  OBVIOUS
<1>2. /\ d \in here /\ inbox[d] # <<>> /\ type[d] # "local" /\ h.header = "am_player"
      /\ known' = [known EXCEPT ![d][h.src] = h.colour]
      /\ popup' = [popup EXCEPT ![d] =
                     IF ~need_player_reselect(d, h.colour) THEN None
                     ELSE IF type[d] = "network" THEN "choice" ELSE @]
      /\ inbox' = Consumed(d) /\ UNCHANGED <<here, gone, type, mine>>
  BY <1>1 DEF HearAmPlayer, Receive
<1>3. h \in Messages /\ h.src \in Devices /\ h.colour \in Answers /\ h.header # "joined"
  BY <1>1, <1>2, Taken, KindsOfMessages DEF IInv, Typing, Shrunk, MessageKinds
<1>4. /\ known' \in [Devices -> [Devices -> Answers]]
      /\ \A e \in Devices : e # d => known'[e] = known[e]
      /\ \A e \in Devices : known'[d][e] = IF e = h.src THEN h.colour ELSE known[d][e]
  BY <1>2, <1>3 DEF IInv, Typing
<1>5. /\ popup' \in [Devices -> {None, "type", "choice"}]
      /\ \A e \in Devices : e # d => popup'[e] = popup[e]
      /\ popup'[d] = IF ~need_player_reselect(d, h.colour) THEN None
                     ELSE IF type[d] = "network" THEN "choice" ELSE popup[d]
  BY <1>2 DEF IInv, Typing
<1>6. popup'[d] = popup[d] \/ (type[d] = "network" /\ popup'[d] \in {None, "choice"})
  <2>1. type[d] \in {None, "local", "network"}
    BY DEF IInv, Typing
  <2>2. type[d] = None => need_player_reselect(d, h.colour)
    BY DEF IInv, Phases, need_player_reselect
  <2>3. QED
    BY <1>2, <1>5, <2>1, <2>2
<1>7. \A e \in Devices : known'[d][e] = IF Tells(h, e) THEN h.colour ELSE known[d][e]
  BY <1>3, <1>4 DEF Tells
<1>8. QED
  BY <1>1, <1>2, <1>3, <1>4, <1>5, <1>6, <1>7, TakingKeeps

\* player_left clears what was known of a device that is gone for good.
LEMMA HearPlayerLeftKeeps ==
  ASSUME IInv, NEW d \in Devices, HearPlayerLeft(d)
  PROVE  IInv'
<1>1. PICK h : h = Head(inbox[d])
  OBVIOUS
<1>2. /\ d \in here /\ inbox[d] # <<>> /\ type[d] # "local" /\ h.header = "player_left"
      /\ known' = [known EXCEPT ![d][h.src] = None]
      /\ inbox' = Consumed(d) /\ UNCHANGED <<here, gone, type, mine, popup>>
  BY <1>1 DEF HearPlayerLeft, Receive
<1>3. h \in Messages /\ h.src \in Devices /\ h.colour = None /\ h.header # "joined"
  BY <1>1, <1>2, Taken, KindsOfMessages DEF IInv, Typing, Shrunk, MessageKinds
<1>4. /\ known' \in [Devices -> [Devices -> Answers]]
      /\ \A e \in Devices : e # d => known'[e] = known[e]
      /\ \A e \in Devices : known'[d][e] = IF e = h.src THEN None ELSE known[d][e]
  BY <1>2, <1>3 DEF IInv, Typing, Answers
<1>5. \A e \in Devices : known'[d][e] = IF Tells(h, e) THEN h.colour ELSE known[d][e]
  BY <1>3, <1>4 DEF Tells
<1>6. popup' \in [Devices -> {None, "type", "choice"}]
  BY <1>2 DEF IInv, Typing
<1>7. QED
  BY <1>1, <1>2, <1>3, <1>4, <1>5, <1>6, TakingKeeps

\* Who has chosen answers a newcomer, and who has not owes it nothing.
LEMMA HearJoinedKeeps ==
  ASSUME IInv, NEW d \in Devices, HearJoined(d)
  PROVE  IInv'
<1>1. PICK h, r : h = Head(inbox[d]) /\ r = Tail(inbox[d])
  OBVIOUS
<1>2. PICK box : box = Consumed(d)
  OBVIOUS
<1>3. /\ d \in here /\ inbox[d] # <<>> /\ type[d] # "local" /\ h.header = "joined"
      /\ mine[d] = None => inbox' = box
      /\ mine[d] # None => inbox' = Broadcast(box, d, AmPlayer(d, mine[d]))
      /\ UNCHANGED <<here, gone, type, mine, known, popup>>
  BY <1>1, <1>2 DEF HearJoined, Receive
<1>4. Shrunk(inbox[d], h, r) /\ h \in Messages /\ r \in Seq(Messages)
  BY <1>1, <1>3, Taken DEF IInv, Typing, Shrunk
<1>5. /\ box \in [Devices -> Seq(Messages)] /\ box[d] = r
      /\ \A e \in Devices : e # d => box[e] = inbox[e]
  BY <1>1, <1>2, <1>4 DEF Consumed, IInv, Typing
<1>6. \A e : ~Tells(h, e)
  BY <1>3 DEF Tells
<1>7. \A v, e, k : Comes(inbox[d], e, k, v) => Comes(r, e, k, v)
  BY <1>4, <1>6 DEF Shrunk
<1>8. \A e \in Devices : \A x : On(box[e], x) => On(inbox[e], x)
  BY <1>4, <1>5 DEF Shrunk
<1>9. Network' = Network
  BY <1>3 DEF Network
<1>10. CASE mine[d] = None
  <2>1. inbox' = box
    BY <1>3, <1>10
  <2>2. Typing'
    BY <1>3, <1>5, <2>1 DEF IInv, Typing
  <2>3. Letters'
    BY <1>3, <1>8, <2>1 DEF IInv, Letters
  <2>4. Phases'
    BY <1>3, <1>5, <2>1 DEF IInv, Phases
  <2>5. Agreement'
    <3>1. ASSUME NEW f \in here', NEW e \in Devices, type'[f] # "local", f # e
          PROVE  Agrees(f, e)'
      <4>1. f \in here /\ f \in Devices /\ Agrees(f, e)
        BY <1>3, <3>1 DEF IInv, Typing, Agreement
      <4>2. \A v : Sees(f, e, v) => Sees(f, e, v)'
        <5>1. known' = known /\ (f = d \/ inbox'[f] = inbox[f]) /\ inbox'[d] = r
          BY <1>3, <1>5, <2>1, <4>1
        <5>2. QED
          BY <1>7, <5>1 DEF Sees
      <4>3. CASE e = d
        BY <1>3, <1>9, <1>10, <4>1, <4>2, <4>3 DEF Agrees
      <4>4. CASE e # d
        BY <1>3, <1>5, <1>9, <2>1, <4>1, <4>2, <4>4 DEF Agrees
      <4>5. QED
        BY <4>3, <4>4
    <3>2. QED
      BY <3>1 DEF Agreement
  <2>6. QED
    BY <2>2, <2>3, <2>4, <2>5 DEF IInv
<1>11. CASE mine[d] # None
  <2>1. mine[d] \in Colours /\ type[d] = "network" /\ d \in Network
    BY <1>3, <1>11 DEF IInv, Typing, Phases, Answers, Network
  <2>2. PICK m \in Messages : /\ m = AmPlayer(d, mine[d]) /\ m.src = d /\ m.colour = mine[d]
                              /\ m.header = "am_player"
    BY <2>1, PartsOfMessages DEF MessageParts
  <2>3. Sending(box, d, m, inbox')
    BY <1>3, <1>5, <1>11, <2>2, Sent
  <2>4. Typing'
    BY <1>3, <2>3 DEF IInv, Typing, Sending
  <2>5. \A e \in Devices : \A x : On(inbox'[e], x) => On(inbox[e], x) \/ (e # d /\ x = m)
    BY <1>8, <2>3 DEF Sending, Grown
  <2>6. Letters'
    BY <1>3, <2>2, <2>5 DEF IInv, Letters
  <2>7. Phases'
    <3>1. ASSUME NEW e \in Devices, e \notin here \cup gone PROVE inbox'[e] = <<>>
      BY <1>3, <1>5, <2>3, <3>1 DEF IInv, Phases, Sending
    <3>2. QED
      BY <1>3, <3>1 DEF IInv, Phases
  <2>8. Agreement'
    <3>1. ASSUME NEW f \in here', NEW e \in Devices, type'[f] # "local", f # e
          PROVE  Agrees(f, e)'
      <4>1. f \in here /\ f \in Devices /\ Agrees(f, e)
        BY <1>3, <3>1 DEF IInv, Typing, Agreement
      <4>2. CASE e = d
        <5>1. Grown(inbox[f], m, inbox'[f]) /\ Tells(m, e)
          BY <1>5, <2>2, <2>3, <3>1, <4>1, <4>2 DEF Sending, Tells
        <5>2. m.colour = IF e \in Network' THEN mine'[e] ELSE None
          BY <1>3, <1>9, <2>1, <2>2, <4>2
        <5>3. QED
          BY <4>1, <5>1, <5>2, ToldAgrees
      <4>3. CASE e # d
        <5>1. ~Tells(m, e)
          BY <2>2, <4>3 DEF Tells
        <5>2. \A x : On(inbox[e], x) => On(inbox'[e], x)
          BY <1>5, <2>3, <4>3 DEF Sending, Grown
        <5>3. CASE f = d
          <6>1. inbox'[f] = r
            BY <1>5, <2>3, <5>3 DEF Sending
          <6>2. \A v : Sees(f, e, v) => Sees(f, e, v)'
            BY <1>3, <1>7, <5>3, <6>1 DEF Sees
          <6>3. QED
            BY <1>3, <1>9, <4>1, <5>2, <6>2 DEF Agrees
        <5>4. CASE f # d
          <6>1. Grown(inbox[f], m, inbox'[f])
            BY <1>5, <2>3, <4>1, <5>4 DEF Sending
          <6>2. QED
            BY <1>3, <1>9, <4>1, <5>1, <5>2, <6>1, StillAgrees
        <5>5. QED
          BY <5>3, <5>4
      <4>4. QED
        BY <4>2, <4>3
    <3>2. QED
      BY <3>1 DEF Agreement
  <2>9. QED
    BY <2>4, <2>6, <2>7, <2>8 DEF IInv
<1>12. QED
  BY <1>10, <1>11

-----------------------------------------------------------------------------
(* The invariant holds *)

\* Nobody is in the session at first.
LEMMA InitHolds == Init => IInv
<1> SUFFICES ASSUME Init PROVE IInv
  OBVIOUS
<1>1. None \notin {"local", "network", "type", "choice"}
  BY TwoPlayerAssumption DEF Parameters
<1>2. Typing
  BY Nothing DEF Init, Typing, Answers
<1>3. Letters
  BY Nothing DEF Init, Letters
<1>4. Phases /\ Agreement
  BY <1>1 DEF Init, Phases, Agreement
<1>5. QED
  BY <1>2, <1>3, <1>4 DEF IInv

\* Each step of a device keeps the invariant.
LEMMA NextHolds == IInv /\ [Next]_vars => IInv'
<1> SUFFICES ASSUME IInv, [Next]_vars PROVE IInv'
  OBVIOUS
<1>1. ASSUME NEW d \in Devices, Start(d) PROVE IInv'
  BY <1>1, StartKeeps
<1>2. ASSUME NEW d \in Devices, ChooseLocal(d) \/ ChooseNetwork(d) PROVE IInv'
  BY <1>2, ChooseTypeKeeps
<1>3. ASSUME NEW d \in Devices, Leave(d) PROVE IInv'
  BY <1>3, LeaveKeeps
<1>4. ASSUME NEW d \in Devices, NEW c \in Colours, ChooseColour(d, c) PROVE IInv'
  BY <1>4, ChooseColourKeeps
<1>5. ASSUME NEW d \in Devices, Hear(d) PROVE IInv'
  BY <1>5, SwallowKeeps, HearAmPlayerKeeps, HearJoinedKeeps, HearPlayerLeftKeeps DEF Hear
<1>6. CASE UNCHANGED vars
  <2>1. UNCHANGED <<here, gone, type, mine, known, popup, inbox>>
    BY <1>6 DEF vars
  <2>2. Typing' /\ Letters' /\ Phases'
    BY <2>1 DEF IInv, Typing, Letters, Phases
  <2>3. Agreement'
    BY <2>1 DEF IInv, Agreement, Agrees, Sees, Network
  <2>4. QED
    BY <2>2, <2>3 DEF IInv
<1>7. QED
  BY <1>1, <1>2, <1>3, <1>4, <1>5, <1>6 DEF Next

\* The inductive invariant of the devices of a session, however many there are.
THEOREM InvariantHolds == Spec => []IInv
<1>1. Init => IInv
  BY InitHolds
<1>2. IInv /\ [Next]_vars => IInv'
  BY NextHolds
<1>3. QED
  BY <1>1, <1>2, PTL DEF Spec

\* What the invariant says of the choices when no message is on its way.
LEMMA ChoicesAtRest ==
  ASSUME IInv PROVE ChoicesKnown
<1>1. ASSUME AtRest, NEW d \in Network, NEW e \in Devices \ {d}
      PROVE  known[d][e] = IF e \in Network THEN mine[e] ELSE None
  <2>1. d \in here /\ d \in Devices /\ type[d] # "local" /\ inbox[d] = <<>>
    BY <1>1 DEF Network, AtRest, IInv, Typing
  <2>2. Agrees(d, e)
    BY <1>1, <2>1 DEF IInv, Agreement
  <2>3. e \in Network => inbox[e] = <<>>
    BY <1>1 DEF Network, AtRest
  <2>4. QED
    BY <2>1, <2>2, <2>3, Nothing DEF Agrees, Sees
<1>2. QED
  BY <1>1 DEF ChoicesKnown

\* When no message is on its way, every device in a network game knows what every
\* other one has chosen, and nothing of those that left or play alone, however many
\* came, left and chose again.
THEOREM ChoicesBecomeKnown == Spec => []ChoicesKnown
  BY InvariantHolds, ChoicesAtRest, PTL

-----------------------------------------------------------------------------
(* Two devices with one colour *)

AtMostTwo == \A d, e, f \in Devices : f \in {d, e} \/ d = e

\* One of the two is asked for another colour, or a message is on its way that has one
\* of them asked.
Settled(d, e) ==
  \/ "choice" \in {popup[d], popup[e]}
  \/ LastWord(inbox[d], e, mine[e]) \/ LastWord(inbox[e], d, mine[d])
Clashes == \A d, e \in Players : d # e /\ mine[d] = mine[e] => Settled(d, e)

\* What d is to hear of e in the end is what e has chosen, when it is to hear of it.
LEMMA LastWordIsTrue ==
  ASSUME IInv, NEW d \in here, NEW e \in Network, d # e, type[d] # "local",
         NEW h \in Messages, On(inbox[d], h), Tells(h, e)
  PROVE  LastWord(inbox[d], e, mine[e])
<1>1. d \in Devices /\ e \in Devices /\ inbox[d] \in Seq(Messages) /\ e \notin gone
  BY DEF IInv, Typing, Network
<1>2. Agrees(d, e)
  BY <1>1 DEF IInv, Agreement
<1>3. ~\A i \in DOMAIN inbox[d] : ~Tells(inbox[d][i], e)
  BY DEF On
<1>4. LastWord(inbox[d], e, mine[e]) \/ LastWord(inbox[d], e, None)
  BY <1>2, <1>3 DEF Agrees, Sees, Comes
<1>5. ASSUME LastWord(inbox[d], e, None) PROVE FALSE
  <2>1. PICK i \in DOMAIN inbox[d] : Tells(inbox[d][i], e) /\ inbox[d][i].colour = None
    BY <1>5 DEF LastWord
  <2>2. PICK m \in Messages : m = inbox[d][i]
    BY <1>1, <2>1, ElementOfSeq, LenProperties
  <2>3. m.src = e /\ m.header = "player_left"
    BY <2>1, <2>2, KindsOfMessages DEF Tells, MessageKinds
  <2>4. QED
    BY <1>1, <2>1, <2>2, <2>3 DEF IInv, Letters, On
<1>6. QED
  BY <1>4, <1>5

\* With two devices no step leaves them one colour with nobody asked and no word on its way.
LEMMA ClashesKept ==
  ASSUME AtMostTwo, IInv, IInv', Clashes, [Next]_vars
  PROVE  Clashes'
<1>1. SUFFICES ASSUME NEW f \in Players', NEW g \in Players', f # g, mine'[f] = mine'[g]
               PROVE  Settled(f, g)'
  BY DEF Clashes
<1>2. f \in Devices /\ g \in Devices /\ f \in here' /\ g \in here'
  BY <1>1 DEF Players, Network, IInv, Typing
<1>3. None \notin {"local", "network", "type", "choice"}
  BY TwoPlayerAssumption DEF Parameters
\* A step of neither of them that sends nothing about them.
<1>4. ASSUME NEW d \in Devices, Start(d) PROVE Settled(f, g)'
  <2>1. PICK m \in Messages : m = Joined(d) /\ m.header = "joined"
    BY PartsOfMessages DEF MessageParts
  <2>2. /\ d \notin here /\ here' = here \cup {d} /\ popup' = [popup EXCEPT ![d] = "type"]
        /\ inbox' = Broadcast(inbox, d, m) /\ UNCHANGED <<type, mine>> /\ type[d] = None
    BY <1>4, <2>1 DEF Start, IInv, Phases
  <2>3. f # d /\ g # d
    BY <1>1, <1>3, <2>2 DEF Players, Network
  <2>4. QED
    BY <1>1, <1>2, <2>3 DEF AtMostTwo
<1>5. ASSUME NEW d \in Devices, NEW e \in Devices, {f, g} = {d, e}, d # e,
             ChooseLocal(d) \/ ChooseNetwork(d)
      PROVE  FALSE
  <2>1. type'[d] = "local" \/ (type'[d] = "network" /\ mine'[d] = None)
    BY <1>5 DEF ChooseLocal, ChooseNetwork, IInv, Typing, Phases
  <2>2. d \in Players'
    BY <1>1, <1>5
  <2>3. QED
    BY <1>3, <2>1, <2>2 DEF Players, Network
<1>6. ASSUME NEW d \in Devices, NEW e \in Devices, {f, g} = {d, e}, d # e, Leave(d)
      PROVE  FALSE
  BY <1>2, <1>6 DEF Leave
<1>7. ASSUME NEW d \in Devices, NEW e \in Devices, {f, g} = {d, e}, d # e,
             NEW c \in Colours, ChooseColour(d, c)
      PROVE  Settled(d, e)'
  <2>1. PICK m \in Messages : m = AmPlayer(d, c) /\ Tells(m, d) /\ m.colour = c
    BY PartsOfMessages DEF MessageParts, Tells
  <2>2. inbox' = Broadcast(inbox, d, m) /\ here' = here /\ mine'[d] = c
    BY <1>7, <2>1 DEF ChooseColour, IInv, Typing
  <2>3. e \in here /\ d \in Devices /\ e # d
    BY <1>2, <1>7, <2>2
  <2>4. here \subseteq Devices /\ inbox \in [Devices -> Seq(Messages)]
    BY DEF IInv, Typing
  <2>5. Sending(inbox, d, m, inbox')
    BY <2>2, <2>3, <2>4, Sent
  <2>6. Grown(inbox[e], m, inbox'[e])
    BY <1>7, <2>3, <2>5 DEF Sending
  <2>7. QED
    BY <2>1, <2>2, <2>6 DEF Settled, Grown
<1>8. ASSUME NEW d \in Devices, NEW e \in Devices, {f, g} = {d, e}, d # e, Swallow(d)
      PROVE  FALSE
  <2>1. d \in Players'
    BY <1>1, <1>8
  <2>2. QED
    BY <1>8, <2>1 DEF Swallow, Players, Network
<1>9. ASSUME NEW d \in Devices, NEW e \in Devices, {f, g} = {d, e}, d # e, HearAmPlayer(d)
      PROVE  Settled(d, e)'
  <2>1. PICK h, r : h = Head(inbox[d]) /\ r = Tail(inbox[d])
    OBVIOUS
  <2>2. /\ inbox[d] # <<>> /\ type[d] # "local" /\ h.header = "am_player"
        /\ popup' = [popup EXCEPT ![d] =
                       IF ~need_player_reselect(d, h.colour) THEN None
                       ELSE IF type[d] = "network" THEN "choice" ELSE @]
        /\ inbox' = [inbox EXCEPT ![d] = r] /\ UNCHANGED <<here, gone, type, mine>>
    BY <1>9, <2>1 DEF HearAmPlayer, Receive, Consumed
  <2>3. Shrunk(inbox[d], h, r)
    BY <2>1, <2>2, Taken DEF IInv, Typing
  <2>4. h \in Messages /\ On(inbox[d], h)
    BY <2>3 DEF Shrunk
  <2>5. Tells(h, e)
    <3>1. h.src \in Devices /\ h.src # d
      BY <2>4, KindsOfMessages DEF IInv, Letters, MessageKinds
    <3>2. h.src = e
      BY <1>9, <3>1 DEF AtMostTwo
    <3>3. QED
      BY <2>2, <3>2 DEF Tells
  <2>6. d \in here /\ d \in Network /\ e \in Network /\ mine[d] = mine[e]
    BY <1>1, <1>9, <2>2 DEF Players, Network
  <2>7. LastWord(inbox[d], e, mine[e])
    BY <1>9, <2>2, <2>4, <2>5, <2>6, LastWordIsTrue
  <2>8. CASE LastWord(r, e, mine[e])
    <3>1. inbox'[d] = r /\ mine' = mine
      BY <2>2 DEF IInv, Typing
    <3>2. QED
      BY <2>8, <3>1 DEF Settled
  <2>9. CASE h.colour = mine[e]
    <3>1. need_player_reselect(d, h.colour) /\ type[d] = "network"
      BY <2>6, <2>9 DEF need_player_reselect, Network
    <3>2. popup'[d] = "choice"
      BY <2>2, <3>1 DEF IInv, Typing
    <3>3. QED
      BY <3>2 DEF Settled
  <2>10. QED
    BY <2>3, <2>7, <2>8, <2>9 DEF Shrunk
<1>10. ASSUME NEW d \in Devices, NEW e \in Devices, {f, g} = {d, e}, d # e, HearJoined(d)
       PROVE  Settled(d, e)'
  <2>1. PICK box : box = Consumed(d)
    OBVIOUS
  <2>2. /\ inbox[d] # <<>> /\ UNCHANGED <<here, type, mine>>
        /\ mine[d] # None => inbox' = Broadcast(box, d, AmPlayer(d, mine[d]))
    BY <1>10, <2>1 DEF HearJoined, Receive
  <2>3. mine[d] # None /\ mine[d] \in Colours /\ e \in here
    BY <1>1, <1>10, <2>2 DEF Players, Network, IInv, Typing, Answers
  <2>4. PICK m \in Messages : m = AmPlayer(d, mine[d]) /\ Tells(m, d) /\ m.colour = mine[d]
    BY <2>3, PartsOfMessages DEF MessageParts, Tells
  <2>5. box \in [Devices -> Seq(Messages)]
    BY <2>1, <2>2, Taken DEF Consumed, Shrunk, IInv, Typing
  <2>6. Grown(box[e], m, inbox'[e])
    BY <1>10, <2>2, <2>3, <2>4, <2>5, Sent DEF Sending
  <2>7. QED
    BY <2>2, <2>4, <2>6 DEF Settled, Grown
<1>11. ASSUME NEW d \in Devices, NEW e \in Devices, {f, g} = {d, e}, d # e, HearPlayerLeft(d)
       PROVE  FALSE
  <2>1. PICK h : h = Head(inbox[d])
    OBVIOUS
  <2>2. inbox[d] # <<>> /\ h.header = "player_left" /\ UNCHANGED <<here, gone>>
    BY <1>11, <2>1 DEF HearPlayerLeft, Receive
  <2>3. h \in Messages /\ On(inbox[d], h)
    BY <2>1, <2>2, Taken DEF IInv, Typing, Shrunk
  <2>4. h.src \in Devices /\ h.src # d /\ h.src \in gone
    BY <2>2, <2>3, KindsOfMessages DEF IInv, Letters, MessageKinds
  <2>5. h.src = e
    BY <1>11, <2>4 DEF AtMostTwo
  <2>6. QED
    BY <1>2, <1>11, <2>2, <2>4, <2>5 DEF IInv, Typing
<1>12. CASE UNCHANGED vars
  BY <1>1, <1>12 DEF vars, Clashes, Settled, Players, Network
<1>13. ASSUME NEW d \in Devices PROVE \E e \in Devices : {f, g} = {d, e} /\ d # e
  BY <1>1, <1>2 DEF AtMostTwo
<1>14. \A d, e : Settled(d, e)' /\ {f, g} = {d, e} => Settled(f, g)'
  BY <1>1 DEF Settled
<1>15. CASE Next
  <2>1. PICK d \in Devices :
          \/ Start(d) \/ ChooseLocal(d) \/ ChooseNetwork(d) \/ Leave(d)
          \/ \E c \in Colours : ChooseColour(d, c)
          \/ Hear(d)
    BY <1>15 DEF Next
  <2>2. PICK e \in Devices : {f, g} = {d, e} /\ d # e
    BY <1>13
  <2>3. QED
    BY <1>4, <1>5, <1>6, <1>7, <1>8, <1>9, <1>10, <1>11, <1>14, <2>1, <2>2 DEF Hear
<1>16. QED
  BY <1>12, <1>15

\* Of two devices that end up with one colour, one is asked to choose again, however
\* often both have chosen and in whatever order they heard of it.  With a third device
\* it is not so: a message of the third takes the popup away.
THEOREM SameColourIsNoticed == AtMostTwo => (Spec => []SameColourAsksAgain)
<1> SUFFICES ASSUME AtMostTwo PROVE Spec => []SameColourAsksAgain
  OBVIOUS
<1>1. Init => Clashes
  BY DEF Init, Clashes, Players, Network
<1>2. IInv /\ IInv' /\ Clashes /\ [Next]_vars => Clashes'
  BY ClashesKept
<1>3. IInv /\ Clashes => SameColourAsksAgain
  BY Nothing DEF SameColourAsksAgain, Clashes, Settled, AtRest, Players, Network
<1>4. QED
  BY <1>1, <1>2, <1>3, InvariantHolds, PTL DEF Spec

-----------------------------------------------------------------------------
(* Who is first *)

\* x comes before y in the join order q, in which nobody is twice.
Precedes(q, x, y) == \E i, j \in DOMAIN q : i < j /\ q[i] = x /\ q[j] = y
Single(q) == \A i, j \in DOMAIN q : q[i] = q[j] => i = j
JoinOrders == {q \in Seq(Devices) : Single(q)}

\* Who is in the join order of d: d itself once it has chosen, and whoever it knows a
\* colour of; and nobody is in one, or is said to have chosen, who is not in its own.
Seated(d, e) == On(order[d], e)
Entered ==
  /\ \A d \in Devices : Seated(d, d) <=> type[d] = "network" /\ mine[d] # None
  /\ \A d, e \in Devices : d # e => (Seated(d, e) <=> known[d][e] # None)
  /\ \A d, e \in Devices : Seated(d, e) => Seated(e, e)
  /\ \A d \in Devices, m \in Messages :
       On(inbox[d], m) /\ m.header = "am_player" => Seated(m.src, m.src)

\* Those that have chosen can be numbered so that whoever a device has before itself
\* in its join order has a smaller number: it had chosen before the device did.
Ranks(r, n) ==
  /\ \A d \in Devices : Seated(d, d) => r[d] < n
  /\ \A d, x \in Devices : Precedes(order[d], x, d) => r[x] < r[d]
Ranked == \E r \in [Devices -> Nat], n \in Nat : Ranks(r, n)

Orders == order \in [Devices -> JoinOrders] /\ Entered /\ Ranked

\* r is q with d at the end, if it was not there.
Added(q, d, r) ==
  /\ r \in JoinOrders
  /\ \A x : On(r, x) <=> On(q, x) \/ x = d
  /\ \A x, y : Precedes(r, x, y) => Precedes(q, x, y) \/ (y = d /\ ~On(q, d) /\ On(q, x))

\* A player that is added comes last.
LEMMA AddsPlayer ==
  ASSUME NEW q \in JoinOrders, NEW d \in Devices
  PROVE  Added(q, d, add_player(q, d))
<1>0. q \in Seq(Devices) /\ Single(q) BY DEF JoinOrders
<1>1. d \in ToSet(q) <=> On(q, d) BY DEF ToSet, On
<1>2. CASE On(q, d) BY <1>0, <1>1, <1>2 DEF add_player, Added
<1>3. CASE ~On(q, d)
  <2> DEFINE n == Len(q)
             r == Append(q, d)
  <2>1. /\ n \in Nat /\ DOMAIN q = 1 .. n /\ r \in Seq(Devices) /\ DOMAIN r = 1 .. n + 1
        /\ r[n + 1] = d /\ \A i \in 1 .. n : r[i] = q[i]
    BY <1>0, AppendProperties, LenProperties
  <2> HIDE DEF n, r
  <2>2. Single(r) BY <2>1, <1>0, <1>3 DEF Single, On
  <2>3. \A x : On(r, x) <=> On(q, x) \/ x = d
    <3>1. \A i \in 1 .. n + 1 : i \in 1 .. n \/ i = n + 1 BY <2>1
    <3>2. n + 1 \in 1 .. n + 1 /\ \A i \in 1 .. n : i \in 1 .. n + 1 BY <2>1
    <3> QED BY <2>1, <3>1, <3>2 DEF On
  <2>4. ASSUME NEW x, NEW y, Precedes(r, x, y) PROVE Precedes(q, x, y) \/ (y = d /\ On(q, x))
    <3>1. PICK i, j \in 1 .. n + 1 : i < j /\ r[i] = x /\ r[j] = y BY <2>1, <2>4 DEF Precedes
    <3>2. i \in 1 .. n /\ q[i] = x BY <2>1, <3>1
    <3>3. CASE j = n + 1 BY <2>1, <3>1, <3>2, <3>3 DEF On
    <3>4. CASE j # n + 1
      <4>1. j \in 1 .. n /\ q[j] = y BY <2>1, <3>1, <3>4
      <4> QED BY <2>1, <3>1, <3>2, <4>1 DEF Precedes
    <3> QED BY <3>3, <3>4
  <2>5. add_player(q, d) = r BY <1>1, <1>3 DEF add_player, r
  <2> QED BY <2>1, <2>2, <2>3, <2>4, <2>5, <1>3 DEF Added, JoinOrders
<1> QED BY <1>2, <1>3

\* Removing the k-th entry keeps the others, in their order.
LEMMA RemoveAtKeeps ==
  ASSUME NEW S, NEW q \in Seq(S), NEW k \in 1 .. Len(q)
  PROVE  /\ RemoveAt(q, k) \in Seq(S) /\ DOMAIN RemoveAt(q, k) = 1 .. Len(q) - 1
         /\ \A i \in 1 .. Len(q) - 1 :
              RemoveAt(q, k)[i] = IF i < k THEN q[i] ELSE q[i + 1]
<1> DEFINE front == SubSeq(q, 1, k - 1)
           back == SubSeq(q, k + 1, Len(q))
<1>1. k \in 1 .. Len(q) /\ Len(q) \in Nat
  BY LenProperties
<1>2. front \in Seq(S) /\ Len(front) = k - 1 /\ \A i \in 1 .. k - 1 : front[i] = q[i]
  BY <1>1, SubSeqProperties
<1>3. back \in Seq(S) /\ Len(back) = Len(q) - k /\ \A i \in 1 .. Len(q) - k : back[i] = q[k + i]
  BY <1>1, SubSeqProperties
<1>4. RemoveAt(q, k) = front \o back
  BY DEF RemoveAt
<1> HIDE DEF front, back
<1>5. front \o back \in Seq(S) /\ Len(front \o back) = Len(q) - 1
  <2>1. front \o back \in Seq(S) /\ Len(front \o back) = Len(front) + Len(back)
    BY <1>2, <1>3, ConcatProperties
  <2>2. QED
    BY <1>1, <1>2, <1>3, <2>1
<1>6. DOMAIN (front \o back) = 1 .. Len(q) - 1
  BY <1>5, LenProperties
<1>7. ASSUME NEW i \in 1 .. Len(q) - 1
      PROVE  (front \o back)[i] = IF i < k THEN q[i] ELSE q[i + 1]
  <2>1. i \in 1 .. Len(front) + Len(back)
    BY <1>1, <1>2, <1>3
  <2>2. (front \o back)[i] = IF i <= Len(front) THEN front[i] ELSE back[i - Len(front)]
    BY <2>1, <1>2, <1>3, ConcatProperties
  <2>3. QED
    BY <2>2, <1>1, <1>2, <1>3, SMTT(30)
<1>8. QED
  BY <1>4, <1>5, <1>6, <1>7

\* r is q without d.
Removed(q, d, r) ==
  /\ r \in JoinOrders
  /\ \A x : On(r, x) <=> On(q, x) /\ x # d
  /\ \A x, y : Precedes(r, x, y) => Precedes(q, x, y)

\* Removing a player leaves the others in their order.
LEMMA RemovesPlayer ==
  ASSUME NEW q \in JoinOrders, NEW d \in Devices
  PROVE  Removed(q, d, remove_player(q, d))
<1>0. q \in Seq(Devices) /\ Single(q) BY DEF JoinOrders
<1> DEFINE n == Len(q)
<1>1. n \in Nat /\ DOMAIN q = 1 .. n /\ \A i \in 1 .. n : q[i] \in Devices
  BY <1>0, LenProperties, ElementOfSeq
<1>2. CASE ~ \E i \in 1 .. n : q[i] = d
  <2>1. remove_player(q, d) = q BY <1>2 DEF remove_player, RemoveFirst
  <2> QED BY <2>1, <1>0, <1>1, <1>2 DEF Removed, On
<1>3. CASE \E i \in 1 .. n : q[i] = d
  <2>1. PICK k \in 1 .. n : q[k] = d BY <1>3
  <2>2. {i \in 1 .. n : q[i] = d} = {k} BY <2>1, <1>0, <1>1 DEF Single
  <2>3. SelectInSeq(q, LAMBDA v : v = d) = k
    <3>1. Min({k}) = k BY <2>1 DEF Min
    <3> QED BY <2>2, <3>1 DEF SelectInSeq
  <2> DEFINE r == RemoveAt(q, k)
  <2>4. remove_player(q, d) = r BY <1>3, <2>3 DEF remove_player, RemoveFirst
  <2>5. /\ r \in Seq(Devices) /\ DOMAIN r = 1 .. n - 1
        /\ \A i \in 1 .. n - 1 : r[i] = IF i < k THEN q[i] ELSE q[i + 1]
    BY <1>0, <1>1, <2>1, RemoveAtKeeps DEF r
  <2> HIDE DEF r, n
  \* Where the i-th of r is in q.
  <2> DEFINE at(i) == IF i < k THEN i ELSE i + 1
  <2>6. \A i \in 1 .. n - 1 : at(i) \in 1 .. n /\ at(i) # k /\ r[i] = q[at(i)]
    BY <1>1, <2>1, <2>5
  <2>7. \A i, j \in 1 .. n - 1 : (i < j => at(i) < at(j)) /\ (at(i) = at(j) => i = j)
    BY <1>1, <2>1
  <2>8. \A l \in 1 .. n : l # k => \E i \in 1 .. n - 1 : at(i) = l
    <3> SUFFICES ASSUME NEW l \in 1 .. n, l # k PROVE \E i \in 1 .. n - 1 : at(i) = l OBVIOUS
    <3>1. CASE l < k
      <4>1. l \in 1 .. n - 1 /\ at(l) = l BY <1>1, <2>1, <3>1
      <4> QED BY <4>1
    <3>2. CASE ~(l < k)
      <4>1. l - 1 \in 1 .. n - 1 /\ at(l - 1) = l BY <1>1, <2>1, <3>2
      <4> QED BY <4>1
    <3> QED BY <3>1, <3>2
  <2> HIDE DEF at
  <2>9. Single(r)
    BY <1>0, <1>1, <2>5, <2>6, <2>7 DEF Single
  <2>10. \A x : On(r, x) <=> On(q, x) /\ x # d
    <3>1. ASSUME NEW x, On(r, x) PROVE On(q, x) /\ x # d
      BY <3>1, <1>0, <1>1, <2>1, <2>5, <2>6 DEF On, Single
    <3>2. ASSUME NEW x, On(q, x), x # d PROVE On(r, x)
      <4>1. PICK l \in 1 .. n : q[l] = x BY <3>2, <1>1 DEF On
      <4>2. l # k BY <4>1, <3>2, <2>1
      <4>3. PICK i \in 1 .. n - 1 : at(i) = l BY <4>2, <2>8
      <4> QED BY <4>1, <4>3, <2>5, <2>6 DEF On
    <3> QED BY <3>1, <3>2
  <2>11. ASSUME NEW x, NEW y, Precedes(r, x, y) PROVE Precedes(q, x, y)
    <3>1. PICK i, j \in 1 .. n - 1 : i < j /\ r[i] = x /\ r[j] = y BY <2>5, <2>11 DEF Precedes
    <3>2. at(i) < at(j) /\ q[at(i)] = x /\ q[at(j)] = y BY <2>6, <2>7, <3>1
    <3> QED BY <1>1, <2>6, <3>2 DEF Precedes
  <2> QED BY <2>4, <2>5, <2>9, <2>10, <2>11 DEF Removed, JoinOrders
<1> QED BY <1>2, <1>3

\* Has chosen a colour in a network game.
Chosen(d) == type[d] = "network" /\ mine[d] # None

\* Only am_player messages of those that have chosen are new.
NothingNew ==
  \A d \in Devices, m \in Messages :
    On(inbox'[d], m) /\ m.header = "am_player" => On(inbox[d], m) \/ Seated(m.src, m.src)

\* A step that changes no join order and nobody's choice keeps the orders.
LEMMA OrdersUnchanged ==
  ASSUME Orders, order' = order, known' = known, NothingNew,
         \A d \in Devices : Chosen(d)' <=> Chosen(d)
  PROVE  Orders'
<1>1. \A d, e : Seated(d, e)' <=> Seated(d, e)
  BY DEF Seated
<1>2. Entered'
  <2>1. \A d \in Devices : Seated(d, d)' <=> Chosen(d)'
    BY <1>1 DEF Orders, Entered, Chosen
  <2>2. /\ \A d, e \in Devices : d # e => (Seated(d, e)' <=> known'[d][e] # None)
        /\ \A d, e \in Devices : Seated(d, e)' => Seated(e, e)'
    BY <1>1 DEF Orders, Entered
  <2>3. \A d \in Devices, m \in Messages :
          On(inbox'[d], m) /\ m.header = "am_player" => Seated(m.src, m.src)'
    BY <1>1 DEF Orders, Entered, NothingNew
  <2>4. QED
    BY <2>1, <2>2, <2>3 DEF Entered, Chosen
<1>3. \A r, n : Ranks(r, n) => Ranks(r, n)'
  BY <1>1 DEF Ranks
<1>4. Ranked'
  BY <1>3 DEF Orders, Ranked
<1>5. QED
  BY <1>2, <1>4 DEF Orders

\* A message to all is new in the inboxes of the others, and nothing else is.
LEMMA OnlyThatIsNew ==
  ASSUME NEW box \in [Devices -> Seq(Messages)], NEW d \in Devices, NEW m \in Messages
  PROVE  \A e \in Devices : \A x : On(Broadcast(box, d, m)[e], x) => On(box[e], x) \/ x = m
<1>1. Sending(box, d, m, Broadcast(box, d, m))
  BY Sent
<1>2. QED
  BY <1>1 DEF Sending, Grown

\* Taking a message leaves nothing new.
LEMMA ConsumedIsOld ==
  ASSUME IInv, NEW d \in Devices, inbox[d] # <<>>
  PROVE  /\ Consumed(d) \in [Devices -> Seq(Messages)]
         /\ \A e \in Devices : \A x : On(Consumed(d)[e], x) => On(inbox[e], x)
         /\ Head(inbox[d]) \in Messages /\ On(inbox[d], Head(inbox[d]))
<1>1. Shrunk(inbox[d], Head(inbox[d]), Tail(inbox[d]))
  BY Taken DEF IInv, Typing
<1>2. PICK r : r = Tail(inbox[d]) /\ r \in Seq(Messages)
  BY <1>1 DEF Shrunk
<1>3. Consumed(d) = [inbox EXCEPT ![d] = r]
  BY <1>2 DEF Consumed
<1>4. Consumed(d)[d] = r /\ \A e \in Devices : e # d => Consumed(d)[e] = inbox[e]
  BY <1>3 DEF IInv, Typing
<1>5. Consumed(d) \in [Devices -> Seq(Messages)]
  BY <1>2, <1>3 DEF IInv, Typing
<1>6. QED
  BY <1>1, <1>2, <1>4, <1>5 DEF Shrunk

\* A device that joins or leaves, that chooses how to play, or that drops or answers a
\* message changes no join order.
LEMMA OthersKeepOrders ==
  ASSUME IInv, Orders, NEW d \in Devices,
         Start(d) \/ ChooseLocal(d) \/ ChooseNetwork(d) \/ Leave(d) \/ Swallow(d) \/ HearJoined(d)
  PROVE  Orders'
<1>0. None \notin {"local", "network", "type", "choice"} /\ inbox \in [Devices -> Seq(Messages)]
  BY TwoPlayerAssumption DEF Parameters, IInv, Typing
<1>1. CASE Start(d)
  <2>1. PICK m \in Messages : m = Joined(d) /\ m.header = "joined"
    BY PartsOfMessages DEF MessageParts
  <2>2. inbox' = Broadcast(inbox, d, m) /\ UNCHANGED <<type, mine, known, order>>
    BY <1>1, <2>1 DEF Start
  <2>3. NothingNew
    BY <1>0, <2>1, <2>2, OnlyThatIsNew DEF NothingNew
  <2>4. QED
    BY <2>2, <2>3, OrdersUnchanged DEF Chosen
<1>2. CASE ChooseLocal(d) \/ ChooseNetwork(d)
  <2>1. /\ type[d] = None /\ mine[d] = None /\ UNCHANGED <<known, order, inbox>>
        /\ type' = [type EXCEPT ![d] = "local"] \/ mine' = mine
        /\ \A e \in Devices : e # d => type'[e] = type[e] /\ mine'[e] = mine[e]
    BY <1>2 DEF ChooseLocal, ChooseNetwork, IInv, Phases, Typing
  <2>2. ~Chosen(d)
    BY <2>1 DEF Chosen
  <2>3. ~Chosen(d)'
    BY <2>1 DEF Chosen, IInv, Typing
  <2>4. NothingNew
    BY <2>1 DEF NothingNew
  <2>5. \A e \in Devices : Chosen(e)' <=> Chosen(e)
    BY <2>1, <2>2, <2>3 DEF Chosen
  <2>6. QED
    BY <2>1, <2>4, <2>5, OrdersUnchanged
<1>3. CASE Leave(d)
  <2>1. PICK m \in Messages : m = PlayerLeft(d) /\ m.header = "player_left"
    BY PartsOfMessages DEF MessageParts
  <2>2. PICK box : box = Broadcast(inbox, d, m)
    OBVIOUS
  <2>3. inbox' = [box EXCEPT ![d] = <<>>] /\ UNCHANGED <<type, mine, known, order>>
    BY <1>3, <2>1, <2>2 DEF Leave
  <2>4. box \in [Devices -> Seq(Messages)]
    BY <1>0, <2>2, Sent DEF Sending
  <2>5. \A e \in Devices : \A x : On(inbox'[e], x) => On(inbox[e], x) \/ x = m
    BY <1>0, <2>2, <2>3, <2>4, Nothing, OnlyThatIsNew
  <2>6. NothingNew
    BY <2>1, <2>5 DEF NothingNew
  <2>7. QED
    BY <2>3, <2>6, OrdersUnchanged DEF Chosen
<1>4. CASE Swallow(d)
  <2>1. inbox[d] # <<>> /\ inbox' = Consumed(d) /\ UNCHANGED <<type, mine, known, order>>
    BY <1>4 DEF Swallow
  <2>2. NothingNew
    BY <2>1, ConsumedIsOld DEF NothingNew
  <2>3. QED
    BY <2>1, <2>2, OrdersUnchanged DEF Chosen
<1>5. CASE HearJoined(d)
  <2>1. PICK box : box = Consumed(d)
    OBVIOUS
  <2>2. /\ inbox[d] # <<>> /\ type[d] # "local" /\ UNCHANGED <<type, mine, known, order>>
        /\ mine[d] = None => inbox' = box
        /\ mine[d] # None => inbox' = Broadcast(box, d, AmPlayer(d, mine[d]))
    BY <1>5, <2>1 DEF HearJoined, Receive
  <2>3. /\ box \in [Devices -> Seq(Messages)]
        /\ \A e \in Devices : \A x : On(box[e], x) => On(inbox[e], x)
    BY <2>1, <2>2, ConsumedIsOld
  <2>4. CASE mine[d] = None
    <3>1. NothingNew
      BY <2>2, <2>3, <2>4 DEF NothingNew
    <3>2. QED
      BY <2>2, <3>1, OrdersUnchanged DEF Chosen
  <2>5. CASE mine[d] # None
    <3>1. mine[d] \in Colours /\ type[d] = "network"
      BY <2>2, <2>5 DEF IInv, Typing, Phases, Answers
    <3>2. PICK m \in Messages : m = AmPlayer(d, mine[d]) /\ m.src = d
      BY <3>1, PartsOfMessages DEF MessageParts
    <3>3. Seated(d, d)
      BY <2>5, <3>1 DEF Orders, Entered
    <3>4. inbox' = Broadcast(box, d, m)
      BY <2>2, <2>5, <3>2
    <3>5. \A e \in Devices : \A x : On(inbox'[e], x) => On(inbox[e], x) \/ x = m
      BY <2>3, <3>4, OnlyThatIsNew
    <3>6. NothingNew
      BY <3>2, <3>3, <3>5 DEF NothingNew
    <3>7. QED
      BY <2>2, <3>6, OrdersUnchanged DEF Chosen
  <2>6. QED
    BY <2>4, <2>5
<1>6. QED
  BY <1>1, <1>2, <1>3, <1>4, <1>5

\* A device that chooses for the first time has a greater number than all that have
\* chosen before it, and comes last in its own join order.
LEMMA ChooserIsLast ==
  ASSUME IInv, Orders, NEW d \in Devices, NEW c \in Colours, ChooseColour(d, c)
  PROVE  Orders'
<1>1. PICK q : q = add_player(order[d], d)
  OBVIOUS
<1>2. Added(order[d], d, q)
  BY <1>1, AddsPlayer DEF Orders
<1>3. PICK m \in Messages : m = AmPlayer(d, c) /\ m.src = d
  BY PartsOfMessages DEF MessageParts
<1>4. /\ order' = [order EXCEPT ![d] = q] /\ inbox' = Broadcast(inbox, d, m)
      /\ mine' = [mine EXCEPT ![d] = c] /\ UNCHANGED <<type, known>>
      /\ type[d] = "network" /\ c # None
  BY <1>1, <1>3, TwoPlayerAssumption DEF ChooseColour, IInv, Phases, Parameters
<1>5. /\ order' \in [Devices -> JoinOrders] /\ order'[d] = q /\ mine'[d] = c
      /\ \A e \in Devices : e # d => order'[e] = order[e] /\ mine'[e] = mine[e]
  BY <1>2, <1>4 DEF Orders, Added, IInv, Typing
<1>6. \A e \in Devices, x \in Devices : Seated(e, x)' <=> Seated(e, x) \/ (e = d /\ x = d)
  BY <1>2, <1>5 DEF Seated, Added
<1>7. Entered'
  <2>1. \A e \in Devices : Seated(e, e)' <=> type'[e] = "network" /\ mine'[e] # None
    BY <1>4, <1>5, <1>6 DEF Orders, Entered
  <2>2. \A e, x \in Devices : e # x => (Seated(e, x)' <=> known'[e][x] # None)
    BY <1>4, <1>6 DEF Orders, Entered
  <2>3. \A e, x \in Devices : Seated(e, x)' => Seated(x, x)'
    BY <1>6 DEF Orders, Entered
  <2>4. ASSUME NEW e \in Devices, NEW h \in Messages, On(inbox'[e], h), h.header = "am_player"
        PROVE  Seated(h.src, h.src)'
    <3>1. On(inbox[e], h) \/ h = m
      BY <1>4, <2>4, OnlyThatIsNew DEF IInv, Typing
    <3>2. h.src \in Devices
      BY KindsOfMessages DEF MessageKinds
    <3>3. QED
      BY <1>3, <1>6, <2>4, <3>1, <3>2 DEF Orders, Entered
  <2>5. QED
    BY <2>1, <2>2, <2>3, <2>4 DEF Entered
<1>8. PICK r \in [Devices -> Nat], n \in Nat : Ranks(r, n)
  BY DEF Orders, Ranked
<1>9. CASE Seated(d, d)
  <2>1. \A x : Precedes(q, x, d) => Precedes(order[d], x, d)
    BY <1>2, <1>9 DEF Added, Seated
  <2>2. Ranks(r, n)'
    BY <1>5, <1>6, <1>8, <1>9, <2>1 DEF Ranks
  <2>3. QED
    BY <1>5, <1>7, <1>8, <2>2 DEF Orders, Ranked
<1>10. CASE ~Seated(d, d)
  <2>1. PICK s : s = [r EXCEPT ![d] = n]
    OBVIOUS
  <2>2. /\ s \in [Devices -> Nat] /\ s[d] = n /\ n + 1 \in Nat /\ n < n + 1
        /\ \A e \in Devices : e # d => s[e] = r[e]
    BY <1>8, <2>1
  <2>3. \A e \in Devices : Seated(e, e)' => s[e] < n + 1
    <3>1. ASSUME NEW e \in Devices, Seated(e, e)', e # d PROVE s[e] < n + 1
      <4>1. r[e] < n /\ r[e] \in Nat
        BY <1>6, <1>8, <3>1 DEF Ranks
      <4>2. QED
        BY <1>8, <2>2, <3>1, <4>1
    <3>2. QED
      BY <2>2, <3>1
  <2>4. ASSUME NEW e \in Devices, NEW x \in Devices, Precedes(order'[e], x, e)
        PROVE  s[x] < s[e]
    <3>1. CASE e = d
      <4>1. Precedes(order[d], x, d) \/ On(order[d], x)
        BY <1>2, <1>5, <2>4, <3>1 DEF Added
      <4>2. Seated(d, x)
        BY <4>1 DEF Seated, Precedes, On
      <4>3. Seated(x, x) /\ x # d
        BY <1>10, <4>2 DEF Orders, Entered
      <4>4. QED
        BY <1>8, <2>2, <3>1, <4>3 DEF Ranks
    <3>2. CASE e # d
      <4>1. Precedes(order[e], x, e)
        BY <1>5, <2>4, <3>2
      <4>2. Seated(e, x)
        BY <4>1 DEF Seated, Precedes, On
      <4>3. x # d
        BY <1>10, <4>2 DEF Orders, Entered
      <4>4. QED
        BY <1>8, <2>2, <3>2, <4>1, <4>3 DEF Ranks
    <3>3. QED
      BY <3>1, <3>2
  <2>5. Ranks(s, n + 1)'
    BY <2>3, <2>4 DEF Ranks
  <2>6. Ranked'
    BY <2>2, <2>5 DEF Ranked
  <2>7. QED
    BY <1>5, <1>7, <2>6 DEF Orders
<1>11. QED
  BY <1>9, <1>10

\* What d comes to know of e by a message: its join order becomes q, which holds e or
\* does not, and puts nobody before d who was not there before.
Learns(d, e, q) ==
  /\ q \in JoinOrders /\ order' = [order EXCEPT ![d] = q]
  /\ \A x : Precedes(q, x, d) => Precedes(order[d], x, d)
  /\ \A x : x # e => (On(q, x) <=> On(order[d], x))
  /\ known' \in [Devices -> [Devices -> Answers]]
  /\ \A f \in Devices : f # d => known'[f] = known[f]
  /\ \A x \in Devices : x # e => known'[d][x] = known[d][x]
  /\ On(q, e) <=> known'[d][e] # None
  /\ On(q, e) => Seated(e, e)

\* What a device learns from a message keeps the orders.
LEMMA HeardKeepsOrders ==
  ASSUME IInv, Orders, NEW d \in Devices, NEW e \in Devices, d # e,
         inbox[d] # <<>>, inbox' = Consumed(d), UNCHANGED <<type, mine>>,
         NEW q, Learns(d, e, q)
  PROVE  Orders'
<1>1. /\ order' \in [Devices -> JoinOrders] /\ order'[d] = q
      /\ \A f \in Devices : f # d => order'[f] = order[f]
  BY DEF Orders, Learns
<1>2. \A f \in Devices, x \in Devices : f # d \/ x # e => (Seated(f, x)' <=> Seated(f, x))
  BY <1>1 DEF Seated, Learns
<1>3. Seated(d, e)' <=> On(q, e)
  BY <1>1 DEF Seated
<1>4. Entered'
  <2>1. \A f \in Devices : Seated(f, f)' <=> type'[f] = "network" /\ mine'[f] # None
    BY <1>2 DEF Orders, Entered
  <2>2. \A f, x \in Devices : f # x => (Seated(f, x)' <=> known'[f][x] # None)
    BY <1>2, <1>3 DEF Orders, Entered, Learns
  <2>3. \A f, x \in Devices : Seated(f, x)' => Seated(x, x)'
    BY <1>2, <1>3 DEF Orders, Entered, Learns
  <2>4. ASSUME NEW f \in Devices, NEW h \in Messages, On(inbox'[f], h), h.header = "am_player"
        PROVE  Seated(h.src, h.src)'
    <3>1. On(inbox[f], h)
      BY <2>4, ConsumedIsOld
    <3>2. h.src \in Devices
      BY KindsOfMessages DEF MessageKinds
    <3>3. QED
      BY <1>2, <2>4, <3>1, <3>2 DEF Orders, Entered
  <2>5. QED
    BY <2>1, <2>2, <2>3, <2>4 DEF Entered
<1>5. PICK r \in [Devices -> Nat], n \in Nat : Ranks(r, n)
  BY DEF Orders, Ranked
<1>6. Ranks(r, n)'
  BY <1>1, <1>2, <1>5 DEF Ranks, Learns
<1>7. QED
  BY <1>1, <1>4, <1>5, <1>6 DEF Orders, Ranked

\* Who is heard to have chosen is put at the end.
LEMMA HearAmPlayerOrders ==
  ASSUME IInv, Orders, NEW d \in Devices, HearAmPlayer(d)
  PROVE  Orders'
<1>1. PICK h : h = Head(inbox[d])
  OBVIOUS
<1>2. /\ inbox[d] # <<>> /\ h.header = "am_player"
      /\ known' = [known EXCEPT ![d][h.src] = h.colour]
      /\ order' = [order EXCEPT ![d] = add_player(order[d], h.src)]
      /\ inbox' = Consumed(d) /\ UNCHANGED <<type, mine>>
  BY <1>1 DEF HearAmPlayer, Receive
<1>3. /\ h \in Messages /\ On(inbox[d], h) /\ h.src \in Devices
      /\ h.colour \in Answers /\ h.colour # None
  BY <1>1, <1>2, ConsumedIsOld, KindsOfMessages DEF MessageKinds
<1>4. h.src # d /\ Seated(h.src, h.src)
  BY <1>2, <1>3 DEF IInv, Letters, Orders, Entered
<1>5. PICK q : q = add_player(order[d], h.src)
  OBVIOUS
<1>6. Added(order[d], h.src, q)
  BY <1>3, <1>5, AddsPlayer DEF Orders
<1>7. /\ known' \in [Devices -> [Devices -> Answers]]
      /\ \A f \in Devices : f # d => known'[f] = known[f]
      /\ \A x \in Devices : known'[d][x] = IF x = h.src THEN h.colour ELSE known[d][x]
  BY <1>2, <1>3 DEF IInv, Typing
<1>8. /\ q \in JoinOrders /\ On(q, h.src) /\ known'[d][h.src] # None
      /\ \A x : Precedes(q, x, d) => Precedes(order[d], x, d)
      /\ \A x : x # h.src => (On(q, x) <=> On(order[d], x))
  BY <1>3, <1>4, <1>6, <1>7 DEF Added
<1>9. Learns(d, h.src, q)
  BY <1>2, <1>4, <1>5, <1>7, <1>8 DEF Learns
<1>10. QED
  BY <1>2, <1>3, <1>4, <1>9, HeardKeepsOrders

\* Who is heard to have left is taken out.
LEMMA HearPlayerLeftOrders ==
  ASSUME IInv, Orders, NEW d \in Devices, HearPlayerLeft(d)
  PROVE  Orders'
<1>1. PICK h : h = Head(inbox[d])
  OBVIOUS
<1>2. /\ inbox[d] # <<>>
      /\ known' = [known EXCEPT ![d][h.src] = None]
      /\ order' = [order EXCEPT ![d] = remove_player(order[d], h.src)]
      /\ inbox' = Consumed(d) /\ UNCHANGED <<type, mine>>
  BY <1>1 DEF HearPlayerLeft, Receive
<1>3. h \in Messages /\ On(inbox[d], h) /\ h.src \in Devices
  BY <1>1, <1>2, ConsumedIsOld, KindsOfMessages DEF MessageKinds
<1>4. h.src # d
  BY <1>3 DEF IInv, Letters
<1>5. PICK q : q = remove_player(order[d], h.src)
  OBVIOUS
<1>6. Removed(order[d], h.src, q)
  BY <1>3, <1>5, RemovesPlayer DEF Orders
<1>7. /\ known' \in [Devices -> [Devices -> Answers]]
      /\ \A f \in Devices : f # d => known'[f] = known[f]
      /\ \A x \in Devices : known'[d][x] = IF x = h.src THEN None ELSE known[d][x]
  BY <1>2, <1>3 DEF IInv, Typing, Answers
<1>8. /\ q \in JoinOrders /\ ~On(q, h.src) /\ known'[d][h.src] = None
      /\ \A x : Precedes(q, x, d) => Precedes(order[d], x, d)
      /\ \A x : x # h.src => (On(q, x) <=> On(order[d], x))
  BY <1>3, <1>6, <1>7 DEF Removed
<1>9. Learns(d, h.src, q)
  BY <1>2, <1>4, <1>5, <1>7, <1>8 DEF Learns
<1>10. QED
  BY <1>2, <1>3, <1>4, <1>9, HeardKeepsOrders

\* Nobody has chosen at first.
LEMMA InitOrders == Init => Orders
<1> SUFFICES ASSUME Init PROVE Orders
  OBVIOUS
<1>1. DOMAIN <<>> = {} /\ <<>> \in Seq(Devices)
  OBVIOUS
<1>2. <<>> \in JoinOrders /\ \A x : ~On(<<>>, x) /\ \A y : ~Precedes(<<>>, x, y)
  BY <1>1 DEF JoinOrders, Single, On, Precedes
<1>3. order \in [Devices -> JoinOrders] /\ \A d, e \in Devices : ~Seated(d, e)
  BY <1>2 DEF Init, Seated
<1>4. None \notin {"local", "network", "type", "choice"}
  BY TwoPlayerAssumption DEF Parameters
<1>5. Entered
  BY <1>3, <1>4, Nothing DEF Init, Entered
<1>6. Ranks([d \in Devices |-> 0], 0)
  BY <1>2, <1>3 DEF Init, Ranks
<1>7. [d \in Devices |-> 0] \in [Devices -> Nat] /\ 0 \in Nat
  OBVIOUS
<1>8. QED
  BY <1>3, <1>5, <1>6, <1>7 DEF Orders, Ranked

\* Each step of a device keeps the join orders.
LEMMA NextOrders == IInv /\ Orders /\ [Next]_vars => Orders'
<1> SUFFICES ASSUME IInv, Orders, [Next]_vars PROVE Orders'
  OBVIOUS
<1>1. ASSUME NEW d \in Devices, NEW c \in Colours, ChooseColour(d, c) PROVE Orders'
  BY <1>1, ChooserIsLast
<1>2. ASSUME NEW d \in Devices, HearAmPlayer(d) PROVE Orders'
  BY <1>2, HearAmPlayerOrders
<1>3. ASSUME NEW d \in Devices, HearPlayerLeft(d) PROVE Orders'
  BY <1>3, HearPlayerLeftOrders
<1>4. CASE UNCHANGED vars
  <2>1. order' = order /\ known' = known /\ NothingNew /\ \A d \in Devices : Chosen(d)' <=> Chosen(d)
    BY <1>4 DEF vars, NothingNew, Chosen
  <2>2. QED
    BY <2>1, OrdersUnchanged
<1>5. QED
  BY <1>1, <1>2, <1>3, <1>4, OthersKeepOrders DEF Next, Hear

\* A set of naturals that has members has a least one.
LEMMA LeastMember ==
  ASSUME NEW S \in SUBSET Nat, S # {}
  PROVE  \E m \in S : \A k \in S : m <= k
<1> DEFINE upTo(x) == {y \in S : y <= x}
           T == {upTo(x) : x \in S}
<1>1. \A x \in S : IsFiniteSet(upTo(x))
  BY FS_BoundedSetOfNaturals
<1>2. T \subseteq FiniteSubsetsOf(S)
  BY <1>1 DEF FiniteSubsetsOf
<1>3. T # {}
  OBVIOUS
<1>4. IsWellFoundedOn(StrictSubsetOrdering(S), FiniteSubsetsOf(S))
  BY FS_StrictSubsetOrderingWellFounded
<1> HIDE DEF T
<1>5. PICK u \in T : \A v \in T : ~(<<v, u>> \in StrictSubsetOrdering(S))
  BY <1>2, <1>3, <1>4, WFMin
<1>6. PICK m \in S : u = upTo(m)
  BY <1>5 DEF T
<1>7. ASSUME NEW k \in S, k < m PROVE FALSE
  <2>1. upTo(k) \in T
    BY DEF T
  <2>2. upTo(k) \subseteq upTo(m)
    <3> SUFFICES ASSUME NEW y \in S, y <= k PROVE y <= m
      OBVIOUS
    <3>1. k \in Nat /\ m \in Nat /\ y \in Nat
      OBVIOUS
    <3>2. QED
      BY <3>1, <1>7
  <2>3. m \in upTo(m) /\ m \notin upTo(k)
    BY <1>7
  <2>4. <<upTo(k), u>> \in StrictSubsetOrdering(S)
    BY <2>2, <2>3, <1>6 DEF StrictSubsetOrdering
  <2>5. QED
    BY <2>1, <2>4, <1>5
<1>8. QED
  BY <1>7

\* A join order is as long as it has players.
LEMMA CountedOnce ==
  ASSUME NEW q \in JoinOrders
  PROVE  Len(q) = Cardinality(ToSet(q))
<1>1. /\ q \in Seq(Devices) /\ Single(q) /\ Len(q) \in Nat /\ DOMAIN q = 1 .. Len(q)
  BY LenProperties DEF JoinOrders
<1>2. q \in Bijection(1 .. Len(q), ToSet(q))
  <2>1. q \in [1 .. Len(q) -> ToSet(q)]
    <3>1. q = [i \in 1 .. Len(q) |-> q[i]]
      BY <1>1
    <3>2. \A i \in 1 .. Len(q) : q[i] \in ToSet(q)
      BY <1>1 DEF ToSet
    <3>3. QED
      BY <3>1, <3>2
  <2>2. q \in Injection(1 .. Len(q), ToSet(q))
    BY <1>1, <2>1 DEF Single, Injection, IsInjective
  <2>3. q \in Surjection(1 .. Len(q), ToSet(q))
    BY <1>1, <2>1 DEF ToSet, Surjection
  <2>4. QED
    BY <2>2, <2>3 DEF Bijection
<1>3. ExistsBijection(1 .. Len(q), ToSet(q))
  BY <1>2 DEF ExistsBijection
<1>4. IsFiniteSet(1 .. Len(q)) /\ Cardinality(1 .. Len(q)) = Len(q)
  <2>1. Cardinality(1 .. Len(q)) = IF 1 > Len(q) THEN 0 ELSE Len(q) - 1 + 1
    BY <1>1, FS_Interval
  <2>2. IsFiniteSet(1 .. Len(q))
    BY <1>1, FS_Interval
  <2>3. (IF 1 > Len(q) THEN 0 ELSE Len(q) - 1 + 1) = Len(q)
    BY <1>1
  <2>4. QED
    BY <2>1, <2>2, <2>3
<1>5. QED
  BY <1>3, <1>4, FS_Bijection

\* When no message is on its way, all who play have the same players in their join
\* orders, those that have chosen, and the one of them with the least number is first
\* in its own.
LEMMA OrdersAgree ==
  ASSUME IInv, Orders, ChoicesKnown, AtRest
  PROVE  SomebodyIsFirst
<1>1. Players \subseteq Network /\ Network \subseteq here /\ here \subseteq Devices
  BY DEF Players, Network, IInv, Typing
<1>2. ASSUME NEW d \in Network PROVE ToSet(order[d]) = Players
  <2>1. d \in Devices /\ order[d] \in Seq(Devices)
    BY <1>1 DEF Orders, JoinOrders
  <2>2. \A x : x \in ToSet(order[d]) <=> Seated(d, x)
    BY DEF ToSet, Seated, On
  <2>3. \A x : Seated(d, x) => x \in Devices
    BY <2>1, ElementOfSeq, LenProperties DEF Seated, On
  <2>4. Seated(d, d) <=> d \in Players
    BY <2>1 DEF Orders, Entered, Players, Network
  <2>5. ASSUME NEW e \in Devices, e # d PROVE Seated(d, e) <=> e \in Players
    <3>1. Seated(d, e) <=> known[d][e] # None
      BY <2>1, <2>5 DEF Orders, Entered
    <3>2. known[d][e] = IF e \in Network THEN mine[e] ELSE None
      BY <2>5 DEF ChoicesKnown
    <3>3. QED
      BY <3>1, <3>2 DEF Players
  <2>6. QED
    BY <1>1, <2>2, <2>3, <2>4, <2>5
<1>3. \A d \in Network : Len(order[d]) = Cardinality(Players)
  BY <1>1, <1>2, CountedOnce DEF Orders
<1>4. ASSUME Players # {} PROVE \E d \in Players : am_first_player(d)
  <2>1. PICK r \in [Devices -> Nat], n \in Nat : Ranks(r, n)
    BY DEF Orders, Ranked
  <2>2. PICK d \in Players : \A e \in Players : r[d] <= r[e]
    <3> DEFINE S == {r[e] : e \in Players}
    <3>1. S \in SUBSET Nat /\ S # {}
      BY <1>1, <1>4, <2>1
    <3>2. PICK k \in S : \A l \in S : k <= l
      BY <3>1, LeastMember
    <3>3. QED
      BY <3>2
  <2>3. d \in Devices /\ d \in Network /\ order[d] \in Seq(Devices)
    BY <1>1 DEF Orders, JoinOrders
  <2>4. /\ DOMAIN order[d] = 1 .. Len(order[d]) /\ Len(order[d]) \in Nat
    BY <2>3, LenProperties
  <2>5. PICK i \in DOMAIN order[d] : order[d][i] = d
    BY <1>2, <2>3 DEF ToSet
  <2>6. 1 \in DOMAIN order[d] /\ (i = 1 \/ 1 < i)
    BY <2>4, <2>5
  <2>7. order[d][1] \in Players
    BY <1>2, <2>3, <2>6 DEF ToSet
  <2>8. ASSUME 1 < i PROVE FALSE
    <3>1. Precedes(order[d], order[d][1], d)
      BY <2>5, <2>6, <2>8 DEF Precedes
    <3>2. r[order[d][1]] < r[d]
      BY <1>1, <2>1, <2>3, <2>7, <3>1 DEF Ranks
    <3>3. r[d] <= r[order[d][1]] /\ r[d] \in Nat /\ r[order[d][1]] \in Nat
      BY <1>1, <2>1, <2>2, <2>7
    <3>4. QED
      BY <3>2, <3>3
  <2>9. order[d][1] = d
    BY <2>5, <2>6, <2>8
  <2>10. order[d] # <<>>
    BY <2>6
  <2>11. QED
    BY <2>9, <2>10 DEF am_first_player
<1>5. QED
  BY <1>2, <1>3, <1>4 DEF SomebodyIsFirst

\* The same without the fairness of the deliveries, which a safety property does not need.
LEMMA AgreeWithoutFairness == Init /\ [][Next]_vars => []PlayersAgree
<1>1. Init => IInv /\ Orders
  BY InitHolds, InitOrders
<1>2. IInv /\ Orders /\ [Next]_vars => IInv' /\ Orders'
  BY NextHolds, NextOrders
<1>3. IInv /\ Orders => PlayersAgree
  BY OrdersAgree, ChoicesAtRest DEF PlayersAgree, SomebodyIsFirst
<1>4. QED
  BY <1>1, <1>2, <1>3, PTL

\* When no message is on its way, the devices in a network game agree on who has chosen
\* what, every join order has exactly those that have chosen, each once, and one of
\* them holds itself for the first player, however many came, left and chose again.
THEOREM DevicesAgree == Spec => []PlayersAgree
  BY AgreeWithoutFairness, PTL DEF Spec
=============================================================================
