---------------------------- MODULE RelayServer ----------------------------
(***************************************************************************)
(* src/server/ws/ws_server.py: the websocket server that relays the games' *)
(* messages between the clients of a session.                              *)
(*                                                                         *)
(* One coroutine (client_handler) per connection, all on one event loop: a *)
(* coroutine runs alone until it waits.  It always waits for its client's  *)
(* next message; `await ws.send` waits only when the receiver is slow      *)
(* (MaySuspend).  While it waits in the middle of a loop over the members  *)
(* of the session, others may join and leave, and Python's dict iterator   *)
(* then raises RuntimeError, which ends the coroutine.                     *)
(***************************************************************************)
EXTENDS Integers, Sequences, FiniteSets, SequencesExt

CONSTANTS
  Clients,      \* connections; the server names each by its address and port
  Sessions,     \* session ids
  Firsts,       \* what a client may ask for first: a session id, NewId, or nonsense
  Dsts,         \* whom a client may address: All, a client, or a name nobody has
  MaxMsgs,      \* bound: messages the clients send after their first ones
  MaxLeaves,    \* bound: connections that clients close
  MaySuspend,   \* whether a send may have to wait for a slow receiver
  None          \* no client, no session

All   == "all"
NewId == "new_session"

ASSUME Parameters ==
  /\ MaxMsgs \in Nat
  /\ MaxLeaves \in Nat
  /\ MaySuspend \in BOOLEAN
  /\ None \notin Clients \cup Sessions
  /\ NewId \notin Sessions
  /\ All \notin Clients
  /\ IsFiniteSet(Clients) /\ IsFiniteSet(Sessions)

VARIABLES
  conn,         \* per client: "none", "open" or "closed", as the server's library knows it
  toServer,     \* per client: messages on their way to the server
  inbox,        \* per client: messages the server has sent to it
  sent,         \* per client: how many messages it has sent
  room,         \* sessions: per id its clients, in the order of the dict
  total,        \* total_connections
  pc,           \* per client: where its coroutine is
  our,          \* per client: the coroutine's session_id
  job,          \* per client: the loop over the session its coroutine is in
  running,      \* the coroutine that has the event loop, or None
  leaves        \* how many connections clients have closed

vars == <<conn, toServer, inbox, sent, room, total, pc, our, job, running, leaves>>

Members(s) == ToSet(room[s])

\* What the server sends: a client's message under its name, or its own.
Game(c, n)   == [src |-> c, kind |-> "game", what |-> n]
Left(c)      == [src |-> None, kind |-> "player_left", what |-> c]
Connected(s) == [src |-> None, kind |-> "connected", what |-> s]

NoJob == [msg |-> Left(None), seen |-> {}, size |-> 0]

Init ==
  /\ conn = [c \in Clients |-> "none"]
  /\ toServer = [c \in Clients |-> <<>>]
  /\ inbox = [c \in Clients |-> <<>>]
  /\ sent = [c \in Clients |-> 0]
  /\ room = [s \in Sessions |-> <<>>]
  /\ total = 0
  /\ pc = [c \in Clients |-> "none"]
  /\ our = [c \in Clients |-> None]
  /\ job = [c \in Clients |-> NoJob]
  /\ running = None
  /\ leaves = 0

GoTo(c, at) == pc' = [pc EXCEPT ![c] = at]

-----------------------------------------------------------------------------
(* Clients *)

Connect(c) ==
  /\ conn[c] = "none"
  /\ conn' = [conn EXCEPT ![c] = "open"]
  /\ GoTo(c, "start")
  /\ UNCHANGED <<toServer, inbox, sent, room, total, our, job, running, leaves>>

Say(c, m) ==
  /\ conn[c] = "open"
  /\ sent' = [sent EXCEPT ![c] = @ + 1]
  /\ toServer' = [toServer EXCEPT ![c] = Append(@, m)]
  /\ UNCHANGED <<conn, inbox, room, total, pc, our, job, running, leaves>>

Ask(c, first) == sent[c] = 0 /\ Say(c, [dst |-> "ctrl", ask |-> first, n |-> 0])
Spoken == FoldSet(LAMBDA c, n : n + (IF sent[c] = 0 THEN 0 ELSE sent[c] - 1), 0, Clients)

Send(c, dst) ==
  sent[c] > 0 /\ Spoken < MaxMsgs /\ Say(c, [dst |-> dst, ask |-> None, n |-> sent[c]])

Close(c) ==
  /\ conn[c] = "open"
  /\ leaves < MaxLeaves
  /\ leaves' = leaves + 1
  /\ conn' = [conn EXCEPT ![c] = "closed"]
  /\ UNCHANGED <<toServer, inbox, sent, room, total, pc, our, job, running>>

-----------------------------------------------------------------------------
(* client_handler *)

\* The coroutine of c is at `at` and has, or can get, the event loop.
At(c, at) == running \in {None, c} /\ pc[c] = at

\* recv returns what has come, also when the connection is closed since.
Recv(c) ==
  /\ toServer[c] # <<>>
  /\ toServer' = [toServer EXCEPT ![c] = Tail(@)]

\* After a send a coroutine goes on, or gives the event loop away.
MayYield(c) == running' \in (IF MaySuspend THEN {None, c} ELSE {c})

SendTo(d, msg) == inbox' = [inbox EXCEPT ![d] = Append(@, msg)]

\* An exception ends the coroutine and the connection; nothing else is undone.
Fail(c) ==
  /\ GoTo(c, "failed")
  /\ conn' = [conn EXCEPT ![c] = "closed"]
  /\ job' = [job EXCEPT ![c] = NoJob]
  /\ running' = None

Register(c, s) ==
  /\ room' = [room EXCEPT ![s] = Append(@, c)]
  /\ total' = total + 1
  /\ our' = [our EXCEPT ![c] = s]
  /\ GoTo(c, "recv")
  /\ running' = None

JoinSession(c) ==
  /\ At(c, "start") /\ Recv(c)
  /\ \E s \in Sessions : Head(toServer[c]).ask = s /\ Register(c, s)
  /\ UNCHANGED <<conn, inbox, sent, job, leaves>>

\* generate_session_id draws letters and does not look whether they are taken.
NewSession(c) ==
  /\ At(c, "start") /\ Recv(c) /\ Head(toServer[c]).ask = NewId /\ conn[c] = "open"
  /\ \E s \in Sessions :
       /\ SendTo(c, Connected(s))
       /\ our' = [our EXCEPT ![c] = s]
  /\ GoTo(c, "register")
  /\ MayYield(c)
  /\ UNCHANGED <<conn, sent, room, total, job, leaves>>

RegisterNew(c) ==
  /\ At(c, "register")
  /\ Register(c, our[c])
  /\ UNCHANGED <<conn, toServer, inbox, sent, job, leaves>>

\* Closed too early, or a first message that asks for nothing: an exception.
NeverJoined(c) ==
  /\ At(c, "start")
  /\ \/ toServer[c] = <<>> /\ conn[c] = "closed" /\ UNCHANGED toServer
     \/ Recv(c) /\ LET first == Head(toServer[c]).ask
                   IN  first \notin Sessions /\ (first = NewId => conn[c] = "closed")
  /\ Fail(c)
  /\ UNCHANGED <<inbox, sent, room, total, our, leaves>>

\* A message to all starts a loop over the session's dict ...
RelayStart(c) ==
  /\ At(c, "recv") /\ Recv(c) /\ Head(toServer[c]).dst = All
  /\ job' = [job EXCEPT ![c] = [msg  |-> Game(c, Head(toServer[c]).n),
                                seen |-> {},
                                size |-> Len(room[our[c]])]]
  /\ GoTo(c, "relay")
  /\ running' = c
  /\ UNCHANGED <<conn, inbox, sent, room, total, our, leaves>>

\* Mutant: a name is looked up in all the sessions.
RelayToOne_AnySession(c) ==
  /\ At(c, "recv") /\ Recv(c)
  /\ LET m == Head(toServer[c])
     IN  /\ m.dst # All
         /\ IF m.dst \in UNION {Members(s) : s \in Sessions} \ {c} /\ conn[m.dst] = "open"
            THEN SendTo(m.dst, Game(c, m.n))
            ELSE UNCHANGED inbox
  /\ running' = None
  /\ UNCHANGED <<conn, sent, room, total, pc, our, job, leaves>>

\* ... one to a member is sent to it, unless that is oneself or gone; any
\* other name is dropped.
RelayToOne(c) ==
  /\ At(c, "recv") /\ Recv(c)
  /\ LET m == Head(toServer[c])
     IN  /\ m.dst # All
         /\ IF m.dst \in Members(our[c]) \ {c} /\ conn[m.dst] = "open"
            THEN SendTo(m.dst, Game(c, m.n))
            ELSE UNCHANGED inbox
  /\ running' = None
  /\ UNCHANGED <<conn, sent, room, total, pc, our, job, leaves>>

\* The dict's keys that the loop of c has not come to, and the one it comes to next.
Rest(c) == Members(our[c]) \ job[c].seen
IsNext(c, d) ==
  /\ d \in Rest(c)
  /\ \E i \in DOMAIN room[our[c]] :
       room[our[c]][i] = d /\ \A j \in 1 .. i - 1 : room[our[c]][j] \in job[c].seen

\* Python's iterator raises RuntimeError when the dict has another size, or
\* when it finds more keys than there were.
Changed(c) ==
  \/ Len(room[our[c]]) # job[c].size
  \/ Cardinality(job[c].seen) = job[c].size /\ Rest(c) # {}

Advance(c, d) == job' = [job EXCEPT ![c].seen = @ \cup {d}]

\* Mutant: the loop ends at a closed receiver.
RelayNext_Break(c) ==
  /\ At(c, "relay") /\ ~Changed(c)
  /\ \E d \in Rest(c) :
       /\ IsNext(c, d)
       /\ IF d = c \/ conn[d] = "open"
          THEN /\ Advance(c, d)
               /\ IF d # c THEN SendTo(d, job[c].msg) /\ MayYield(c)
                           ELSE running' = c /\ UNCHANGED inbox
               /\ UNCHANGED pc
          ELSE GoTo(c, "recv") /\ running' = None /\ UNCHANGED <<inbox, job>>
  /\ UNCHANGED <<conn, toServer, sent, room, total, our, leaves>>

\* The next member hears of it, unless it is the sender or its connection is closed.
RelayNext(c) ==
  /\ At(c, "relay") /\ ~Changed(c)
  /\ \E d \in Rest(c) :
       /\ IsNext(c, d)
       /\ Advance(c, d)
       /\ IF d # c /\ conn[d] = "open"
          THEN SendTo(d, job[c].msg) /\ MayYield(c)
          ELSE running' = c /\ UNCHANGED inbox
  /\ UNCHANGED <<conn, toServer, sent, room, total, pc, our, leaves>>

RelayEnd(c) ==
  /\ At(c, "relay") /\ ~Changed(c) /\ Rest(c) = {}
  /\ GoTo(c, "recv")
  /\ job' = [job EXCEPT ![c] = NoJob]
  /\ running' = None
  /\ UNCHANGED <<conn, toServer, inbox, sent, room, total, our, leaves>>

LoopBroken(c) ==
  /\ At(c, "relay") \/ At(c, "leaving")
  /\ Changed(c)
  /\ Fail(c)
  /\ UNCHANGED <<toServer, inbox, sent, room, total, our, leaves>>

\* Mutant: the entry is deleted after the members have been told.
LeaveStart_DeletesLater(c) ==
  /\ At(c, "recv") /\ toServer[c] = <<>> /\ conn[c] = "closed"
  /\ total' = total - 1
  /\ room' = room
  /\ job' = [job EXCEPT ![c] = [msg |-> Left(c), seen |-> {c}, size |-> Len(room[our[c]])]]
  /\ GoTo(c, "leaving")
  /\ running' = c
  /\ UNCHANGED <<conn, toServer, inbox, sent, our, leaves>>

\* client_left: nothing more to receive from a closed connection.
LeaveStart(c) ==
  /\ At(c, "recv") /\ toServer[c] = <<>> /\ conn[c] = "closed"
  /\ total' = total - 1
  /\ \E i \in DOMAIN room[our[c]] :
       room[our[c]][i] = c /\ room' = [room EXCEPT ![our[c]] = RemoveAt(@, i)]
  /\ job' = [job EXCEPT ![c] = [msg |-> Left(c), seen |-> {}, size |-> Len(room'[our[c]])]]
  /\ GoTo(c, "leaving")
  /\ running' = c
  /\ UNCHANGED <<conn, toServer, inbox, sent, our, leaves>>

LeaveNext(c) ==
  /\ At(c, "leaving") /\ ~Changed(c)
  /\ \E d \in Rest(c) :
       /\ IsNext(c, d)
       /\ conn[d] = "open"
       /\ SendTo(d, job[c].msg)
       /\ Advance(c, d)
  /\ MayYield(c)
  /\ UNCHANGED <<conn, toServer, sent, room, total, pc, our, leaves>>

\* Mutant: the exception is caught and ends the loop.
LeaveBroken_Break(c) ==
  /\ At(c, "leaving") /\ ~Changed(c)
  /\ \E d \in Rest(c) : IsNext(c, d) /\ conn[d] # "open"
  /\ GoTo(c, "done")
  /\ job' = [job EXCEPT ![c] = NoJob]
  /\ running' = None
  /\ UNCHANGED <<conn, toServer, inbox, sent, room, total, our, leaves>>

\* Here a receiver that is gone ends the coroutine: the exception is not caught.
LeaveBroken(c) ==
  /\ At(c, "leaving") /\ ~Changed(c)
  /\ \E d \in Rest(c) : IsNext(c, d) /\ conn[d] # "open"
  /\ Fail(c)
  /\ UNCHANGED <<toServer, inbox, sent, room, total, our, leaves>>

LeaveEnd(c) ==
  /\ At(c, "leaving") /\ ~Changed(c) /\ Rest(c) = {}
  /\ GoTo(c, "done")
  /\ job' = [job EXCEPT ![c] = NoJob]
  /\ running' = None
  /\ UNCHANGED <<conn, toServer, inbox, sent, room, total, our, leaves>>

Handler(c) ==
  \/ JoinSession(c) \/ NewSession(c) \/ RegisterNew(c) \/ NeverJoined(c)
  \/ RelayStart(c) \/ RelayToOne(c) \/ RelayNext(c) \/ RelayEnd(c)
  \/ LeaveStart(c) \/ LeaveNext(c) \/ LeaveBroken(c) \/ LeaveEnd(c)
  \/ LoopBroken(c)

Next ==
  \E c \in Clients :
    \/ Connect(c)
    \/ \E first \in Firsts : Ask(c, first)
    \/ \E dst \in Dsts : Send(c, dst)
    \/ Close(c)
    \/ Handler(c)

\* The event loop resumes every coroutine that can go on; clients owe nothing.
Fairness == \A c \in Clients : WF_vars(Handler(c))
Spec == Init /\ [][Next]_vars /\ Fairness

-----------------------------------------------------------------------------
(* Properties *)

\* A game message reaches only clients in the session of its sender, whatever
\* happened to the two between sending and relaying; what one client sends reaches
\* another in the order it was sent, and at most once, though each message is
\* relayed in a loop that others interrupt.
DeliveredInOrder ==
  \A d \in Clients : \A j \in DOMAIN inbox[d] :
    LET m == inbox[d][j]
    IN  m.kind = "game" =>
          /\ our[m.src] = our[d] /\ our[d] # None
          /\ \A i \in 1 .. j - 1 :
               inbox[d][i].kind = "game" /\ inbox[d][i].src = m.src =>
                 inbox[d][i].what < m.what

\* When a relay to all ends without an error, every open member of the session,
\* those that joined during the loop included, has the message.
RelayReachesAll ==
  [][\A c \in Clients :
       pc[c] = "relay" /\ pc'[c] = "recv" =>
         \A d \in Members(our[c]) \ {c} :
           conn[d] = "open" => \E i \in DOMAIN inbox[d] : inbox[d][i] = job[c].msg]_vars

\* A player_left is only ever told of a client that is out of its session, and
\* nobody is told it of itself.
LeftIsGone ==
  \A d \in Clients : \A i \in DOMAIN inbox[d] :
    LET m == inbox[d][i]
    IN  m.kind = "player_left" => m.what # d /\ \A s \in Sessions : m.what \notin Members(s)

\* An exception ended the coroutine of c, which takes a third client of the
\* session: one that had left when the announcement came to it, or one whose
\* joining or leaving changed the dict while a send of c waited.
CutShort(c, d) == pc[c] = "failed" /\ \E e \in Clients \ {c, d} : our[e] = our[c]

\* Of two that have a session to themselves, the one that stays is told when the
\* other leaves.  Where there are more, each member that stays is told, though
\* others join and leave while the announcement waits for slow receivers, unless
\* an exception that client_left or the relaying loop does not catch cuts it
\* short: then those not yet told never hear of it.
LeaveAnnounced ==
  \A c, d \in Clients : \A s \in Sessions :
    (conn[c] = "closed" /\ c \in Members(s) /\ d \in Members(s) /\ conn[d] = "open")
      ~> \/ conn[d] = "closed"
         \/ \E i \in DOMAIN inbox[d] : inbox[d][i] = Left(c)
         \/ CutShort(c, d)

=============================================================================
