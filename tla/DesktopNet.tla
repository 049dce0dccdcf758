------------------------------ MODULE DesktopNet ------------------------------
(***************************************************************************)
(* Desktop clients playing over sockets: one hosts, the others join        *)
(* (wx_network.cpp, socket_server_impl.c, the network part of wx_main.cpp).*)
(* The host has a thread that accepts connections and one for each client; *)
(* a client has one thread.  Each thread hands what it reads to the        *)
(* window's thread as an event, and there the game gets it.                *)
(*                                                                         *)
(* A connection carries bytes and no message boundaries.  A message is     *)
(* MsgLen bytes, and the bytes of a direction are numbered.                *)
(***************************************************************************)
EXTENDS Naturals, Sequences, SequencesExt

CONSTANTS Host, Joiners, NoDevice,
          MaxSent, \* bound: messages of a sender in one direction
          MsgLen,
          RecvMax  \* MAX_MSG_LEN: bytes one read may return

\* What the constants must satisfy.
DesktopNetAssumption ==
  /\ Host \notin Joiners /\ NoDevice \notin Joiners
  /\ MaxSent \in Nat /\ MsgLen \in Nat \ {0} /\ RecvMax \in Nat \ {0}

Computers == Joiners \cup {Host}

VARIABLES g_server_thread, \* the devices that host
          g_client_thread, \* of each joiner: "none", "joining", "reading", "ended"
          accepting,       \* the client the host's server thread deals with, if any
          told,            \* the game of the host was told of it
          handler,         \* the host's thread of each joiner: "none", "reading", "ended"
          client_threads,  \* the joiners in the server thread's table
          up, down,        \* the bytes between each joiner and the host
          closed,          \* the joiners that closed their connection
          events,          \* what the window's thread of each device has to handle
          heardUp, heardDown, \* the bytes the games were given
          sentUp, sentDown,   \* messages put on each connection
          undefined        \* a freed or unset handle was used

vars == <<g_server_thread, g_client_thread, accepting, told, handler, client_threads, up, down,
          closed, events, heardUp, heardDown, sentUp, sentDown, undefined>>
threads == <<g_server_thread, g_client_thread, accepting, told, handler, client_threads, closed>>
wires == <<up, down, sentUp, sentDown>>
games == <<events, heardUp, heardDown>>

NoBytes == [c \in Joiners |-> <<>>]

Init ==
  /\ g_server_thread = {} /\ g_client_thread = [c \in Joiners |-> "none"]
  /\ accepting = NoDevice /\ told = FALSE
  /\ handler = [c \in Joiners |-> "none"] /\ client_threads = {}
  /\ up = NoBytes /\ down = NoBytes /\ closed = {}
  /\ events = [d \in Computers |-> <<>>]
  /\ heardUp = NoBytes /\ heardDown = NoBytes
  /\ sentUp = [c \in Joiners |-> 0] /\ sentDown = [c \in Joiners |-> 0]
  /\ undefined = FALSE

-----------------------------------------------------------------------------
\* The network settings: host_server and join_server start a thread each.
host_server(d) ==
  /\ d \notin g_server_thread
  /\ g_server_thread' = g_server_thread \cup {d}
  /\ UNCHANGED <<g_client_thread, accepting, told, handler, client_threads, closed, wires, games, undefined>>
join_server(c) ==
  /\ g_client_thread[c] = "none"
  /\ g_client_thread' = [g_client_thread EXCEPT ![c] = "joining"]
  /\ UNCHANGED <<g_server_thread, accepting, told, handler, client_threads, closed, wires, games, undefined>>

\* ClientThread::Entry up to its loop: connects, or gives up.
Connect(c, ok) ==
  /\ g_client_thread[c] = "joining" /\ (ok => Host \in g_server_thread)
  /\ g_client_thread' = [g_client_thread EXCEPT ![c] = IF ok THEN "reading" ELSE "ended"]
  /\ closed' = IF ok THEN closed ELSE closed \cup {c}
  /\ UNCHANGED <<g_server_thread, accepting, told, handler, client_threads, wires, games, undefined>>

\* ServerThread::Entry, one round: accept; tell the game, on this thread; start the
\* client's thread; and only then put it in the table.
wait_for_connections(c) ==
  /\ Host \in g_server_thread /\ accepting = NoDevice
  /\ g_client_thread[c] # "joining" /\ handler[c] = "none" /\ c \notin closed
  /\ g_client_thread[c] # "none"
  /\ accepting' = c /\ told' = FALSE
  /\ UNCHANGED <<g_server_thread, g_client_thread, handler, client_threads, closed, wires, games, undefined>>
wx_handle_client_connected ==
  /\ accepting # NoDevice /\ ~told
  /\ told' = TRUE
  /\ UNCHANGED <<g_server_thread, g_client_thread, accepting, handler, client_threads, closed, wires, games, undefined>>
RunHandler ==
  /\ told /\ handler[accepting] = "none"
  /\ handler' = [handler EXCEPT ![accepting] = "reading"]
  /\ UNCHANGED <<g_server_thread, g_client_thread, accepting, told, client_threads, closed, wires, games, undefined>>
Register ==
  /\ told /\ handler[accepting] # "none"
  /\ client_threads' = client_threads \cup {accepting}
  /\ accepting' = NoDevice /\ told' = FALSE
  /\ UNCHANGED <<g_server_thread, g_client_thread, handler, closed, wires, games, undefined>>

\* recv: what is left after the first n bytes of what has arrived.
recv_msg(bytes, n) == SubSeq(bytes, n + 1, Len(bytes))
Readable(bytes) == {n \in 1 .. RecvMax : n <= Len(bytes)}

\* Mutant: the latest event is handled first.
wx_handle_msg_received_Front(d, src, bytes) ==
  events' = [events EXCEPT ![d] = <<[src |-> src, bytes |-> bytes]>> \o @]

\* The hop to the window's thread.
wx_handle_msg_received(d, src, bytes) ==
  events' = [events EXCEPT ![d] = Append(@, [src |-> src, bytes |-> bytes])]

\* Mutant: the thread reads once and ends.
ReadsOn_Once(c) == handler' = [handler EXCEPT ![c] = "ended"]
ReadsOn(c) == handler' = handler

\* ClientHandlerThread::Entry: reads from one client until it has closed; then it
\* frees the connection, and stays in the table.
HandlerReads(c, n) ==
  /\ handler[c] = "reading" /\ n \in Readable(up[c])
  /\ up' = [up EXCEPT ![c] = recv_msg(@, n)]
  /\ wx_handle_msg_received(Host, c, SubSeq(up[c], 1, n))
  /\ ReadsOn(c)
  /\ UNCHANGED <<g_server_thread, g_client_thread, accepting, told, client_threads, closed,
                 down, sentUp, sentDown, heardUp, heardDown, undefined>>
HandlerEnds(c) ==
  /\ handler[c] = "reading" /\ up[c] = <<>> /\ c \in closed
  /\ handler' = [handler EXCEPT ![c] = "ended"]
  /\ UNCHANGED <<g_server_thread, g_client_thread, accepting, told, client_threads, closed,
                 wires, games, undefined>>

\* ClientThread::Entry: the loop.  The client's program may end at any time.
ClientReads(c, n) ==
  /\ g_client_thread[c] = "reading" /\ n \in Readable(down[c])
  /\ down' = [down EXCEPT ![c] = recv_msg(@, n)]
  /\ wx_handle_msg_received(c, Host, SubSeq(down[c], 1, n))
  /\ UNCHANGED <<threads, up, sentUp, sentDown, heardUp, heardDown, undefined>>
ClientQuits(c) ==
  /\ g_client_thread[c] = "reading"
  /\ g_client_thread' = [g_client_thread EXCEPT ![c] = "ended"]
  /\ closed' = closed \cup {c}
  /\ UNCHANGED <<g_server_thread, accepting, told, handler, client_threads, wires, games, undefined>>

\* handle_msg_recvd: the game gets the bytes of the first event.
Given(heard, c, bytes) == [heard EXCEPT ![c] = @ \o bytes]
handle_msg_recvd(d) ==
  /\ events[d] # <<>>
  /\ events' = [events EXCEPT ![d] = Tail(@)]
  /\ LET e == Head(events[d]) IN
     IF d = Host THEN heardUp' = Given(heardUp, e.src, e.bytes) /\ UNCHANGED heardDown
     ELSE heardDown' = Given(heardDown, d, e.bytes) /\ UNCHANGED heardUp
  /\ UNCHANGED <<threads, wires, undefined>>

-----------------------------------------------------------------------------
Bytes(n) == [i \in 1 .. MsgLen |-> MsgLen * n + i]

\* wx_send_message of a host: to every client of the table for "all", to one of
\* them by name, to nobody otherwise.  A client that left is still there.
ServerSends(cs) ==
  /\ \A c \in cs : sentDown[c] < MaxSent
  /\ down' = [c \in Joiners |-> IF c \in cs THEN down[c] \o Bytes(sentDown[c]) ELSE down[c]]
  /\ sentDown' = [c \in Joiners |-> IF c \in cs THEN sentDown[c] + 1 ELSE sentDown[c]]
  /\ undefined' = \E c \in cs : handler[c] = "ended"
  /\ UNCHANGED <<threads, up, sentUp, games>>
SendAll == Host \in g_server_thread /\ client_threads # {} /\ ServerSends(client_threads)
SendTo(c) == Host \in g_server_thread /\ c \in client_threads /\ ServerSends({c})

\* wx_send_message of a client: to the host, unless it hosts as well.  While it
\* joins there is no connection in the handle, and afterwards a freed one.
ClientSends(c) ==
  /\ c \notin g_server_thread /\ g_client_thread[c] # "none" /\ sentUp[c] < MaxSent
  /\ up' = IF c \in closed THEN up ELSE [up EXCEPT ![c] = @ \o Bytes(sentUp[c])]
  /\ sentUp' = IF c \in closed THEN sentUp ELSE [sentUp EXCEPT ![c] = @ + 1]
  /\ undefined' = (g_client_thread[c] # "reading")
  /\ UNCHANGED <<threads, down, sentDown, games>>

Next ==
  /\ ~undefined
  /\ \/ \E d \in Computers : host_server(d) \/ handle_msg_recvd(d)
     \/ \E c \in Joiners :
          \/ join_server(c) \/ wait_for_connections(c) \/ HandlerEnds(c) \/ ClientQuits(c)
          \/ \E ok \in BOOLEAN : Connect(c, ok)
          \/ \E n \in 1 .. RecvMax : HandlerReads(c, n) \/ ClientReads(c, n)
          \/ SendTo(c) \/ ClientSends(c)
     \/ wx_handle_client_connected \/ RunHandler \/ Register \/ SendAll

\* The threads go on and the window's thread handles its events.
ServerThread == (\E c \in Joiners : wait_for_connections(c)) \/ wx_handle_client_connected \/ RunHandler \/ Register
Fairness ==
  /\ WF_vars(~undefined /\ ServerThread)
  /\ \A c \in Joiners : WF_vars(~undefined /\ \E n \in 1 .. RecvMax : HandlerReads(c, n))
  /\ \A c \in Joiners : WF_vars(~undefined /\ \E n \in 1 .. RecvMax : ClientReads(c, n))
  /\ \A d \in Computers : WF_vars(~undefined /\ handle_msg_recvd(d))
Spec == Init /\ [][Next]_vars /\ Fairness

-----------------------------------------------------------------------------
\* The bytes of src among the events of d.
Waiting(d, src) ==
  FlattenSeq([i \in DOMAIN events[d] |->
                IF events[d][i].src = src THEN events[d][i].bytes ELSE <<>>])
Numbered(n) == [i \in 1 .. MsgLen * n |-> i]

\* Through the socket, the reading thread and the hop to the window's thread, the
\* game gets every byte that was sent, once and in order; what it has not got yet is
\* still on the way.  Where one message ends is not part of it.
BytesKeepTheirOrder ==
  ~undefined => \A c \in Joiners :
    /\ heardUp[c] \o Waiting(Host, c) \o up[c] = Numbered(sentUp[c])
    /\ heardDown[c] \o Waiting(c, Host) \o down[c] = Numbered(sentDown[c])

\* What a client sends is heard by the host's game, even if the client leaves right
\* after it, unless it leaves before the host accepted it.
HostHearsEveryone ==
  \A c \in Joiners :
    (sentUp[c] = MaxSent) ~>
      (undefined \/ heardUp[c] = Numbered(MaxSent) \/ (c \in closed /\ handler[c] = "none"))
=============================================================================
