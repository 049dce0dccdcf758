------------------------------- MODULE MCLinks --------------------------------
(* What must arrive, on each of the three ways between devices, one at a time: *)
(* two_player on two devices, the relay with slow receivers, and the desktop's *)
(* sockets with one that joins.                                                *)
EXTENDS TwoPlayer

CONSTANTS d1, d2, black, white, c1, c2, c3, s1, j1, Host,
          MaxMsgs, MaxSent, MsgLen, RecvMax

TwoDevices == {d1, d2}
MCColours  == {black, white}

VARIABLES part,
          conn, toServer, delivered, sent, room, total, pc, our, job, running, leaves,
          g_server_thread, g_client_thread, accepting, told, handler, client_threads, up, down,
          closed, events, heardUp, heardDown, sentUp, sentDown, undefined

Relay == INSTANCE RelayServer
           WITH Clients <- {c1, c2, c3}, Sessions <- {s1}, Firsts <- {s1}, Dsts <- {"all"},
                MaySuspend <- TRUE, MaxLeaves <- 2, inbox <- delivered
Net   == INSTANCE DesktopNet WITH Joiners <- {j1}, NoDevice <- None

relay == <<conn, toServer, delivered, sent, room, total, pc, our, job, running, leaves>>
net   == <<g_server_thread, g_client_thread, accepting, told, handler, client_threads, up, down,
           closed, events, heardUp, heardDown, sentUp, sentDown, undefined>>

MCInit == part \in {"pair", "relay", "net"} /\ Init /\ Relay!Init /\ Net!Init
Pair_Next  == part = "pair" /\ Next /\ UNCHANGED <<part, relay, net>>
Relay_Next == part = "relay" /\ Relay!Next /\ UNCHANGED <<part, vars, net>>
Net_Next   == part = "net" /\ Net!Next /\ UNCHANGED <<part, vars, relay>>
MCNext == Pair_Next \/ Relay_Next \/ Net_Next

\* The parts that are not explored stay as they begin, where their fairness asks
\* for nothing.
MCSpec == /\ MCInit /\ [][MCNext]_<<part, vars, relay, net>>
          /\ Fairness /\ Relay!Fairness /\ Net!Fairness

ASSUME LinksAssumption == Net!DesktopNetAssumption

\* The properties of the instances, under names of their own.
LeaveAnnounced    == Relay!LeaveAnnounced
HostHearsEveryone == Net!HostHearsEveryone

=============================================================================
