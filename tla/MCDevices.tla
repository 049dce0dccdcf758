------------------------------ MODULE MCDevices -------------------------------
(* Three devices for TLC: as clients of the relay, as players of two_player,  *)
(* as players that wait_for_players numbers, and as desktop clients over      *)
(* sockets, one of the four at a time.                                        *)
EXTENDS Transports, TLC

CONSTANTS c1, c2, c3, s1, s2, d1, d2, d3, black, white, j1, j2

MCClients == {c1, c2, c3}
MCSessions == {s1, s2}
Players3 == {d1, d2, d3}
MCColours == {black, white}
MCJoiners == {j1, j2}

\* Join a session, begin one, or ask for nothing the server knows.
AnyFirst == {s1, NewId, "nonsense"}
AnyDst == {All, c1, "nobody"}

\* The clients that nobody addresses by name are interchangeable, and so are the
\* players.  The colours and those that join a desktop are too; every permutation
\* more costs more time than it saves states.
Symmetry == Permutations({c2, c3}) \cup Permutations(Players3)

VARIABLE part

MCInit ==
  /\ part \in {"relay", "players", "waiters", "net"}
  /\ Init /\ Players!Init /\ Waiters!Init /\ Net!Init
Relay_Next   == part = "relay" /\ Next /\ UNCHANGED <<part, two, waiters, net>>
Players_Next == part = "players" /\ Players!Next /\ UNCHANGED <<part, vars, waiters, net>>
Waiters_Next == part = "waiters" /\ Waiters!Next /\ UNCHANGED <<part, vars, two, net>>
Net_Next     == part = "net" /\ Net!Next /\ UNCHANGED <<part, vars, two, waiters>>
MCNext == Relay_Next \/ Players_Next \/ Waiters_Next \/ Net_Next
MCSpec == MCInit /\ [][MCNext]_<<part, vars, two, waiters, net>>

=============================================================================
