---------------------------- MODULE WaitForPlayers ----------------------------
(***************************************************************************)
(* src/lua_scripts/libs/multiplayer/wait_for_players.lua: how the players  *)
(* of a session get their numbers before the host starts the game (crib,   *)
(* minesweeper, 31s, poker chips and others use it).  A device is the host *)
(* until another one tells it its number.                                  *)
(*                                                                         *)
(* The relay between the devices is that of TwoPlayer: a send and its      *)
(* relaying are one step, inboxes are first in, first out, and a device    *)
(* that leaves is announced.  A send to a name that is not in the session  *)
(* reaches nobody.  A Lua table is a function on the indices it holds.     *)
(***************************************************************************)
EXTENDS Naturals, Sequences, FiniteSets, FiniteSetsExt, Functions

CONSTANTS Devices,   \* each with a name of its own
          You, HostName, \* the names "You" and "Host"
          None,
          MaxLeft,   \* bound: how many devices leave
          OneAtATime \* bound: a device comes or goes only when nothing is on its way

\* What the constants must satisfy.
WaitForPlayersAssumption ==
  /\ IsFiniteSet(Devices) /\ MaxLeft \in Nat /\ OneAtATime \in BOOLEAN
  /\ {You, HostName, None} \cap Devices = {}
  /\ You # HostName /\ None \notin {You, HostName}

VARIABLES session,  \* the devices in the session
          left,     \* those that have left it
          is_client, player, players, player_name_to_idx,
          shown,    \* the popup is on the screen
          started,  \* the devices whose game has begun
          coming    \* messages on their way to a device

vars == <<session, left, is_client, player, players, player_name_to_idx, shown, started, coming>>

\* A Lua table that is empty, and what becomes of one by t[k] = v.
Empty == [i \in {} |-> None]
Assign(t, k, v) == [i \in DOMAIN t \cup {k} |-> IF i = k THEN v ELSE t[i]]
Indices == 1 .. Cardinality(Devices) + 1

Init ==
  /\ session = {} /\ left = {} /\ started = {} /\ shown = {}
  /\ is_client = [d \in Devices |-> FALSE]
  /\ player = [d \in Devices |-> 1]
  /\ players = [d \in Devices |-> Assign(Empty, 1, You)]
  /\ player_name_to_idx = [d \in Devices |-> Empty]
  /\ coming = [d \in Devices |-> <<>>]

-----------------------------------------------------------------------------
Msg(src, header, idx, name) == [src |-> src, header |-> header, idx |-> idx, name |-> name]

\* d sends through the relay: the others of the session get m, or each those of a
\* batch that are to all or to its name.
send_message(box, d, m) ==
  [e \in Devices |-> IF e \in session \ {d} THEN Append(box[e], m) ELSE box[e]]
send_messages(box, d, batch) ==
  [e \in Devices |-> IF e \in session \ {d} THEN box[e] \o batch[e] ELSE box[e]]

\* The first number that is free.
get_vacant_player_spot(t) == Min({i \in Indices : i \notin DOMAIN t})

\* #t is any border of the table.
Borders(t) == {n \in DOMAIN t : n + 1 \notin DOMAIN t} \cup (IF 1 \in DOMAIN t THEN {} ELSE {0})

\* table.remove(t, pos), when #t is size: what lies behind moves down by one.
table_remove(t, pos, size) ==
  LET last == IF pos > size THEN pos ELSE size
      from(i) == IF i \in pos .. last - 1 THEN i + 1 ELSE i
  IN [i \in {j \in Indices : j # last /\ from(j) \in DOMAIN t} |-> t[from(i)]]

\* What ipairs walks through.
ipairs(t) == {i \in DOMAIN t : 1 .. i \subseteq DOMAIN t}
InOrder(is) ==
  [k \in 1 .. Cardinality(is) |-> CHOOSE i \in is : Cardinality({j \in is : j < i}) = k - 1]

-----------------------------------------------------------------------------
AtRest == \A d \in session : coming[d] = <<>>
MayChange == OneAtATime => AtRest

\* init, when the game is started: everybody is a host at first.
init(d) ==
  /\ d \notin session \cup left /\ MayChange
  /\ session' = session \cup {d}
  /\ shown' = shown \cup {d}
  /\ coming' = send_message(coming, d, Msg(d, "joined", 0, None))
  /\ UNCHANGED <<left, is_client, player, players, player_name_to_idx, started>>

\* "Start game": the popup of a host has the button.
handle_popup_btn_clicked(d) ==
  /\ d \in session \cap shown /\ ~is_client[d]
  /\ coming' = send_message(coming, d, Msg(d, "start_game", 0, None))
  /\ started' = started \cup {d} /\ shown' = shown \ {d}
  /\ UNCHANGED <<session, left, is_client, player, players, player_name_to_idx>>

\* A device leaves, and the relay tells the others.
Leave(d) ==
  /\ d \in session /\ Cardinality(left) < MaxLeft /\ MayChange
  /\ session' = session \ {d} /\ left' = left \cup {d} /\ shown' = shown \ {d}
  /\ coming' = [send_message(coming, d, Msg(None, "player_left", 0, d)) EXCEPT ![d] = <<>>]
  /\ UNCHANGED <<is_client, player, players, player_name_to_idx, started>>

\* handle_msg_received: the next message of d.
Receive(d, header) == d \in session /\ coming[d] # <<>> /\ Head(coming[d]).header = header
Consumed(d) == [coming EXCEPT ![d] = Tail(@)]

become_client_player(d) ==
  LET m == Head(coming[d]) IN
  /\ Receive(d, "player")
  /\ is_client' = [is_client EXCEPT ![d] = TRUE]
  /\ player' = [player EXCEPT ![d] = m.idx]
  /\ players' = [players EXCEPT ![d] = Assign(Empty, m.idx, You)]
  /\ shown' = shown \cup {d} /\ coming' = Consumed(d)
  /\ UNCHANGED <<session, left, player_name_to_idx, started>>

clear_players(d) ==
  /\ Receive(d, "clear_players")
  /\ player' = IF is_client[d] THEN [player EXCEPT ![d] = 0] ELSE player
  /\ players' = IF is_client[d] THEN [players EXCEPT ![d] = Empty] ELSE players
  /\ coming' = Consumed(d)
  /\ UNCHANGED <<session, left, is_client, player_name_to_idx, shown, started>>

add_player(d) ==
  LET m == Head(coming[d]) IN
  /\ Receive(d, "add_player")
  /\ players' = [players EXCEPT ![d] = Assign(@, m.idx, m.name)]
  /\ player_name_to_idx' = [player_name_to_idx EXCEPT ![d] = Assign(@, m.name, m.idx)]
  /\ shown' = shown \cup {d} /\ coming' = Consumed(d)
  /\ UNCHANGED <<session, left, is_client, player, started>>

\* Mutant: the players are cleared after they got their numbers.
Renumbered_ClearsLast(t, d, e) ==
  LET is  == InOrder(ipairs(t))
      own == InOrder({i \in ipairs(t) : t[i] = e})
  IN [k \in DOMAIN own |-> Msg(d, "player", own[k], e)]
       \o <<Msg(d, "clear_players", 0, None)>>
       \o [k \in DOMAIN is |-> Msg(d, "add_player", is[k], t[is[k]])]

\* What e gets of the batch of d, whose table is t.
Renumbered(t, d, e) ==
  LET is  == InOrder(ipairs(t))
      own == InOrder({i \in ipairs(t) : t[i] = e})
  IN <<Msg(d, "clear_players", 0, None)>>
       \o [k \in DOMAIN own |-> Msg(d, "player", own[k], e)]
       \o [k \in DOMAIN is |-> Msg(d, "add_player", is[k], t[is[k]])]

\* A leave is handled by every device that knows the name, host or not.  The
\* numbers of the others change; player_name_to_idx keeps theirs.
player_left(d) ==
  LET name == Head(coming[d]).name
      names == player_name_to_idx[d]
  IN /\ Receive(d, "player_left")
     /\ \E size \in Borders(players[d]) :
          IF name \notin DOMAIN names \/ names[name] > size + 1
          THEN /\ coming' = Consumed(d)
               /\ UNCHANGED <<players, player_name_to_idx, shown>>
          ELSE /\ players' = [players EXCEPT ![d] = table_remove(@, names[name], size)]
               /\ player_name_to_idx' = [player_name_to_idx EXCEPT ![d] = Restrict(@, DOMAIN @ \ {name})]
               /\ coming' = send_messages(Consumed(d), d, [e \in Devices |-> Renumbered(players'[d], d, e)])
               /\ shown' = shown \cup {d}
     /\ UNCHANGED <<session, left, is_client, player, started>>

\* A host numbers the one that joins, tells it of the others and the others of it.
Welcome(t, d, src, idx, e) ==
  LET is  == InOrder(DOMAIN t)
      new == <<Msg(d, "add_player", idx, src)>>
  IN IF e # src THEN new
     ELSE <<Msg(d, "player", idx, src)>>
            \o [k \in DOMAIN is |->
                  Msg(d, "add_player", is[k], IF t[is[k]] = You THEN HostName ELSE t[is[k]])]
            \o new
joined(d) ==
  LET src == Head(coming[d]).src
      idx == get_vacant_player_spot(players[d])
  IN /\ Receive(d, "joined")
     /\ IF is_client[d]
        THEN /\ coming' = Consumed(d)
             /\ UNCHANGED <<players, player_name_to_idx, shown>>
        ELSE /\ players' = [players EXCEPT ![d] = Assign(@, idx, src)]
             /\ player_name_to_idx' = [player_name_to_idx EXCEPT ![d] = Assign(@, src, idx)]
             /\ coming' = send_messages(Consumed(d), d, [e \in Devices |-> Welcome(players[d], d, src, idx, e)])
             /\ shown' = shown \cup {d}
     /\ UNCHANGED <<session, left, is_client, player, started>>

start_game(d) ==
  /\ Receive(d, "start_game")
  /\ coming' = Consumed(d)
  /\ IF is_client[d] THEN started' = started \cup {d} /\ shown' = shown \ {d}
     ELSE UNCHANGED <<started, shown>>
  /\ UNCHANGED <<session, left, is_client, player, players, player_name_to_idx>>

Next ==
  \E d \in Devices :
    \/ init(d) \/ handle_popup_btn_clicked(d) \/ Leave(d)
    \/ become_client_player(d) \/ clear_players(d) \/ add_player(d)
    \/ player_left(d) \/ joined(d) \/ start_game(d)

Spec == Init /\ [][Next]_vars

-----------------------------------------------------------------------------
Hosts == {d \in session : ~is_client[d]}
HostsStay == \A d \in left : is_client[d]

\* When nothing is on its way and no host has left, one device is the host, its table
\* has a place for every device of the session, and each of the others knows the place
\* it has there: also after leaves, where the numbers move, the host's own
\* player_name_to_idx is out of date, and several devices send the new ones.
NumbersAgree ==
  AtRest /\ HostsStay /\ session # {} =>
    \E h \in Hosts :
      /\ DOMAIN players[h] = 1 .. Cardinality(session)
      /\ \A c \in session \ {h} :
           /\ is_client[c] /\ player[c] \in DOMAIN players[h]
           /\ players[h][player[c]] = c
=============================================================================
