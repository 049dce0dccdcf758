----------------------------- MODULE TwoPlayer -----------------------------
(***************************************************************************)
(* src/lua_scripts/libs/multiplayer/two_player.lua: how the devices of a   *)
(* session agree on who plays which colour (chess, go, wu, checkers and    *)
(* backgammon use it), and who of them is the first player, which throws   *)
(* the dice for all.                                                       *)
(*                                                                         *)
(* Every device has its own copy of the state.  The relay between them is  *)
(* the one of RelayServer while no coroutine fails: what is sent to "all"  *)
(* is put into the inbox of every other device in the session, the inboxes *)
(* are first in, first out, and a device that leaves is announced to those *)
(* that stay.  A send and its relaying are one step, because a sender      *)
(* cannot tell when the relay takes place.                                 *)
(***************************************************************************)
EXTENDS Integers, Sequences, FiniteSets, SequencesExt

CONSTANTS
  Devices,      \* each with a name of its own; one that comes back has another
  Colours,      \* args.player_choices
  MaxChoices,   \* bound: how often a device chooses a colour
  MaxLeaves,    \* bound: how many devices leave
  None          \* nil

\* What the constants must satisfy.
Parameters ==
  /\ None \notin Devices \cup Colours \cup {"local", "network", "type", "choice"}
  /\ MaxChoices \in Nat /\ MaxLeaves \in Nat
  /\ IsFiniteSet(Devices)

ASSUME TwoPlayerAssumption == Parameters

VARIABLES
  here,         \* the devices in the session
  gone,         \* those that have left it
  type,         \* multiplayer_type_selected
  mine,         \* the game's get_local_player_choice
  known,        \* player_name_to_id, the colour of every other device
  order,        \* players_join_order, with its own name for "You"
  popup,        \* the popup a device shows
  inbox,        \* messages on their way to a device
  chosen        \* how often a device has chosen

vars == <<here, gone, type, mine, known, order, popup, inbox, chosen>>

AmPlayer(d, colour) == [header |-> "am_player", src |-> d, colour |-> colour]
Joined(d)     == [header |-> "joined", src |-> d, colour |-> None]
PlayerLeft(d) == [header |-> "player_left", src |-> d, colour |-> None]

Init ==
  /\ here = {}
  /\ gone = {}
  /\ type = [d \in Devices |-> None]
  /\ mine = [d \in Devices |-> None]
  /\ known = [d \in Devices |-> [e \in Devices |-> None]]
  /\ order = [d \in Devices |-> <<>>]
  /\ popup = [d \in Devices |-> None]
  /\ inbox = [d \in Devices |-> <<>>]
  /\ chosen = [d \in Devices |-> 0]

\* The inboxes `box`, with m put into that of every device of the session but d.
Broadcast(box, d, m) ==
  [e \in Devices |-> IF e \in here \ {d} THEN Append(box[e], m) ELSE box[e]]

add_player(joinOrder, d) ==
  IF d \in ToSet(joinOrder) THEN joinOrder ELSE Append(joinOrder, d)

remove_player(joinOrder, d) == RemoveFirst(joinOrder, d)

\* Mutant: only a missing choice asks for the popup.
need_player_reselect_NilOnly(d, other) == mine[d] = None

need_player_reselect(d, other) == mine[d] \in {None, other}

-----------------------------------------------------------------------------
(* The user *)

\* init, when the game starts.
Start(d) ==
  /\ d \notin here \cup gone
  /\ here' = here \cup {d}
  /\ popup' = [popup EXCEPT ![d] = "type"]
  /\ inbox' = Broadcast(inbox, d, Joined(d))
  /\ UNCHANGED <<gone, type, mine, known, order, chosen>>

\* The game gives a local player some colour of its own choosing, or none.
ChooseLocal(d) ==
  /\ d \in here /\ popup[d] = "type"
  /\ popup' = [popup EXCEPT ![d] = None]
  /\ type' = [type EXCEPT ![d] = "local"]
  /\ \E c \in Colours \cup {mine[d]} : mine' = [mine EXCEPT ![d] = c]
  /\ UNCHANGED <<here, gone, known, order, inbox, chosen>>

ChooseNetwork(d) ==
  /\ d \in here /\ popup[d] = "type"
  /\ type' = [type EXCEPT ![d] = "network"]
  /\ popup' = [popup EXCEPT ![d] = "choice"]
  /\ UNCHANGED <<here, gone, mine, known, order, inbox, chosen>>

ChooseColour(d, colour) ==
  /\ d \in here /\ popup[d] = "choice" /\ chosen[d] < MaxChoices
  /\ order' = [order EXCEPT ![d] = add_player(@, d)]
  /\ inbox' = Broadcast(inbox, d, AmPlayer(d, colour))
  /\ popup' = [popup EXCEPT ![d] = None]
  /\ mine' = [mine EXCEPT ![d] = colour]
  /\ chosen' = [chosen EXCEPT ![d] = @ + 1]
  /\ UNCHANGED <<here, gone, type, known>>

Leave(d) ==
  /\ d \in here /\ Cardinality(gone) < MaxLeaves
  /\ here' = here \ {d}
  /\ gone' = gone \cup {d}
  /\ inbox' = [Broadcast(inbox, d, PlayerLeft(d)) EXCEPT ![d] = <<>>]
  /\ popup' = [popup EXCEPT ![d] = None]
  /\ UNCHANGED <<type, mine, known, order, chosen>>

-----------------------------------------------------------------------------
(* handle_msg_received *)

\* The next message of d; with a local game, all are swallowed.
Receive(d, header) ==
  /\ d \in here /\ inbox[d] # <<>>
  /\ type[d] # "local"
  /\ Head(inbox[d]).header = header

Consumed(d) == [inbox EXCEPT ![d] = Tail(@)]

Swallow(d) ==
  /\ d \in here /\ inbox[d] # <<>> /\ type[d] = "local"
  /\ inbox' = Consumed(d)
  /\ UNCHANGED <<here, gone, type, mine, known, order, popup, chosen>>

\* Mutant: a colour is entered only for a player who has none yet.
HearAmPlayer_FirstOnly(d) ==
  /\ Receive(d, "am_player")
  /\ LET m == Head(inbox[d])
     IN  /\ known' = [known EXCEPT ![d][m.src] = IF @ = None THEN m.colour ELSE @]
         /\ order' = [order EXCEPT ![d] = add_player(@, m.src)]
         /\ popup' = [popup EXCEPT ![d] =
                        IF ~need_player_reselect(d, m.colour) THEN None
                        ELSE IF type[d] = "network" THEN "choice"
                        ELSE @]
  /\ inbox' = Consumed(d)
  /\ UNCHANGED <<here, gone, type, mine, chosen>>

HearAmPlayer(d) ==
  /\ Receive(d, "am_player")
  /\ LET m == Head(inbox[d])
     IN  /\ known' = [known EXCEPT ![d][m.src] = m.colour]
         /\ order' = [order EXCEPT ![d] = add_player(@, m.src)]
         /\ popup' = [popup EXCEPT ![d] =
                        IF ~need_player_reselect(d, m.colour) THEN None
                        ELSE IF type[d] = "network" THEN "choice"
                        ELSE @]
  /\ inbox' = Consumed(d)
  /\ UNCHANGED <<here, gone, type, mine, chosen>>

\* Mutant: only a device that sees the popup answers.
HearJoined_WhenAsked(d) ==
  /\ Receive(d, "joined")
  /\ inbox' = IF mine[d] # None /\ popup[d] # None
              THEN Broadcast(Consumed(d), d, AmPlayer(d, mine[d])) ELSE Consumed(d)
  /\ UNCHANGED <<here, gone, type, mine, known, order, popup, chosen>>

HearJoined(d) ==
  /\ Receive(d, "joined")
  /\ inbox' = IF mine[d] = None THEN Consumed(d)
              ELSE Broadcast(Consumed(d), d, AmPlayer(d, mine[d]))
  /\ UNCHANGED <<here, gone, type, mine, known, order, popup, chosen>>

\* Mutant: the first entry is removed, whoever left.
HearPlayerLeft_First(d) ==
  /\ Receive(d, "player_left")
  /\ LET who == Head(inbox[d]).src
     IN  /\ known' = [known EXCEPT ![d][who] = None]
         /\ order' = [order EXCEPT ![d] = IF @ = <<>> THEN @ ELSE Tail(@)]
  /\ inbox' = Consumed(d)
  /\ UNCHANGED <<here, gone, type, mine, popup, chosen>>

HearPlayerLeft(d) ==
  /\ Receive(d, "player_left")
  /\ LET who == Head(inbox[d]).src
     IN  /\ known' = [known EXCEPT ![d][who] = None]
         /\ order' = [order EXCEPT ![d] = remove_player(@, who)]
  /\ inbox' = Consumed(d)
  /\ UNCHANGED <<here, gone, type, mine, popup, chosen>>

Hear(d) == Swallow(d) \/ HearAmPlayer(d) \/ HearJoined(d) \/ HearPlayerLeft(d)

Next ==
  \E d \in Devices :
    \/ Start(d) \/ ChooseLocal(d) \/ ChooseNetwork(d) \/ Leave(d)
    \/ \E c \in Colours : ChooseColour(d, c)
    \/ Hear(d)

\* Messages that have come are handled; the users owe nothing.
Fairness == \A d \in Devices : WF_vars(Hear(d))
Spec == Init /\ [][Next]_vars /\ Fairness

-----------------------------------------------------------------------------
(* Properties *)

AtRest  == \A d \in here : inbox[d] = <<>>
Network == {d \in here : type[d] = "network"}
Players == {d \in Network : mine[d] # None}

am_first_player(d) == order[d] # <<>> /\ order[d][1] = d

\* When no message is on its way, every device in a network game knows the
\* colour of every other one, and of nobody who has left: it heard of it when
\* it was chosen, or else in the answer to its own "joined".
ChoicesKnown ==
  AtRest => \A d \in Network : \A e \in Devices \ {d} :
              known[d][e] = IF e \in Network THEN mine[e] ELSE None

\* Two devices that end up with one colour are not left alone with it: one of
\* the two has the popup to choose again.
SameColourAsksAgain ==
  AtRest => \A d, e \in Players :
              d # e /\ mine[d] = mine[e] => "choice" \in {popup[d], popup[e]}

\* Somebody throws the dice: when no message is on its way, one of those that
\* have chosen holds itself for the first player, and the join order of each device
\* is made up of those that have chosen, each once.
SomebodyIsFirst ==
  AtRest =>
    /\ Players # {} => \E d \in Players : am_first_player(d)
    /\ \A d \in Network : ToSet(order[d]) = Players /\ Len(order[d]) = Cardinality(Players)

\* When nothing is on its way, the devices agree on who plays what and in which order
\* they came.
PlayersAgree == ChoicesKnown /\ SomebodyIsFirst

\* A choice reaches every other device of the session, unless one of the two
\* leaves, plays alone, or the choice is changed first.
ChoiceArrives ==
  \A d, e \in Devices : \A c \in Colours :
    (d # e /\ {d, e} \subseteq Network /\ mine[d] = c)
      ~> (known[e][d] = c \/ mine[d] # c \/ ~ {d, e} \subseteq here)

=============================================================================
