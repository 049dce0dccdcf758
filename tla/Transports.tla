------------------------------ MODULE Transports ------------------------------
(***************************************************************************)
(* The two ways in which devices are connected: through the relay server,  *)
(* or by the sockets of desktop clients, of which one hosts; and the two   *)
(* libraries by which connected devices agree on who is who: two_player by *)
(* colours, wait_for_players by numbers.  No device uses two of the four   *)
(* at a time, so their states have nothing in common.                      *)
(***************************************************************************)
EXTENDS RelayServer

CONSTANTS
  Host, Joiners,          \* the desktop clients
  MaxSent, MsgLen, RecvMax, \* see DesktopNet
  Devices, Colours, MaxChoices, \* the players of two_player, see TwoPlayer
  You, HostName, MaxLeft    \* for wait_for_players, see WaitForPlayers

VARIABLES g_server_thread, g_client_thread, accepting, told, handler, client_threads, up, down,
          closed, events, heardUp, heardDown, sentUp, sentDown, undefined,
          here, gone, type, mine, known, order, popup, heard, chosen,
          session, left, is_client, player, players, player_name_to_idx, shown, started, coming

Net == INSTANCE DesktopNet WITH NoDevice <- None
Players == INSTANCE TwoPlayer WITH inbox <- heard
Waiters == INSTANCE WaitForPlayers WITH OneAtATime <- TRUE

net == <<g_server_thread, g_client_thread, accepting, told, handler, client_threads, up, down,
         closed, events, heardUp, heardDown, sentUp, sentDown, undefined>>
two == <<here, gone, type, mine, known, order, popup, heard, chosen>>
waiters == <<session, left, is_client, player, players, player_name_to_idx, shown, started, coming>>

\* What must hold of the constants of the parts.
ASSUME TransportsAssumption ==
  Net!DesktopNetAssumption /\ Players!Parameters /\ Waiters!WaitForPlayersAssumption

\* The properties of the parts, under names of their own.
BytesKeepTheirOrder == Net!BytesKeepTheirOrder
PlayersAgree        == Players!PlayersAgree
NumbersAgree        == Waiters!NumbersAgree
===============================================================================
