--------------------------- MODULE MCWaitForPlayers ---------------------------
(* WaitForPlayers with three devices that may come at the same time. *)
EXTENDS WaitForPlayers, TLC

CONSTANTS a, b, c
MCDevices == {a, b, c}
Symmetry == Permutations(MCDevices)
=============================================================================
