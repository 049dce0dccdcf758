------------------------- MODULE MCSavedStateWrites -------------------------
(* Instances of SavedStateWrites for TLC. *)
EXTENDS SavedStateWrites

CONSTANTS g1, x1, x2, d1

MCGames  == {g1}
MCStates == {x1, x2}
=============================================================================
