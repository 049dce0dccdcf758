------------------------------- MODULE MCLuaApi -------------------------------
(* LuaApi with the window's thread and one thread of the network. *)
EXTENDS LuaApi

CONSTANTS main, net
MCThreads == {main, net}
=============================================================================
