------------------------- MODULE MCConnectionServers -------------------------
(***************************************************************************)
(* Constants for checking ConnectionServers: two partners can share the    *)
(* server of an address, the third can have one of its own, or be refused  *)
(* at the shared one because it waits for the same peer as the first.      *)
(***************************************************************************)
EXTENDS ConnectionServers

MCGiven == {<<"p1", "a1", "x1">>, <<"p2", "a1", "x2">>, <<"p2", "a2", "x1">>, <<"p3", "a1", "x1">>}
=============================================================================
