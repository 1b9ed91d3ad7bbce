---------------------------- MODULE MCDiscovery ----------------------------
(***************************************************************************)
(* An instance of Discovery for TLC: three targets, of which the first     *)
(* refuses a connection, the second is silent, and the third, over IPv6,   *)
(* accepts one; two ping ports.  The first two answer echo requests, so    *)
(* that the reply of one can come while the other is pinged; a target that *)
(* must not be found up is silent to them.                                 *)
(***************************************************************************)
EXTENDS Discovery

MCTruth == <<<<"silent", "closed">>, <<"silent", "silent">>, <<"closed", "open">>>>
MCV6Targets == {3}
MCAlive == {1, 2}
MCFirstAlive == {1}
=============================================================================
