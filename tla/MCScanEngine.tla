--------------------------- MODULE MCScanEngine ---------------------------
(***************************************************************************)
(* An instance of ScanEngine for TLC: two targets, the second IPv6, and    *)
(* three ports in the unsorted order top_ports::top_n gives them, one per  *)
(* answer on the first target.  -c ranges over 0 (clamped to 1), 1 and 2,  *)
(* fewer than the ports, so that the spawn loop has to wait.               *)
(***************************************************************************)
EXTENDS ScanEngine, TLC

MCPortSpec == <<80, 23, 443>>
MCV6Targets == {2}
MCTruth == <<80 :> "open" @@ 23 :> "silent" @@ 443 :> "closed",
             80 :> "closed" @@ 23 :> "open" @@ 443 :> "open">>
=============================================================================
