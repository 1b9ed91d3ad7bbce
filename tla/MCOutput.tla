------------------------------ MODULE MCOutput ------------------------------
(***************************************************************************)
(* An instance of Output for TLC: reports of two hosts, up with no row, up *)
(* with an open, a closed and a filtered row, or not up; basenames with    *)
(* and without a dot, one option file that -oA also writes; texts of at    *)
(* most three characters for the XML.                                      *)
(***************************************************************************)
EXTENDS Output

MCHosts == {
    [state |-> "up", ports |-> << >>],
    [state |-> "up", ports |-> <<[port |-> 22, state |-> "open"],
                                 [port |-> 23, state |-> "filtered"],
                                 [port |-> 80, state |-> "closed"],
                                 [port |-> 443, state |-> "open"]>>],
    [state |-> "down", ports |-> << >>],
    [state |-> "unknown", ports |-> << >>] }
MCReports == MCHosts \X MCHosts
MCBases == {<<"scan">>, <<"scan", "v1">>}
MCNames == {<<"scan", "xml">>, <<"out">>}
MCTexts == SeqOf({"&", "<", "quote", "amp;", "lt;", "a"}, 3)
=============================================================================
