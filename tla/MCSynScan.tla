----------------------------- MODULE MCSynScan -----------------------------
(***************************************************************************)
(* An instance of SynScan for TLC: an open and a closed port probed at the *)
(* same time, two source ports to draw from, one unrelated segment.  And   *)
(* bytes: three hosts, and echo payloads of even and odd length, one of    *)
(* which makes the checksum carry twice.                                   *)
(***************************************************************************)
EXTENDS SynPackets, TLC

MCSource == <<192, 168, 255, 254>>
MCTarget == <<10, 0, 0, 1>>
MCStranger == <<10, 0, 1, 0>>
MCSeqNumbers == {<<0, 0, 0, 1>>, <<222, 173, 190, 239>>, <<255, 255, 255, 255>>}
MCPayloads == {<<>>, <<114, 110, 109, 97, 112>>, <<255>>, <<255, 255, 91, 191>>}

MCNoiseFlags == {{"ACK"}, {"SYN", "ACK"}, {"RST", "ACK"}}

MCTruth == 22 :> "open" @@ 80 :> "closed"
=============================================================================
