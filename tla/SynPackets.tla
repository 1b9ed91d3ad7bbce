----------------------------- MODULE SynPackets -----------------------------
(***************************************************************************)
(* The segments of SynScan as the bytes of Packets: what a probe sends     *)
(* reaches the target, and a probe reads out of the bytes it receives what *)
(* SynScan says it does.                                                   *)
(***************************************************************************)
EXTENDS SynScan, Packets

CONSTANTS
    Source,      \* this machine, src_ip
    Target,      \* the host that is probed
    Stranger,    \* another host
    SeqNumbers,  \* sequence numbers a probe draws, and of the answers
    Payloads     \* payloads of an echo request

ASSUME SynPacketsAssumption ==
    /\ {Source, Target, Stranger} \cup SeqNumbers \subseteq Address
    /\ Stranger # Target /\ SeqNumbers # {}
    /\ Ports \cup SrcPorts \subseteq 0..(Word - 1)
    /\ Payloads \subseteq Seq(Byte)

(* The SYN of a probe and the RST that thanks for a SYN and ACK.           *)
SynOf(p, seq) == BuildTcp(Source, Target, srcPort[p], p, seq, SYN, Word - 1)
RstOf(p, ack) == BuildTcp(Source, Target, srcPort[p], p, ack, RST, 0)

(* The loop of the probe on the bytes of a packet.                         *)
ReadingOfBytes(p, buf) ==
    LET seen == ParseTcp(buf, Target, Source)
        mine == seen # None /\ seen.sp = p /\ seen.dp = srcPort[p]
    IN IF mine /\ Has(seen.flags, SYN) /\ Has(seen.flags, ACK) THEN "open"
       ELSE IF mine /\ Has(seen.flags, RST) THEN "closed"
       ELSE "looping"

-----------------------------------------------------------------------------
(* A packet on the wire: a header of ihl words, so with options or without *)
(* them, and a payload, of which the first n bytes were received.          *)
Received(ihl, proto, src, payload, n) ==
    LET header == [BuildIpv4(src, Source, 1, payload) EXCEPT ![1] = 64 + ihl, ![10] = proto]
        options == [i \in 1..4 * (ihl - 5) |-> 0]
    IN SubSeq(header \o options \o payload, 1, n)

SegmentBytes(s, seq) ==
    LET Bit(name, bit) == IF name \in s.flags THEN bit ELSE 0
        from == IF s.from = "target" THEN Target ELSE Stranger
    IN BuildTcp(from, Source, s.sp, s.dp, seq, Bit("SYN", SYN) + Bit("ACK", ACK) + Bit("RST", RST), 0)

Before == \A p \in Ports : probe[p] = "idle"

(* What is sent is not dropped on its way, whatever the carries of its     *)
(* checksums and also where a payload has an odd length: the test          *)
(* tcp_checksum_self_consistent tries one packet, and "rnmap" has five     *)
(* bytes.                                                                  *)
ChecksumsVerify ==
    Before =>
        /\ \A p \in Ports, seq \in SeqNumbers : \A tcp \in {SynOf(p, seq), RstOf(p, seq)} :
              /\ Verifies(PseudoHeader(Source, Target, tcp) \o tcp)
              /\ Verifies(BuildIpv4(Source, Target, srcPort[p], tcp))
        /\ \A id \in SrcPorts, payload \in Payloads : Verifies(BuildIcmpEcho(id, 1, payload))

(* A probe reads out of the bytes of a segment what SynScan's Reading says *)
(* of the segment, with IP options or without them; a packet that is cut   *)
(* off or no TCP tells it nothing.  An ICMP packet is an echo reply if its *)
(* first byte is there and 0.                                              *)
PacketsRecognised ==
    Before => \A ihl \in {5, 6, 15} :
        /\ \A p \in Ports, s \in Segment, proto \in {TCP, ICMP},
              n \in {0, 19, 20, 4 * ihl + 13, 4 * ihl + 19, 4 * ihl + 20} :
              LET tcp == SegmentBytes(s, CHOOSE q \in SeqNumbers : TRUE)
                  from == IF s.from = "target" THEN Target ELSE Stranger
              IN ReadingOfBytes(p, Received(ihl, proto, from, tcp, n))
                     = IF proto = TCP /\ n = 4 * ihl + 20 THEN Reading(p, s) ELSE "looping"
        /\ \A type \in {EchoReply, EchoRequest}, proto \in {TCP, ICMP}, n \in 18..4 * ihl + 8 :
              LET echo == [BuildIcmpEcho(1, 1, <<>>) EXCEPT ![1] = type]
              IN IsEchoReply(Received(ihl, proto, Target, echo, n))
                     <=> proto = ICMP /\ type = EchoReply /\ n > 4 * ihl
=============================================================================
