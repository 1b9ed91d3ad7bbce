------------------------------ MODULE Packets ------------------------------
(***************************************************************************)
(* The packets of the raw-socket scans, byte by byte: what syn.rs and      *)
(* discovery.rs build and send, and how they take apart what a raw socket  *)
(* receives.  SynScan and Discovery work with what comes out of this.      *)
(*                                                                         *)
(* A packet is a sequence of bytes; addresses and sequence numbers are     *)
(* sequences of four.  All sums are those of packets, far below the u32    *)
(* they are kept in.                                                       *)
(***************************************************************************)
EXTENDS Integers, Sequences, SequencesExt

Byte == 0..255
Word == 65536
Address == [1..4 -> Byte]

(* to_be_bytes and from_be_bytes of a u16.                                 *)
ToBytes(n) == <<n \div 256, n % 256>>
FromBytes(high, low) == 256 * high + low

(* The fields of a TCP segment by their place in it.                       *)
SYN == 2
RST == 4
ACK == 16
TCP == 6
ICMP == 1
EchoReply == 0
EchoRequest == 8

-----------------------------------------------------------------------------
(* The words of a packet; a last odd byte is the high one of its word.     *)
Words(data) ==
    [k \in 1..((Len(data) + 1) \div 2) |->
        FromBytes(data[2 * k - 1], IF 2 * k <= Len(data) THEN data[2 * k] ELSE 0)]

Total(data) == FoldLeft(LAMBDA sum, w : sum + w, 0, Words(data))

Carried[sum \in Nat] ==
    IF sum < Word THEN sum ELSE Carried[(sum % Word) + (sum \div Word)]

(* Bug: the carries are added once, and a carry of that is lost.           *)
ChecksumOfOneFold(data) ==
    Word - 1 - (((Total(data) % Word) + (Total(data) \div Word)) % Word)

Checksum16(data) == Word - 1 - Carried[Total(data)]

(* A checksum is computed with its own field zero, then put there.         *)
Stamped(packet, at, checksum) ==
    [packet EXCEPT ![at] = ToBytes(checksum)[1], ![at + 1] = ToBytes(checksum)[2]]

PseudoHeader(src, dst, tcp) == src \o dst \o <<0, TCP>> \o ToBytes(Len(tcp))

TcpChecksum(src, dst, tcp) == Checksum16(PseudoHeader(src, dst, tcp) \o tcp)

BuildTcp(src, dst, sp, dp, seq, flags, win) ==
    LET tcp == ToBytes(sp) \o ToBytes(dp) \o seq \o <<0, 0, 0, 0>>
               \o <<80, flags>> \o ToBytes(win) \o <<0, 0>> \o <<0, 0>>
    IN Stamped(tcp, 17, TcpChecksum(src, dst, tcp))

BuildIpv4(src, dst, id, payload) ==
    LET header == <<69, 0>> \o ToBytes(20 + Len(payload)) \o ToBytes(id)
                  \o <<64, 0, 64, TCP>> \o <<0, 0>> \o src \o dst
    IN Stamped(header, 11, Checksum16(header))

BuildIcmpEcho(id, seq, payload) ==
    LET packet == <<EchoRequest, 0, 0, 0>> \o ToBytes(id) \o ToBytes(seq) \o payload
    IN Stamped(packet, 3, Checksum16(packet))

-----------------------------------------------------------------------------
None == [none |-> TRUE]

(* Bug: IP options are forgotten.                                          *)
HeaderLengthFixed(buf) == 20

HeaderLength(buf) == 4 * (buf[1] % 16)

(* parse_tcp_in_ipv4, without the sequence numbers the probe does not use. *)
ParseTcp(buf, src, dst) ==
    IF Len(buf) < 20 THEN None
    ELSE LET ihl == HeaderLength(buf)
             At(i) == buf[ihl + i]
         IN IF \/ Len(buf) < ihl + 20
               \/ buf[10] # TCP
               \/ SubSeq(buf, 13, 16) # src
               \/ SubSeq(buf, 17, 20) # dst
            THEN None
            ELSE [sp |-> FromBytes(At(1), At(2)), dp |-> FromBytes(At(3), At(4)),
                  flags |-> At(14)]

(* The tests of the probe's loop: flags & 0x12 == 0x12, flags & 4 == 4.    *)
Has(flags, bit) == (flags \div bit) % 2 = 1

(* The rest of the packet; no rest and an empty one have no first byte.    *)
StripIpv4(buf) ==
    IF Len(buf) < 20 \/ buf[10] # ICMP \/ Len(buf) < HeaderLength(buf) THEN <<>>
    ELSE SubSeq(buf, HeaderLength(buf) + 1, Len(buf))

IsEchoReply(buf) == StripIpv4(buf) # <<>> /\ StripIpv4(buf)[1] = EchoReply

-----------------------------------------------------------------------------
(* A receiver drops a packet unless its bytes, in turn high and low ones   *)
(* of a word, add up to a multiple of 2^16 - 1; of TCP the pseudo-header   *)
(* counts too.                                                             *)
Verifies(data) ==
    LET weighed == [i \in DOMAIN data |-> IF i % 2 = 1 THEN 256 * data[i] ELSE data[i]]
        total == FoldLeft(LAMBDA sum, b : sum + b, 0, weighed)
    IN total # 0 /\ total % (Word - 1) = 0
=============================================================================
