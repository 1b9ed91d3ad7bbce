------------------------------ MODULE PortList ------------------------------
(***************************************************************************)
(* The list of ports to scan: PortSpec::parse of ports.rs, which reads the *)
(* text of -p chunk by chunk into a BTreeSet, and top_n of top_ports.rs,   *)
(* which walks the table of popular ports.                                 *)
(*                                                                         *)
(* A list is a sequence of chunks as they stand between the commas.  A     *)
(* number is what parse::<u16>() is given: Missing is no text at all and   *)
(* Garbage is text that is no number.                                      *)
(***************************************************************************)
EXTENDS Integers, Sequences, FiniteSets, SequencesExt

CONSTANTS
    MaxPort,    \* u16::MAX, the highest port
    TopTable    \* TOP of top_ports.rs, with its duplicates

ASSUME PortListAssumption ==
    /\ MaxPort \in Nat \ {0}
    /\ TopTable \in Seq(1..MaxPort) /\ TopTable # <<>>

Missing == -1
Garbage == -2
Number == Nat \cup {Missing, Garbage}

Blank == [kind |-> "blank"]
Single(n) == [kind |-> "single", lo |-> n, hi |-> n]
Interval(lo, hi) == [kind |-> "range", lo |-> lo, hi |-> hi]

IsChunk(c) ==
    \/ c = Blank
    \/ /\ c.kind \in {"single", "range"}
       /\ {c.lo, c.hi} \subseteq Number
       /\ c.kind = "single" => c.lo = c.hi /\ c.lo # Missing

(* The text "-" on its own stands for all ports.                           *)
AllPorts == <<Interval(Missing, Missing)>>

VARIABLES
    portPc,   \* "idle", "parsing" or "walking", then "ok" or "error"
    chunks,   \* chunks of -p still to be read
    set,      \* the BTreeSet of parse
    walked,   \* entries of TopTable top_n has seen
    wanted,   \* its parameter n
    ports     \* PortSpec.ports, or the `out` of top_n

portVars == <<portPc, chunks, set, walked, wanted, ports>>

Ascending(S) ==
    [k \in 1..Cardinality(S) |-> CHOOSE p \in S : Cardinality({q \in S : q < p}) = k - 1]

PortInit ==
    /\ portPc = "idle"
    /\ chunks = <<>>
    /\ set = {}
    /\ walked = 0
    /\ wanted = 0
    /\ ports = <<>>

-----------------------------------------------------------------------------
(* parse_u16: a number that fits.                                          *)
IsU16(n) == n \in 0..MaxPort

Bounds(chunk) ==
    [lo |-> IF chunk.lo = Missing THEN 1 ELSE chunk.lo,
     hi |-> IF chunk.hi = Missing THEN MaxPort ELSE chunk.hi]

(* Bug: a range may start at port 0.                                       *)
RefusedLowZero(chunk) ==
    LET b == Bounds(chunk)
    IN \/ ~IsU16(b.lo) \/ ~IsU16(b.hi)
       \/ b.hi = 0 \/ (chunk.kind = "single" /\ b.lo = 0)
       \/ b.lo > b.hi

Refused(chunk) ==
    LET b == Bounds(chunk)
    IN \/ ~IsU16(b.lo) \/ ~IsU16(b.hi)
       \/ b.lo = 0 \/ b.hi = 0
       \/ b.lo > b.hi

ParsePorts(text) ==
    /\ portPc = "idle"
    /\ portPc' = "parsing"
    /\ chunks' = text
    /\ UNCHANGED <<set, walked, wanted, ports>>

(* Bug: a range is half open.                                              *)
ReadChunkHalfOpen ==
    /\ portPc = "parsing" /\ chunks # <<>>
    /\ Head(chunks) # Blank /\ ~Refused(Head(chunks))
    /\ LET b == Bounds(Head(chunks))
       IN set' = set \cup (IF b.lo = b.hi THEN {b.lo} ELSE b.lo..(b.hi - 1))
    /\ chunks' = Tail(chunks)
    /\ UNCHANGED <<portPc, walked, wanted, ports>>

ReadChunk ==
    /\ portPc = "parsing" /\ chunks # <<>>
    /\ Head(chunks) # Blank /\ ~Refused(Head(chunks))
    /\ LET b == Bounds(Head(chunks)) IN set' = set \cup (b.lo..b.hi)
    /\ chunks' = Tail(chunks)
    /\ UNCHANGED <<portPc, walked, wanted, ports>>

SkipBlank ==
    /\ portPc = "parsing" /\ chunks # <<>>
    /\ Head(chunks) = Blank
    /\ chunks' = Tail(chunks)
    /\ UNCHANGED <<portPc, set, walked, wanted, ports>>

RefuseChunk ==
    /\ portPc = "parsing" /\ chunks # <<>>
    /\ Head(chunks) # Blank /\ Refused(Head(chunks))
    /\ portPc' = "error"
    /\ UNCHANGED <<chunks, set, walked, wanted, ports>>

AllChunksRead ==
    /\ portPc = "parsing" /\ chunks = <<>>
    /\ portPc' = IF set = {} THEN "error" ELSE "ok"
    /\ ports' = Ascending(set)
    /\ UNCHANGED <<chunks, set, walked, wanted>>

-----------------------------------------------------------------------------
TopPorts(n) ==
    /\ portPc = "idle"
    /\ portPc' = "walking"
    /\ wanted' = n
    /\ UNCHANGED <<chunks, set, walked, ports>>

(* Bug: the limit is tested before the push.                               *)
WalkTestsFirst ==
    /\ portPc = "walking" /\ walked < Len(TopTable)
    /\ LET p == TopTable[walked + 1]
       IN IF Len(ports) >= wanted
          THEN portPc' = "ok" /\ UNCHANGED ports
          ELSE /\ ports' = IF p \in Range(ports) THEN ports ELSE Append(ports, p)
               /\ UNCHANGED portPc
    /\ walked' = walked + 1
    /\ UNCHANGED <<chunks, set, wanted>>

(* One turn of the loop of top_n.  `seen` always holds the ports of `out`; *)
(* the limit is looked at after a push only.                               *)
Walk ==
    /\ portPc = "walking" /\ walked < Len(TopTable)
    /\ LET p == TopTable[walked + 1]
       IN IF p \in Range(ports)
          THEN UNCHANGED <<portPc, ports>>
          ELSE /\ ports' = Append(ports, p)
               /\ portPc' = IF Len(ports') >= wanted THEN "ok" ELSE "walking"
    /\ walked' = walked + 1
    /\ UNCHANGED <<chunks, set, wanted>>

TableEnds ==
    /\ portPc = "walking" /\ walked = Len(TopTable)
    /\ portPc' = "ok"
    /\ UNCHANGED <<chunks, set, walked, wanted, ports>>

PortStep == ReadChunk \/ SkipBlank \/ RefuseChunk \/ AllChunksRead \/ Walk \/ TableEnds

-----------------------------------------------------------------------------
(* What a list of ports means: a chunk is sound if its bounds are ports in *)
(* order, and stands for the ports between them.                           *)
Sound(chunk) ==
    \/ chunk = Blank
    \/ /\ {chunk.lo, chunk.hi} \subseteq (1..MaxPort) \cup (IF chunk.kind = "range" THEN {Missing} ELSE {})
       /\ (chunk.lo # Missing /\ chunk.hi # Missing) => chunk.lo <= chunk.hi

PortsOf(chunk) ==
    {p \in 1..MaxPort : /\ chunk # Blank
                        /\ chunk.lo # Missing => chunk.lo <= p
                        /\ chunk.hi # Missing => p <= chunk.hi}

PortTypeOK ==
    /\ portPc \in {"idle", "parsing", "walking", "ok", "error"}
    /\ \A c \in Range(chunks) : IsChunk(c)
    /\ set \subseteq 1..MaxPort
    /\ walked \in 0..Len(TopTable)
    /\ wanted \in Nat
    /\ ports \in Seq(1..MaxPort)
=============================================================================
