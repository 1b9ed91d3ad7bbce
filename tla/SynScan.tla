------------------------------ MODULE SynScan ------------------------------
(***************************************************************************)
(* Concurrent SYN probes of one target (scan/syn.rs).  Every probe has a   *)
(* raw socket of its own, and every raw socket is handed a copy of all the *)
(* TCP traffic of the machine: the answers to the other probes, segments   *)
(* of other hosts and of other programs.  A probe must pick its own answer *)
(* out of this and still end on time.                                      *)
(*                                                                         *)
(* A probe runs in a thread of its own, which gets the processor up to Lag *)
(* after it has something to do: time does not wait for it, and segments   *)
(* pile up meanwhile.  Lag = 0 is the idle machine.  From the test of the  *)
(* deadline to the recv, and from its clock to its SYN, a thread is not    *)
(* interrupted.                                                            *)
(*                                                                         *)
(* A source port is drawn at random, and two probes may draw the same one. *)
(* No other program of the machine connects to the target over the very    *)
(* two ports of a probe: syn.rs does not look at sequence numbers and      *)
(* could not tell the difference.                                          *)
(***************************************************************************)
EXTENDS Integers, Sequences, FiniteSets

CONSTANTS
    Ports,     \* the target's ports that are probed
    SrcPorts,  \* 32768..65535
    Timeout,   \* timing.connect_timeout
    Floor,     \* the 50 ms a recv is given at least
    Lag,       \* how late the thread of a probe may run
    Truth,     \* Truth[p]: what port p answers to a SYN
    NoiseFlags, \* flags of unrelated segments
    NoiseMax   \* bound: unrelated segments in a behaviour

Flags == SUBSET {"SYN", "ACK", "RST"}

ASSUME SynAssumption ==
    /\ Ports \subseteq Nat
    /\ {Timeout, Floor} \subseteq Nat \ {0}
    /\ Truth \in [Ports -> {"open", "closed", "silent"}]
    /\ NoiseFlags \subseteq Flags
    /\ {Lag, NoiseMax} \subseteq Nat

Segment == [from: {"target", "other"}, sp: Ports, dp: SrcPorts, flags: Flags]

(* A SYN to an open port is answered by SYN and ACK, to a closed one by    *)
(* RST and ACK.                                                            *)
Answer(p, src) ==
    [from |-> "target", sp |-> p, dp |-> src,
     flags |-> IF Truth[p] = "open" THEN {"SYN", "ACK"} ELSE {"RST", "ACK"}]

VARIABLES
    now,
    probe,     \* what each probe is doing, or the state it returned
    srcPort,   \* the source port it has drawn
    deadline,  \* started + connect_timeout
    wakes,     \* since when, or from when, its thread has something to do
    inbox,     \* what its raw socket has received and it has not read
    flying,    \* answers on their way
    noise,     \* unrelated segments so far
    answered   \* history: whether the answer of a probe has arrived, "early",
               \* "close" to the deadline or neither

vars == <<now, probe, srcPort, deadline, wakes, inbox, flying, noise, answered>>

Alive == {p \in Ports : probe[p] \in {"looping", "receiving"}}

(* What else may arrive: anything from another host, and from the target   *)
(* answers to other programs and segments that neither accept nor refuse a *)
(* connection.                                                             *)
Noise ==
    {s \in [from: {"target", "other"}, sp: Ports, dp: SrcPorts, flags: NoiseFlags] :
        s.from = "target" => s.dp # srcPort[s.sp] \/ s.flags \in {{}, {"ACK"}, {"SYN"}}}

-----------------------------------------------------------------------------
(* Bug: port 0 left for the kernel to replace, as for a TCP socket.        *)
KernelPorts == [Ports -> {0}]

DrawnPorts == [Ports -> SrcPorts]

Init ==
    /\ now = 0
    /\ probe = [p \in Ports |-> "idle"]
    /\ srcPort \in DrawnPorts
    /\ deadline = [p \in Ports |-> 0]
    /\ wakes = [p \in Ports |-> 0]
    /\ inbox = [p \in Ports |-> << >>]
    /\ flying = {}
    /\ noise = 0
    /\ answered = [p \in Ports |-> "no"]

(* The socket is open before the SYN leaves; the answer may be lost.       *)
SendSyn(p) ==
    /\ probe[p] = "idle"
    /\ probe' = [probe EXCEPT ![p] = "looping"]
    /\ deadline' = [deadline EXCEPT ![p] = now + Timeout]
    /\ wakes' = [wakes EXCEPT ![p] = now]
    /\ \/ flying' = flying \cup {Answer(p, srcPort[p])} /\ Truth[p] # "silent"
       \/ flying' = flying
    /\ UNCHANGED <<now, srcPort, inbox, noise, answered>>

(* The top of the loop: give up at the deadline, else set the timeout of   *)
(* the next recv, never below the floor.                                   *)
GiveUp(p) ==
    /\ probe[p] = "looping"
    /\ now >= deadline[p]
    /\ probe' = [probe EXCEPT ![p] = "filtered"]
    /\ inbox' = [inbox EXCEPT ![p] = << >>]
    /\ UNCHANGED <<now, srcPort, deadline, wakes, flying, noise, answered>>

(* Bug: the recv timeout set once, as before the loop, and never lowered.  *)
FullWait(p) == Timeout

RecvWait(p) ==
    IF deadline[p] - now > Floor THEN deadline[p] - now ELSE Floor

Wait(p) ==
    /\ probe[p] = "looping"
    /\ now < deadline[p]
    /\ probe' = [probe EXCEPT ![p] = "receiving"]
    /\ wakes' = [wakes EXCEPT ![p] = IF inbox[p] = << >> THEN now + RecvWait(p) ELSE now]
    /\ UNCHANGED <<now, srcPort, deadline, inbox, flying, noise, answered>>

(* Bug: the source port of the probe not compared.                         *)
AnyLocalPort(p, s) == s.from = "target" /\ s.sp = p

ForProbe(p, s) == s.from = "target" /\ s.sp = p /\ s.dp = srcPort[p]

SynAck(s) == {"SYN", "ACK"} \subseteq s.flags

(* Bug: the first segment that is not the answer ends the probe.           *)
FirstSegmentDecides(p, s) ==
    IF ForProbe(p, s) /\ SynAck(s) THEN "open"
    ELSE IF ForProbe(p, s) /\ "RST" \in s.flags THEN "closed"
    ELSE "filtered"

(* What a segment makes of the probe.                                      *)
Reading(p, s) ==
    IF ForProbe(p, s) /\ SynAck(s) THEN "open"
    ELSE IF ForProbe(p, s) /\ "RST" \in s.flags THEN "closed"
    ELSE "looping"

Receive(p) ==
    /\ probe[p] = "receiving"
    /\ inbox[p] # << >>
    /\ LET state == Reading(p, Head(inbox[p])) IN
          /\ probe' = [probe EXCEPT ![p] = state]
          /\ inbox' = [inbox EXCEPT ![p] = IF state = "looping" THEN Tail(@) ELSE << >>]
    /\ wakes' = [wakes EXCEPT ![p] = now]
    /\ UNCHANGED <<now, srcPort, deadline, flying, noise, answered>>

RecvTimesOut(p) ==
    /\ probe[p] = "receiving"
    /\ inbox[p] = << >>
    /\ now >= wakes[p]
    /\ probe' = [probe EXCEPT ![p] = "looping"]
    /\ wakes' = [wakes EXCEPT ![p] = now]
    /\ UNCHANGED <<now, srcPort, deadline, inbox, flying, noise, answered>>

(* An error of the socket, the send or the recv: the task turns to         *)
(* connect() instead (ScanEngine).                                         *)
Fails(p) ==
    /\ probe[p] \in {"idle", "looping", "receiving"}
    /\ probe' = [probe EXCEPT ![p] = "failed"]
    /\ inbox' = [inbox EXCEPT ![p] = << >>]
    /\ UNCHANGED <<now, srcPort, deadline, wakes, flying, noise, answered>>

-----------------------------------------------------------------------------
(* The kernel hands a segment to every raw socket that is open, and wakes  *)
(* the threads that wait for one.                                          *)
HandOut(s) ==
    /\ inbox' = [p \in Ports |-> IF p \in Alive THEN Append(inbox[p], s) ELSE inbox[p]]
    /\ wakes' = [p \in Ports |->
                    IF probe[p] = "receiving" /\ wakes[p] > now THEN now ELSE wakes[p]]

(* An answer is early if its probe gets to it before the deadline although *)
(* it is late for every segment in front of it, twice for each: for the    *)
(* recv and for the test of the deadline before it.                        *)
Arrival(p) ==
    IF now + (2 * Len(inbox[p]) + 1) * Lag < deadline[p] THEN "early"
    ELSE IF now < deadline[p] THEN "close"
    ELSE "no"

Deliver(s) ==
    /\ s \in flying
    /\ flying' = flying \ {s}
    /\ HandOut(s)
    /\ answered' = [p \in Ports |-> IF p \in Alive /\ ForProbe(p, s) THEN Arrival(p) ELSE answered[p]]
    /\ UNCHANGED <<now, probe, srcPort, deadline, noise>>

DeliverNoise(s) ==
    /\ noise < NoiseMax
    /\ Alive # {}
    /\ noise' = noise + 1
    /\ HandOut(s)
    /\ UNCHANGED <<now, probe, srcPort, deadline, flying, answered>>

(* Time goes on while no thread is later than it may be.                   *)
Tick ==
    /\ Alive # {}
    /\ \A p \in Alive : now < wakes[p] + Lag
    /\ now' = now + 1
    /\ UNCHANGED <<probe, srcPort, deadline, wakes, inbox, flying, noise, answered>>

AllReturned ==
    /\ \A p \in Ports : probe[p] \in {"open", "closed", "filtered", "failed"}
    /\ UNCHANGED vars

Next ==
    \/ \E p \in Ports :
           SendSyn(p) \/ GiveUp(p) \/ Wait(p) \/ Receive(p) \/ RecvTimesOut(p) \/ Fails(p)
    \/ \E s \in flying : Deliver(s)
    \/ \E s \in Noise : DeliverNoise(s)
    \/ Tick
    \/ AllReturned

Spec == Init /\ [][Next]_vars

-----------------------------------------------------------------------------
(***************************************************************************)
(* The type of the state.                                                  *)
(***************************************************************************)
TypeOK ==
    /\ now \in Nat
    /\ probe \in [Ports -> {"idle", "looping", "receiving", "open", "closed", "filtered", "failed"}]
    /\ srcPort \in [Ports -> SrcPorts]
    /\ deadline \in [Ports -> Nat]
    /\ wakes \in [Ports -> Nat]
    /\ inbox \in [Ports -> Seq(Segment)]
    /\ flying \subseteq Segment
    /\ noise \in 0..NoiseMax
    /\ answered \in [Ports -> {"no", "close", "early"}]

(* A probe returns what its own port answered, whoever else is probing,    *)
(* over the same source port or not, and whatever arrives beside it.       *)
NoCrossTalk ==
    \A p \in Ports : probe[p] \in {"open", "closed"} => probe[p] = Truth[p]

(* The loop of syn.rs ends less than the 50 ms floor of its last recv      *)
(* after connect_timeout, however much unrelated traffic keeps waking it;  *)
(* its thread may be late for the recv's end and for the last turn.        *)
EndsOnTime ==
    \A p \in Alive : now < deadline[p] + Floor + 2 * Lag

(* "Timeout -> filtered" (syn.rs:9): an answer that arrives early enough   *)
(* for the segments queued in front of it to be read before the deadline   *)
(* is not passed over.  On an idle machine every answer that arrives       *)
(* before the deadline does.                                               *)
AnswersAreHeard ==
    \A p \in Ports : answered[p] = "early" => probe[p] # "filtered"

(* "Timeout -> filtered" (syn.rs:9), read of every port that answers in    *)
(* time: also of an answer that waits in the socket of a late thread when  *)
(* the deadline passes.  syn.rs:46 looks at the clock before the socket.   *)
NoAnswerPassedOver ==
    \A p \in Ports : answered[p] # "no" => probe[p] # "filtered"
=============================================================================
