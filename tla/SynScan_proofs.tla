-------------------------- MODULE SynScan_proofs --------------------------
(***************************************************************************)
(* Proofs about SynScan, for any set of ports, source ports and answers    *)
(* and any amount of unrelated traffic: a probe returns the answer of its  *)
(* own port, on time, and never passes over one that came early enough.   *)
(* Then about the bytes of its packets (Packets, SynPackets), for any      *)
(* addresses, ports, sequence numbers and payloads: what is sent verifies, *)
(* and what is received is read as SynScan says.                           *)
(***************************************************************************)
EXTENDS SynPackets, Lemmas, TLAPS

USE SynAssumption

(* What a segment may say, for the source ports src: a segment of the      *)
(* target that accepts or refuses a connection of a probe is the answer of *)
(* the port it comes from.                                                 *)
Genuine(src, s) ==
    s.from = "target" =>
        \/ s.dp # src[s.sp]
        \/ s.flags \in {{}, {"ACK"}, {"SYN"}}
        \/ s.flags = {"SYN", "ACK"} /\ Truth[s.sp] = "open"
        \/ s.flags = {"RST", "ACK"} /\ Truth[s.sp] = "closed"

AllGenuine ==
    /\ \A s \in flying : \E p \in Ports : s = Answer(p, srcPort[p]) /\ Truth[p] # "silent"
    /\ \A p \in Ports : \A k \in DOMAIN inbox[p] : Genuine(srcPort, inbox[p][k])

(* The answer of a port that is not silent is a genuine segment from it.   *)
LEMMA AnswerFacts ==
    ASSUME NEW p \in Ports, NEW src \in SrcPorts, Truth[p] # "silent"
    PROVE  /\ Answer(p, src) \in Segment
           /\ Genuine(srcPort, Answer(p, src))
           /\ Answer(p, src).from = "target" /\ Answer(p, src).sp = p /\ Answer(p, src).dp = src
  <1>1. Truth[p] \in {"open", "closed"}
      OBVIOUS
  <1>2. {"SYN", "ACK"} \in Flags /\ {"RST", "ACK"} \in Flags
      BY DEF Flags
  <1>3. Answer(p, src) \in Segment
      BY <1>2 DEF Answer, Segment
  <1>4. Genuine(srcPort, Answer(p, src))
      BY <1>1 DEF Answer, Genuine
  <1> QED BY <1>3, <1>4 DEF Answer

(* Unrelated segments neither accept nor refuse a connection of a probe.   *)
LEMMA NoiseFacts ==
    ASSUME NEW s \in Noise
    PROVE  s \in Segment /\ Genuine(srcPort, s)
  <1>1. /\ s.from \in {"target", "other"} /\ s.sp \in Ports /\ s.dp \in SrcPorts /\ s.flags \in Flags
        /\ s = [from |-> s.from, sp |-> s.sp, dp |-> s.dp, flags |-> s.flags]
      BY DEF Noise
  <1>2. s \in Segment
      BY <1>1 DEF Segment
  <1>3. s.from = "target" => s.dp # srcPort[s.sp] \/ s.flags \in {{}, {"ACK"}, {"SYN"}}
      BY DEF Noise
  <1> QED BY <1>2, <1>3 DEF Genuine

(* A segment ends the probe as open or closed, or is skipped.              *)
LEMMA ReadingFacts ==
    ASSUME NEW p \in Ports, NEW s
    PROVE  Reading(p, s) \in {"open", "closed", "looping"}
  BY DEF Reading

(* A segment that ends a probe tells what its port answered.               *)
LEMMA ReadingIsTruth ==
    ASSUME NEW p \in Ports, NEW s, Genuine(srcPort, s), Reading(p, s) # "looping"
    PROVE  Reading(p, s) = Truth[p]
  <1>1. ForProbe(p, s)
      BY DEF Reading
  <1>2. s.from = "target" /\ s.sp = p /\ s.dp = srcPort[s.sp]
      BY <1>1 DEF ForProbe
  <1>3. CASE s.flags \in {{}, {"ACK"}, {"SYN"}}
      BY <1>3 DEF Reading, SynAck
  <1>4. CASE s.flags = {"SYN", "ACK"} /\ Truth[s.sp] = "open"
      BY <1>1, <1>2, <1>4 DEF Reading, SynAck
  <1>5. CASE s.flags = {"RST", "ACK"} /\ Truth[s.sp] = "closed"
    <2>1. ~SynAck(s) /\ "RST" \in s.flags
        BY <1>5 DEF SynAck
    <2> QED BY <1>1, <1>2, <1>5, <2>1 DEF Reading
  <1> QED BY <1>2, <1>3, <1>4, <1>5 DEF Genuine

(* An answer to a probe is decisive for it.                                *)
LEMMA AnswerDecides ==
    ASSUME NEW p \in Ports, NEW s, ForProbe(p, s), NEW q \in Ports,
           NEW src \in SrcPorts, s = Answer(q, src), Truth[q] # "silent"
    PROVE  q = p /\ Reading(p, s) # "looping"
  <1>1. s.sp = q /\ q = p
      BY AnswerFacts DEF ForProbe
  <1>2. Truth[p] \in {"open", "closed"}
      BY <1>1
  <1>3. CASE Truth[p] = "open"
      BY <1>1, <1>3 DEF Answer, Reading, SynAck
  <1>4. CASE Truth[p] = "closed"
    <2>1. s.flags = {"RST", "ACK"}
        BY <1>1, <1>4 DEF Answer
    <2>2. "RST" \in s.flags
        BY <2>1
    <2>3. Reading(p, s) \in {"open", "closed"}
        BY <2>2 DEF Reading
    <2> QED BY <1>1, <2>3
  <1> QED BY <1>1, <1>2, <1>3, <1>4

-----------------------------------------------------------------------------
(***************************************************************************)
(* Types, and what the segments say.                                       *)
(***************************************************************************)
Safe == TypeOK /\ AllGenuine /\ NoCrossTalk

(* Handing out a genuine segment leaves every inbox genuine.               *)
LEMMA HandOutFacts ==
    ASSUME TypeOK, AllGenuine, NEW s \in Segment, Genuine(srcPort, s), HandOut(s)
    PROVE  /\ inbox' \in [Ports -> Seq(Segment)] /\ wakes' \in [Ports -> Nat]
           /\ \A p \in Ports : \A k \in DOMAIN inbox'[p] : Genuine(srcPort, inbox'[p][k])
  <1>0. wakes' \in [Ports -> Nat]
      BY DEF HandOut, TypeOK
  <1> SUFFICES ASSUME NEW p \in Ports
               PROVE  /\ inbox'[p] \in Seq(Segment)
                      /\ \A k \in DOMAIN inbox'[p] : Genuine(srcPort, inbox'[p][k])
      BY <1>0 DEF HandOut
  <1>1. inbox[p] \in Seq(Segment)
      BY DEF TypeOK
  <1>2. CASE p \in Alive
    <2>1. inbox'[p] = Append(inbox[p], s)
        BY <1>2 DEF HandOut
    <2>2. inbox'[p] \in Seq(Segment) /\ Len(inbox'[p]) = Len(inbox[p]) + 1
        BY <1>1, <2>1
    <2>3. ASSUME NEW k \in DOMAIN inbox'[p] PROVE Genuine(srcPort, inbox'[p][k])
      <3>1. CASE k = Len(inbox[p]) + 1
        <4>1. inbox'[p][k] = s
            BY <1>1, <2>1, <3>1
        <4> QED BY <4>1
      <3>2. CASE k # Len(inbox[p]) + 1
        <4>1. k \in 1..Len(inbox'[p]) /\ Len(inbox[p]) \in Nat
            BY <1>1, <2>2
        <4>2. k \in 1..Len(inbox[p])
            BY <2>2, <3>2, <4>1
        <4>3. k \in DOMAIN inbox[p] /\ inbox'[p][k] = inbox[p][k]
            BY <1>1, <2>1, <4>2
        <4> QED BY <4>3 DEF AllGenuine
      <3> QED BY <3>1, <3>2
    <2> QED BY <2>2, <2>3
  <1>3. CASE p \notin Alive
    <2>1. inbox'[p] = inbox[p]
        BY <1>3 DEF HandOut
    <2> QED BY <1>1, <2>1 DEF AllGenuine
  <1> QED BY <1>2, <1>3

(* No segment is anywhere at first.                                        *)
LEMMA SafeInit == Init => Safe
  BY DEF Init, DrawnPorts, Safe, TypeOK, AllGenuine, NoCrossTalk

(* Every step of a probe keeps Safe.                                       *)
LEMMA SafeProbe ==
    ASSUME NEW p \in Ports
    PROVE  Safe /\ (SendSyn(p) \/ GiveUp(p) \/ Wait(p) \/ Receive(p) \/ RecvTimesOut(p)
                     \/ Fails(p)) => Safe'
  <1> SUFFICES ASSUME Safe, SendSyn(p) \/ GiveUp(p) \/ Wait(p) \/ Receive(p) \/ RecvTimesOut(p)
                             \/ Fails(p)
               PROVE  Safe'
      OBVIOUS
  <1> USE DEF Safe
  <1>1. CASE SendSyn(p)
    <2>1. TypeOK'
      <3>1. flying \subseteq Segment /\ srcPort[p] \in SrcPorts
          BY DEF TypeOK
      <3>2. \/ flying' = flying \cup {Answer(p, srcPort[p])} /\ Truth[p] # "silent"
            \/ flying' = flying
          BY <1>1 DEF SendSyn
      <3>3. flying' \subseteq Segment
          BY <3>1, <3>2, AnswerFacts
      <3>4. /\ probe' = [probe EXCEPT ![p] = "looping"]
            /\ deadline' = [deadline EXCEPT ![p] = now + Timeout]
            /\ wakes' = [wakes EXCEPT ![p] = now]
            /\ UNCHANGED <<now, srcPort, inbox, noise, answered>>
          BY <1>1 DEF SendSyn
      <3>5. probe' \in [Ports -> {"idle", "looping", "receiving", "open", "closed", "filtered", "failed"}]
          BY <3>4 DEF TypeOK
      <3>6. deadline' \in [Ports -> Nat] /\ wakes' \in [Ports -> Nat]
          BY <3>4 DEF TypeOK
      <3> QED BY <3>3, <3>4, <3>5, <3>6 DEF TypeOK
    <2>2. AllGenuine'
      <3>1. srcPort' = srcPort /\ inbox' = inbox
          BY <1>1 DEF SendSyn
      <3>2. flying' = flying \/ (flying' = flying \cup {Answer(p, srcPort[p])} /\ Truth[p] # "silent")
          BY <1>1 DEF SendSyn
      <3> QED BY <3>1, <3>2 DEF AllGenuine, Answer
    <2>3. NoCrossTalk'
        BY <1>1 DEF SendSyn, NoCrossTalk, TypeOK
    <2> QED BY <2>1, <2>2, <2>3
  <1>2. CASE GiveUp(p)
    <2>1. TypeOK' /\ NoCrossTalk'
      <3>1. TypeOK'
        <4>1. << >> \in Seq(Segment)
            OBVIOUS
        <4>2. inbox' \in [Ports -> Seq(Segment)]
            BY <1>2, <4>1 DEF GiveUp, TypeOK
        <4> QED BY <1>2, <4>2 DEF GiveUp, TypeOK
      <3>2. NoCrossTalk'
          BY <1>2 DEF GiveUp, TypeOK, NoCrossTalk
      <3> QED BY <3>1, <3>2
    <2>2. AllGenuine'
        BY <1>2 DEF GiveUp, TypeOK, AllGenuine, Answer
    <2> QED BY <2>1, <2>2
  <1>3. CASE Wait(p)
    <2>3. now + RecvWait(p) \in Nat
        BY DEF RecvWait, TypeOK
    <2>1. TypeOK' /\ NoCrossTalk'
      <3>1. TypeOK'
          BY <1>3, <2>3 DEF Wait, TypeOK
      <3>2. NoCrossTalk'
          BY <1>3 DEF Wait, TypeOK, NoCrossTalk
      <3> QED BY <3>1, <3>2
    <2>2. AllGenuine'
        BY <1>3 DEF Wait, AllGenuine, Answer
    <2> QED BY <2>1, <2>2
  <1>4. CASE Receive(p)
    <2> DEFINE s == Head(inbox[p])
    <2>1. inbox[p] \in Seq(Segment) /\ inbox[p] # << >> /\ inbox[p][1] = s /\ 1 \in DOMAIN inbox[p]
        BY <1>4 DEF Receive, TypeOK
    <2>2. Genuine(srcPort, s)
        BY <2>1 DEF AllGenuine
    <2>3. probe' = [probe EXCEPT ![p] = Reading(p, s)]
        BY <1>4 DEF Receive
    <2>4. inbox' = [inbox EXCEPT ![p] = Tail(inbox[p])] \/ inbox' = [inbox EXCEPT ![p] = << >>]
        BY <1>4 DEF Receive
    <2>5. /\ Tail(inbox[p]) \in Seq(Segment)
          /\ \A k \in DOMAIN Tail(inbox[p]) : k + 1 \in DOMAIN inbox[p] /\ Tail(inbox[p])[k] = inbox[p][k + 1]
        BY <2>1
    <2>6. \A k \in DOMAIN Tail(inbox[p]) : Genuine(srcPort, Tail(inbox[p])[k])
        BY <2>5 DEF AllGenuine
    <2> HIDE DEF s
    <2>7. TypeOK'
      <3>1. inbox' \in [Ports -> Seq(Segment)]
        <4>1. PICK rest \in Seq(Segment) : inbox' = [inbox EXCEPT ![p] = rest]
          <5>1. << >> \in Seq(Segment)
              OBVIOUS
          <5> QED BY <2>4, <2>5, <5>1
        <4> QED BY <4>1 DEF TypeOK
      <3>2. probe' \in [Ports -> {"idle", "looping", "receiving", "open", "closed", "filtered", "failed"}]
          BY <2>3, ReadingFacts DEF TypeOK
      <3> QED BY <1>4, <3>1, <3>2 DEF Receive, TypeOK
    <2>8. AllGenuine'
      <3>1. flying' = flying /\ srcPort' = srcPort
          BY <1>4 DEF Receive
      <3>2. ASSUME NEW q \in Ports, NEW k \in DOMAIN inbox'[q] PROVE Genuine(srcPort, inbox'[q][k])
        <4>1. CASE q # p
            BY <2>4, <3>2, <4>1 DEF AllGenuine, TypeOK
        <4>2. CASE q = p /\ inbox' = [inbox EXCEPT ![p] = Tail(inbox[p])]
            BY <2>6, <3>2, <4>2 DEF TypeOK
        <4>3. CASE q = p /\ inbox' = [inbox EXCEPT ![p] = << >>]
            BY <3>2, <4>3 DEF TypeOK
        <4> QED BY <2>4, <4>1, <4>2, <4>3
      <3> QED BY <3>1, <3>2 DEF AllGenuine, Answer
    <2>9. NoCrossTalk'
        BY <2>2, <2>3, ReadingIsTruth DEF NoCrossTalk, TypeOK
    <2> QED BY <2>7, <2>8, <2>9
  <1>5. CASE RecvTimesOut(p)
    <2>1. TypeOK' /\ NoCrossTalk'
      <3>1. TypeOK'
          BY <1>5 DEF RecvTimesOut, TypeOK
      <3>2. NoCrossTalk'
          BY <1>5 DEF RecvTimesOut, TypeOK, NoCrossTalk
      <3> QED BY <3>1, <3>2
    <2>2. AllGenuine'
        BY <1>5 DEF RecvTimesOut, AllGenuine, Answer
    <2> QED BY <2>1, <2>2
  <1>6. CASE Fails(p)
    <2>1. TypeOK' /\ NoCrossTalk'
      <3>1. TypeOK'
        <4>1. << >> \in Seq(Segment)
            OBVIOUS
        <4>2. inbox' \in [Ports -> Seq(Segment)]
            BY <1>6, <4>1 DEF Fails, TypeOK
        <4> QED BY <1>6, <4>2 DEF Fails, TypeOK
      <3>2. NoCrossTalk'
          BY <1>6 DEF Fails, TypeOK, NoCrossTalk
      <3> QED BY <3>1, <3>2
    <2>2. AllGenuine'
      <3>1. UNCHANGED <<srcPort, flying>> /\ \A q \in Ports : inbox'[q] = inbox[q] \/ inbox'[q] = << >>
          BY <1>6 DEF Fails, TypeOK
      <3> QED BY <3>1 DEF AllGenuine, Answer
    <2> QED BY <2>1, <2>2
  <1> QED BY <1>1, <1>2, <1>3, <1>4, <1>5, <1>6

(* Deliveries and the passing of time keep Safe.                           *)
LEMMA SafeNetwork ==
    Safe /\ ((\E s \in flying : Deliver(s)) \/ (\E s \in Noise : DeliverNoise(s)) \/ Tick) => Safe'
  <1> SUFFICES ASSUME Safe, (\E s \in flying : Deliver(s)) \/ (\E s \in Noise : DeliverNoise(s)) \/ Tick
               PROVE  Safe'
      OBVIOUS
  <1> USE DEF Safe
  <1>1. ASSUME NEW s \in flying, Deliver(s) PROVE Safe'
    <2>1. s \in Segment /\ Genuine(srcPort, s)
        BY AnswerFacts DEF TypeOK, AllGenuine
    <2>2. /\ inbox' \in [Ports -> Seq(Segment)] /\ wakes' \in [Ports -> Nat]
          /\ \A p \in Ports : \A k \in DOMAIN inbox'[p] : Genuine(srcPort, inbox'[p][k])
        BY <1>1, <2>1, HandOutFacts DEF Deliver
    <2>3. TypeOK' /\ NoCrossTalk'
      <3>1. \A p \in Ports : Arrival(p) \in {"no", "close", "early"}
          BY DEF Arrival
      <3>2. answered' \in [Ports -> {"no", "close", "early"}]
          BY <1>1, <3>1 DEF Deliver, TypeOK
      <3>3. TypeOK'
          BY <1>1, <2>2, <3>2 DEF Deliver, TypeOK
      <3>4. NoCrossTalk'
          BY <1>1 DEF Deliver, NoCrossTalk
      <3> QED BY <3>3, <3>4
    <2>4. AllGenuine'
        BY <1>1, <2>2 DEF Deliver, AllGenuine, Answer
    <2> QED BY <2>3, <2>4
  <1>2. ASSUME NEW s \in Noise, DeliverNoise(s) PROVE Safe'
    <2>1. /\ inbox' \in [Ports -> Seq(Segment)] /\ wakes' \in [Ports -> Nat]
          /\ \A p \in Ports : \A k \in DOMAIN inbox'[p] : Genuine(srcPort, inbox'[p][k])
        BY <1>2, NoiseFacts, HandOutFacts DEF DeliverNoise
    <2>2. TypeOK' /\ NoCrossTalk'
        BY <1>2, <2>1 DEF DeliverNoise, TypeOK, NoCrossTalk
    <2>3. AllGenuine'
        BY <1>2, <2>1 DEF DeliverNoise, AllGenuine, Answer
    <2> QED BY <2>2, <2>3
  <1>3. CASE Tick
    <2>1. TypeOK' /\ NoCrossTalk'
        BY <1>3 DEF Tick, TypeOK, NoCrossTalk
    <2>2. AllGenuine'
        BY <1>3 DEF Tick, AllGenuine, Answer
    <2> QED BY <2>1, <2>2
  <1> QED BY <1>1, <1>2, <1>3

(* So does stuttering.                                                     *)
LEMMA SafeStutter == Safe /\ UNCHANGED vars => Safe'
  <1> SUFFICES ASSUME Safe, UNCHANGED vars PROVE Safe'
      OBVIOUS
  <1>1. TypeOK' /\ NoCrossTalk'
      BY DEF Safe, vars, TypeOK, NoCrossTalk
  <1>2. AllGenuine'
      BY DEF Safe, vars, AllGenuine, Answer
  <1> QED BY <1>1, <1>2 DEF Safe

(* Types, genuine segments and right verdicts are inductive together.     *)
THEOREM SafeInvariant == Spec => []Safe
  <1>1. Safe /\ [Next]_vars => Safe'
      BY SafeProbe, SafeNetwork, SafeStutter DEF Next, AllReturned
  <1> QED BY <1>1, SafeInit, PTL DEF Spec

(* The type invariant of SynScan.                                          *)
THEOREM TypeCorrect == Spec => []TypeOK
  <1>1. Safe => TypeOK
      BY DEF Safe
  <1> QED BY <1>1, SafeInvariant, PTL

(* Concurrent probes never take each other's answers, not even over one    *)
(* source port, nor unrelated traffic for an answer (syn.rs:63-88).        *)
THEOREM ProbesKeepApart == Spec => []NoCrossTalk
  <1>1. Safe => NoCrossTalk
      BY DEF Safe
  <1> QED BY <1>1, SafeInvariant, PTL

-----------------------------------------------------------------------------
(***************************************************************************)
(* Time.  No thread is later than it may be.  A recv is set to end before  *)
(* deadline + Floor, so the loop is back at its top no later than Lag      *)
(* after that.                                                             *)
(***************************************************************************)
Timely ==
    \A p \in Alive :
        /\ now <= wakes[p] + Lag
        /\ probe[p] = "receiving" => wakes[p] < deadline[p] + Floor
        /\ probe[p] = "looping" => wakes[p] <= now /\ wakes[p] < deadline[p] + Floor + Lag

(* No step lets a probe oversleep, or a recv be set too late.              *)
LEMMA TimelyStep == TypeOK /\ Timely /\ [Next]_vars => Timely'
  <1> SUFFICES ASSUME TypeOK, Timely, [Next]_vars PROVE Timely'
      OBVIOUS
  <1>0. /\ Lag \in Nat /\ Floor \in Nat \ {0} /\ now \in Nat
        /\ wakes \in [Ports -> Nat] /\ deadline \in [Ports -> Nat]
        /\ probe \in [Ports -> {"idle", "looping", "receiving", "open", "closed", "filtered", "failed"}]
      BY DEF TypeOK
  <1>1. ASSUME NEW p \in Ports, SendSyn(p) PROVE Timely'
    <2>1. /\ probe' = [probe EXCEPT ![p] = "looping"] /\ wakes' = [wakes EXCEPT ![p] = now]
          /\ deadline' = [deadline EXCEPT ![p] = now + Timeout] /\ now' = now
        BY <1>1 DEF SendSyn
    <2> QED BY <1>0, <2>1 DEF Timely, Alive
  <1>2. ASSUME NEW p \in Ports, GiveUp(p) \/ Fails(p) PROVE Timely'
    <2>1. PICK state \in {"filtered", "failed"} : probe' = [probe EXCEPT ![p] = state]
        BY <1>2 DEF GiveUp, Fails
    <2>2. UNCHANGED <<now, deadline, wakes>>
        BY <1>2 DEF GiveUp, Fails
    <2> QED BY <1>0, <2>1, <2>2 DEF Timely, Alive
  <1>3. ASSUME NEW p \in Ports, Wait(p) PROVE Timely'
    <2>1. now <= now + RecvWait(p) /\ now + RecvWait(p) < deadline[p] + Floor /\ now < deadline[p]
      <3>1. now < deadline[p] /\ deadline[p] \in Nat
          BY <1>0, <1>3 DEF Wait
      <3> QED BY <1>0, <3>1 DEF RecvWait
    <2>2. PICK w \in {now, now + RecvWait(p)} : wakes' = [wakes EXCEPT ![p] = w]
        BY <1>3 DEF Wait
    <2>3. probe' = [probe EXCEPT ![p] = "receiving"] /\ now' = now /\ deadline' = deadline
        BY <1>3 DEF Wait
    <2>4. w \in Nat /\ now <= w /\ w < deadline[p] + Floor
        BY <1>0, <2>1, <2>2 DEF RecvWait
    <2> QED BY <1>0, <2>2, <2>3, <2>4 DEF Timely, Alive
  <1>4. ASSUME NEW p \in Ports, Receive(p) \/ RecvTimesOut(p) PROVE Timely'
    <2>1. PICK state \in {"open", "closed", "looping"} : probe' = [probe EXCEPT ![p] = state]
      <3>1. CASE Receive(p)
        <4>1. probe' = [probe EXCEPT ![p] = Reading(p, Head(inbox[p]))]
            BY <3>1 DEF Receive
        <4> QED BY <4>1, ReadingFacts
      <3>2. CASE RecvTimesOut(p)
          BY <3>2 DEF RecvTimesOut
      <3> QED BY <1>4, <3>1, <3>2
    <2>2. /\ probe[p] = "receiving" /\ now' = now /\ deadline' = deadline
          /\ wakes' = [wakes EXCEPT ![p] = now]
        BY <1>4 DEF Receive, RecvTimesOut
    <2>3. now < deadline[p] + Floor + Lag
        BY <1>0, <2>2 DEF Timely, Alive
    <2> QED BY <1>0, <2>1, <2>2, <2>3 DEF Timely, Alive
  <1>5. CASE (\E s \in flying : Deliver(s)) \/ (\E s \in Noise : DeliverNoise(s))
    <2>1. PICK s : HandOut(s)
        BY <1>5 DEF Deliver, DeliverNoise
    <2>2. UNCHANGED <<now, probe, deadline>>
        BY <1>5 DEF Deliver, DeliverNoise
    <2>3. \A p \in Ports :
              wakes'[p] = IF probe[p] = "receiving" /\ wakes[p] > now THEN now ELSE wakes[p]
        BY <2>1 DEF HandOut
    <2> QED BY <1>0, <2>2, <2>3 DEF Timely, Alive
  <1>6. CASE Tick
    <2>1. /\ \A p \in Alive : now < wakes[p] + Lag
          /\ now' = now + 1 /\ UNCHANGED <<probe, deadline, wakes>>
        BY <1>6 DEF Tick
    <2> QED BY <1>0, <2>1 DEF Timely, Alive
  <1>7. CASE UNCHANGED vars
      BY <1>7 DEF vars, Timely, Alive
  <1> QED BY <1>1, <1>2, <1>3, <1>4, <1>5, <1>6, <1>7 DEF Next, AllReturned

(* The loop never runs late by more than the lags allow.                   *)
LEMMA TimelyInvariant == Spec => []Timely
  <1>1. Init => Timely
      BY DEF Init, DrawnPorts, Timely, Alive
  <1> QED BY <1>1, TimelyStep, TypeCorrect, PTL DEF Spec

(* A probe is over less than the floor of a recv after connect_timeout     *)
(* (syn.rs:44-57), for any number of unrelated segments, but for the time  *)
(* its thread is late when the recv ends and when the loop is back at its  *)
(* top.                                                                    *)
THEOREM ProbesEndOnTime == Spec => []EndsOnTime
  <1>1. TypeOK /\ Timely => EndsOnTime
    <2> SUFFICES ASSUME TypeOK, Timely, NEW p \in Alive PROVE now < deadline[p] + Floor + 2 * Lag
        BY DEF EndsOnTime
    <2>1. /\ Lag \in Nat /\ Floor \in Nat /\ now \in Nat /\ wakes[p] \in Nat /\ deadline[p] \in Nat
          /\ probe[p] \in {"looping", "receiving"}
        BY DEF TypeOK, Alive
    <2> QED BY <2>1 DEF Timely
  <1> QED BY <1>1, TimelyInvariant, TypeCorrect, PTL

-----------------------------------------------------------------------------
(***************************************************************************)
(* Answers.  One that arrived early is in the inbox of its probe until the *)
(* probe has read it, and close enough to the front: being late for every  *)
(* segment up to it still leaves the probe before its deadline.            *)
(***************************************************************************)
Late(n) == n * Lag

(* One turn more is one lag more.                                          *)
LEMMA LateFacts ==
    /\ \A n \in Nat : Late(n) \in Nat
    /\ \A n \in Nat : Late(n + 1) = Late(n) + Lag
    /\ \A n \in Nat : Lag <= Late(n + 1)
  <1>1. \A n \in Nat : n * Lag \in Nat
      OBVIOUS
  <1>2. \A n \in Nat : (n + 1) * Lag = n * Lag + Lag
      OBVIOUS
  <1> QED BY <1>1, <1>2 DEF Late

(* The answer to p is the k-th segment of its inbox.                       *)
Queued(p, k) ==
    /\ inbox[p][k] = Answer(p, srcPort[p])
    /\ probe[p] = "looping" => wakes[p] + Late(2 * k - 1) < deadline[p]
    /\ probe[p] = "receiving" =>
           wakes[p] <= now /\ (k = 1 \/ wakes[p] + Late(2 * k - 2) < deadline[p])

Unread ==
    \A p \in Ports : answered[p] = "early" =>
        /\ Truth[p] # "silent"
        /\ probe[p] \notin {"idle", "filtered"}
        /\ p \in Alive => \E k \in DOMAIN inbox[p] : Queued(p, k)

(* A step that is no delivery keeps Unread if it keeps it for the probe it *)
(* is a step of.                                                           *)
LEMMA UnreadOfProbe ==
    ASSUME Safe, Unread, NEW p \in Ports,
           UNCHANGED <<now, srcPort, answered>>,
           \A q \in Ports : q # p => /\ probe'[q] = probe[q] /\ inbox'[q] = inbox[q]
                                     /\ wakes'[q] = wakes[q] /\ deadline'[q] = deadline[q],
           answered[p] = "early" =>
               /\ probe'[p] \notin {"idle", "filtered"}
               /\ p \in Alive' => \E k \in DOMAIN inbox'[p] : Queued(p, k)'
    PROVE  Unread'
  <1> SUFFICES ASSUME NEW q \in Ports, answered[q] = "early"
               PROVE  /\ Truth[q] # "silent"
                      /\ probe'[q] \notin {"idle", "filtered"}
                      /\ q \in Alive' => \E k \in DOMAIN inbox'[q] : Queued(q, k)'
      BY DEF Unread
  <1>1. CASE q = p
      BY <1>1 DEF Unread
  <1>2. CASE q # p
    <2>1. /\ probe'[q] = probe[q] /\ inbox'[q] = inbox[q]
          /\ wakes'[q] = wakes[q] /\ deadline'[q] = deadline[q]
        BY <1>2
    <2>2. q \in Alive' => q \in Alive
        BY <2>1 DEF Alive
    <2>3. \A k \in DOMAIN inbox[q] : Queued(q, k) => Queued(q, k)'
        BY <2>1 DEF Queued, Answer
    <2> QED BY <2>1, <2>2, <2>3 DEF Unread
  <1> QED BY <1>1, <1>2

(* A probe that reads its own answer does not skip it.                     *)
LEMMA AnswerIsRead ==
    ASSUME TypeOK, NEW p \in Ports, Truth[p] # "silent"
    PROVE  Reading(p, Answer(p, srcPort[p])) # "looping"
  <1>1. ForProbe(p, Answer(p, srcPort[p]))
      BY AnswerFacts DEF ForProbe, TypeOK
  <1> QED BY <1>1, AnswerDecides DEF TypeOK

(* At the top of the loop an answer that came early is still in time, and  *)
(* the recv goes for the segment in front.                                 *)
LEMMA UnreadLoop ==
    ASSUME Safe, Timely, Unread, NEW p \in Ports, GiveUp(p) \/ Wait(p)
    PROVE  Unread'
  <1>0. /\ Lag \in Nat /\ now \in Nat /\ wakes \in [Ports -> Nat] /\ deadline \in [Ports -> Nat]
        /\ inbox \in [Ports -> Seq(Segment)]
        /\ probe \in [Ports -> {"idle", "looping", "receiving", "open", "closed", "filtered", "failed"}]
      BY DEF Safe, TypeOK
  <1>1. p \in Alive /\ probe[p] = "looping" /\ now <= wakes[p] + Lag
      BY DEF GiveUp, Wait, Alive, Timely
  <1>2. ASSUME answered[p] = "early"
        PROVE  \E k \in DOMAIN inbox[p] :
                   /\ inbox[p][k] = Answer(p, srcPort[p])
                   /\ now < deadline[p] /\ (k = 1 \/ now + Late(2 * k - 2) < deadline[p])
    <2>1. PICK k \in DOMAIN inbox[p] : Queued(p, k)
        BY <1>1, <1>2 DEF Unread
    <2>2. inbox[p][k] = Answer(p, srcPort[p]) /\ wakes[p] + Late(2 * k - 1) < deadline[p]
        BY <1>1, <2>1 DEF Queued
    <2>3. k \in Nat \ {0} /\ 2 * k - 2 \in Nat /\ 2 * k - 1 = (2 * k - 2) + 1
      <3>1. inbox[p] \in Seq(Segment)
          BY <1>0
      <3>2. k \in 1..Len(inbox[p]) /\ Len(inbox[p]) \in Nat
          BY <3>1
      <3>3. k \in Nat \ {0}
          BY <3>2
      <3> QED BY <3>3
    <2>4. Late(2 * k - 1) = Late(2 * k - 2) + Lag /\ Late(2 * k - 2) \in Nat
        BY <2>3, LateFacts
    <2>5. now < deadline[p] /\ now + Late(2 * k - 2) < deadline[p]
      <3>1. wakes[p] \in Nat /\ deadline[p] \in Nat
          BY <1>0
      <3> DEFINE l == Late(2 * k - 2)
      <3>2. l \in Nat /\ wakes[p] + (l + Lag) < deadline[p]
          BY <2>2, <2>4
      <3> HIDE DEF l
      <3>3. now < deadline[p] /\ now + l < deadline[p]
          BY <1>0, <1>1, <3>1, <3>2
      <3> QED BY <3>3 DEF l
    <2> QED BY <2>2, <2>5
  <1>3. CASE GiveUp(p)
    <2>1. answered[p] # "early"
        BY <1>0, <1>2, <1>3 DEF GiveUp
    <2> QED BY <1>0, <1>3, <2>1, UnreadOfProbe DEF GiveUp
  <1>4. CASE Wait(p)
    <2>1. /\ probe'[p] = "receiving" /\ inbox' = inbox /\ now' = now /\ deadline' = deadline
          /\ srcPort' = srcPort /\ answered' = answered
          /\ inbox[p] # << >> => wakes'[p] = now
        BY <1>0, <1>4 DEF Wait
    <2>2. ASSUME answered[p] = "early"
          PROVE  \E k \in DOMAIN inbox'[p] : Queued(p, k)'
      <3>1. PICK k \in DOMAIN inbox[p] :
                /\ inbox[p][k] = Answer(p, srcPort[p])
                /\ k = 1 \/ now + Late(2 * k - 2) < deadline[p]
          BY <1>2, <2>2
      <3>2. inbox[p] # << >>
          BY <3>1
      <3>3. Queued(p, k)'
          BY <1>0, <2>1, <3>1, <3>2 DEF Queued, Answer
      <3> QED BY <2>1, <3>1, <3>3
    <2>3. \A q \in Ports : q # p => probe'[q] = probe[q] /\ wakes'[q] = wakes[q]
        BY <1>0, <1>4 DEF Wait
    <2> QED BY <2>1, <2>2, <2>3, UnreadOfProbe
  <1> QED BY <1>3, <1>4

(* A recv skips segments in front of the answer, never the answer.         *)
LEMMA UnreadReceive ==
    ASSUME Safe, Timely, Unread, NEW p \in Ports, Receive(p)
    PROVE  Unread'
  <1> DEFINE s == Head(inbox[p])
             state == Reading(p, s)
  <1>0. /\ Lag \in Nat /\ now \in Nat /\ wakes \in [Ports -> Nat] /\ deadline \in [Ports -> Nat]
        /\ inbox \in [Ports -> Seq(Segment)]
        /\ probe \in [Ports -> {"idle", "looping", "receiving", "open", "closed", "filtered", "failed"}]
      BY DEF Safe, TypeOK
  <1>1. /\ inbox[p] \in Seq(Segment) /\ inbox[p] # << >> /\ inbox[p][1] = s
        /\ probe' = [probe EXCEPT ![p] = state] /\ wakes' = [wakes EXCEPT ![p] = now]
        /\ now' = now /\ deadline' = deadline /\ answered' = answered /\ srcPort' = srcPort
        /\ probe[p] = "receiving" /\ p \in Alive
      BY <1>0 DEF Receive, Alive
  <1>2. state \in {"open", "closed", "looping"}
      BY ReadingFacts
  <1>3. state = "looping" => inbox' = [inbox EXCEPT ![p] = Tail(inbox[p])]
      BY DEF Receive
  <1>4. \A q \in Ports : q # p => /\ probe'[q] = probe[q] /\ inbox'[q] = inbox[q]
                                  /\ wakes'[q] = wakes[q]
      BY <1>0, <1>1 DEF Receive
  <1>5. now <= wakes[p] + Lag
      BY <1>1 DEF Timely
  <1> HIDE DEF s, state
  <1>6. ASSUME answered[p] = "early"
        PROVE  /\ probe'[p] \notin {"idle", "filtered"}
               /\ p \in Alive' => \E k \in DOMAIN inbox'[p] : Queued(p, k)'
    <2>1. probe'[p] = state /\ wakes'[p] = now
        BY <1>0, <1>1
    <2>2. Truth[p] # "silent"
        BY <1>6 DEF Unread
    <2>3. PICK k \in DOMAIN inbox[p] : Queued(p, k)
        BY <1>1, <1>6 DEF Unread
    <2>4. CASE state # "looping"
      <3>1. p \notin Alive'
          BY <1>2, <2>1, <2>4 DEF Alive
      <3> QED BY <1>2, <2>1, <2>4, <3>1
    <2>5. CASE state = "looping"
      <3>1. k # 1
          BY <1>1, <2>2, <2>3, <2>5, AnswerIsRead DEF Safe, Queued, state
      <3>2. inbox'[p] = Tail(inbox[p])
          BY <1>0, <1>3, <2>5
      <3>3. k - 1 \in DOMAIN inbox'[p] /\ inbox'[p][k - 1] = inbox[p][k] /\ k \in Nat /\ k >= 2
        <4>1. k \in 1..Len(inbox[p]) /\ Len(inbox[p]) \in Nat
            BY <1>1
        <4>2. k \in Nat /\ k >= 2
            BY <3>1, <4>1
        <4>3. k - 1 \in 1..(Len(inbox[p]) - 1) /\ k - 1 + 1 = k
            BY <4>1, <4>2
        <4> QED BY <1>1, <3>2, <4>2, <4>3
      <3>4. wakes[p] + Late(2 * k - 2) < deadline[p]
          BY <1>1, <2>3, <3>1 DEF Queued
      <3>5. 2 * (k - 1) - 1 \in Nat /\ 2 * k - 2 = (2 * (k - 1) - 1) + 1
          BY <3>3
      <3>6. /\ Late(2 * k - 2) = Late(2 * (k - 1) - 1) + Lag
            /\ Late(2 * (k - 1) - 1) \in Nat
          BY <3>5, LateFacts
      <3>7. now + Late(2 * (k - 1) - 1) < deadline[p]
          BY <1>0, <1>5, <3>4, <3>6
      <3>8. inbox[p][k] = Answer(p, srcPort[p])
          BY <2>3 DEF Queued
      <3>9. Queued(p, k - 1)'
          BY <1>1, <2>1, <2>5, <3>3, <3>7, <3>8 DEF Queued, Answer
      <3> QED BY <2>1, <2>5, <3>3, <3>9
    <2> QED BY <2>4, <2>5
  <1> QED BY <1>1, <1>4, <1>6, UnreadOfProbe

(* A segment handed out is added at the end of the inboxes of open sockets *)
(* and moves no answer in them.                                            *)
LEMMA HandOutAppends ==
    ASSUME TypeOK, NEW s, HandOut(s), UNCHANGED <<now, probe, srcPort, deadline>>, NEW p \in Alive
    PROVE  /\ DOMAIN inbox[p] \subseteq DOMAIN inbox'[p]
           /\ \A k \in DOMAIN inbox[p] : Queued(p, k) => Queued(p, k)'
           /\ Len(inbox[p]) \in Nat /\ Len(inbox[p]) + 1 \in DOMAIN inbox'[p]
           /\ inbox'[p][Len(inbox[p]) + 1] = s
           /\ probe[p] = "receiving" => wakes'[p] <= now
           /\ probe[p] = "looping" => wakes'[p] = wakes[p]
  <1>1. p \in Ports /\ inbox[p] \in Seq(Segment) /\ inbox'[p] = Append(inbox[p], s)
      BY DEF Alive, TypeOK, HandOut
  <1>2. /\ DOMAIN inbox[p] = 1..Len(inbox[p]) /\ Len(inbox[p]) \in Nat
        /\ DOMAIN inbox'[p] = 1..(Len(inbox[p]) + 1)
      BY <1>1
  <1>3. inbox'[p][Len(inbox[p]) + 1] = s /\ \A k \in 1..Len(inbox[p]) : inbox'[p][k] = inbox[p][k]
      BY <1>1
  <1>4. /\ wakes'[p] = IF probe[p] = "receiving" /\ wakes[p] > now THEN now ELSE wakes[p]
        /\ wakes[p] \in Nat /\ now \in Nat
      BY <1>1 DEF HandOut, TypeOK
  <1>5. \A k \in DOMAIN inbox[p] : Queued(p, k) => Queued(p, k)'
    <2> SUFFICES ASSUME NEW k \in DOMAIN inbox[p], Queued(p, k) PROVE Queued(p, k)'
        OBVIOUS
    <2>1. wakes'[p] = wakes[p] \/ (probe[p] = "receiving" /\ wakes[p] > now)
        BY <1>4
    <2>2. wakes'[p] = wakes[p] \/ probe[p] \notin {"looping", "receiving"}
        BY <1>4, <2>1 DEF Queued
    <2>3. inbox'[p][k] = inbox[p][k]
        BY <1>2, <1>3
    <2> QED BY <2>2, <2>3 DEF Queued, Answer
  <1>6. /\ probe[p] = "receiving" => wakes'[p] <= now
        /\ probe[p] = "looping" => wakes'[p] = wakes[p]
      BY <1>4
  <1> QED BY <1>2, <1>3, <1>5, <1>6

(* An answer that arrives early enters the inbox of its probe.             *)
LEMMA UnreadDeliver ==
    ASSUME Safe, Timely, Unread, NEW s \in flying, Deliver(s)
    PROVE  Unread'
  <1>1. /\ UNCHANGED <<now, probe, srcPort, deadline>> /\ HandOut(s) /\ TypeOK /\ Alive' = Alive
      BY DEF Deliver, Safe, Alive
  <1>2. Lag \in Nat /\ now \in Nat
      BY DEF TypeOK, Safe
  <1> SUFFICES ASSUME NEW p \in Ports, answered'[p] = "early"
               PROVE  /\ Truth[p] # "silent"
                      /\ probe[p] \notin {"idle", "filtered"}
                      /\ p \in Alive => \E k \in DOMAIN inbox'[p] : Queued(p, k)'
      BY <1>1 DEF Unread
  <1>3. answered'[p] = IF p \in Alive /\ ForProbe(p, s) THEN Arrival(p) ELSE answered[p]
      BY DEF Deliver
  <1>4. CASE p \in Alive /\ ForProbe(p, s)
    <2>1. PICK q \in Ports : s = Answer(q, srcPort[q]) /\ Truth[q] # "silent"
        BY DEF Safe, AllGenuine
    <2>2. q = p
        BY <1>4, <2>1, AnswerDecides DEF Safe, TypeOK
    <2>0. PICK n \in Nat : n = Len(inbox[p])
        BY <1>1, <1>4, HandOutAppends
    <2> DEFINE k == n + 1
    <2>3. n \in Nat /\ k \in DOMAIN inbox'[p] /\ inbox'[p][k] = s
        BY <1>1, <1>4, <2>0, HandOutAppends
    <2>4. now + (2 * n + 1) * Lag < deadline[p]
        BY <1>3, <1>4, <2>0 DEF Arrival
    <2>5. /\ probe[p] = "receiving" => wakes'[p] <= now
          /\ probe[p] = "looping" => wakes'[p] <= now
          /\ wakes'[p] \in Nat /\ deadline[p] \in Nat /\ probe[p] \in {"looping", "receiving"}
      <3>1. wakes[p] \in Nat /\ deadline[p] \in Nat
          BY DEF Safe, TypeOK
      <3>2. wakes'[p] \in Nat
          BY <1>1, <1>2, <3>1 DEF HandOut
      <3> QED BY <1>1, <1>4, <3>1, <3>2, HandOutAppends DEF Timely, Alive
    <2>6. /\ 2 * n \in Nat /\ 2 * k - 2 = 2 * n /\ 2 * k - 1 = 2 * n + 1
        BY <2>3
    <2>7. /\ Late(2 * n + 1) = Late(2 * n) + Lag /\ Late(2 * n) \in Nat
          /\ Late(2 * n + 1) = (2 * n + 1) * Lag
        BY <2>6, LateFacts DEF Late
    <2> HIDE DEF k
    <2>8. wakes'[p] + Late(2 * k - 1) < deadline[p] /\ wakes'[p] + Late(2 * k - 2) < deadline[p]
        BY <1>2, <2>4, <2>5, <2>6, <2>7
    <2>9. Queued(p, k)'
      <3>1. inbox'[p][k] = Answer(p, srcPort[p])'
          BY <1>1, <2>1, <2>2, <2>3 DEF Answer
      <3>2. UNCHANGED <<now, probe, deadline>>
          BY <1>1
      <3>3. probe[p] = "receiving" => wakes'[p] <= now
          BY <2>5
      <3> QED BY <2>8, <3>1, <3>2, <3>3 DEF Queued, Late
    <2>10. probe[p] \notin {"idle", "filtered"}
        BY <1>4 DEF Alive
    <2>11. Truth[p] # "silent"
        BY <2>1, <2>2
    <2> QED BY <2>3, <2>9, <2>10, <2>11
  <1>5. CASE ~(p \in Alive /\ ForProbe(p, s))
    <2>1. answered[p] = "early"
        BY <1>3, <1>5
    <2> QED BY <1>1, <2>1, HandOutAppends DEF Unread
  <1> QED BY <1>4, <1>5

(* An unrelated segment takes nothing out of an inbox.                     *)
LEMMA UnreadNoise ==
    ASSUME Safe, Unread, NEW s \in Noise, DeliverNoise(s)
    PROVE  Unread'
  <1>1. /\ UNCHANGED <<now, probe, srcPort, deadline, answered>> /\ HandOut(s) /\ TypeOK
        /\ Alive' = Alive
      BY DEF DeliverNoise, Safe, Alive
  <1>2. ASSUME NEW p \in Ports, answered[p] = "early"
        PROVE  /\ Truth[p] # "silent" /\ probe[p] \notin {"idle", "filtered"}
               /\ p \in Alive => \E k \in DOMAIN inbox'[p] : Queued(p, k)'
      BY <1>1, <1>2, HandOutAppends DEF Unread
  <1> QED BY <1>1, <1>2 DEF Unread

(* All steps together.                                                     *)
LEMMA UnreadStep == Safe /\ Timely /\ Unread /\ [Next]_vars => Unread'
  <1> SUFFICES ASSUME Safe, Timely, Unread, [Next]_vars PROVE Unread'
      OBVIOUS
  <1>0. /\ inbox \in [Ports -> Seq(Segment)] /\ now \in Nat /\ wakes \in [Ports -> Nat]
        /\ deadline \in [Ports -> Nat]
        /\ probe \in [Ports -> {"idle", "looping", "receiving", "open", "closed", "filtered", "failed"}]
      BY DEF Safe, TypeOK
  <1>1. ASSUME NEW p \in Ports, SendSyn(p) PROVE Unread'
    <2>1. answered[p] # "early"
        BY <1>1 DEF SendSyn, Unread
    <2>2. /\ UNCHANGED <<now, srcPort, inbox, answered>>
          /\ \A q \in Ports : q # p => /\ probe'[q] = probe[q] /\ wakes'[q] = wakes[q]
                                       /\ deadline'[q] = deadline[q]
        BY <1>0, <1>1 DEF SendSyn
    <2> QED BY <2>1, <2>2, UnreadOfProbe
  <1>2. ASSUME NEW p \in Ports, GiveUp(p) \/ Wait(p) PROVE Unread'
      BY <1>2, UnreadLoop
  <1>3. ASSUME NEW p \in Ports, Receive(p) PROVE Unread'
      BY <1>3, UnreadReceive
  <1>4. ASSUME NEW p \in Ports, RecvTimesOut(p) PROVE Unread'
    <2>1. answered[p] # "early"
      <3> SUFFICES ASSUME answered[p] = "early" PROVE FALSE
          OBVIOUS
      <3>1. p \in Alive /\ inbox[p] = << >>
          BY <1>4 DEF RecvTimesOut, Alive
      <3>2. PICK k \in DOMAIN inbox[p] : Queued(p, k)
          BY <3>1 DEF Unread
      <3> QED BY <3>1, <3>2
    <2>2. /\ UNCHANGED <<now, srcPort, inbox, answered, deadline>>
          /\ \A q \in Ports : q # p => probe'[q] = probe[q] /\ wakes'[q] = wakes[q]
        BY <1>0, <1>4 DEF RecvTimesOut
    <2> QED BY <2>1, <2>2, UnreadOfProbe
  <1>5. ASSUME NEW p \in Ports, Fails(p) PROVE Unread'
    <2>1. /\ UNCHANGED <<now, srcPort, answered, deadline, wakes>> /\ probe'[p] = "failed"
          /\ \A q \in Ports : q # p => probe'[q] = probe[q] /\ inbox'[q] = inbox[q]
        BY <1>0, <1>5 DEF Fails
    <2>2. p \notin Alive'
        BY <2>1 DEF Alive
    <2> QED BY <2>1, <2>2, UnreadOfProbe
  <1>6. CASE Tick
    <2>1. now' = now + 1 /\ UNCHANGED <<probe, srcPort, deadline, wakes, inbox, answered>>
        BY <1>6 DEF Tick
    <2>2. \A p \in Ports : \A k \in DOMAIN inbox[p] : Queued(p, k) => Queued(p, k)'
        BY <1>0, <2>1 DEF Queued, Answer
    <2> QED BY <2>1, <2>2 DEF Unread, Alive
  <1>7. ASSUME NEW s \in flying, Deliver(s) PROVE Unread'
      BY <1>7, UnreadDeliver
  <1>8. ASSUME NEW s \in Noise, DeliverNoise(s) PROVE Unread'
      BY <1>8, UnreadNoise
  <1>9. CASE UNCHANGED vars
      BY <1>9 DEF vars, Unread, Alive, Answer, Queued
  <1> QED BY <1>1, <1>2, <1>3, <1>4, <1>5, <1>6, <1>7, <1>8, <1>9 DEF Next, AllReturned

(* A probe whose answer came early enough to be reached before the         *)
(* deadline is not reported filtered, whatever was queued in front of the  *)
(* answer and however late the thread was for each of it, up to Lag        *)
(* (syn.rs:45-96).  With Lag = 0 that is every answer before the deadline. *)
THEOREM AnswersHeard == Spec => []AnswersAreHeard
  <1>1. Init => Unread
      BY DEF Init, DrawnPorts, Unread
  <1>2. Unread => AnswersAreHeard
      BY DEF Unread, AnswersAreHeard
  <1> QED BY <1>1, <1>2, UnreadStep, SafeInvariant, TimelyInvariant, PTL DEF Spec

-----------------------------------------------------------------------------
(***************************************************************************)
(* Packets, byte by byte (Packets, SynPackets).  Whatever bytes a raw      *)
(* socket hands over are taken apart without an index outside of them,     *)
(* which would panic.                                                      *)
(***************************************************************************)

HIDE SynAssumption

Unsigned16 == 0..(Word - 1)

(* Two bytes make a u16.                                                   *)
LEMMA FromBytesTyped ==
    ASSUME NEW high \in Byte, NEW low \in Byte
    PROVE  FromBytes(high, low) \in Unsigned16
<1>1. high \in Int /\ 0 <= high /\ high <= 255 /\ low \in Int /\ 0 <= low /\ low <= 255
  BY DEF Byte
<1>2. 256 * high + low \in Int /\ 0 <= 256 * high + low /\ 256 * high + low < 65536
  BY <1>1
<1>3. /\ FromBytes(high, low) \in Int /\ 0 <= FromBytes(high, low)
      /\ FromBytes(high, low) < Word /\ Word \in Int
  BY <1>2 DEF FromBytes, Word
<1>. QED  BY <1>3 DEF Unsigned16

(* The header length is a multiple of 4 bytes that four bits can tell.     *)
LEMMA HeaderLengthBound ==
    ASSUME NEW buf \in Seq(Byte), Len(buf) >= 20
    PROVE  HeaderLength(buf) \in 0..60
<1>1. Len(buf) \in Nat /\ 1 \in 1..Len(buf)
  BY LenProperties
<1>2. buf[1] \in Byte
  BY <1>1, ElementOfSeq
<1>3. \A b \in Byte : b \in Nat
  BY DEF Byte
<1>4. \A b \in Nat : b % 16 \in 0..15
  OBVIOUS
<1>5. \A n \in 0..15 : 4 * n \in 0..60
  OBVIOUS
<1>6. 4 * (buf[1] % 16) \in 0..60
  BY <1>2, <1>3, <1>4, <1>5, Zenon
<1>. QED  BY <1>6 DEF HeaderLength

(* parse_tcp_in_ipv4 (syn.rs:179-199): a buffer gives nothing, or two      *)
(* ports and a byte of flags that stand in it, also when the header says   *)
(* it is shorter than 20 bytes or longer than the packet.                  *)
THEOREM ParseTcpTotal ==
    ASSUME NEW buf \in Seq(Byte), NEW src, NEW dst
    PROVE  \/ ParseTcp(buf, src, dst) = None
           \/ ParseTcp(buf, src, dst) \in [sp: Unsigned16, dp: Unsigned16, flags: Byte]
<1>. DEFINE ihl == HeaderLength(buf)
            parsed == [sp |-> FromBytes(buf[ihl + 1], buf[ihl + 2]),
                       dp |-> FromBytes(buf[ihl + 3], buf[ihl + 4]),
                       flags |-> buf[ihl + 14]]
<1>1. CASE Len(buf) < 20 \/ Len(buf) < ihl + 20
  BY <1>1 DEF ParseTcp
<1>2. CASE ~(Len(buf) < 20) /\ ~(Len(buf) < ihl + 20)
  <2>1. Len(buf) \in Nat
    BY LenProperties
  <2>2. ihl \in 0..60
    <3>1. Len(buf) >= 20
      BY <1>2, <2>1
    <3>. QED  BY <3>1, HeaderLengthBound, Zenon
  <2>. HIDE DEF ihl
  <2>3. \A i \in 1..20 : ihl + i \in 1..Len(buf)
    BY <1>2, <2>1, <2>2
  <2>4. \A i \in 1..20 : buf[ihl + i] \in Byte
    BY <2>3, ElementOfSeq
  <2>5. /\ buf[ihl + 1] \in Byte /\ buf[ihl + 2] \in Byte
        /\ buf[ihl + 3] \in Byte /\ buf[ihl + 4] \in Byte
        /\ buf[ihl + 14] \in Byte
    BY <2>4
  <2>6. \A high, low \in Byte : FromBytes(high, low) \in Unsigned16
    BY FromBytesTyped, Zenon
  <2>7. parsed \in [sp: Unsigned16, dp: Unsigned16, flags: Byte]
    BY <2>5, <2>6
  <2>8. ParseTcp(buf, src, dst) \in {None, parsed}
    BY <1>2 DEF ParseTcp, ihl
  <2>. QED  BY <2>7, <2>8
<1>. QED  BY <1>1, <1>2

(* strip_ipv4 (discovery.rs:140-155): what is left of a packet are bytes   *)
(* of it, or none.                                                         *)
THEOREM StripIpv4Total ==
    ASSUME NEW buf \in Seq(Byte)
    PROVE  StripIpv4(buf) \in Seq(Byte) /\ Len(StripIpv4(buf)) <= Len(buf)
<1>1. Len(buf) \in Nat
  BY LenProperties
<1>2. CASE Len(buf) < 20 \/ buf[10] # ICMP \/ Len(buf) < HeaderLength(buf)
  <2>1. StripIpv4(buf) = << >>
    BY <1>2 DEF StripIpv4
  <2>. QED  BY <1>1, <2>1, EmptySeq
<1>3. CASE ~(Len(buf) < 20 \/ buf[10] # ICMP \/ Len(buf) < HeaderLength(buf))
  <2>1. HeaderLength(buf) \in 0..60 /\ HeaderLength(buf) <= Len(buf)
    <3>1. Len(buf) >= 20 /\ ~(Len(buf) < HeaderLength(buf))
      BY <1>1, <1>3
    <3>2. HeaderLength(buf) \in 0..60
      BY <3>1, HeaderLengthBound, Zenon
    <3>3. \A h \in 0..60 : ~(Len(buf) < h) => h <= Len(buf)
      BY <1>1
    <3>. QED  BY <3>1, <3>2, <3>3, Zenon
  <2>. DEFINE first == HeaderLength(buf) + 1
  <2>2. StripIpv4(buf) = SubSeq(buf, first, Len(buf))
    BY <1>3 DEF StripIpv4
  <2>3. first \in 1..(Len(buf) + 1)
    <3>. DEFINE h == HeaderLength(buf)
    <3>1. h \in 0..60 /\ h <= Len(buf)
      BY <2>1
    <3>. HIDE DEF h
    <3>2. h + 1 \in 1..(Len(buf) + 1)
      BY <1>1, <3>1
    <3>. QED  BY <3>2 DEF h
  <2>. HIDE DEF first
  <2>4. \A i \in first..Len(buf) : buf[i] \in Byte
    <3>1. \A i \in first..Len(buf) : i \in 1..Len(buf)
      BY <1>1, <2>3
    <3>. QED  BY <3>1, ElementOfSeq
  <2>5. /\ SubSeq(buf, first, Len(buf)) \in Seq(Byte)
        /\ Len(SubSeq(buf, first, Len(buf)))
               = IF first <= Len(buf) THEN Len(buf) - first + 1 ELSE 0
    BY <1>1, <2>3, <2>4, SubSeqProperties
  <2>. QED  BY <1>1, <2>2, <2>3, <2>5
<1>. QED  BY <1>2, <1>3

-----------------------------------------------------------------------------
(* Packets are put together from pieces.                                   *)

(* n bytes.                                                                *)
Bytes(data, n) == data \in Seq(Byte) /\ Len(data) = n

(* The length, the places and the bytes of n bytes.                        *)
LEMMA BytesAre ==
    ASSUME NEW n \in Nat, NEW data, Bytes(data, n)
    PROVE  /\ data \in Seq(Byte) /\ Len(data) = n /\ DOMAIN data = 1..n
           /\ \A i \in 1..n : data[i] \in Byte
BY ElementOfSeq, LenProperties DEF Bytes

(* A byte as a bounded integer.                                            *)
LEMMA ByteIs == \A b : b \in Byte <=> b \in Int /\ 0 <= b /\ b <= 255
BY DEF Byte

(* m bytes and then n bytes.                                               *)
Joined(data, a, m, b, n) ==
    /\ Bytes(data, m + n)
    /\ \A i \in 1..m : data[i] = a[i]
    /\ \A i \in 1..n : data[m + i] = b[i]

(* m bytes and n bytes joined are m + n bytes, each in its place.          *)
LEMMA TwoPieces ==
    ASSUME NEW m \in Nat, NEW n \in Nat, NEW a, NEW b, Bytes(a, m), Bytes(b, n)
    PROVE  Joined(a \o b, a, m, b, n)
<1>1. a \in Seq(Byte) /\ Len(a) = m /\ b \in Seq(Byte) /\ Len(b) = n
  BY DEF Bytes
<1>2. /\ a \o b \in Seq(Byte) /\ Len(a \o b) = m + n
      /\ \A i \in 1..(m + n) : (a \o b)[i] = IF i <= m THEN a[i] ELSE b[i - m]
  BY <1>1, ConcatProperties
<1>3. ASSUME NEW i \in 1..n
      PROVE  (a \o b)[m + i] = b[i]
  <2>1. m + i \in 1..(m + n) /\ ~(m + i <= m) /\ m + i - m = i
    OBVIOUS
  <2>. QED  BY <1>2, <2>1
<1>4. \A i \in 1..m : i \in 1..(m + n) /\ i <= m
  OBVIOUS
<1>. QED  BY <1>2, <1>3, <1>4 DEF Bytes, Joined

(* A u16 as two bytes, and back.                                           *)
LEMMA BytesOfWord ==
    ASSUME NEW n \in Unsigned16
    PROVE  /\ Bytes(ToBytes(n), 2)
           /\ ToBytes(n)[1] \in Byte /\ ToBytes(n)[2] \in Byte
           /\ FromBytes(ToBytes(n)[1], ToBytes(n)[2]) = n
<1>1. n \in Int /\ 0 <= n /\ n <= 65535
  <2>. DEFINE top == Word - 1
  <2>1. top \in Int /\ top <= 65535
    BY DEF Word
  <2>2. n \in 0..top
    BY Zenon DEF Unsigned16
  <2>. HIDE DEF top
  <2>. QED  BY <2>1, <2>2
<1>2. /\ n \div 256 \in Int /\ 0 <= n \div 256 /\ n \div 256 <= 255
      /\ n % 256 \in Int /\ 0 <= n % 256 /\ n % 256 <= 255
      /\ 256 * (n \div 256) + (n % 256) = n
  <2>1. n \div 256 \in Int /\ 0 <= n \div 256 /\ n \div 256 <= 255
    BY <1>1
  <2>2. n % 256 \in Int /\ 0 <= n % 256 /\ n % 256 <= 255
    BY <1>1
  <2>3. 256 * (n \div 256) + (n % 256) = n
    BY <1>1
  <2>. QED  BY <2>1, <2>2, <2>3
<1>3. ToBytes(n)[1] = n \div 256 /\ ToBytes(n)[2] = n % 256
  BY DEF ToBytes
<1>4. n \div 256 \in Byte /\ n % 256 \in Byte
  BY <1>2, ByteIs
<1>5. ToBytes(n) = <<n \div 256, n % 256>>
  BY DEF ToBytes
<1>6. Bytes(ToBytes(n), 2)
  BY <1>4, <1>5 DEF Bytes
<1>7. FromBytes(ToBytes(n)[1], ToBytes(n)[2]) = 256 * (n \div 256) + (n % 256)
  BY <1>3, Zenon DEF FromBytes
<1>8. FromBytes(ToBytes(n)[1], ToBytes(n)[2]) = n
  BY <1>2, <1>7, Zenon
<1>9. ToBytes(n)[1] \in Byte /\ ToBytes(n)[2] \in Byte
  BY <1>3, <1>4, Zenon
<1>. QED  BY <1>6, <1>8, <1>9, Zenon

(* Short tuples, addresses and the constants of the headers are bytes.     *)
LEMMA SomeBytes ==
    /\ \A x, y \in Byte : Bytes(<<x, y>>, 2)
    /\ \A x, y, z, w \in Byte : Bytes(<<x, y, z, w>>, 4)
    /\ \A a \in Address : Bytes(a, 4)
    /\ {0, 64, 69, 80, SYN, RST, ACK, TCP, EchoRequest, EchoReply} \subseteq Byte
<1>1. ASSUME NEW x \in Byte, NEW y \in Byte
      PROVE  Bytes(<<x, y>>, 2)
  BY DEF Bytes
<1>2. ASSUME NEW x \in Byte, NEW y \in Byte, NEW z \in Byte, NEW w \in Byte
      PROVE  Bytes(<<x, y, z, w>>, 4)
  BY DEF Bytes
<1>3. ASSUME NEW a \in Address
      PROVE  Bytes(a, 4)
  <2>1. a \in [1..4 -> Byte]
    BY DEF Address
  <2>2. a \in Seq(Byte) /\ Len(a) = 4
    <3>1. 4 \in Nat /\ DOMAIN a = 1..4
      BY <2>1
    <3>2. a \in Seq(Byte)
      BY <2>1, <3>1, SeqDef
    <3>. QED  BY <3>1, <3>2, LenProperties
  <2>. QED  BY <2>2 DEF Bytes
<1>4. {0, 64, 69, 80, SYN, RST, ACK, TCP, EchoRequest, EchoReply} \subseteq Byte
  BY DEF Byte, SYN, RST, ACK, TCP, EchoRequest, EchoReply
<1>. QED  BY <1>1, <1>2, <1>3, <1>4

(* The checksum is stamped into two bytes; the others stay.                *)
StampedAt(stamped, packet, n, at, checksum) ==
    /\ Bytes(stamped, n)
    /\ stamped[at] = ToBytes(checksum)[1]
    /\ stamped[at + 1] = ToBytes(checksum)[2]
    /\ \A i \in 1..n : (i # at /\ i # at + 1) => stamped[i] = packet[i]

(* Stamping keeps the length and all bytes but two.                        *)
LEMMA StampedBytes ==
    ASSUME NEW n \in Nat, NEW packet, Bytes(packet, n), NEW at \in 1..(n - 1),
           NEW checksum \in Unsigned16
    PROVE  StampedAt(Stamped(packet, at, checksum), packet, n, at, checksum)
<1>. DEFINE high == ToBytes(checksum)[1]
            low == ToBytes(checksum)[2]
            one == [packet EXCEPT ![at] = high]
            two == [one EXCEPT ![at + 1] = low]
<1>1. high \in Byte /\ low \in Byte
  BY BytesOfWord
<1>2. packet \in [1..n -> Byte] /\ Len(packet) = n
  BY BytesAre, ElementOfSeq, LenProperties DEF Bytes
<1>3. at \in 1..n /\ at + 1 \in 1..n /\ at # at + 1
  OBVIOUS
<1>4. Stamped(packet, at, checksum) = two
  BY DEF Stamped
<1>. HIDE DEF high, low
<1>5. one \in [1..n -> Byte] /\ one[at] = high /\ \A i \in 1..n : i # at => one[i] = packet[i]
  BY <1>1, <1>2, <1>3
<1>6. /\ two \in [1..n -> Byte] /\ two[at + 1] = low
      /\ \A i \in 1..n : i # at + 1 => two[i] = one[i]
  <2>. HIDE DEF one
  <2>. QED  BY <1>1, <1>3, <1>5
<1>7. Bytes(two, n)
  <2>. HIDE DEF two
  <2>1. two \in Seq(Byte)
    BY <1>6, SeqDef
  <2>2. Len(two) = n
    BY <1>6, <2>1, LenProperties
  <2>. QED  BY <2>1, <2>2 DEF Bytes
<1>. HIDE DEF one, two
<1>8. two[at] = high
  BY <1>3, <1>5, <1>6
<1>. QED  BY <1>4, <1>5, <1>6, <1>7, <1>8 DEF high, low, StampedAt

-----------------------------------------------------------------------------
(* Checksums.                                                              *)

(* The carries leave a sum what it is modulo 2^16 - 1.                     *)
CarriedTo(sum) == IF sum < Word THEN sum ELSE 1 + ((sum - 1) % (Word - 1))

(* One round of carrying lowers the sum and not its closed form.           *)
LEMMA OneCarry ==
    ASSUME NEW sum \in Nat, ~(sum < Word)
    PROVE  /\ (sum % Word) + (sum \div Word) \in Nat
           /\ (sum % Word) + (sum \div Word) < sum
           /\ CarriedTo((sum % Word) + (sum \div Word)) = CarriedTo(sum)
<1>0. ~(sum < 65536)
  BY DEF Word
<1>. DEFINE q == sum \div 65536
            r == sum % 65536
            next == r + q
<1>1. q \in Int /\ q >= 1 /\ r \in Int /\ 0 <= r /\ r <= 65535
  <2>1. q \in Int /\ q >= 1
    BY <1>0
  <2>2. r \in Int /\ 0 <= r /\ r <= 65535
    OBVIOUS
  <2>. QED  BY <2>1, <2>2
<1>2. sum = 65536 * q + r
  OBVIOUS
<1>. HIDE DEF q, r
<1>3. next \in Nat /\ next < sum /\ next >= 1 /\ sum - 1 = 65535 * q + (next - 1)
  BY <1>1, <1>2
<1>. HIDE DEF next
<1>4. (sum - 1) % 65535 = (next - 1) % 65535
  BY <1>1, <1>3
<1>5. next < 65536 => (next - 1) % 65535 = next - 1
  BY <1>3
<1>6. CarriedTo(next) = CarriedTo(sum)
  <2>1. CASE next < 65536
    <3>1. CarriedTo(next) = next /\ CarriedTo(sum) = 1 + (next - 1)
      BY <1>4, <1>5, <2>1, <1>0 DEF CarriedTo, Word
    <3>. QED  BY <1>3, <3>1
  <2>2. CASE ~(next < 65536)
    BY <1>4, <2>2, <1>0 DEF CarriedTo, Word
  <2>. QED  BY <2>1, <2>2
<1>. QED  BY <1>3, <1>6 DEF next, q, r, Word

(* The recursive carries, by the least sum for which they would differ.    *)
LEMMA CarriedIs ==
    ASSUME NEW sum \in Nat
    PROVE  Carried[sum] = CarriedTo(sum)
<1>. DEFINE good(g) == g = [s \in Nat |-> IF s < Word THEN s
                                          ELSE g[(s % Word) + (s \div Word)]]
            closed == [s \in Nat |-> CarriedTo(s)]
<1>1. good(closed)
  <2>1. ASSUME NEW s \in Nat
        PROVE  CarriedTo(s) = IF s < Word THEN s ELSE closed[(s % Word) + (s \div Word)]
    <3>1. CASE s < Word
      BY <3>1 DEF CarriedTo
    <3>2. CASE ~(s < Word)
      <4>. DEFINE next == (s % Word) + (s \div Word)
      <4>1. next \in Nat /\ CarriedTo(next) = CarriedTo(s)
        BY <3>2, OneCarry
      <4>. HIDE DEF next
      <4>2. closed[next] = CarriedTo(s)
        BY <4>1
      <4>. QED  BY <3>2, <4>2 DEF next
    <3>. QED  BY <3>1, <3>2
  <2>2. closed = [s \in Nat |-> IF s < Word THEN s ELSE closed[(s % Word) + (s \div Word)]]
    BY <2>1, Zenon
  <2>. QED  BY <2>2
<1>2. Carried = CHOOSE g : good(g)
  BY Zenon DEF Carried
<1>. HIDE DEF closed
<1>3. good(Carried)
  BY <1>1, <1>2, Zenon
<1>4. \A s \in Nat : Carried[s] = IF s < Word THEN s ELSE Carried[(s % Word) + (s \div Word)]
  BY <1>3, Zenon
<1>. HIDE DEF good
<1>. DEFINE T == {s \in Nat : Carried[s] # CarriedTo(s)}
<1>5. T = {}
  <2>. SUFFICES ASSUME T # {}  PROVE FALSE
    OBVIOUS
  <2>1. PICK x \in T : \A y \in T : x <= y
    <3>1. T \in SUBSET Nat
      OBVIOUS
    <3>. HIDE DEF T
    <3>. QED  BY <3>1, LeastNumber
  <2>2. ~(x < Word)
    BY <1>4 DEF CarriedTo
  <2>. DEFINE next == (x % Word) + (x \div Word)
  <2>3. next \in Nat /\ next < x /\ CarriedTo(next) = CarriedTo(x)
    BY <2>2, OneCarry
  <2>4. Carried[x] = Carried[next]
    BY <1>4, <2>2, Zenon
  <2>. HIDE DEF next
  <2>5. next \notin T
    BY <2>1, <2>3
  <2>. QED  BY <2>1, <2>3, <2>4, <2>5
<1>. QED  BY <1>5

(* The words of a packet and its bytes, weighed by their place, come to    *)
(* the same sum.                                                           *)
Weight(data, i) == IF i % 2 = 1 THEN 256 * data[i] ELSE data[i]
Weighed(data) == [i \in DOMAIN data |-> Weight(data, i)]

(* The sums of the first k bytes.                                          *)
Sums(data, n, u) ==
    /\ u \in [0..n -> Nat] /\ u[0] = 0
    /\ \A k \in 1..n : u[k] = u[k - 1] + Weight(data, k)

(* The sum Verifies takes is the last of the running sums.                 *)
LEMMA WeighedSums ==
    ASSUME NEW n \in Nat, NEW data, Bytes(data, n)
    PROVE  \E u : Sums(data, n, u) /\ Sum(Weighed(data)) = u[n]
<1>1. DOMAIN data = 1..n /\ \A i \in 1..n : data[i] \in Nat
  BY BytesAre, ByteIs
<1>2. /\ Weighed(data) \in [1..n -> Nat]
      /\ \A k \in 1..n : Weighed(data)[k] = Weight(data, k)
  <2>1. Weighed(data) = [k \in 1..n |-> Weight(data, k)]
    BY <1>1, Zenon DEF Weighed
  <2>2. \A k \in 1..n : Weight(data, k) \in Nat
    BY <1>1 DEF Weight
  <2>. QED  BY <2>1, <2>2
<1>. DEFINE weighed == Weighed(data)
<1>. HIDE DEF weighed
<1>3. PICK u \in [0..n -> Nat] : /\ u[0] = 0
                                 /\ \A k \in 1..n : u[k] = u[k - 1] + weighed[k]
                                 /\ Sum(weighed) = u[n]
  <2>1. weighed \in [1..n -> Nat]
    BY <1>2 DEF weighed
  <2>. QED  BY <2>1, SumIs
<1>4. Sums(data, n, u)
  BY <1>2, <1>3, Zenon DEF Sums, weighed
<1>. QED  BY <1>3, <1>4 DEF weighed

(* The words of a packet add up to the last of the running sums, also      *)
(* where the last word has one byte.                                       *)
LEMMA WordSums ==
    ASSUME NEW n \in Nat, NEW data, Bytes(data, n), NEW u, Sums(data, n, u)
    PROVE  Total(data) = u[n]
<1>. DEFINE m == (n + 1) \div 2
<1>1. /\ Len(data) = n /\ \A i \in 1..n : data[i] \in Nat
      /\ u \in [0..n -> Nat] /\ u[0] = 0
      /\ \A k \in 1..n : u[k] = u[k - 1] + Weight(data, k)
  BY BytesAre, ByteIs DEF Sums
<1>2. m \in Nat /\ 2 * m >= n /\ 2 * m <= n + 1
  OBVIOUS
<1>. DEFINE words == Words(data)
<1>3. /\ words \in [1..m -> Nat]
      /\ \A k \in 1..m : words[k] = 256 * data[2 * k - 1] + (IF 2 * k <= n THEN data[2 * k] ELSE 0)
  <2>1. words = [k \in 1..m |-> FromBytes(data[2 * k - 1], IF 2 * k <= n THEN data[2 * k] ELSE 0)]
    BY <1>1, Zenon DEF Words
  <2>2. ASSUME NEW k \in 1..m
        PROVE  /\ words[k] = 256 * data[2 * k - 1] + (IF 2 * k <= n THEN data[2 * k] ELSE 0)
               /\ words[k] \in Nat
    <3>1. words[k] = 256 * data[2 * k - 1] + (IF 2 * k <= n THEN data[2 * k] ELSE 0)
      BY <2>1, Zenon DEF FromBytes
    <3>2. 2 * k - 1 \in 1..n /\ (2 * k <= n => 2 * k \in 1..n)
      <4>. HIDE DEF m
      <4>. QED  BY <1>2
    <3>. HIDE DEF words
    <3>3. data[2 * k - 1] \in Nat /\ (2 * k <= n => data[2 * k] \in Nat)
      BY <1>1, <3>2
    <3>. QED  BY <3>1, <3>3
  <2>. HIDE DEF words
  <2>3. words = [k \in 1..m |-> words[k]]
    BY <2>1
  <2>. QED  BY <2>2, <2>3
<1>. HIDE DEF m, words
<1>4. PICK t \in [0..m -> Nat] : /\ t[0] = 0
                                 /\ \A k \in 1..m : t[k] = t[k - 1] + words[k]
                                 /\ Sum(words) = t[m]
  BY <1>2, <1>3, SumIs
<1>5. Total(data) = t[m]
  BY <1>4, Zenon DEF Total, Sum, words
<1>. DEFINE End(k) == IF 2 * k <= n THEN 2 * k ELSE n
            T == {k \in Nat : k <= m => t[k] = u[End(k)]}
<1>6. 0 \in T
  BY <1>1, <1>4
<1>7. ASSUME NEW k \in Nat, k \in T
      PROVE  k + 1 \in T
  <2>. SUFFICES ASSUME k + 1 <= m  PROVE t[k + 1] = u[End(k + 1)]
    <3>1. k + 1 \in Nat
      OBVIOUS
    <3>. QED  BY <3>1, Zenon
  <2>1. k <= m /\ k + 1 \in 1..m /\ k + 1 - 1 = k /\ 2 * k + 1 <= n /\ 2 * k <= n
    BY <1>2
  <2>2. t[k] = u[2 * k]
    BY <1>7, <2>1
  <2>3. t[k + 1] = t[k] + words[k + 1]
    <3>1. t[k + 1] = t[k + 1 - 1] + words[k + 1]
      BY <1>4, <2>1
    <3>. QED  BY <2>1, <3>1
  <2>4. 2 * (k + 1) - 1 = 2 * k + 1 /\ 2 * (k + 1) = 2 * k + 2
    OBVIOUS
  <2>5. words[k + 1] = 256 * data[2 * k + 1] + (IF 2 * k + 2 <= n THEN data[2 * k + 2] ELSE 0)
    BY <1>3, <2>1, <2>4
  <2>6. 2 * k + 1 \in 1..n /\ (2 * k + 1) % 2 = 1 /\ 2 * k + 1 - 1 = 2 * k /\ 2 * k \in 0..n
    BY <2>1
  <2>7. u[2 * k + 1] = u[2 * k] + 256 * data[2 * k + 1]
    BY <1>1, <2>6 DEF Weight
  <2>8. data[2 * k + 1] \in Nat /\ u[2 * k] \in Nat
    BY <1>1, <2>6
  <2>9. CASE 2 * k + 2 <= n
    <3>1. 2 * k + 2 \in 1..n /\ (2 * k + 2) % 2 # 1 /\ 2 * k + 2 - 1 = 2 * k + 1
      BY <2>9
    <3>2. u[2 * k + 2] = u[2 * k + 1] + data[2 * k + 2] /\ data[2 * k + 2] \in Nat
      <4>. DEFINE j == 2 * k + 2
      <4>1. j \in 1..n /\ j % 2 # 1 /\ j - 1 = 2 * k + 1
        BY <3>1
      <4>. HIDE DEF j
      <4>2. data[j] \in Nat
        BY <1>1, <4>1
      <4>3. Weight(data, j) = data[j]
        BY <4>1 DEF Weight
      <4>4. u[j] = u[j - 1] + data[j]
        BY <1>1, <4>1, <4>3
      <4>. QED  BY <4>1, <4>2, <4>4 DEF j
    <3>3. End(k + 1) = 2 * k + 2
      BY <2>4, <2>9
    <3>. HIDE DEF End
    <3>. QED  BY <2>2, <2>3, <2>5, <2>7, <2>8, <2>9, <3>2, <3>3
  <2>10. CASE ~(2 * k + 2 <= n)
    <3>1. End(k + 1) = 2 * k + 1
      BY <2>1, <2>4, <2>10
    <3>. HIDE DEF End
    <3>. QED  BY <2>2, <2>3, <2>5, <2>7, <2>8, <2>10, <3>1
  <2>. QED  BY <2>9, <2>10
<1>. HIDE DEF T
<1>8. m \in T
  BY <1>2, <1>6, <1>7, AllNumbers
<1>9. t[m] = u[End(m)]
  BY <1>2, <1>8 DEF T
<1>10. End(m) = n
  BY <1>2
<1>. QED  BY <1>5, <1>9, <1>10

(* A checksum is a u16, and its carries have a closed form.                *)
LEMMA ChecksumTyped ==
    ASSUME NEW n \in Nat, NEW data, Bytes(data, n)
    PROVE  /\ Total(data) \in Nat
           /\ Checksum16(data) = Word - 1 - CarriedTo(Total(data))
           /\ Checksum16(data) \in Unsigned16
<1>1. PICK u : Sums(data, n, u)
  BY WeighedSums
<1>2. Total(data) \in Nat
  <2>1. Total(data) = u[n] /\ u \in [0..n -> Nat] /\ n \in 0..n
    BY <1>1, WordSums DEF Sums
  <2>. QED  BY <2>1
<1>3. Checksum16(data) = Word - 1 - CarriedTo(Total(data))
  BY <1>2, CarriedIs DEF Checksum16
<1>4. ASSUME NEW sum \in Nat
      PROVE  Word - 1 - CarriedTo(sum) \in 0..(Word - 1)
  <2>. DEFINE c == CarriedTo(sum)
  <2>0. Word - 1 \in Int
    BY DEF Word
  <2>1. CASE sum < 65536
    <3>1. c = sum
      BY <2>1 DEF CarriedTo, Word
    <3>. HIDE DEF c
    <3>2. Word - 1 - c \in Int /\ 0 <= Word - 1 - c /\ Word - 1 - c <= Word - 1
      BY <2>1, <3>1 DEF Word
    <3>. QED  BY <2>0, <3>2 DEF c
  <2>2. CASE ~(sum < 65536)
    <3>. DEFINE r == (sum - 1) % 65535
    <3>1. r \in Int /\ 0 <= r /\ r <= 65534
      BY <2>2
    <3>2. c = 1 + r
      BY <2>2 DEF CarriedTo, Word
    <3>. HIDE DEF r, c
    <3>3. Word - 1 - c \in Int /\ 0 <= Word - 1 - c /\ Word - 1 - c <= Word - 1
      BY <3>1, <3>2 DEF Word
    <3>. QED  BY <2>0, <3>3 DEF c
  <2>. QED  BY <2>1, <2>2
<1>. QED  BY <1>2, <1>3, <1>4 DEF Unsigned16

(* A sum plus its checksum is a multiple of 2^16 - 1, and not zero.        *)
LEMMA ChecksumCompletes ==
    ASSUME NEW sum \in Nat, sum > 0, NEW checksum, checksum = Word - 1 - CarriedTo(sum)
    PROVE  sum + checksum # 0 /\ (sum + checksum) % (Word - 1) = 0
<1>1. CASE sum < 65536
  <2>1. sum + checksum = 65535
    BY <1>1 DEF CarriedTo, Word
  <2>. QED  BY <2>1 DEF Word
<1>2. CASE ~(sum < 65536)
  <2>. DEFINE q == (sum - 1) \div 65535
              r == (sum - 1) % 65535
  <2>1. q \in Nat /\ r \in Nat /\ sum - 1 = 65535 * q + r
    <3>1. q \in Nat /\ sum - 1 = 65535 * q + r
      OBVIOUS
    <3>2. r \in Nat
      OBVIOUS
    <3>. QED  BY <3>1, <3>2
  <2>2. checksum = 65535 - (1 + r)
    BY <1>2 DEF CarriedTo, Word
  <2>. HIDE DEF q, r
  <2>3. sum + checksum = 65535 * (q + 1)
    BY <2>1, <2>2
  <2>4. \A k \in Nat : (65535 * (k + 1)) % 65535 = 0 /\ 65535 * (k + 1) # 0
    OBVIOUS
  <2>. QED  BY <2>1, <2>3, <2>4 DEF Word
<1>. QED  BY <1>1, <1>2

(* A packet adds up to something if one of its bytes is not zero.          *)
LEMMA SumsPositive ==
    ASSUME NEW n \in Nat, NEW data, Bytes(data, n), NEW u, Sums(data, n, u),
           NEW i \in 1..n, data[i] # 0
    PROVE  u[n] > 0
<1>1. /\ u \in [0..n -> Nat] /\ u[0] = 0 /\ \A k \in 1..n : data[k] \in Nat
      /\ \A k \in 1..n : u[k] = u[k - 1] + Weight(data, k)
  <2>1. \A k \in 1..n : data[k] \in Nat
    BY BytesAre, ByteIs
  <2>. QED  BY <2>1 DEF Sums
<1>. DEFINE T == {k \in Nat : (i <= k /\ k <= n) => u[k] > 0}
<1>2. 0 \in T
  OBVIOUS
<1>3. ASSUME NEW k \in Nat, k \in T
      PROVE  k + 1 \in T
  <2>. SUFFICES ASSUME i <= k + 1, k + 1 <= n  PROVE u[k + 1] > 0
    OBVIOUS
  <2>1. k + 1 \in 1..n /\ k + 1 - 1 = k /\ k \in 0..n
    OBVIOUS
  <2>. DEFINE w == Weight(data, k + 1)
  <2>2. u[k + 1] = u[k] + w
    <3>1. u[k + 1] = u[k + 1 - 1] + w
      BY <1>1, <2>1
    <3>. QED  BY <2>1, <3>1
  <2>3. data[k + 1] \in Nat /\ u[k] \in Nat
    BY <1>1, <2>1
  <2>4. w \in Nat /\ (data[k + 1] # 0 => w > 0)
    BY <2>3 DEF Weight
  <2>. HIDE DEF w
  <2>5. CASE i <= k
    <3>1. u[k] > 0
      BY <1>3, <2>1, <2>5
    <3>. QED  BY <2>2, <2>3, <2>4, <3>1
  <2>6. CASE ~(i <= k)
    <3>1. i = k + 1
      BY <2>1, <2>6
    <3>. QED  BY <2>2, <2>3, <2>4, <3>1
  <2>. QED  BY <2>5, <2>6
<1>. HIDE DEF T
<1>4. n \in T
  BY <1>2, <1>3, AllNumbers
<1>5. i <= n /\ n <= n
  OBVIOUS
<1>. QED  BY <1>4, <1>5, Zenon DEF T

(* The word that was zero adds what is stamped there.                      *)
LEMMA SumsStamped ==
    ASSUME NEW n \in Nat, NEW data, NEW stamped, Bytes(data, n), Bytes(stamped, n),
           NEW u, NEW v, Sums(data, n, u), Sums(stamped, n, v),
           NEW at \in 1..(n - 1), at % 2 = 1, data[at] = 0, data[at + 1] = 0,
           \A i \in 1..n : (i # at /\ i # at + 1) => stamped[i] = data[i]
    PROVE  v[n] = u[n] + FromBytes(stamped[at], stamped[at + 1])
<1>1. /\ u \in [0..n -> Nat] /\ u[0] = 0 /\ \A k \in 1..n : data[k] \in Nat
      /\ \A k \in 1..n : u[k] = u[k - 1] + Weight(data, k)
      /\ v \in [0..n -> Nat] /\ v[0] = 0 /\ \A k \in 1..n : stamped[k] \in Nat
      /\ \A k \in 1..n : v[k] = v[k - 1] + Weight(stamped, k)
  <2>1. (\A k \in 1..n : data[k] \in Nat) /\ (\A k \in 1..n : stamped[k] \in Nat)
    BY BytesAre, ByteIs
  <2>. QED  BY <2>1 DEF Sums
<1>2. at \in 1..n /\ at + 1 \in 1..n /\ (at + 1) % 2 # 1
  OBVIOUS
<1>. DEFINE high == 256 * stamped[at]
            Sofar(k) == IF k < at THEN 0 ELSE IF k = at THEN high ELSE high + stamped[at + 1]
            T == {k \in Nat : k <= n => v[k] = u[k] + Sofar(k)}
<1>3. high \in Nat /\ stamped[at + 1] \in Nat
  <2>1. stamped[at] \in Nat /\ stamped[at + 1] \in Nat
    BY <1>1, <1>2, Zenon
  <2>. QED  BY <2>1
<1>4. 0 \in T
  <2>1. v[0] = 0 /\ u[0] = 0 /\ Sofar(0) = 0
    BY <1>1
  <2>. QED  BY <2>1
<1>5. ASSUME NEW k \in Nat, k \in T
      PROVE  k + 1 \in T
  <2>. SUFFICES ASSUME k + 1 <= n  PROVE v[k + 1] = u[k + 1] + Sofar(k + 1)
    OBVIOUS
  <2>. DEFINE x == Weight(data, k + 1)
              y == Weight(stamped, k + 1)
  <2>1. k + 1 \in 1..n /\ k + 1 - 1 = k /\ k <= n /\ k \in 0..n
    OBVIOUS
  <2>2. u[k + 1] = u[k] + x /\ v[k + 1] = v[k] + y
    <3>1. u[k + 1] = u[k + 1 - 1] + x /\ v[k + 1] = v[k + 1 - 1] + y
      <4>. DEFINE j == k + 1
      <4>1. j \in 1..n
        BY <2>1
      <4>. HIDE DEF j
      <4>2. u[j] = u[j - 1] + Weight(data, j)
        BY <1>1, <4>1
      <4>3. v[j] = v[j - 1] + Weight(stamped, j)
        BY <1>1, <4>1
      <4>. QED  BY <4>2, <4>3 DEF j
    <3>. QED  BY <2>1, <3>1
  <2>3. v[k] = u[k] + Sofar(k)
    BY <1>5, <2>1
  <2>4. u[k] \in Nat /\ x \in Nat
    <3>1. u[k] \in Nat /\ data[k + 1] \in Nat
      BY <1>1, <2>1
    <3>. QED  BY <3>1 DEF Weight
  <2>5. CASE k + 1 = at
    <3>1. x = 0 /\ y = high
      BY <2>5 DEF Weight
    <3>2. Sofar(k) = 0 /\ Sofar(k + 1) = high
      BY <2>5
    <3>. HIDE DEF x, y, high, Sofar
    <3>. QED  BY <1>3, <2>2, <2>3, <2>4, <3>1, <3>2
  <2>6. CASE k = at
    <3>1. x = 0 /\ y = stamped[at + 1]
      BY <1>2, <2>6 DEF Weight
    <3>2. Sofar(k) = high /\ Sofar(k + 1) = high + stamped[at + 1]
      BY <2>6
    <3>. HIDE DEF x, y, high, Sofar
    <3>. QED  BY <1>3, <2>2, <2>3, <2>4, <3>1, <3>2
  <2>7. CASE k + 1 # at /\ k # at
    <3>1. stamped[k + 1] = data[k + 1]
      BY <2>1, <2>7
    <3>2. x = y
      BY <3>1 DEF Weight
    <3>3. Sofar(k) = Sofar(k + 1) /\ Sofar(k) \in Nat
      BY <1>3, <2>7
    <3>. HIDE DEF x, y, high, Sofar
    <3>. QED  BY <2>2, <2>3, <2>4, <3>2, <3>3
  <2>. QED  BY <2>5, <2>6, <2>7
<1>. HIDE DEF T
<1>6. n \in T
  BY <1>4, <1>5, AllNumbers
<1>7. v[n] = u[n] + Sofar(n)
  <2>1. n <= n
    OBVIOUS
  <2>. HIDE DEF Sofar
  <2>. QED  BY <1>6, <2>1 DEF T
<1>8. Sofar(n) = 256 * stamped[at] + stamped[at + 1]
  BY <1>2
<1>. QED  BY <1>7, <1>8 DEF FromBytes

(* A packet that is not all zeros verifies once its checksum is stamped    *)
(* where it was zero.                                                      *)
LEMMA StampedVerifies ==
    ASSUME NEW n \in Nat, NEW data, NEW stamped, Bytes(data, n), Bytes(stamped, n),
           NEW at \in 1..(n - 1), at % 2 = 1, data[at] = 0, data[at + 1] = 0,
           \A i \in 1..n : (i # at /\ i # at + 1) => stamped[i] = data[i],
           FromBytes(stamped[at], stamped[at + 1]) = Checksum16(data),
           NEW i \in 1..n, data[i] # 0
    PROVE  Verifies(stamped)
<1>1. PICK u : Sums(data, n, u)
  BY WeighedSums
<1>2. PICK v : Sums(stamped, n, v) /\ Sum(Weighed(stamped)) = v[n]
  BY WeighedSums
<1>3. v[n] = u[n] + Checksum16(data)
  BY <1>1, <1>2, SumsStamped
<1>4. u[n] > 0 /\ Total(data) = u[n] /\ u[n] \in Nat
  <2>1. u \in [0..n -> Nat] /\ n \in 0..n
    BY <1>1 DEF Sums
  <2>. QED  BY <1>1, <2>1, SumsPositive, WordSums
<1>5. Checksum16(data) = Word - 1 - CarriedTo(u[n])
  BY <1>4, ChecksumTyped
<1>6. v[n] # 0 /\ v[n] % (Word - 1) = 0
  BY <1>3, <1>4, <1>5, ChecksumCompletes
<1>7. Verifies(stamped) <=> Sum(Weighed(stamped)) # 0 /\ Sum(Weighed(stamped)) % (Word - 1) = 0
  BY DEF Verifies, Sum, Weighed, Weight
<1>. QED  BY <1>2, <1>6, <1>7

-----------------------------------------------------------------------------
(* What is built.                                                          *)

(* A TCP segment before its checksum is stamped.                           *)
BlankTcp(sp, dp, seq, flags, win) ==
    ToBytes(sp) \o ToBytes(dp) \o seq \o <<0, 0, 0, 0>> \o <<80, flags>> \o ToBytes(win)
    \o <<0, 0>> \o <<0, 0>>

(* The fields of a TCP segment are in their places.                        *)
LEMMA BlankTcpBytes ==
    ASSUME NEW sp \in Unsigned16, NEW dp \in Unsigned16, NEW seq \in Address,
           NEW flags \in Byte, NEW win \in Unsigned16
    PROVE  LET tcp == BlankTcp(sp, dp, seq, flags, win)
           IN /\ Bytes(tcp, 20)
              /\ FromBytes(tcp[1], tcp[2]) = sp /\ FromBytes(tcp[3], tcp[4]) = dp
              /\ tcp[14] = flags /\ tcp[17] = 0 /\ tcp[18] = 0 /\ tcp[13] = 80
<1>. DEFINE a == ToBytes(sp)
            b == ToBytes(dp)
            w == ToBytes(win)
            zeros == <<0, 0, 0, 0>>
            offset == <<80, flags>>
            none == <<0, 0>>
            p1 == a \o b
            p2 == p1 \o seq
            p3 == p2 \o zeros
            p4 == p3 \o offset
            p5 == p4 \o w
            p6 == p5 \o none
            p7 == p6 \o none
<1>1. /\ Bytes(a, 2) /\ Bytes(b, 2) /\ Bytes(w, 2)
      /\ FromBytes(a[1], a[2]) = sp /\ FromBytes(b[1], b[2]) = dp
  BY BytesOfWord
<1>2. Bytes(zeros, 4) /\ Bytes(offset, 2) /\ Bytes(none, 2) /\ Bytes(seq, 4)
  BY SomeBytes
<1>3. offset[1] = 80 /\ offset[2] = flags /\ none[1] = 0 /\ none[2] = 0
  OBVIOUS
<1>4. BlankTcp(sp, dp, seq, flags, win) = p7
  BY DEF BlankTcp
<1>. HIDE DEF a, b, w, zeros, offset, none, p7, p6, p5, p4, p3, p2, p1
<1>5. Bytes(p1, 4) /\ p1[1] = a[1] /\ p1[2] = a[2] /\ p1[3] = b[1] /\ p1[4] = b[2]
  <2>1. Joined(p1, a, 2, b, 2)
    BY <1>1, TwoPieces DEF p1
  <2>. QED  BY <2>1 DEF Joined
<1>6. Bytes(p2, 8) /\ \A i \in 1..4 : p2[i] = p1[i]
  <2>1. Joined(p2, p1, 4, seq, 4)
    BY <1>2, <1>5, TwoPieces DEF p2
  <2>. QED  BY <2>1 DEF Joined
<1>7. Bytes(p3, 12) /\ \A i \in 1..8 : p3[i] = p2[i]
  <2>1. Joined(p3, p2, 8, zeros, 4)
    BY <1>2, <1>6, TwoPieces DEF p3
  <2>. QED  BY <2>1 DEF Joined
<1>8. Bytes(p4, 14) /\ (\A i \in 1..12 : p4[i] = p3[i]) /\ p4[13] = 80 /\ p4[14] = flags
  <2>1. Joined(p4, p3, 12, offset, 2)
    BY <1>2, <1>7, TwoPieces DEF p4
  <2>. QED  BY <1>3, <2>1 DEF Joined
<1>9. Bytes(p5, 16) /\ \A i \in 1..14 : p5[i] = p4[i]
  <2>1. Joined(p5, p4, 14, w, 2)
    BY <1>1, <1>8, TwoPieces DEF p5
  <2>. QED  BY <2>1 DEF Joined
<1>10. Bytes(p6, 18) /\ (\A i \in 1..16 : p6[i] = p5[i]) /\ p6[17] = 0 /\ p6[18] = 0
  <2>1. Joined(p6, p5, 16, none, 2)
    BY <1>2, <1>9, TwoPieces DEF p6
  <2>. QED  BY <1>3, <2>1 DEF Joined
<1>11. Bytes(p7, 20) /\ \A i \in 1..18 : p7[i] = p6[i]
  <2>1. Joined(p7, p6, 18, none, 2)
    BY <1>2, <1>10, TwoPieces DEF p7
  <2>. QED  BY <2>1 DEF Joined
<1>12. p7[1] = a[1] /\ p7[2] = a[2] /\ p7[3] = b[1] /\ p7[4] = b[2]
  <2>1. ASSUME NEW i \in 1..4
        PROVE  p7[i] = p1[i]
    BY <1>6, <1>7, <1>8, <1>9, <1>10, <1>11
  <2>. QED  BY <1>5, <2>1
<1>13. p7[13] = 80 /\ p7[14] = flags
  <2>1. ASSUME NEW i \in 13..14
        PROVE  p7[i] = p4[i]
    BY <1>9, <1>10, <1>11
  <2>. QED  BY <1>8, <2>1
<1>14. p7[17] = 0 /\ p7[18] = 0
  BY <1>10, <1>11
<1>. QED  BY <1>1, <1>4, <1>11, <1>12, <1>13, <1>14

(* The pseudo-header is twelve bytes, the same for every segment of 20.    *)
LEMMA PseudoHeaderBytes ==
    ASSUME NEW src \in Address, NEW dst \in Address, NEW tcp, Bytes(tcp, 20)
    PROVE  /\ Bytes(PseudoHeader(src, dst, tcp), 12)
           /\ PseudoHeader(src, dst, tcp) = src \o dst \o <<0, TCP>> \o ToBytes(20)
<1>. DEFINE p1 == src \o dst
            protocol == <<0, TCP>>
            p2 == p1 \o protocol
            length == ToBytes(20)
            p3 == p2 \o length
<1>1. Bytes(src, 4) /\ Bytes(dst, 4) /\ Bytes(protocol, 2)
  BY SomeBytes
<1>2. Bytes(length, 2)
  <2>1. 20 \in Unsigned16
    BY DEF Unsigned16, Word
  <2>. QED  BY <2>1, BytesOfWord
<1>3. PseudoHeader(src, dst, tcp) = p3
  BY DEF PseudoHeader, Bytes
<1>. HIDE DEF protocol, length, p1, p2, p3
<1>4. Bytes(p1, 8)
  <2>1. Joined(p1, src, 4, dst, 4)
    BY <1>1, TwoPieces DEF p1
  <2>. QED  BY <2>1 DEF Joined
<1>5. Bytes(p2, 10)
  <2>1. Joined(p2, p1, 8, protocol, 2)
    BY <1>1, <1>4, TwoPieces DEF p2
  <2>. QED  BY <2>1 DEF Joined
<1>6. Bytes(p3, 12)
  <2>1. Joined(p3, p2, 10, length, 2)
    BY <1>2, <1>5, TwoPieces DEF p3
  <2>. QED  BY <2>1 DEF Joined
<1>. QED  BY <1>3, <1>6 DEF p3, p2, p1, protocol, length

(* build_tcp: a segment that says what it was given, and verifies.         *)
(* build_tcp: the fields are where parse_tcp_in_ipv4 looks for them, and   *)
(* the segment verifies under its pseudo-header.                           *)
LEMMA TcpIsSound ==
    ASSUME NEW src \in Address, NEW dst \in Address, NEW sp \in Unsigned16, NEW dp \in Unsigned16,
           NEW seq \in Address, NEW flags \in Byte, NEW win \in Unsigned16
    PROVE  LET tcp == BuildTcp(src, dst, sp, dp, seq, flags, win)
           IN /\ Bytes(tcp, 20)
              /\ FromBytes(tcp[1], tcp[2]) = sp /\ FromBytes(tcp[3], tcp[4]) = dp
              /\ tcp[14] = flags
              /\ Verifies(PseudoHeader(src, dst, tcp) \o tcp)
<1>. DEFINE blank == BlankTcp(sp, dp, seq, flags, win)
            pseudo == PseudoHeader(src, dst, blank)
            sum == Checksum16(pseudo \o blank)
            tcp == Stamped(blank, 17, sum)
<1>1. BuildTcp(src, dst, sp, dp, seq, flags, win) = tcp
  BY DEF BuildTcp, BlankTcp, TcpChecksum
<1>2. /\ Bytes(blank, 20)
      /\ FromBytes(blank[1], blank[2]) = sp /\ FromBytes(blank[3], blank[4]) = dp
      /\ blank[14] = flags /\ blank[17] = 0 /\ blank[18] = 0 /\ blank[13] = 80
  BY BlankTcpBytes
<1>. HIDE DEF blank
<1>3. Bytes(pseudo, 12)
  BY <1>2, PseudoHeaderBytes
<1>4. /\ Bytes(pseudo \o blank, 32)
      /\ \A i \in 1..12 : (pseudo \o blank)[i] = pseudo[i]
      /\ \A i \in 1..20 : (pseudo \o blank)[12 + i] = blank[i]
  <2>. HIDE DEF pseudo
  <2>. DEFINE whole == pseudo \o blank
  <2>1. Joined(whole, pseudo, 12, blank, 20)
    BY <1>2, <1>3, TwoPieces
  <2>. HIDE DEF whole
  <2>2. /\ Bytes(whole, 32)
        /\ \A i \in 1..12 : whole[i] = pseudo[i]
        /\ \A i \in 1..20 : whole[12 + i] = blank[i]
    BY <2>1 DEF Joined
  <2>. QED  BY <2>2 DEF whole
<1>5. sum \in Unsigned16
  BY <1>4, ChecksumTyped
<1>. HIDE DEF sum
<1>6. /\ Bytes(tcp, 20) /\ tcp[17] = ToBytes(sum)[1] /\ tcp[17 + 1] = ToBytes(sum)[2]
      /\ \A i \in 1..20 : (i # 17 /\ i # 17 + 1) => tcp[i] = blank[i]
  <2>1. 17 \in 1..(20 - 1)
    OBVIOUS
  <2>2. StampedAt(tcp, blank, 20, 17, sum)
    BY <1>2, <1>5, <2>1, StampedBytes
  <2>. HIDE DEF tcp
  <2>. QED  BY <2>2, Zenon DEF StampedAt
<1>. HIDE DEF tcp
<1>7. PseudoHeader(src, dst, tcp) = pseudo
  <2>1. pseudo = src \o dst \o <<0, TCP>> \o ToBytes(20)
    BY <1>2, PseudoHeaderBytes
  <2>2. PseudoHeader(src, dst, tcp) = src \o dst \o <<0, TCP>> \o ToBytes(20)
    BY <1>6, PseudoHeaderBytes
  <2>. QED  BY <2>1, <2>2, Zenon
<1>. HIDE DEF pseudo
<1>8. /\ Bytes(pseudo \o tcp, 32)
      /\ \A i \in 1..12 : (pseudo \o tcp)[i] = pseudo[i]
      /\ \A i \in 1..20 : (pseudo \o tcp)[12 + i] = tcp[i]
  <2>. DEFINE whole == pseudo \o tcp
  <2>1. Joined(whole, pseudo, 12, tcp, 20)
    BY <1>3, <1>6, TwoPieces
  <2>. HIDE DEF whole
  <2>2. /\ Bytes(whole, 32)
        /\ \A i \in 1..12 : whole[i] = pseudo[i]
        /\ \A i \in 1..20 : whole[12 + i] = tcp[i]
    BY <2>1 DEF Joined
  <2>. QED  BY <2>2 DEF whole
<1>. DEFINE data == pseudo \o blank
            stamped == pseudo \o tcp
<1>9. /\ \A i \in 1..12 : data[i] = pseudo[i] /\ stamped[i] = pseudo[i]
      /\ \A i \in 1..20 : data[12 + i] = blank[i] /\ stamped[12 + i] = tcp[i]
  BY <1>4, <1>8, Zenon
<1>. HIDE DEF data, stamped
<1>10. /\ data[29] = 0 /\ data[29 + 1] = 0 /\ data[25] # 0
      /\ stamped[29] = tcp[17] /\ stamped[29 + 1] = tcp[18]
  <2>1. /\ data[12 + 17] = blank[17] /\ data[12 + 18] = blank[18] /\ data[12 + 13] = blank[13]
        /\ stamped[12 + 17] = tcp[17] /\ stamped[12 + 18] = tcp[18]
    BY <1>9
  <2>. QED  BY <1>2, <2>1
<1>11. ASSUME NEW i \in 1..32, i # 29, i # 29 + 1
       PROVE  stamped[i] = data[i]
  <2>1. CASE i <= 12
    BY <1>9, <2>1
  <2>2. CASE ~(i <= 12)
    <3>1. i - 12 \in 1..20 /\ i - 12 # 17 /\ i - 12 # 17 + 1 /\ 12 + (i - 12) = i
      BY <1>11, <2>2
    <3>2. stamped[12 + (i - 12)] = tcp[i - 12] /\ data[12 + (i - 12)] = blank[i - 12]
      BY <1>9, <3>1, Zenon
    <3>3. tcp[i - 12] = blank[i - 12]
      BY <1>6, <3>1
    <3>. QED  BY <3>1, <3>2, <3>3
  <2>. QED  BY <2>1, <2>2
<1>12. FromBytes(stamped[29], stamped[29 + 1]) = Checksum16(data)
  <2>1. FromBytes(ToBytes(sum)[1], ToBytes(sum)[2]) = sum
    BY <1>5, BytesOfWord
  <2>2. tcp[18] = tcp[17 + 1]
    OBVIOUS
  <2>. QED  BY <1>6, <1>10, <2>1, <2>2 DEF sum, data
<1>13. Verifies(stamped)
  <2>1. /\ 32 \in Nat /\ 29 \in 1..(32 - 1) /\ 29 % 2 = 1 /\ 25 \in 1..32
        /\ Bytes(data, 32) /\ Bytes(stamped, 32)
    BY <1>4, <1>8 DEF data, stamped
  <2>. QED  BY <1>10, <1>11, <1>12, <2>1, StampedVerifies
<1>14. tcp[1] = blank[1] /\ tcp[2] = blank[2] /\ tcp[3] = blank[3] /\ tcp[4] = blank[4]
       /\ tcp[14] = blank[14]
  BY <1>6
<1>. QED  BY <1>1, <1>2, <1>6, <1>7, <1>13, <1>14 DEF stamped

(* A packet whose checksum is computed over itself.                        *)
LEMMA StampedAlone ==
    ASSUME NEW n \in Nat, NEW data, Bytes(data, n),
           NEW at \in 1..(n - 1), at % 2 = 1, data[at] = 0, data[at + 1] = 0,
           NEW i \in 1..n, data[i] # 0
    PROVE  /\ StampedAt(Stamped(data, at, Checksum16(data)), data, n, at, Checksum16(data))
           /\ Verifies(Stamped(data, at, Checksum16(data)))
<1>. DEFINE sum == Checksum16(data)
            stamped == Stamped(data, at, sum)
<1>1. sum \in Unsigned16
  BY ChecksumTyped
<1>2. StampedAt(stamped, data, n, at, sum)
  <2>. HIDE DEF sum
  <2>. QED  BY <1>1, StampedBytes
<1>3. FromBytes(ToBytes(sum)[1], ToBytes(sum)[2]) = sum
  BY <1>1, BytesOfWord
<1>. HIDE DEF stamped
<1>4. /\ Bytes(stamped, n)
      /\ stamped[at] = ToBytes(sum)[1] /\ stamped[at + 1] = ToBytes(sum)[2]
      /\ \A k \in 1..n : (k # at /\ k # at + 1) => stamped[k] = data[k]
  BY <1>2, Zenon DEF StampedAt
<1>5. FromBytes(stamped[at], stamped[at + 1]) = Checksum16(data)
  <2>1. FromBytes(stamped[at], stamped[at + 1]) = sum
    <3>. HIDE DEF sum
    <3>. QED  BY <1>3, <1>4
  <2>. QED  BY <2>1
<1>6. Verifies(stamped)
  <2>. HIDE DEF sum
  <2>. QED  BY <1>4, <1>5, StampedVerifies
<1>. QED  BY <1>2, <1>6 DEF stamped

(* build_ipv4.                                                             *)
BlankIpv4(src, dst, id, payload) ==
    <<69, 0>> \o ToBytes(20 + Len(payload)) \o ToBytes(id)
    \o <<64, 0, 64, TCP>> \o <<0, 0>> \o src \o dst

(* The fields of an IP header are in their places.                         *)
LEMMA BlankIpv4Bytes ==
    ASSUME NEW src \in Address, NEW dst \in Address, NEW id \in Unsigned16,
           NEW payload, 20 + Len(payload) \in Unsigned16
    PROVE  LET header == BlankIpv4(src, dst, id, payload)
           IN /\ Bytes(header, 20)
              /\ header[1] = 69 /\ header[11] = 0 /\ header[12] = 0
              /\ \A i \in 1..4 : header[12 + i] = src[i] /\ header[16 + i] = dst[i]
<1>. DEFINE version == <<69, 0>>
            length == ToBytes(20 + Len(payload))
            ident == ToBytes(id)
            middle == <<64, 0, 64, TCP>>
            none == <<0, 0>>
            p1 == version \o length
            p2 == p1 \o ident
            p3 == p2 \o middle
            p4 == p3 \o none
            p5 == p4 \o src
            p6 == p5 \o dst
<1>1. Bytes(length, 2) /\ Bytes(ident, 2)
  BY BytesOfWord
<1>2. Bytes(version, 2) /\ Bytes(middle, 4) /\ Bytes(none, 2) /\ Bytes(src, 4) /\ Bytes(dst, 4)
  BY SomeBytes
<1>3. version[1] = 69 /\ none[1] = 0 /\ none[2] = 0
  OBVIOUS
<1>4. BlankIpv4(src, dst, id, payload) = p6
  BY DEF BlankIpv4
<1>. HIDE DEF version, length, ident, middle, none, p1, p2, p3, p4, p5, p6
<1>5. Bytes(p1, 4) /\ p1[1] = 69
  <2>1. Joined(p1, version, 2, length, 2)
    BY <1>1, <1>2, TwoPieces DEF p1
  <2>. QED  BY <1>3, <2>1 DEF Joined
<1>6. Bytes(p2, 6) /\ p2[1] = 69
  <2>1. Joined(p2, p1, 4, ident, 2)
    BY <1>1, <1>5, TwoPieces DEF p2
  <2>. QED  BY <1>5, <2>1 DEF Joined
<1>7. Bytes(p3, 10) /\ p3[1] = 69
  <2>1. Joined(p3, p2, 6, middle, 4)
    BY <1>2, <1>6, TwoPieces DEF p3
  <2>. QED  BY <1>6, <2>1 DEF Joined
<1>8. Bytes(p4, 12) /\ p4[1] = 69 /\ p4[11] = 0 /\ p4[12] = 0
  <2>1. Joined(p4, p3, 10, none, 2)
    BY <1>2, <1>7, TwoPieces DEF p4
  <2>. QED  BY <1>3, <1>7, <2>1 DEF Joined
<1>9. Bytes(p5, 16) /\ (\A i \in 1..12 : p5[i] = p4[i]) /\ \A i \in 1..4 : p5[12 + i] = src[i]
  <2>1. Joined(p5, p4, 12, src, 4)
    BY <1>2, <1>8, TwoPieces DEF p5
  <2>. QED  BY <2>1 DEF Joined
<1>10. Bytes(p6, 20) /\ (\A i \in 1..16 : p6[i] = p5[i]) /\ \A i \in 1..4 : p6[16 + i] = dst[i]
  <2>1. Joined(p6, p5, 16, dst, 4)
    BY <1>2, <1>9, TwoPieces DEF p6
  <2>. QED  BY <2>1 DEF Joined
<1>11. p6[1] = 69 /\ p6[11] = 0 /\ p6[12] = 0
  <2>1. p5[1] = 69 /\ p5[11] = 0 /\ p5[12] = 0
    BY <1>8, <1>9
  <2>. QED  BY <1>10, <2>1
<1>12. ASSUME NEW i \in 1..4
       PROVE  p6[12 + i] = src[i]
  <2>1. 12 + i \in 1..16
    OBVIOUS
  <2>2. p6[12 + i] = p5[12 + i]
    BY <1>10, <2>1
  <2>. QED  BY <1>9, <2>2
<1>. QED  BY <1>4, <1>10, <1>11, <1>12

(* An IP header has its addresses and verifies.                            *)
LEMMA Ipv4IsSound ==
    ASSUME NEW src \in Address, NEW dst \in Address, NEW id \in Unsigned16,
           NEW payload, 20 + Len(payload) \in Unsigned16
    PROVE  LET header == BuildIpv4(src, dst, id, payload)
           IN /\ Bytes(header, 20)
              /\ \A i \in 1..4 : header[12 + i] = src[i] /\ header[16 + i] = dst[i]
              /\ Verifies(header)
<1>. DEFINE blank == BlankIpv4(src, dst, id, payload)
            header == Stamped(blank, 11, Checksum16(blank))
<1>1. BuildIpv4(src, dst, id, payload) = header
  BY DEF BuildIpv4, BlankIpv4
<1>2. /\ Bytes(blank, 20)
      /\ blank[1] = 69 /\ blank[11] = 0 /\ blank[12] = 0
      /\ \A i \in 1..4 : blank[12 + i] = src[i] /\ blank[16 + i] = dst[i]
  BY BlankIpv4Bytes
<1>. HIDE DEF blank
<1>3. StampedAt(header, blank, 20, 11, Checksum16(blank)) /\ Verifies(header)
  <2>1. 11 \in 1..(20 - 1) /\ 11 % 2 = 1 /\ 11 + 1 = 12 /\ 1 \in 1..20 /\ blank[1] # 0
    BY <1>2
  <2>. QED  BY <1>2, <2>1, StampedAlone
<1>. HIDE DEF header
<1>4. Bytes(header, 20) /\ \A i \in 1..20 : (i # 11 /\ i # 12) => header[i] = blank[i]
  BY <1>3 DEF StampedAt
<1>5. \A i \in 1..4 : header[12 + i] = blank[12 + i] /\ header[16 + i] = blank[16 + i]
  <2>1. \A i \in 1..4 : /\ 12 + i \in 1..20 /\ 12 + i # 11 /\ 12 + i # 12
                        /\ 16 + i \in 1..20 /\ 16 + i # 11 /\ 16 + i # 12
    OBVIOUS
  <2>. QED  BY <1>4, <2>1, Zenon
<1>. QED  BY <1>1, <1>2, <1>3, <1>4, <1>5

(* build_icmp_echo.                                                        *)
BlankEcho(id, seq, payload) == <<EchoRequest, 0, 0, 0>> \o ToBytes(id) \o ToBytes(seq) \o payload

(* An echo request verifies, whatever its payload.                         *)
LEMMA IcmpIsSound ==
    ASSUME NEW id \in Unsigned16, NEW seq \in Unsigned16, NEW payload \in Seq(Byte)
    PROVE  /\ Bytes(BuildIcmpEcho(id, seq, payload), 8 + Len(payload))
           /\ Verifies(BuildIcmpEcho(id, seq, payload))
<1>. DEFINE n == Len(payload)
            begin == <<EchoRequest, 0, 0, 0>>
            ident == ToBytes(id)
            number == ToBytes(seq)
            p1 == begin \o ident
            p2 == p1 \o number
            p3 == p2 \o payload
<1>1. n \in Nat /\ Bytes(payload, n)
  BY LenProperties DEF Bytes
<1>2. Bytes(begin, 4) /\ Bytes(ident, 2) /\ Bytes(number, 2)
  BY SomeBytes, BytesOfWord
<1>3. begin[1] = EchoRequest /\ begin[3] = 0 /\ begin[4] = 0 /\ EchoRequest # 0
  BY DEF EchoRequest
<1>4. BuildIcmpEcho(id, seq, payload) = Stamped(p3, 3, Checksum16(p3))
  BY DEF BuildIcmpEcho
<1>. HIDE DEF n, begin, ident, number, p1, p2, p3
<1>5. Bytes(p1, 6) /\ \A i \in 1..4 : p1[i] = begin[i]
  <2>1. Joined(p1, begin, 4, ident, 2)
    BY <1>2, TwoPieces DEF p1
  <2>. QED  BY <2>1 DEF Joined
<1>6. Bytes(p2, 8) /\ \A i \in 1..6 : p2[i] = p1[i]
  <2>1. Joined(p2, p1, 6, number, 2)
    BY <1>2, <1>5, TwoPieces DEF p2
  <2>. QED  BY <2>1 DEF Joined
<1>7. Bytes(p3, 8 + n) /\ \A i \in 1..8 : p3[i] = p2[i]
  <2>1. Joined(p3, p2, 8, payload, n)
    BY <1>1, <1>6, TwoPieces DEF p3
  <2>. QED  BY <2>1 DEF Joined
<1>8. p3[1] # 0 /\ p3[3] = 0 /\ p3[3 + 1] = 0
  BY <1>3, <1>5, <1>6, <1>7
<1>9. /\ StampedAt(Stamped(p3, 3, Checksum16(p3)), p3, 8 + n, 3, Checksum16(p3))
      /\ Verifies(Stamped(p3, 3, Checksum16(p3)))
  <2>1. 8 + n \in Nat /\ 3 \in 1..(8 + n - 1) /\ 3 % 2 = 1 /\ 1 \in 1..(8 + n)
    BY <1>1
  <2>. DEFINE size == 8 + n
  <2>2. /\ size \in Nat /\ 3 \in 1..(size - 1) /\ 3 % 2 = 1 /\ 1 \in 1..size
        /\ Bytes(p3, size)
    <3>1. Bytes(p3, size)
      BY <1>7, Zenon DEF size
    <3>2. size \in Nat /\ 3 \in 1..(size - 1) /\ 3 % 2 = 1 /\ 1 \in 1..size
      BY <1>1
    <3>. HIDE DEF size
    <3>. QED  BY <3>1, <3>2, Zenon
  <2>. HIDE DEF size
  <2>3. /\ StampedAt(Stamped(p3, 3, Checksum16(p3)), p3, size, 3, Checksum16(p3))
        /\ Verifies(Stamped(p3, 3, Checksum16(p3)))
    BY <1>8, <2>2, StampedAlone
  <2>. QED  BY <2>3 DEF size
<1>10. Bytes(Stamped(p3, 3, Checksum16(p3)), 8 + n)
  BY <1>9, Zenon DEF StampedAt
<1>. QED  BY <1>4, <1>9, <1>10 DEF n

(* What a probe and a ping send is not dropped on its way.                 *)
LEMMA SentIsSound == TypeOK => ChecksumsVerify
<1>. SUFFICES ASSUME TypeOK  PROVE ChecksumsVerify
  OBVIOUS
<1>1. /\ Source \in Address /\ Target \in Address /\ SeqNumbers \subseteq Address
      /\ Ports \subseteq Unsigned16 /\ SrcPorts \subseteq Unsigned16 /\ Payloads \subseteq Seq(Byte)
  BY SynPacketsAssumption DEF Unsigned16
<1>2. \A p \in Ports : srcPort[p] \in Unsigned16
  BY <1>1 DEF TypeOK
<1>3. SYN \in Byte /\ RST \in Byte
  BY SomeBytes
<1>4. Word - 1 \in Unsigned16 /\ 0 \in Unsigned16 /\ 1 \in Unsigned16 /\ 20 + 20 \in Unsigned16
  BY DEF Unsigned16, Word
<1>5. ASSUME NEW p \in Ports, NEW seq \in SeqNumbers, NEW tcp \in {SynOf(p, seq), RstOf(p, seq)}
      PROVE  /\ Verifies(PseudoHeader(Source, Target, tcp) \o tcp)
             /\ Verifies(BuildIpv4(Source, Target, srcPort[p], tcp))
  <2>1. Bytes(tcp, 20) /\ Verifies(PseudoHeader(Source, Target, tcp) \o tcp)
    <3>1. CASE tcp = SynOf(p, seq)
      <4>. DEFINE win == Word - 1
      <4>1. tcp = BuildTcp(Source, Target, srcPort[p], p, seq, SYN, win) /\ win \in Unsigned16
        BY <1>4, <3>1 DEF SynOf
      <4>. HIDE DEF win
      <4>. QED  BY <1>1, <1>2, <1>3, <4>1, TcpIsSound
    <3>2. CASE tcp = RstOf(p, seq)
      BY <1>1, <1>2, <1>3, <1>4, <3>2, TcpIsSound DEF RstOf
    <3>. QED  BY <3>1, <3>2
  <2>2. 20 + Len(tcp) \in Unsigned16
    BY <1>4, <2>1 DEF Bytes
  <2>. QED  BY <1>1, <1>2, <2>1, <2>2, Ipv4IsSound
<1>6. ASSUME NEW id \in SrcPorts, NEW payload \in Payloads
      PROVE  Verifies(BuildIcmpEcho(id, 1, payload))
  BY <1>1, <1>4, IcmpIsSound
<1>. QED  BY <1>5, <1>6 DEF ChecksumsVerify

-----------------------------------------------------------------------------
(* What is received.                                                       *)

(* The first n bytes of a packet whose header has ihl words.               *)
ReceivedAs(buf, ihl, proto, src, payload, m, n) ==
    /\ Bytes(buf, n)
    /\ n >= 20 => /\ HeaderLength(buf) = 4 * ihl /\ buf[10] = proto
                  /\ \A i \in 1..4 : buf[12 + i] = src[i] /\ buf[16 + i] = Source[i]
    /\ \A i \in 1..m : 4 * ihl + i <= n => buf[4 * ihl + i] = payload[i]

(* What is received of a packet is the beginning of its bytes.             *)
LEMMA ReceivedBytes ==
    ASSUME NEW ihl \in 5..15, NEW proto \in Byte, NEW src \in Address,
           NEW m \in Nat, NEW payload, Bytes(payload, m), 20 + m \in Unsigned16,
           NEW n \in 0..(4 * ihl + m)
    PROVE  ReceivedAs(Received(ihl, proto, src, payload, n), ihl, proto, src, payload, m, n)
<1>. DEFINE built == BuildIpv4(src, Source, 1, payload)
            one == [built EXCEPT ![1] = 64 + ihl]
            header == [one EXCEPT ![10] = proto]
            size == 4 * (ihl - 5)
            options == [i \in 1..size |-> 0]
            p1 == header \o options
            p2 == p1 \o payload
            total == 4 * ihl + m
            buf == SubSeq(p2, 1, n)
<1>1. /\ Bytes(built, 20)
      /\ \A i \in 1..4 : built[12 + i] = src[i] /\ built[16 + i] = Source[i]
  <2>1. Source \in Address
    BY SynPacketsAssumption
  <2>2. 1 \in Unsigned16 /\ 20 + Len(payload) \in Unsigned16
    <3>1. Len(payload) = m
      BY DEF Bytes
    <3>2. 20 + Len(payload) \in Unsigned16
      BY <3>1, Zenon
    <3>3. 1 \in Unsigned16
      <4>1. Word \in Nat /\ Word > 1
        BY DEF Word
      <4>. QED  BY <4>1 DEF Unsigned16
    <3>. QED  BY <3>2, <3>3
  <2>. QED  BY <2>1, <2>2, Ipv4IsSound
<1>2. Received(ihl, proto, src, payload, n) = buf
  BY DEF Received
<1>3. 64 + ihl \in Byte /\ (64 + ihl) % 16 = ihl /\ 0 \in Byte
  BY DEF Byte
<1>4. size \in Nat /\ 20 + size = 4 * ihl /\ total = 20 + size + m /\ n \in 0..total
  OBVIOUS
<1>. HIDE DEF built, total
<1>5. /\ Bytes(header, 20) /\ header[1] = 64 + ihl /\ header[10] = proto
      /\ \A i \in 1..20 : (i # 1 /\ i # 10) => header[i] = built[i]
  <2>1. built \in [1..20 -> Byte]
    BY <1>1, ElementOfSeq, LenProperties DEF Bytes
  <2>2. one \in [1..20 -> Byte] /\ one[1] = 64 + ihl /\ \A i \in 1..20 : i # 1 => one[i] = built[i]
    BY <1>3, <2>1
  <2>. HIDE DEF one
  <2>3. header \in [1..20 -> Byte] /\ header[10] = proto
        /\ \A i \in 1..20 : i # 10 => header[i] = one[i]
    BY <2>2
  <2>. HIDE DEF header
  <2>4. Bytes(header, 20)
    <3>1. header \in Seq(Byte)
      BY <2>3, SeqDef
    <3>2. Len(header) = 20
      BY <2>3, <3>1, LenProperties
    <3>. QED  BY <3>1, <3>2 DEF Bytes
  <2>. QED  BY <2>2, <2>3, <2>4
<1>6. Bytes(options, size)
  <2>1. options \in [1..size -> Byte]
    BY <1>3
  <2>. HIDE DEF size, options
  <2>2. options \in Seq(Byte)
    BY <1>4, <2>1, SeqDef
  <2>3. Len(options) = size
    BY <1>4, <2>1, <2>2, LenProperties
  <2>. QED  BY <2>2, <2>3 DEF Bytes
<1>. HIDE DEF header, one, options, p1, p2, size
<1>7. Bytes(p1, 20 + size) /\ \A i \in 1..20 : p1[i] = header[i]
  <2>1. Joined(p1, header, 20, options, size)
    BY <1>4, <1>5, <1>6, TwoPieces DEF p1
  <2>. QED  BY <2>1 DEF Joined
<1>8. /\ Bytes(p2, total)
      /\ \A i \in 1..(20 + size) : p2[i] = p1[i]
      /\ \A i \in 1..m : p2[4 * ihl + i] = payload[i]
  <2>. DEFINE h == 20 + size
  <2>1. h \in Nat /\ h = 4 * ihl /\ total = h + m /\ Bytes(p1, h)
    BY <1>4, <1>7
  <2>. HIDE DEF h
  <2>2. Joined(p2, p1, h, payload, m)
    BY <2>1, TwoPieces DEF p2
  <2>3. /\ Bytes(p2, h + m)
        /\ \A i \in 1..h : p2[i] = p1[i]
        /\ \A i \in 1..m : p2[h + i] = payload[i]
    BY <2>2 DEF Joined
  <2>. QED  BY <2>1, <2>3 DEF h
<1>9. total \in Nat /\ n \in Nat /\ n <= total
  BY <1>4
<1>10. Bytes(buf, n) /\ \A i \in 1..n : buf[i] = p2[i]
  <2>1. \A i \in 1..n : i \in 1..total
    BY <1>9
  <2>2. \A i \in 1..n : p2[i] \in Byte
    BY <1>8, <1>9, <2>1, BytesAre
  <2>3. /\ buf \in Seq(Byte)
        /\ Len(buf) = IF 1 <= n THEN n - 1 + 1 ELSE 0
        /\ \A i \in 1..(n - 1 + 1) : buf[i] = p2[1 + i - 1]
    BY <1>9, <2>2, SubSeqProperties
  <2>. HIDE DEF buf
  <2>4. Len(buf) = n
    BY <1>9, <2>3
  <2>5. \A i \in 1..n : i \in 1..(n - 1 + 1) /\ 1 + i - 1 = i
    BY <1>9
  <2>. QED  BY <2>3, <2>4, <2>5 DEF Bytes
<1>. HIDE DEF buf
<1>11. ASSUME n >= 20
       PROVE  /\ HeaderLength(buf) = 4 * ihl /\ buf[10] = proto
              /\ \A i \in 1..4 : buf[12 + i] = src[i] /\ buf[16 + i] = Source[i]
  <2>1. \A i \in 1..20 : i \in 1..n /\ i \in 1..(20 + size)
    BY <1>4, <1>9, <1>11
  <2>2. \A i \in 1..20 : buf[i] = header[i]
    BY <1>7, <1>8, <1>10, <2>1
  <2>3. buf[1] = 64 + ihl /\ buf[10] = proto
    BY <1>5, <2>2
  <2>4. HeaderLength(buf) = 4 * ihl
    BY <1>3, <2>3 DEF HeaderLength
  <2>5. \A i \in 1..4 : /\ 12 + i \in 1..20 /\ 12 + i # 1 /\ 12 + i # 10
                        /\ 16 + i \in 1..20 /\ 16 + i # 1 /\ 16 + i # 10
    OBVIOUS
  <2>6. \A i \in 1..4 : buf[12 + i] = built[12 + i] /\ buf[16 + i] = built[16 + i]
    BY <1>5, <2>2, <2>5
  <2>. QED  BY <1>1, <2>3, <2>4, <2>6
<1>12. ASSUME NEW i \in 1..m, 4 * ihl + i <= n
       PROVE  buf[4 * ihl + i] = payload[i]
  <2>1. 4 * ihl + i \in 1..n
    BY <1>9, <1>12
  <2>. QED  BY <1>8, <1>10, <2>1
<1>. QED  BY <1>2, <1>10, <1>11, <1>12 DEF ReceivedAs

(* Four bytes of a packet are an address if they are its bytes.            *)
LEMMA AddressAt ==
    ASSUME NEW n \in Nat, NEW buf, Bytes(buf, n), NEW k \in Nat, k + 4 <= n,
           NEW a \in Address, \A i \in 1..4 : buf[k + i] = a[i]
    PROVE  SubSeq(buf, k + 1, k + 4) = a
<1>. DEFINE part == SubSeq(buf, k + 1, k + 4)
<1>1. \A i \in (k + 1)..(k + 4) : buf[i] \in Byte
  <2>1. \A i \in (k + 1)..(k + 4) : i \in 1..n
    OBVIOUS
  <2>. QED  BY <2>1, BytesAre
<1>2. /\ part \in Seq(Byte)
      /\ Len(part) = IF k + 1 <= k + 4 THEN k + 4 - (k + 1) + 1 ELSE 0
      /\ \A i \in 1..(k + 4 - (k + 1) + 1) : part[i] = buf[k + 1 + i - 1]
  <2>. DEFINE from == k + 1
              to == k + 4
  <2>1. from \in Int /\ to \in Int /\ \A i \in from..to : buf[i] \in Byte
    BY <1>1
  <2>. HIDE DEF from, to
  <2>2. /\ SubSeq(buf, from, to) \in Seq(Byte)
        /\ Len(SubSeq(buf, from, to)) = IF from <= to THEN to - from + 1 ELSE 0
        /\ \A i \in 1..(to - from + 1) : SubSeq(buf, from, to)[i] = buf[from + i - 1]
    BY <2>1, SubSeqProperties
  <2>. QED  BY <2>2 DEF from, to
<1>. HIDE DEF part
<1>3. Len(part) = 4
  BY <1>2
<1>4. ASSUME NEW i \in 1..4
      PROVE  part[i] = a[i]
  <2>1. i \in 1..(k + 4 - (k + 1) + 1) /\ k + 1 + i - 1 = k + i
    OBVIOUS
  <2>2. part[i] = buf[k + 1 + i - 1]
    BY <1>2, <2>1, Zenon
  <2>. QED  BY <2>1, <2>2
<1>5. part \in [1..4 -> Byte] /\ a \in [1..4 -> Byte]
  BY <1>2, <1>3, ElementOfSeq, LenProperties DEF Address
<1>6. part = a
  BY <1>4, <1>5
<1>. QED  BY <1>6 DEF part

(* The three flags the probe looks at, as one byte.                        *)
FlagBits(flags) ==
    (IF "SYN" \in flags THEN SYN ELSE 0) + (IF "ACK" \in flags THEN ACK ELSE 0)
    + (IF "RST" \in flags THEN RST ELSE 0)

(* Each flag is read out of the byte if and only if it was put in.         *)
LEMMA FlagsAreKept ==
    ASSUME NEW flags
    PROVE  /\ FlagBits(flags) \in Byte
           /\ Has(FlagBits(flags), SYN) <=> "SYN" \in flags
           /\ Has(FlagBits(flags), ACK) <=> "ACK" \in flags
           /\ Has(FlagBits(flags), RST) <=> "RST" \in flags
<1>. DEFINE syn == IF "SYN" \in flags THEN 2 ELSE 0
            ack == IF "ACK" \in flags THEN 16 ELSE 0
            rst == IF "RST" \in flags THEN 4 ELSE 0
            bits == syn + ack + rst
<1>1. FlagBits(flags) = bits
  BY DEF FlagBits, SYN, ACK, RST
<1>2. /\ syn = 0 \/ syn = 2
      /\ ack = 0 \/ ack = 16
      /\ rst = 0 \/ rst = 4
      /\ "SYN" \in flags <=> syn = 2
      /\ "ACK" \in flags <=> ack = 16
      /\ "RST" \in flags <=> rst = 4
  OBVIOUS
<1>. HIDE DEF syn, ack, rst
<1>3. bits \in Byte
  BY <1>2 DEF Byte
<1>4. (bits \div 2) % 2 = 1 <=> syn = 2
  BY <1>2
<1>5. (bits \div 16) % 2 = 1 <=> ack = 16
  BY <1>2
<1>6. (bits \div 4) % 2 = 1 <=> rst = 4
  BY <1>2
<1>. QED  BY <1>1, <1>2, <1>3, <1>4, <1>5, <1>6 DEF Has, SYN, ACK, RST

(* The host a segment is from.                                             *)
From(s) == IF s.from = "target" THEN Target ELSE Stranger

(* The ports and flags of a segment are in their places.                   *)
LEMMA SegmentIsSound ==
    ASSUME NEW s \in Segment, NEW seq \in SeqNumbers
    PROVE  /\ From(s) \in Address /\ (From(s) = Target <=> s.from = "target")
           /\ Bytes(SegmentBytes(s, seq), 20)
           /\ FromBytes(SegmentBytes(s, seq)[1], SegmentBytes(s, seq)[2]) = s.sp
           /\ FromBytes(SegmentBytes(s, seq)[3], SegmentBytes(s, seq)[4]) = s.dp
           /\ SegmentBytes(s, seq)[14] = FlagBits(s.flags)
<1>1. /\ Source \in Address /\ From(s) \in Address /\ seq \in Address
      /\ From(s) = Target <=> s.from = "target"
  BY SynPacketsAssumption DEF From
<1>2. s.sp \in Unsigned16 /\ s.dp \in Unsigned16 /\ 0 \in Unsigned16
  <2>1. s.sp \in Ports /\ s.dp \in SrcPorts
    BY DEF Segment
  <2>2. 0 \in Unsigned16
    BY DEF Unsigned16, Word
  <2>. QED  BY <2>1, <2>2, SynPacketsAssumption DEF Unsigned16
<1>3. FlagBits(s.flags) \in Byte
  BY FlagsAreKept
<1>4. SegmentBytes(s, seq) = BuildTcp(From(s), Source, s.sp, s.dp, seq, FlagBits(s.flags), 0)
  BY DEF SegmentBytes, From, FlagBits
<1>. DEFINE from == From(s)
            flags == FlagBits(s.flags)
            none == 0
            tcp == SegmentBytes(s, seq)
<1>5. /\ tcp = BuildTcp(from, Source, s.sp, s.dp, seq, flags, none)
      /\ from \in Address /\ flags \in Byte /\ none \in Unsigned16
  BY <1>1, <1>2, <1>3, <1>4, Zenon
<1>. HIDE DEF from, flags, none, tcp
<1>6. /\ Bytes(tcp, 20)
      /\ FromBytes(tcp[1], tcp[2]) = s.sp /\ FromBytes(tcp[3], tcp[4]) = s.dp
      /\ tcp[14] = flags
  <2>1. /\ Source \in Address /\ seq \in Address /\ s.sp \in Unsigned16 /\ s.dp \in Unsigned16
    BY <1>1, <1>2
  <2>2. LET built == BuildTcp(from, Source, s.sp, s.dp, seq, flags, none)
        IN /\ Bytes(built, 20)
           /\ FromBytes(built[1], built[2]) = s.sp /\ FromBytes(built[3], built[4]) = s.dp
           /\ built[14] = flags
           /\ Verifies(PseudoHeader(from, Source, built) \o built)
    BY <1>5, <2>1, TcpIsSound
  <2>. QED  BY <1>5, <2>2
<1>. QED  BY <1>1, <1>6 DEF from, flags, tcp

(* What parse_tcp_in_ipv4 makes of a segment that is received whole, of    *)
(* one that is cut off and of another protocol.                            *)
LEMMA ParsedSegment ==
    ASSUME NEW s \in Segment, NEW seq \in SeqNumbers, NEW ihl \in 5..15,
           NEW proto \in {TCP, ICMP}, NEW n \in 0..(4 * ihl + 20)
    PROVE  LET buf == Received(ihl, proto, From(s), SegmentBytes(s, seq), n)
           IN ParseTcp(buf, Target, Source)
                  = IF proto = TCP /\ n = 4 * ihl + 20 /\ s.from = "target"
                    THEN [sp |-> s.sp, dp |-> s.dp, flags |-> FlagBits(s.flags)]
                    ELSE None
<1>. DEFINE tcp == SegmentBytes(s, seq)
            from == From(s)
            buf == Received(ihl, proto, from, tcp, n)
            parsed == ParseTcp(buf, Target, Source)
<1>1. /\ from \in Address /\ (from = Target <=> s.from = "target")
      /\ Bytes(tcp, 20)
      /\ FromBytes(tcp[1], tcp[2]) = s.sp
      /\ FromBytes(tcp[3], tcp[4]) = s.dp
      /\ tcp[14] = FlagBits(s.flags)
  BY SegmentIsSound
<1>2. proto \in Byte /\ TCP # ICMP
  BY DEF TCP, ICMP, Byte
<1>. HIDE DEF tcp, from
<1>3. ReceivedAs(buf, ihl, proto, from, tcp, 20, n)
  <2>1. 20 + 20 \in Unsigned16
    BY DEF Unsigned16, Word
  <2>. QED  BY <1>1, <1>2, <2>1, ReceivedBytes
<1>. HIDE DEF buf
<1>4. /\ Bytes(buf, n) /\ Len(buf) = n
      /\ n >= 20 => /\ HeaderLength(buf) = 4 * ihl /\ buf[10] = proto
                    /\ \A i \in 1..4 : buf[12 + i] = from[i] /\ buf[16 + i] = Source[i]
      /\ \A i \in 1..20 : 4 * ihl + i <= n => buf[4 * ihl + i] = tcp[i]
  BY <1>3 DEF ReceivedAs, Bytes
<1>5. CASE n < 20
  <2>1. parsed = None
    BY <1>4, <1>5 DEF ParseTcp
  <2>2. n # 4 * ihl + 20
    BY <1>5
  <2>. QED  BY <2>1, <2>2 DEF buf, tcp, from
<1>6. CASE n >= 20 /\ (n < 4 * ihl + 20 \/ proto # TCP)
  <2>1. Len(buf) < HeaderLength(buf) + 20 \/ buf[10] # TCP
    BY <1>4, <1>6
  <2>2. parsed = None
    BY <2>1, Zenon DEF ParseTcp
  <2>3. ~(proto = TCP /\ n = 4 * ihl + 20)
    BY <1>6
  <2>. QED  BY <2>2, <2>3 DEF buf, tcp, from
<1>7. CASE n = 4 * ihl + 20 /\ proto = TCP
  <2>1. n \in Nat /\ 12 + 4 <= n /\ 16 + 4 <= n /\ n >= 20
    BY <1>7
  <2>2. SubSeq(buf, 13, 16) = from
    <3>. DEFINE k == 12
    <3>1. /\ n \in Nat /\ Bytes(buf, n) /\ from \in Address
          /\ k \in Nat /\ k + 4 <= n /\ \A i \in 1..4 : buf[k + i] = from[i]
      BY <1>1, <1>4, <2>1
    <3>. HIDE DEF k
    <3>2. SubSeq(buf, k + 1, k + 4) = from
      BY <3>1, AddressAt
    <3>. QED  BY <3>2 DEF k
  <2>3. SubSeq(buf, 17, 20) = Source
    <3>. DEFINE k == 16
    <3>1. /\ n \in Nat /\ Bytes(buf, n)
          /\ k \in Nat /\ k + 4 <= n /\ \A i \in 1..4 : buf[k + i] = Source[i]
      BY <1>4, <2>1
    <3>2. Source \in Address
      BY SynPacketsAssumption
    <3>. HIDE DEF k
    <3>3. SubSeq(buf, k + 1, k + 4) = Source
      BY <3>1, <3>2, AddressAt
    <3>. QED  BY <3>3 DEF k
  <2>4. CASE from # Target
    BY <1>1, <2>1, <2>2, <2>4 DEF ParseTcp, buf, tcp, from
  <2>5. CASE from = Target
    <3>1. ASSUME NEW i \in 1..20
          PROVE  buf[4 * ihl + i] = tcp[i]
      <4>1. 4 * ihl + i <= n
        BY <1>7
      <4>. QED  BY <1>4, <4>1
    <3>2. /\ buf[4 * ihl + 1] = tcp[1] /\ buf[4 * ihl + 2] = tcp[2]
          /\ buf[4 * ihl + 3] = tcp[3] /\ buf[4 * ihl + 4] = tcp[4]
          /\ buf[4 * ihl + 14] = tcp[14]
      BY <3>1
    <3>3. ~(Len(buf) < 20) /\ ~(Len(buf) < HeaderLength(buf) + 20) /\ buf[10] = TCP
          /\ HeaderLength(buf) = 4 * ihl
      BY <1>4, <1>7, <2>1
    <3>4. parsed = [sp |-> FromBytes(tcp[1], tcp[2]), dp |-> FromBytes(tcp[3], tcp[4]),
                    flags |-> tcp[14]]
      BY <2>2, <2>3, <2>5, <3>2, <3>3 DEF ParseTcp
    <3>5. parsed = [sp |-> s.sp, dp |-> s.dp, flags |-> FlagBits(s.flags)]
      BY <1>1, <3>4
    <3>. QED  BY <1>1, <1>7, <2>5, <3>5 DEF buf, tcp, from
  <2>. QED  BY <2>4, <2>5
<1>. QED  BY <1>5, <1>6, <1>7

(* The probe's loop on the bytes of a segment, against Reading.            *)
LEMMA SegmentIsRead ==
    ASSUME NEW p \in Ports, NEW s \in Segment, NEW seq \in SeqNumbers, NEW ihl \in 5..15,
           NEW proto \in {TCP, ICMP}, NEW n \in 0..(4 * ihl + 20)
    PROVE  ReadingOfBytes(p, Received(ihl, proto, From(s), SegmentBytes(s, seq), n))
               = IF proto = TCP /\ n = 4 * ihl + 20 THEN Reading(p, s) ELSE "looping"
<1>. DEFINE buf == Received(ihl, proto, From(s), SegmentBytes(s, seq), n)
            whole == proto = TCP /\ n = 4 * ihl + 20
            record == [sp |-> s.sp, dp |-> s.dp, flags |-> FlagBits(s.flags)]
            seen == ParseTcp(buf, Target, Source)
<1>1. seen = IF whole /\ s.from = "target" THEN record ELSE None
  <2>1. seen = IF proto = TCP /\ n = 4 * ihl + 20 /\ s.from = "target" THEN record ELSE None
    BY ParsedSegment
  <2>. QED  BY <2>1
<1>2. record # None
  <2>1. "sp" \in DOMAIN record
    OBVIOUS
  <2>2. "sp" \notin DOMAIN None
    BY DEF None
  <2>. QED  BY <2>1, <2>2
<1>3. /\ Has(FlagBits(s.flags), SYN) <=> "SYN" \in s.flags
      /\ Has(FlagBits(s.flags), ACK) <=> "ACK" \in s.flags
      /\ Has(FlagBits(s.flags), RST) <=> "RST" \in s.flags
  BY FlagsAreKept
<1>4. /\ record.sp = s.sp /\ record.dp = s.dp /\ record.flags = FlagBits(s.flags)
  OBVIOUS
<1>5. ReadingOfBytes(p, buf)
          = IF /\ seen # None /\ seen.sp = p /\ seen.dp = srcPort[p]
               /\ Has(seen.flags, SYN) /\ Has(seen.flags, ACK) THEN "open"
            ELSE IF /\ seen # None /\ seen.sp = p /\ seen.dp = srcPort[p]
                    /\ Has(seen.flags, RST) THEN "closed"
            ELSE "looping"
  BY Zenon DEF ReadingOfBytes
<1>6. Reading(p, s)
          = IF /\ s.from = "target" /\ s.sp = p /\ s.dp = srcPort[p]
               /\ "SYN" \in s.flags /\ "ACK" \in s.flags THEN "open"
            ELSE IF /\ s.from = "target" /\ s.sp = p /\ s.dp = srcPort[p]
                    /\ "RST" \in s.flags THEN "closed"
            ELSE "looping"
  BY DEF Reading, ForProbe, SynAck
<1>. HIDE DEF seen, record, whole, buf
<1>7. CASE whole /\ s.from = "target"
  <2>1. seen = record
    BY <1>1, <1>7
  <2>2. ReadingOfBytes(p, buf) = Reading(p, s)
    BY <1>2, <1>3, <1>4, <1>5, <1>6, <1>7, <2>1
  <2>. QED  BY <1>7, <2>2 DEF whole, buf
<1>8. CASE ~(whole /\ s.from = "target")
  <2>1. seen = None
    BY <1>1, <1>8
  <2>2. ReadingOfBytes(p, buf) = "looping"
    BY <1>5, <2>1
  <2>3. s.from # "target" => Reading(p, s) = "looping"
    BY <1>6
  <2>. QED  BY <1>8, <2>2, <2>3 DEF whole, buf
<1>. QED  BY <1>7, <1>8

(* An echo reply is one by its first byte.                                 *)
LEMMA EchoIsRead ==
    ASSUME NEW ihl \in 5..15, NEW type \in {EchoReply, EchoRequest}, NEW proto \in {TCP, ICMP},
           NEW n \in 0..(4 * ihl + 8)
    PROVE  LET echo == [BuildIcmpEcho(1, 1, <<>>) EXCEPT ![1] = type]
           IN IsEchoReply(Received(ihl, proto, Target, echo, n))
                  <=> proto = ICMP /\ type = EchoReply /\ n > 4 * ihl
<1>. DEFINE built == BuildIcmpEcho(1, 1, <<>>)
            echo == [built EXCEPT ![1] = type]
            buf == Received(ihl, proto, Target, echo, n)
            rest == StripIpv4(buf)
<1>1. Bytes(built, 8)
  <2>. DEFINE none == <<>>
  <2>1. none \in Seq(Byte) /\ Len(none) = 0
    OBVIOUS
  <2>2. 1 \in Unsigned16
    BY DEF Unsigned16, Word
  <2>. HIDE DEF none
  <2>3. Bytes(BuildIcmpEcho(1, 1, none), 8 + Len(none))
    BY <2>1, <2>2, IcmpIsSound
  <2>. QED  BY <2>1, <2>3 DEF none
<1>2. type \in Byte /\ proto \in Byte
  BY DEF TCP, ICMP, EchoReply, EchoRequest, Byte
<1>. HIDE DEF built
<1>3. Bytes(echo, 8) /\ echo[1] = type
  <2>1. built \in [1..8 -> Byte]
    BY <1>1, ElementOfSeq, LenProperties DEF Bytes
  <2>2. echo \in [1..8 -> Byte] /\ echo[1] = type
    BY <1>2, <2>1
  <2>. HIDE DEF echo
  <2>3. echo \in Seq(Byte)
    <3>. DEFINE m == 8
    <3>1. m \in Nat /\ echo \in [1..m -> Byte]
      BY <2>2
    <3>. HIDE DEF m
    <3>. QED  BY <3>1, SeqDef
  <2>4. Len(echo) = 8
    BY <2>2, <2>3, LenProperties
  <2>. QED  BY <2>2, <2>3, <2>4 DEF Bytes
<1>. HIDE DEF echo
<1>4. ReceivedAs(buf, ihl, proto, Target, echo, 8, n)
  <2>1. 20 + 8 \in Unsigned16 /\ 8 \in Nat
    BY DEF Unsigned16, Word
  <2>2. Target \in Address
    BY SynPacketsAssumption
  <2>. QED  BY <1>2, <1>3, <2>1, <2>2, ReceivedBytes
<1>. HIDE DEF buf
<1>5. /\ Bytes(buf, n) /\ Len(buf) = n
      /\ n >= 20 => HeaderLength(buf) = 4 * ihl /\ buf[10] = proto
      /\ 4 * ihl + 1 <= n => buf[4 * ihl + 1] = type
  <2>1. 1 \in 1..8
    OBVIOUS
  <2>. QED  BY <1>3, <1>4, <2>1 DEF ReceivedAs, Bytes
<1>6. CASE n < 20 \/ proto # ICMP \/ n < 4 * ihl
  <2>1. Len(buf) < 20 \/ buf[10] # ICMP \/ Len(buf) < HeaderLength(buf)
    <3>1. CASE n < 20
      BY <1>5, <3>1
    <3>2. CASE ~(n < 20)
      <4>1. n >= 20
        BY <3>2
      <4>. QED  BY <1>5, <1>6, <4>1
    <3>. QED  BY <3>1, <3>2
  <2>2. rest = <<>>
    BY <2>1, Zenon DEF StripIpv4
  <2>3. ~IsEchoReply(buf)
    BY <2>2 DEF IsEchoReply
  <2>4. ~(proto = ICMP /\ n > 4 * ihl)
    BY <1>6
  <2>. QED  BY <2>3, <2>4 DEF buf, echo, built
<1>7. CASE n >= 20 /\ proto = ICMP /\ n >= 4 * ihl
  <2>. DEFINE h == 4 * ihl
  <2>1. h \in Nat /\ n \in Nat /\ h <= n /\ h + 1 \in Int
    BY <1>7
  <2>2. rest = SubSeq(buf, h + 1, n)
    BY <1>5, <1>7 DEF StripIpv4
  <2>3. \A i \in (h + 1)..n : buf[i] \in Byte
    <3>1. \A i \in (h + 1)..n : i \in 1..n
      BY <2>1
    <3>. QED  BY <1>5, <2>1, <3>1, BytesAre
  <2>4. /\ SubSeq(buf, h + 1, n) \in Seq(Byte)
        /\ Len(SubSeq(buf, h + 1, n)) = IF h + 1 <= n THEN n - (h + 1) + 1 ELSE 0
        /\ \A i \in 1..(n - (h + 1) + 1) : SubSeq(buf, h + 1, n)[i] = buf[h + 1 + i - 1]
    <3>. DEFINE from == h + 1
    <3>1. from \in Int /\ n \in Int /\ \A i \in from..n : buf[i] \in Byte
      BY <2>1, <2>3
    <3>. HIDE DEF from
    <3>2. /\ SubSeq(buf, from, n) \in Seq(Byte)
          /\ Len(SubSeq(buf, from, n)) = IF from <= n THEN n - from + 1 ELSE 0
          /\ \A i \in 1..(n - from + 1) : SubSeq(buf, from, n)[i] = buf[from + i - 1]
      BY <3>1, SubSeqProperties
    <3>. QED  BY <3>2 DEF from
  <2>5. CASE n = h
    <3>1. Len(rest) = 0 /\ rest \in Seq(Byte)
      BY <2>1, <2>2, <2>4, <2>5
    <3>2. rest = <<>>
      BY <3>1, EmptySeq
    <3>3. ~IsEchoReply(buf)
      BY <3>2 DEF IsEchoReply
    <3>4. ~(n > 4 * ihl)
      BY <2>5
    <3>. QED  BY <3>3, <3>4 DEF buf, echo, built
  <2>6. CASE n > h
    <3>1. 1 \in 1..(n - (h + 1) + 1) /\ h + 1 + 1 - 1 = h + 1 /\ h + 1 <= n /\ n - (h + 1) + 1 # 0
      BY <2>1, <2>6
    <3>2. Len(rest) # 0 /\ rest[1] = buf[h + 1] /\ rest \in Seq(Byte)
      BY <2>2, <2>4, <3>1
    <3>3. rest # <<>> /\ rest[1] = type
      BY <1>5, <3>1, <3>2, EmptySeq
    <3>4. IsEchoReply(buf) <=> type = EchoReply
      BY <3>3 DEF IsEchoReply
    <3>. QED  BY <1>7, <2>6, <3>4 DEF buf, echo, built
  <2>. QED  BY <2>1, <2>5, <2>6
<1>. QED  BY <1>6, <1>7

(* What a probe and a ping read of the bytes they receive is right.        *)
LEMMA ReceivedIsRead == PacketsRecognised
<1>. DEFINE seq == CHOOSE q \in SeqNumbers : TRUE
<1>1. seq \in SeqNumbers
  BY SynPacketsAssumption, Zenon
<1>. HIDE DEF seq
<1>2. ASSUME NEW ihl \in {5, 6, 15}, NEW p \in Ports, NEW s \in Segment, NEW proto \in {TCP, ICMP},
             NEW n \in {0, 19, 20, 4 * ihl + 13, 4 * ihl + 19, 4 * ihl + 20}
      PROVE  ReadingOfBytes(p, Received(ihl, proto, From(s), SegmentBytes(s, seq), n))
                 = IF proto = TCP /\ n = 4 * ihl + 20 THEN Reading(p, s) ELSE "looping"
  <2>1. ihl \in 5..15 /\ n \in 0..(4 * ihl + 20)
    OBVIOUS
  <2>. QED  BY <1>1, <2>1, SegmentIsRead
<1>3. ASSUME NEW ihl \in {5, 6, 15}, NEW type \in {EchoReply, EchoRequest},
             NEW proto \in {TCP, ICMP}, NEW n \in 18..4 * ihl + 8
      PROVE  LET echo == [BuildIcmpEcho(1, 1, <<>>) EXCEPT ![1] = type]
             IN IsEchoReply(Received(ihl, proto, Target, echo, n))
                    <=> proto = ICMP /\ type = EchoReply /\ n > 4 * ihl
  <2>1. ihl \in 5..15 /\ n \in 0..(4 * ihl + 8)
    OBVIOUS
  <2>. QED  BY <2>1, EchoIsRead
<1>. DEFINE Sought(ihl, p, s, proto, n) ==
                LET tcp == SegmentBytes(s, CHOOSE q \in SeqNumbers : TRUE)
                    from == IF s.from = "target" THEN Target ELSE Stranger
                IN ReadingOfBytes(p, Received(ihl, proto, from, tcp, n))
                       = IF proto = TCP /\ n = 4 * ihl + 20 THEN Reading(p, s) ELSE "looping"
            Heard(ihl, type, proto, n) ==
                LET echo == [BuildIcmpEcho(1, 1, <<>>) EXCEPT ![1] = type]
                IN IsEchoReply(Received(ihl, proto, Target, echo, n))
                       <=> proto = ICMP /\ type = EchoReply /\ n > 4 * ihl
<1>4. \A ihl \in {5, 6, 15} : \A p \in Ports, s \in Segment, proto \in {TCP, ICMP},
          n \in {0, 19, 20, 4 * ihl + 13, 4 * ihl + 19, 4 * ihl + 20} :
              Sought(ihl, p, s, proto, n)
  BY <1>2, Zenon DEF From, seq
<1>5. \A ihl \in {5, 6, 15} : \A type \in {EchoReply, EchoRequest}, proto \in {TCP, ICMP},
          n \in 18..4 * ihl + 8 : Heard(ihl, type, proto, n)
  BY <1>3, Zenon
<1>6. (\A ihl \in {5, 6, 15} :
           /\ \A p \in Ports, s \in Segment, proto \in {TCP, ICMP},
                 n \in {0, 19, 20, 4 * ihl + 13, 4 * ihl + 19, 4 * ihl + 20} :
                     Sought(ihl, p, s, proto, n)
           /\ \A type \in {EchoReply, EchoRequest}, proto \in {TCP, ICMP},
                 n \in 18..4 * ihl + 8 : Heard(ihl, type, proto, n))
      => PacketsRecognised
  BY Zenon DEF PacketsRecognised
<1>. HIDE DEF Sought, Heard
<1>. QED  BY <1>4, <1>5, <1>6, Zenon

(* Probes and pings send packets that no receiver drops for a wrong        *)
(* checksum (syn.rs:97-171, discovery.rs:174-184), for every choice of     *)
(* addresses, ports, sequence numbers and payloads.                        *)
THEOREM SentPacketsVerify == Spec => []ChecksumsVerify
  BY TypeCorrect, SentIsSound, PTL

(* A probe reads out of the bytes it receives what SynScan says, with IP   *)
(* options and without, and of a packet that is cut off nothing; a ping    *)
(* knows an echo reply by its first byte (syn.rs:173-206,                  *)
(* discovery.rs:186-201).                                                  *)
THEOREM ReceivedPacketsRecognised == Spec => []PacketsRecognised
  BY ReceivedIsRead, PTL
=============================================================================
