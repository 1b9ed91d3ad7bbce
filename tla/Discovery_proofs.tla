------------------------- MODULE Discovery_proofs -------------------------
(***************************************************************************)
(* Proofs about Discovery, for every list of targets, every ping list and  *)
(* every network: the TCP ping finds up exactly the targets that answered. *)
(***************************************************************************)
EXTENDS Discovery, TLAPS

USE BoundsAssumption

(* Where the ping is: one of the mode's own, at a target of the list; only *)
(* judged targets and the one being pinged have been heard of.             *)
LoopInv ==
    /\ pc = "tcp" => mode = "tcp"
    /\ pc = "icmp" => mode = "icmp"
    /\ pc # "next" => Current \in Targets
    /\ \A t \in heard : t <= Current

(* any_rst says whether the target has answered on a port tried so far;    *)
(* who has been heard of, and nobody else, has been found up.              *)
HeardInv ==
    mode = "tcp" =>
        /\ pc = "tcp" => (anyRst <=> Current \in heard)
        /\ pc = "next" => Current \notin heard
        /\ \A t \in DOMAIN states : states[t] # "unknown" /\ (states[t] = "up" <=> t \in heard)

(* The type invariant without the Boolean variable, which the provers      *)
(* handle apart.                                                           *)
TypeRest ==
    /\ mode \in {"tcp", "icmp"}
    /\ pc \in {"next", "tcp", "icmp"}
    /\ tried \in 0..PingPorts
    /\ flying \subseteq Packet
    /\ inbox \in Seq(Packet)
    /\ strange \in 0..StrangeMax
    /\ states \in Seq({"up", "down", "unknown"})
    /\ Len(states) <= NumTargets
    /\ heard \subseteq Targets
    /\ disturbed \subseteq Targets

(* The two parts make up the type invariant.                               *)
LEMMA TypeSplit == TypeRest /\ anyRst \in BOOLEAN => TypeOK
  BY Zenon DEF TypeOK, TypeRest

Sound == TypeRest /\ anyRst \in BOOLEAN /\ LoopInv /\ HeardInv

(* Nobody has been pinged, heard of or judged at first.                    *)
LEMMA SoundInit == Init => Sound
  <1> SUFFICES ASSUME Init PROVE Sound
      OBVIOUS
  <1>1. TypeRest
      BY DEF Init, TypeRest
  <1>4. anyRst \in BOOLEAN
      BY DEF Init
  <1>2. LoopInv
      BY DEF Init, LoopInv
  <1>3. HeardInv
      BY DEF Init, HeardInv
  <1> QED BY <1>1, <1>2, <1>3, <1>4 DEF Sound

(* A judgement adds the current target's outcome and leaves the earlier    *)
(* ones alone.                                                             *)
LEMMA JudgeFacts ==
    ASSUME TypeRest, NEW state \in {"up", "down", "unknown"}, Judge(state), Current \in Targets
    PROVE  /\ states' \in Seq({"up", "down", "unknown"})
           /\ Len(states') <= NumTargets
           /\ Current' = Current + 1 /\ Current \in Nat
           /\ DOMAIN states' = DOMAIN states \cup {Current}
           /\ states'[Current] = state
           /\ \A t \in DOMAIN states : states'[t] = states[t] /\ t # Current
           /\ pc' = "next" /\ inbox' = << >>
  <1>1. states \in Seq({"up", "down", "unknown"}) /\ states' = Append(states, state)
      BY DEF TypeRest, Judge
  <1>2. Len(states) \in Nat /\ Current = Len(states) + 1 /\ Len(states) + 1 <= NumTargets
      BY <1>1 DEF Current, Targets
  <1>3. DOMAIN states = 1..Len(states) /\ DOMAIN states' = 1..(Len(states) + 1)
      BY <1>1, <1>2
  <1>4. Len(states') = Len(states) + 1 /\ states' \in Seq({"up", "down", "unknown"})
      BY <1>1
  <1>5. states'[Len(states) + 1] = state /\ \A t \in 1..Len(states) : states'[t] = states[t]
      BY <1>1
  <1>6. Current' = Current + 1
      BY <1>2, <1>4 DEF Current
  <1> QED BY <1>2, <1>3, <1>4, <1>5, <1>6 DEF Judge

(* A judgement keeps the types.                                            *)
LEMMA JudgedType ==
    ASSUME TypeRest, NEW state \in {"up", "down", "unknown"}, Judge(state), Current \in Targets,
           heard' \subseteq heard \cup {Current},
           mode' = mode, tried' = tried, flying' = flying, strange' = strange,
           disturbed' = disturbed
    PROVE  TypeRest'
  <1>0. inbox' = << >> /\ << >> \in Seq(Packet)
      BY JudgeFacts
  <1>1. inbox' \in Seq(Packet)
      BY <1>0
  <1>4. heard' \subseteq Targets
      BY DEF TypeRest
  <1>2. pc' \in {"next", "tcp", "icmp"}
      BY JudgeFacts
  <1>3. states' \in Seq({"up", "down", "unknown"}) /\ Len(states') <= NumTargets
      BY JudgeFacts
  <1> QED BY <1>1, <1>2, <1>3, <1>4 DEF TypeRest

(* And so it leaves nobody heard of beyond the next target.                *)
LEMMA JudgedLoop ==
    ASSUME TypeRest, LoopInv, NEW state \in {"up", "down", "unknown"}, Judge(state),
           Current \in Targets, heard' \subseteq heard \cup {Current}
    PROVE  LoopInv'
  <1>1. Current' = Current + 1 /\ Current \in Nat /\ pc' = "next"
      BY JudgeFacts
  <1>2. heard \subseteq Nat /\ \A t \in heard : t <= Current
      BY DEF TypeRest, LoopInv, Targets
  <1>3. \A t \in heard' : t <= Current'
      BY <1>1, <1>2
  <1> QED BY <1>1, <1>3 DEF LoopInv

(* Every step of a ping keeps Sound.                                       *)
LEMMA SoundPing == Sound /\ Ping => Sound'
  <1> SUFFICES ASSUME Sound, Ping PROVE Sound'
      OBVIOUS
  <1>b. anyRst' \in BOOLEAN
      BY DEF Sound, Ping, PingMoves, IcmpBreaks, StartTcp, TcpAccepted, TcpRefused, TcpUnanswered, TcpTriedAll,
             IcmpFails, IcmpRequest, IcmpReceive, IcmpTimesOut, FreshRst
  <1> USE DEF Sound
  <1>0. Current \in Nat /\ Current = Len(states) + 1 /\ DOMAIN states = 1..Len(states)
      BY DEF Current, TypeRest
  <1>1. CASE StartTcp
    <2>1. anyRst' = FALSE /\ UNCHANGED <<states, heard, mode>> /\ pc = "next" /\ pc' = "tcp"
          /\ mode = "tcp" /\ Current \in Targets /\ tried' = 0
        BY <1>1 DEF StartTcp, FreshRst
    <2>2. Current' = Current
        BY <2>1 DEF Current
    <2>3. TypeRest' /\ LoopInv'
        BY <1>1, <2>1, <2>2 DEF StartTcp, TypeRest, LoopInv
    <2>4. HeardInv'
        BY <2>1, <2>2 DEF HeardInv
    <2> QED BY <1>b, <2>3, <2>4
  <1>2. CASE TcpAccepted
    <2>1. /\ Current \in Targets /\ Judge("up") /\ heard' = heard \cup {Current} /\ mode = "tcp"
          /\ UNCHANGED <<mode, tried, anyRst, flying, strange, disturbed>>
        BY <1>2 DEF TcpAccepted, LoopInv
    <2>2. TypeRest' /\ LoopInv'
      <3>1. TypeRest'
          BY <2>1, JudgedType
      <3>2. LoopInv'
          BY <2>1, JudgedLoop
      <3> QED BY <3>1, <3>2
    <2>3. HeardInv'
      <3>1. \A t \in DOMAIN states' : states'[t] # "unknown" /\ (states'[t] = "up" <=> t \in heard')
          BY <2>1, JudgeFacts DEF HeardInv
      <3>2. Current' \notin heard'
          BY <1>0, <2>1, JudgeFacts DEF LoopInv
      <3> QED BY <2>1, <3>1, <3>2, JudgeFacts DEF HeardInv
    <2> QED BY <1>b, <2>2, <2>3
  <1>3. CASE TcpRefused
    <2>1. /\ anyRst' = TRUE /\ UNCHANGED <<mode, pc, flying, inbox, strange, states, disturbed>>
          /\ heard' = heard \cup {Current} /\ tried < PingPorts /\ tried' = tried + 1 /\ pc = "tcp"
          /\ Current \in Targets
        BY <1>3 DEF TcpRefused, LoopInv
    <2>2. Current' = Current
        BY <2>1 DEF Current
    <2>3. TypeRest' /\ LoopInv'
      <3>1. tried' \in 0..PingPorts /\ heard' \subseteq Targets
          BY <2>1 DEF TypeRest
      <3>2. TypeRest'
          BY <2>1, <3>1 DEF TypeRest
      <3>3. \A t \in heard' : t <= Current'
          BY <1>0, <2>1, <2>2 DEF LoopInv
      <3>4. LoopInv'
          BY <2>1, <2>2, <3>3 DEF LoopInv
      <3> QED BY <3>2, <3>4
    <2>4. Current \notin DOMAIN states
        BY <1>0
    <2>5. HeardInv'
        BY <2>1, <2>2, <2>4 DEF HeardInv
    <2> QED BY <1>b, <2>3, <2>5
  <1>4. CASE TcpUnanswered
    <2>1. /\ UNCHANGED <<mode, pc, anyRst, flying, inbox, strange, states, heard, disturbed>>
          /\ tried < PingPorts /\ tried' = tried + 1
        BY <1>4 DEF TcpUnanswered
    <2>2. Current' = Current
        BY <2>1 DEF Current
    <2>3. TypeRest' /\ LoopInv' /\ HeardInv'
        BY <2>1, <2>2 DEF TypeRest, LoopInv, HeardInv
    <2> QED BY <1>b, <2>3
  <1>5. CASE TcpTriedAll
    <2>1. /\ pc = "tcp" /\ mode = "tcp" /\ Current \in Targets
          /\ UNCHANGED <<mode, tried, anyRst, flying, strange, heard, disturbed>>
        BY <1>5 DEF TcpTriedAll, LoopInv
    <2>2. PICK state \in {"up", "down"} : Judge(state) /\ (state = "up" <=> Current \in heard)
      <3>1. CASE anyRst
          BY <1>5, <2>1, <3>1 DEF TcpTriedAll, HeardInv
      <3>2. CASE ~anyRst
          BY <1>5, <2>1, <3>2 DEF TcpTriedAll, HeardInv
      <3> QED BY <3>1, <3>2
    <2>3. TypeRest' /\ LoopInv'
      <3>1. TypeRest'
          BY <2>1, <2>2, JudgedType
      <3>2. LoopInv'
          BY <2>1, <2>2, JudgedLoop
      <3> QED BY <3>1, <3>2
    <2>4. HeardInv'
      <3>1. \A t \in DOMAIN states' : states'[t] # "unknown" /\ (states'[t] = "up" <=> t \in heard')
          BY <2>1, <2>2, JudgeFacts DEF HeardInv
      <3>2. Current' \notin heard'
          BY <1>0, <2>1, <2>2, JudgeFacts DEF LoopInv
      <3> QED BY <2>1, <2>2, <3>1, <3>2, JudgeFacts DEF HeardInv
    <2> QED BY <1>b, <2>3, <2>4
  <1>6. CASE IcmpFails \/ IcmpBreaks \/ IcmpReceive \/ IcmpTimesOut
    <2>1. /\ mode = "icmp" /\ Current \in Targets
          /\ UNCHANGED <<mode, tried, anyRst, flying, strange, heard, disturbed>>
        BY <1>6 DEF IcmpFails, IcmpBreaks, IcmpReceive, IcmpTimesOut, LoopInv
    <2>2. PICK state \in {"up", "down", "unknown"} : Judge(state)
        BY <1>6 DEF IcmpFails, IcmpBreaks, IcmpReceive, IcmpTimesOut
    <2>3. TypeRest' /\ LoopInv'
      <3>1. TypeRest'
          BY <2>1, <2>2, JudgedType
      <3>2. LoopInv'
          BY <2>1, <2>2, JudgedLoop
      <3> QED BY <3>1, <3>2
    <2>4. HeardInv'
        BY <2>1 DEF HeardInv
    <2> QED BY <1>b, <2>3, <2>4
  <1>7. CASE IcmpRequest
    <2>1. /\ mode = "icmp" /\ Current \in Targets /\ pc' = "icmp"
          /\ UNCHANGED <<mode, tried, anyRst, inbox, strange, states, heard, disturbed>>
          /\ flying' = flying \cup {[from |-> t, reply |-> TRUE] : t \in Alive \cap {Current}}
        BY <1>7 DEF IcmpRequest
    <2>2. Current' = Current
        BY <2>1 DEF Current
    <2>3. flying' \subseteq Packet
      <3>1. \A t \in Targets : [from |-> t, reply |-> TRUE] \in Packet
          BY DEF Packet
      <3>2. {[from |-> t, reply |-> TRUE] : t \in Alive \cap {Current}} \subseteq Packet
          BY <2>1, <3>1
      <3> QED BY <2>1, <3>2 DEF TypeRest
    <2>4. TypeRest' /\ LoopInv' /\ HeardInv'
        BY <2>1, <2>2, <2>3 DEF TypeRest, LoopInv, HeardInv
    <2> QED BY <1>b, <2>4
  <1> QED BY <1>1, <1>2, <1>3, <1>4, <1>5, <1>6, <1>7 DEF Ping, PingMoves

(* What arrives, or is lost, touches no judgement.                         *)
LEMMA SoundNetwork == Sound /\ (Arrives \/ StrangeArrives \/ UNCHANGED vars) => Sound'
  <1> SUFFICES ASSUME Sound, Arrives \/ StrangeArrives \/ UNCHANGED vars PROVE Sound'
      OBVIOUS
  <1> USE DEF Sound
  <1>1. /\ UNCHANGED <<mode, pc, tried, anyRst, states>>
        /\ heard' = heard \/ (pc = "icmp" /\ heard' \subseteq heard \cup {Current})
      BY DEF Arrives, StrangeArrives, vars
  <1>2. Current' = Current /\ Current \in Nat
      BY <1>1 DEF Current, TypeRest
  <1>3. LoopInv' /\ HeardInv'
    <2>1. \A t \in heard' : t <= Current'
        BY <1>1, <1>2 DEF LoopInv
    <2>2. LoopInv'
        BY <1>1, <1>2, <2>1 DEF LoopInv
    <2>3. HeardInv'
        BY <1>1, <1>2 DEF HeardInv, LoopInv
    <2> QED BY <2>2, <2>3
  <1>5. heard' \subseteq Targets
      BY <1>1 DEF TypeRest, LoopInv
  <1>4. TypeRest'
    <2>1. CASE Arrives
      <3>1. inbox' \in Seq(Packet) /\ flying' \subseteq Packet
        <4>1. PICK packet \in flying :
                  /\ flying' = flying \ {packet}
                  /\ inbox' = Append(inbox, packet) \/ inbox' = inbox
            BY <2>1 DEF Arrives
        <4>2. flying \subseteq Packet /\ inbox \in Seq(Packet) /\ packet \in Packet
            BY Zenon DEF TypeRest
        <4>3. inbox' \in Seq(Packet)
            BY <4>1, <4>2
        <4> QED BY <4>1, <4>2, <4>3
      <3>2. UNCHANGED <<mode, pc, tried, strange, states, disturbed>>
          BY <2>1 DEF Arrives
      <3> QED BY <1>5, <3>1, <3>2 DEF TypeRest
    <2>2. CASE StrangeArrives
      <3>1. PICK reply \in BOOLEAN : inbox' = Append(inbox, [from |-> 0, reply |-> reply])
          BY <2>2 DEF StrangeArrives
      <3>2. [from |-> 0, reply |-> reply] \in Packet
          BY DEF Packet
      <3>3. inbox' \in Seq(Packet)
          BY <3>1, <3>2 DEF TypeRest
      <3>4. disturbed' \subseteq Targets
        <4>1. Current \in Targets /\ disturbed' \subseteq disturbed \cup {Current}
            BY <2>2 DEF StrangeArrives, LoopInv
        <4> QED BY <4>1 DEF TypeRest
      <3> QED BY <2>2, <3>3, <3>4 DEF StrangeArrives, TypeRest
    <2>3. CASE UNCHANGED vars
        BY <2>3 DEF vars, TypeRest
    <2> QED BY <2>1, <2>2, <2>3
  <1> QED BY <1>1, <1>3, <1>4

(* Types and the knowledge of the loop are inductive together.             *)
THEOREM SoundInvariant == Spec => []Sound
  <1>1. Sound /\ [Next]_vars => Sound'
      BY SoundPing, SoundNetwork DEF Next, AllJudged
  <1> QED BY <1>1, SoundInit, PTL DEF Spec

(* The type invariant of Discovery.                                        *)
THEOREM TypeCorrect == Spec => []TypeOK
  <1>1. Sound => TypeOK
      BY TypeSplit DEF Sound
  <1> QED BY <1>1, SoundInvariant, PTL

(* tcp_ping finds a target up exactly when that target answered on a port  *)
(* of the list (discovery.rs:22-61), whatever the targets before it did.   *)
THEOREM TcpPingSound == Spec => []TcpPingTellsTruth
  <1>1. Sound => TcpPingTellsTruth
      BY DEF Sound, HeardInv, TcpPingTellsTruth
  <1> QED BY <1>1, SoundInvariant, PTL

-----------------------------------------------------------------------------
(* What the inbox of a ping holds: the target's own reply once it has been *)
(* heard of, and another packet than a reply at its head only if that      *)
(* disturbed this very ping.                                               *)
InboxInv ==
    mode = "icmp" =>
        /\ \A p \in flying : p.reply = TRUE
        /\ pc = "next" => Current \notin heard /\ inbox = << >>
        /\ (inbox # << >> /\ inbox[1].reply # TRUE) => Current \in disturbed
        /\ (pc = "icmp" /\ Current \in heard) => inbox # << >>
        /\ \A t \in DOMAIN states : (t \in heard /\ states[t] = "down") => t \in disturbed

(* A ping that ends keeps it, if it does not find its target down in spite *)
(* of a reply, except when it was disturbed.                               *)
LEMMA JudgedInbox ==
    ASSUME Sound, InboxInv, NEW state \in {"up", "down", "unknown"}, Judge(state),
           Current \in Targets, UNCHANGED <<mode, flying, heard, disturbed>>,
           (mode = "icmp" /\ Current \in heard /\ state = "down") => Current \in disturbed
    PROVE  InboxInv'
  <1> SUFFICES ASSUME mode = "icmp" PROVE InboxInv'
      BY DEF InboxInv
  <1>1. TypeRest
      BY DEF Sound
  <1>2. Current' \notin heard'
    <2>1. Current' = Current + 1 /\ Current \in Nat
        BY <1>1, JudgeFacts
    <2> QED BY <2>1 DEF Sound, LoopInv
  <1>3. \A t \in DOMAIN states' : (t \in heard' /\ states'[t] = "down") => t \in disturbed'
      BY <1>1, JudgeFacts DEF InboxInv
  <1>4. inbox' = << >> /\ pc' = "next"
      BY DEF Judge
  <1> QED BY <1>2, <1>3, <1>4 DEF InboxInv

(* Every step keeps the knowledge of the inbox.                            *)
LEMMA InboxStep == Sound /\ InboxInv /\ [Next]_vars => InboxInv'
  <1> SUFFICES ASSUME Sound, InboxInv, [Next]_vars PROVE InboxInv'
      OBVIOUS
  <1>0. mode' = mode
      BY DEF Next, Ping, PingMoves, IcmpBreaks, StartTcp, TcpAccepted, TcpRefused, TcpUnanswered,
             TcpTriedAll, IcmpFails, IcmpRequest, IcmpReceive, IcmpTimesOut, Arrives,
             StrangeArrives, AllJudged, vars
  <1> SUFFICES ASSUME mode = "icmp" PROVE InboxInv'
      BY <1>0 DEF InboxInv
  <1>t. TypeRest /\ LoopInv
      BY DEF Sound
  <1>1. CASE StartTcp \/ TcpAccepted \/ TcpRefused \/ TcpUnanswered \/ TcpTriedAll
      BY <1>1, <1>t DEF StartTcp, TcpAccepted, TcpRefused, TcpUnanswered, TcpTriedAll, LoopInv
  <1>2. CASE IcmpFails \/ IcmpBreaks
    <2>1. Judge("unknown") /\ Current \in Targets /\ UNCHANGED <<mode, flying, heard, disturbed>>
        BY <1>2, <1>t DEF IcmpFails, IcmpBreaks, LoopInv
    <2> QED BY <2>1, JudgedInbox
  <1>3. CASE IcmpRequest
    <2>1. /\ pc = "next" /\ pc' = "icmp" /\ UNCHANGED <<inbox, states, heard, disturbed>>
          /\ flying' = flying \cup {[from |-> t, reply |-> TRUE] : t \in Alive \cap {Current}}
        BY <1>3 DEF IcmpRequest
    <2>2. Current' = Current
        BY <2>1 DEF Current
    <2>3. \A p \in flying' : p.reply = TRUE
        BY <2>1 DEF InboxInv
    <2> QED BY <2>1, <2>2, <2>3 DEF InboxInv
  <1>4. CASE IcmpReceive
    <2>1. /\ pc = "icmp" /\ inbox # << >> /\ Current \in Targets
          /\ UNCHANGED <<mode, flying, heard, disturbed>>
        BY <1>4, <1>t DEF IcmpReceive, LoopInv
    <2>2. inbox \in Seq(Packet)
        BY <1>t DEF TypeRest
    <2>3. Head(inbox) = inbox[1] /\ 1 \in DOMAIN inbox
        BY <2>1, <2>2
    <2>4. CASE Head(inbox).reply
      <3>1. Judge("up")
          BY <1>4, <2>4 DEF IcmpReceive
      <3> QED BY <2>1, <3>1, JudgedInbox
    <2>5. CASE ~Head(inbox).reply
      <3>1. Judge("down")
          BY <1>4, <2>5 DEF IcmpReceive
      <3>2. Current \in disturbed
          BY <2>1, <2>3, <2>5 DEF InboxInv
      <3> QED BY <2>1, <3>1, <3>2, JudgedInbox
    <2> QED BY <2>4, <2>5
  <1>5. CASE IcmpTimesOut
    <2>1. /\ Judge("down") /\ Current \in Targets /\ pc = "icmp" /\ inbox = << >>
          /\ UNCHANGED <<mode, flying, heard, disturbed>>
        BY <1>5, <1>t DEF IcmpTimesOut, LoopInv
    <2>2. Current \notin heard
        BY <2>1 DEF InboxInv
    <2> QED BY <2>1, <2>2, JudgedInbox
  <1>6. CASE Arrives
    <2>1. PICK packet \in flying :
              /\ flying' = flying \ {packet}
              /\ \/ /\ pc = "icmp" /\ inbox' = Append(inbox, packet)
                    /\ heard' = heard \cup ({packet.from} \cap {Current})
                 \/ UNCHANGED <<inbox, heard>>
        BY <1>6 DEF Arrives
    <2>2. UNCHANGED <<pc, states, disturbed>> /\ Current' = Current /\ packet.reply = TRUE
        BY <1>6, <2>1 DEF Arrives, Current, InboxInv
    <2>3. inbox \in Seq(Packet) /\ packet \in Packet
        BY <1>t, <2>1 DEF TypeRest
    <2>4. CASE UNCHANGED <<inbox, heard>>
        BY <2>1, <2>2, <2>4 DEF InboxInv
    <2>5. CASE /\ pc = "icmp" /\ inbox' = Append(inbox, packet)
               /\ heard' = heard \cup ({packet.from} \cap {Current})
      <3>1. inbox' # << >> /\ (inbox'[1].reply # TRUE => Current \in disturbed)
        <4>1. CASE inbox = << >>
          <5>1. inbox'[1] = packet /\ inbox' # << >>
              BY <2>3, <2>5, <4>1
          <5> QED BY <2>2, <5>1
        <4>2. CASE inbox # << >>
          <5>1. inbox'[1] = inbox[1] /\ inbox' # << >>
              BY <2>3, <2>5, <4>2
          <5> QED BY <4>2, <5>1 DEF InboxInv
        <4> QED BY <4>1, <4>2
      <3>2. \A t \in DOMAIN states : t \in heard' => t \in heard
          BY <1>t, <2>5 DEF Current, TypeRest
      <3> QED BY <2>1, <2>2, <2>5, <3>1, <3>2 DEF InboxInv
    <2> QED BY <2>1, <2>4, <2>5
  <1>7. CASE StrangeArrives
    <2>1. PICK reply \in BOOLEAN :
              /\ inbox' = Append(inbox, [from |-> 0, reply |-> reply])
              /\ disturbed' = disturbed \cup {t \in {Current} : inbox = << >> /\ ~reply}
        BY <1>7 DEF StrangeArrives
    <2>2. UNCHANGED <<pc, flying, states, heard>> /\ Current' = Current /\ pc = "icmp"
        BY <1>7 DEF StrangeArrives, Current
    <2>3. inbox \in Seq(Packet) /\ [from |-> 0, reply |-> reply] \in Packet
        BY <1>t DEF TypeRest, Packet
    <2>4. inbox' # << >> /\ (inbox'[1].reply # TRUE => Current \in disturbed')
      <3>1. CASE inbox = << >>
        <4>1. inbox'[1] = [from |-> 0, reply |-> reply] /\ inbox' # << >>
            BY <2>1, <2>3, <3>1
        <4>2. inbox'[1].reply = reply
            BY <4>1
        <4> QED BY <2>1, <3>1, <4>1, <4>2
      <3>2. CASE inbox # << >>
        <4>1. inbox'[1] = inbox[1] /\ inbox' # << >>
            BY <2>1, <2>3, <3>2
        <4> QED BY <2>1, <3>2, <4>1 DEF InboxInv
      <3> QED BY <3>1, <3>2
    <2>5. \A t \in disturbed : t \in disturbed'
        BY <2>1
    <2> QED BY <2>2, <2>4, <2>5 DEF InboxInv
  <1>8. CASE UNCHANGED vars
      BY <1>8 DEF vars, Current, InboxInv
  <1> QED BY <1>1, <1>2, <1>3, <1>4, <1>5, <1>6, <1>7, <1>8
          DEF Next, Ping, PingMoves, AllJudged

(* icmp_ping hears the target it pings: a reply that arrives in time is    *)
(* passed over only for a foreign packet that this very ping received      *)
(* first (discovery.rs:115-131).                                           *)
THEOREM QuietPingSound == Spec => []QuietPingHears
  <1>1. Init => InboxInv
      BY DEF Init, InboxInv
  <1>2. InboxInv => QuietPingHears
      BY DEF InboxInv, QuietPingHears
  <1> QED BY <1>1, <1>2, InboxStep, SoundInvariant, PTL DEF Spec
=============================================================================
