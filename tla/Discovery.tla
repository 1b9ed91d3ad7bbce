----------------------------- MODULE Discovery -----------------------------
(***************************************************************************)
(* Host discovery, one target after the other (discovery.rs as main.rs     *)
(* calls it): the TCP ping, which tries the ports of a list until one      *)
(* accepts, and the ICMP ping, which sends one echo request on a raw       *)
(* socket and takes the first ICMP packet that socket receives.            *)
(*                                                                         *)
(* A raw ICMP socket receives every ICMP packet of the machine, so the     *)
(* network here keeps the replies to earlier targets, which may arrive     *)
(* late, and the packets that concern other programs.                      *)
(***************************************************************************)
EXTENDS Integers, Sequences

CONSTANTS
    NumTargets,
    PingPorts,   \* number of ports of the -PS list
    V6Targets,   \* targets with an IPv6 address
    Truth,       \* Truth[t][k]: how target t answers on its k-th ping port
    Alive,       \* the targets that answer an echo request
    StrangeMax   \* bound: ICMP packets of other programs in a behaviour

Targets == 1..NumTargets

ASSUME BoundsAssumption ==
    NumTargets \in Nat \ {0} /\ PingPorts \in Nat \ {0} /\ StrangeMax \in Nat
ASSUME NetworkAssumption ==
    /\ V6Targets \subseteq Targets /\ Alive \subseteq Targets \ V6Targets
    /\ Truth \in [Targets -> [1..PingPorts -> {"open", "closed", "silent"}]]

(* An ICMP packet: an echo reply (type 0) or another one, and its sender;  *)
(* 0 stands for the peers of other programs.                               *)
Packet == [from: Targets \cup {0}, reply: BOOLEAN]

VARIABLES
    mode,     \* "tcp" or "icmp", fixed from the start
    pc,       \* "next" before a target, else where its ping is
    tried,    \* ports of the list the TCP ping has gone through
    anyRst,   \* any_rst
    flying,   \* echo replies on their way
    inbox,    \* what the open ICMP socket has received
    strange,  \* packets of other programs so far
    states,   \* the outcome of each target judged so far
    heard,    \* history: targets whose answer came while they were pinged
    disturbed \* history: targets whose ping heard a packet of another program,
              \* no echo reply, before anything else

vars == <<mode, pc, tried, anyRst, flying, inbox, strange, states, heard, disturbed>>

Current == Len(states) + 1

-----------------------------------------------------------------------------
Init ==
    /\ mode \in {"tcp", "icmp"}
    /\ pc = "next"
    /\ tried = 0
    /\ anyRst = FALSE
    /\ flying = {}
    /\ inbox = << >>
    /\ strange = 0
    /\ states = << >>
    /\ heard = {}
    /\ disturbed = {}

(* Bug: one socket for all pings, and with it what was not read.           *)
JudgeKeepsInbox(state) ==
    /\ states' = Append(states, state)
    /\ pc' = "next"
    /\ inbox' = IF inbox = << >> THEN << >> ELSE Tail(inbox)

(* The socket is closed when the ping returns, whatever it holds.          *)
Judge(state) ==
    /\ states' = Append(states, state)
    /\ pc' = "next"
    /\ inbox' = << >>

(* Bug: any_rst declared once, outside the function.                       *)
StaleRst == anyRst

FreshRst == FALSE

StartTcp ==
    /\ pc = "next" /\ Current \in Targets /\ mode = "tcp"
    /\ pc' = "tcp"
    /\ tried' = 0
    /\ anyRst' = FreshRst
    /\ UNCHANGED <<mode, flying, inbox, strange, states, heard, disturbed>>

Answer == Truth[Current][tried + 1]

TcpAccepted ==
    /\ pc = "tcp" /\ tried < PingPorts
    /\ Answer = "open"
    /\ Judge("up")
    /\ heard' = heard \cup {Current}
    /\ UNCHANGED <<mode, tried, anyRst, flying, strange, disturbed>>

TcpRefused ==
    /\ pc = "tcp" /\ tried < PingPorts
    /\ Answer = "closed"
    /\ tried' = tried + 1
    /\ anyRst' = TRUE
    /\ heard' = heard \cup {Current}
    /\ UNCHANGED <<mode, pc, flying, inbox, strange, states, disturbed>>

(* Bug: one attempt beyond the last port of the list.                      *)
TcpOnceMore ==
    /\ pc = "tcp" /\ tried <= PingPorts
    /\ tried' = tried + 1
    /\ UNCHANGED <<mode, pc, anyRst, flying, inbox, strange, states, heard, disturbed>>

(* A timeout, or an error other than a refusal.                            *)
TcpUnanswered ==
    /\ pc = "tcp" /\ tried < PingPorts
    /\ tried' = tried + 1
    /\ UNCHANGED <<mode, pc, anyRst, flying, inbox, strange, states, heard, disturbed>>

TcpTriedAll ==
    /\ pc = "tcp" /\ tried = PingPorts
    /\ Judge(IF anyRst THEN "up" ELSE "down")
    /\ UNCHANGED <<mode, tried, anyRst, flying, strange, heard, disturbed>>

-----------------------------------------------------------------------------
(* No raw socket without privilege, no ICMPv6: main.rs notes the host as   *)
(* unknown.                                                                *)
IcmpFails ==
    /\ pc = "next" /\ Current \in Targets /\ mode = "icmp"
    /\ Judge("unknown")
    /\ UNCHANGED <<mode, tried, anyRst, flying, strange, heard, disturbed>>

(* So it does after an error of the send or the recv.                      *)
IcmpBreaks ==
    /\ pc = "icmp"
    /\ Judge("unknown")
    /\ UNCHANGED <<mode, tried, anyRst, flying, strange, heard, disturbed>>

IcmpRequest ==
    /\ pc = "next" /\ Current \in Targets /\ mode = "icmp"
    /\ Current \notin V6Targets
    /\ pc' = "icmp"
    /\ flying' = flying \cup {[from |-> t, reply |-> TRUE] : t \in Alive \cap {Current}}
    /\ UNCHANGED <<mode, tried, anyRst, inbox, strange, states, heard, disturbed>>

(* The one recv of the function: any echo reply is taken for the target's, *)
(* any other packet for silence; neither sender nor identifier is read.    *)
IcmpReceive ==
    /\ pc = "icmp" /\ inbox # << >>
    /\ Judge(IF Head(inbox).reply THEN "up" ELSE "down")
    /\ UNCHANGED <<mode, tried, anyRst, flying, strange, heard, disturbed>>

(* Bug: the socket is left without a read timeout.                         *)
IcmpWaitsForEver == FALSE /\ UNCHANGED vars

IcmpTimesOut ==
    /\ pc = "icmp" /\ inbox = << >>
    /\ Judge("down")
    /\ UNCHANGED <<mode, tried, anyRst, flying, strange, heard, disturbed>>

(* The network: a reply arrives, early or late, or is lost; without an     *)
(* open socket it goes nowhere.                                            *)
Arrives ==
    \E packet \in flying :
        /\ flying' = flying \ {packet}
        /\ \/ /\ pc = "icmp"
              /\ inbox' = Append(inbox, packet)
              /\ heard' = heard \cup ({packet.from} \cap {Current})
           \/ UNCHANGED <<inbox, heard>>
        /\ UNCHANGED <<mode, pc, tried, anyRst, strange, states, disturbed>>

(* Echo replies and other ICMP packets that other programs are waiting for *)
(* and, for a target of this machine, the request itself.                  *)
StrangeArrives ==
    /\ pc = "icmp" /\ strange < StrangeMax
    /\ strange' = strange + 1
    /\ \E reply \in BOOLEAN :
           /\ inbox' = Append(inbox, [from |-> 0, reply |-> reply])
           /\ disturbed' = disturbed \cup {t \in {Current} : inbox = << >> /\ ~reply}
    /\ UNCHANGED <<mode, pc, tried, anyRst, flying, states, heard>>

AllJudged == pc = "next" /\ Current \notin Targets /\ UNCHANGED vars

-----------------------------------------------------------------------------
(* What a ping comes to by itself, and what it may suffer.                 *)
PingMoves ==
    \/ StartTcp \/ TcpAccepted \/ TcpRefused \/ TcpUnanswered \/ TcpTriedAll
    \/ IcmpFails \/ IcmpRequest \/ IcmpReceive \/ IcmpTimesOut

Ping == PingMoves \/ IcmpBreaks

Next == Ping \/ Arrives \/ StrangeArrives \/ AllJudged

Spec == Init /\ [][Next]_vars

(* Every wait of a ping has a timeout; the network owes nothing, not even  *)
(* an error.                                                               *)
FairSpec == Spec /\ WF_vars(PingMoves)

-----------------------------------------------------------------------------
(***************************************************************************)
(* The type of the state.                                                  *)
(***************************************************************************)
TypeOK ==
    /\ mode \in {"tcp", "icmp"}
    /\ pc \in {"next", "tcp", "icmp"}
    /\ tried \in 0..PingPorts
    /\ anyRst \in BOOLEAN
    /\ flying \subseteq Packet
    /\ inbox \in Seq(Packet)
    /\ strange \in 0..StrangeMax
    /\ states \in Seq({"up", "down", "unknown"})
    /\ Len(states) <= NumTargets
    /\ heard \subseteq Targets
    /\ disturbed \subseteq Targets

(* "First success -> Up.  All RST -> Up (closed RST means stack            *)
(* responded).  All timeout -> Down." (discovery.rs:20): a TCP ping finds  *)
(* a target up exactly when the target itself answered on some port of the *)
(* list, whatever the order of the answers and whatever earlier targets    *)
(* did.                                                                    *)
TcpPingTellsTruth ==
    mode = "tcp" =>
        /\ \A t \in DOMAIN states : states[t] = "up" <=> t \in heard
        /\ \A t \in DOMAIN states : states[t] # "unknown"

(* One recv decides an ICMP ping (discovery.rs:115-131): a target whose    *)
(* echo reply arrived while its ping listened is judged down only if the   *)
(* first packet of this very ping came from another program, never for an  *)
(* early timeout, for the late reply of another target or for what an      *)
(* earlier ping left unread.                                               *)
QuietPingHears ==
    mode = "icmp" =>
        \A t \in DOMAIN states : (t \in heard /\ states[t] = "down") => t \in disturbed

(* Discovery reaches the last target: no answer, late answer or stream of  *)
(* foreign packets holds main.rs up at a target for ever.                  *)
EveryTargetJudged == <>(Len(states) = NumTargets)

(* "Result of probing a single host." (discovery.rs:12): a target whose    *)
(* outcome is up after an ICMP ping does answer echo requests.             *)
EchoUpMeansAlive ==
    mode = "icmp" => \A t \in DOMAIN states : states[t] = "up" => t \in Alive
=============================================================================
