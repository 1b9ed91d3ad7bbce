---------------------------- MODULE ScanPromise ----------------------------
(***************************************************************************)
(* What a run of rnmap promises to whoever reads its report, without       *)
(* tasks, permits, retries or fallbacks: the targets are reported one by   *)
(* one, in the order they were given; a host that is up comes with its     *)
(* rows sorted by port, one for every port asked for, and no row claims    *)
(* more than the host answered; the report is published when it covers     *)
(* every target and never before.                                          *)
(*                                                                         *)
(* Two circumstances weaken the promise and are variables fixed at the     *)
(* start: in a lossy run a row may be missing, a fragile run may die       *)
(* before anything is published.                                           *)
(***************************************************************************)
EXTENDS Integers, Sequences

CONSTANTS
    NumTargets,  \* targets on the command line, after expansion
    PortSpec,    \* the ports to scan, in the order the user's spec gives
    Truth        \* Truth[t][p]: how port p of target t answers a probe

VARIABLES
    hosts,       \* the report so far
    outcome,     \* "running", "reported" or "aborted"
    lossy,       \* may a row go missing?
    fragile      \* may the run die?

vars == <<hosts, outcome, lossy, fragile>>

Ports == {PortSpec[i] : i \in DOMAIN PortSpec}

PortStates == {"open", "closed", "filtered"}

(***************************************************************************)
(* A row tells what the port answered, or "filtered" when no answer was    *)
(* heard; only an open port has a service.                                 *)
(***************************************************************************)
HonestRow(t, row) ==
    /\ row.port \in Ports
    /\ row.state \in PortStates
    /\ row.state # "filtered" => row.state = Truth[t][row.port]
    /\ row.service => row.state = "open"

StrictlySorted(rows) ==
    \A i, j \in DOMAIN rows : i < j => rows[i].port < rows[j].port

CoversAllPorts(rows) ==
    \A p \in Ports : \E i \in DOMAIN rows : rows[i].port = p

Promised(t, entry) ==
    /\ entry.target = t
    /\ entry.state # "up" => entry.ports = << >>
    /\ \A i \in DOMAIN entry.ports : HonestRow(t, entry.ports[i])
    /\ StrictlySorted(entry.ports)
    /\ (entry.state = "up" /\ ~lossy) => CoversAllPorts(entry.ports)

-----------------------------------------------------------------------------
Init ==
    /\ hosts = << >>
    /\ outcome = "running"
    /\ lossy \in BOOLEAN
    /\ fragile \in BOOLEAN

ReportHost ==
    /\ outcome = "running"
    /\ Len(hosts) < NumTargets
    /\ Len(hosts') = Len(hosts) + 1
    /\ \A i \in DOMAIN hosts : hosts'[i] = hosts[i]
    /\ Promised(Len(hosts) + 1, hosts'[Len(hosts) + 1])
    /\ UNCHANGED <<outcome, lossy, fragile>>

Publish ==
    /\ outcome = "running"
    /\ Len(hosts) = NumTargets
    /\ outcome' = "reported"
    /\ UNCHANGED <<hosts, lossy, fragile>>

Die ==
    /\ outcome = "running"
    /\ fragile
    /\ outcome' = "aborted"
    /\ UNCHANGED <<hosts, lossy, fragile>>

Next == ReportHost \/ Publish \/ Die

Spec == Init /\ [][Next]_vars
=============================================================================
