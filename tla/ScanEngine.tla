---------------------------- MODULE ScanEngine ----------------------------
(***************************************************************************)
(* The scan loop of main.rs: for every target in turn, discovery, one      *)
(* spawned task per port gated by a semaphore, the join loop, the sort,    *)
(* service detection and the push into the report; inside a task, the      *)
(* outcomes of the SYN probe, the fallback to connect() and the retry loop *)
(* of scan/connect.rs.                                                     *)
(*                                                                         *)
(* A target is its position on the expanded command line and a task its    *)
(* position in the port specification, which is also its position in       *)
(* `futs`.  The network is Truth, which says how each port would answer,   *)
(* and the freedom of every attempt to hear nothing.                       *)
(***************************************************************************)
EXTENDS Integers, Sequences, FiniteSets, Functions

CONSTANTS
    NumTargets,       \* targets.addrs.len()
    PortSpec,         \* port_spec.ports
    V6Targets,        \* the targets whose address is IPv6
    MaxRetries,       \* timing.max_retries
    ParallelChoices,  \* the values -c / the timing template may give
    Truth             \* Truth[t][p] \in {"open", "closed", "silent"}

Targets == 1..NumTargets
Tasks == 1..Len(PortSpec)
Ports == {PortSpec[i] : i \in Tasks}

(* TargetSpec::parse_many and PortSpec::parse refuse empty lists, and the  *)
(* ports are distinct; top_ports::top_n gives them unsorted.               *)
ASSUME TargetsAssumption == NumTargets \in Nat \ {0} /\ V6Targets \subseteq Targets
ASSUME PortsAssumption ==
    /\ PortSpec \in Seq(Nat)
    /\ Len(PortSpec) > 0
    /\ \A i, j \in Tasks : PortSpec[i] = PortSpec[j] => i = j
ASSUME TimingAssumption == MaxRetries \in Nat /\ ParallelChoices \subseteq Nat
ASSUME TruthAssumption == Truth \in [Targets -> [Ports -> {"open", "closed", "silent"}]]

VARIABLES
    opts,     \* the command line and the state of stderr, fixed from the start
    pc,       \* where main is
    at,       \* how far main's current loop over ports or rows has come
    permits,  \* free permits of the semaphore
    task,     \* task[i]: what the task of PortSpec[i] is doing
    tries,    \* tries[i]: connect() attempts of that task that have failed
    verdict,  \* verdict[i]: the port state it returned
    results,  \* port_results
    hosts     \* the report so far

vars == <<opts, pc, at, permits, task, tries, verdict, results, hosts>>

Options == [ syn: BOOLEAN,                          \* -sS
             sV: BOOLEAN,                           \* -sV
             ping: {"Pn", "PE", "PS", "badPS"},     \* badPS: -PS with a bad list
             parallel: ParallelChoices,             \* max_parallel
             verbose: BOOLEAN,                      \* -v
             stderr: BOOLEAN ]                      \* does every eprintln! manage to write?

Row == [port: Ports, state: {"open", "closed", "filtered"}, service: BOOLEAN]

Entry == [target: Targets, state: {"up", "down", "unknown"}, ports: Seq(Row)]

Current == Len(hosts) + 1

(* A task holds its permit from the spawn until its future is dropped.     *)
Probing == {"syn", "connect"}
Running == {i \in Tasks : task[i] \in Probing}

(* Bug: -c 0 taken as it is.                                               *)
LimitUnclamped == opts.parallel

Limit == IF opts.parallel > 1 THEN opts.parallel ELSE 1

(* Bug: the permit is forgotten when a task ends.                          *)
PermitForgotten == permits

FreedPermits == permits + 1

(* want_syn holds for IPv4 only: an IPv6 target is connect()ed to at once. *)
FirstProbe == IF opts.syn /\ Current \notin V6Targets THEN "syn" ELSE "connect"

Reachable(i) == Truth[Current][PortSpec[i]] # "silent"

-----------------------------------------------------------------------------
Init ==
    /\ opts \in Options
    /\ pc = "discover"
    /\ at = 0
    /\ permits = Limit
    /\ task = [i \in Tasks |-> "idle"]
    /\ tries = [i \in Tasks |-> 0]
    /\ verdict = [i \in Tasks |-> "none"]
    /\ results = << >>
    /\ hosts = << >>

(***************************************************************************)
(* Discovery.  -Pn skips it; -PE may fail (no privilege, or IPv6), which   *)
(* is printed and leaves the host "unknown"; a TCP ping finds it up or     *)
(* down.                                                                   *)
(***************************************************************************)
HostUp ==
    /\ pc = "discover"
    /\ Current \in Targets
    /\ \/ opts.ping \in {"Pn", "PS"}
       \/ opts.ping = "PE" /\ Current \notin V6Targets
    /\ pc' = "spawn"
    /\ UNCHANGED <<opts, at, permits, task, tries, verdict, results, hosts>>

NotUp(state) ==
    \/ state = "down" /\ opts.ping = "PS"
    \/ state = "down" /\ opts.ping = "PE" /\ Current \notin V6Targets
    \/ state = "unknown" /\ opts.ping = "PE"

HostNotUp ==
    /\ pc = "discover"
    /\ Current \in Targets
    /\ \E state \in {"down", "unknown"} :
          /\ NotUp(state)
          /\ hosts' = Append(hosts, [target |-> Current, state |-> state, ports |-> << >>])
    /\ UNCHANGED <<opts, pc, at, permits, task, tries, verdict, results>>

HostScanned == pc = "detect" /\ (opts.sV => at = Len(results))

(* The -PS list is parsed inside the host loop, and `?` leaves main; an    *)
(* eprintln! that cannot write panics: after a failed ICMP ping and, under *)
(* -v, before the first host and after every host.  Either way the report  *)
(* is lost, the hosts scanned before included.                             *)
MainDies ==
    /\ \/ pc = "discover" /\ Current \in Targets /\ opts.ping = "badPS"
       \/ pc = "discover" /\ Current \in Targets /\ opts.ping = "PE" /\ ~opts.stderr
       \/ pc = "discover" /\ hosts = << >> /\ opts.verbose /\ ~opts.stderr
       \/ HostScanned /\ opts.verbose /\ ~opts.stderr
    /\ pc' = "aborted"
    /\ UNCHANGED <<opts, at, permits, task, tries, verdict, results, hosts>>

-----------------------------------------------------------------------------
(***************************************************************************)
(* The spawn loop: a permit is awaited, then moved into the task.          *)
(***************************************************************************)
(* Bug: a task spawned whether or not a permit could be had.               *)
SpawnUnchecked ==
    /\ pc = "spawn"
    /\ at < Len(PortSpec)
    /\ permits' = permits - 1
    /\ task' = [task EXCEPT ![at + 1] = FirstProbe]
    /\ at' = at + 1
    /\ UNCHANGED <<opts, pc, tries, verdict, results, hosts>>

SpawnTask ==
    /\ pc = "spawn"
    /\ at < Len(PortSpec)
    /\ permits > 0
    /\ permits' = permits - 1
    /\ task' = [task EXCEPT ![at + 1] = FirstProbe]
    /\ at' = at + 1
    /\ UNCHANGED <<opts, pc, tries, verdict, results, hosts>>

SpawnsDone ==
    /\ pc = "spawn"
    /\ at = Len(PortSpec)
    /\ pc' = "join"
    /\ at' = 0
    /\ UNCHANGED <<opts, permits, task, tries, verdict, results, hosts>>

(* A task that ends, by returning or by panicking, drops its permit.       *)
Return(i, state) ==
    /\ task' = [task EXCEPT ![i] = "done"]
    /\ verdict' = [verdict EXCEPT ![i] = state]
    /\ permits' = FreedPermits

SynAnswered(i) ==
    /\ task[i] = "syn"
    /\ Reachable(i)
    /\ Return(i, Truth[Current][PortSpec[i]])
    /\ UNCHANGED <<opts, pc, at, tries, results, hosts>>

SynTimesOut(i) ==
    /\ task[i] = "syn"
    /\ Return(i, "filtered")
    /\ UNCHANGED <<opts, pc, at, tries, results, hosts>>

(* Missing privilege, another error or a panicked blocking thread.         *)
SynFallsBack(i) ==
    /\ task[i] = "syn"
    /\ task' = [task EXCEPT ![i] = "connect"]
    /\ UNCHANGED <<opts, pc, at, permits, tries, verdict, results, hosts>>

(* Missing privilege is printed first, and the print may panic.            *)
SynPanics(i) ==
    /\ task[i] = "syn"
    /\ ~opts.stderr
    /\ task' = [task EXCEPT ![i] = "panicked"]
    /\ permits' = FreedPermits
    /\ UNCHANGED <<opts, pc, at, tries, verdict, results, hosts>>

ConnectAnswered(i) ==
    /\ task[i] = "connect"
    /\ Reachable(i)
    /\ Return(i, Truth[Current][PortSpec[i]])
    /\ UNCHANGED <<opts, pc, at, tries, results, hosts>>

(* Bug: the bounds of the attempt loop off by one.                         *)
MayRetryOnceMore(i) == tries[i] <= MaxRetries

(* Attempts are numbered 0..=max_retries.                                  *)
MayRetry(i) == tries[i] < MaxRetries

ConnectRetries(i) ==
    /\ task[i] = "connect"
    /\ MayRetry(i)
    /\ tries' = [tries EXCEPT ![i] = @ + 1]
    /\ UNCHANGED <<opts, pc, at, permits, task, verdict, results, hosts>>

ConnectGivesUp(i) ==
    /\ task[i] = "connect"
    /\ ~MayRetry(i)
    /\ tries' = [tries EXCEPT ![i] = @ + 1]
    /\ Return(i, "filtered")
    /\ UNCHANGED <<opts, pc, at, results, hosts>>

-----------------------------------------------------------------------------
(***************************************************************************)
(* The join loop awaits the tasks in the order they were spawned; the      *)
(* result of one that panicked is dropped.                                 *)
(***************************************************************************)
(* Bug: a row labelled by its place in the results, which differs from     *)
(* its place in the port specification once a task has been dropped.       *)
JoinedByPlace(i) ==
    IF task[i] = "done"
    THEN Append(results, [port |-> PortSpec[Len(results) + 1],
                          state |-> verdict[i], service |-> FALSE])
    ELSE results

Joined(i) ==
    IF task[i] = "done"
    THEN Append(results, [port |-> PortSpec[i], state |-> verdict[i], service |-> FALSE])
    ELSE results

(* Bug: the join loop takes what is there and does not await the rest.     *)
JoinWithoutAwait ==
    /\ pc = "join"
    /\ at < Len(PortSpec)
    /\ results' = Joined(at + 1)
    /\ at' = at + 1
    /\ UNCHANGED <<opts, pc, permits, task, tries, verdict, hosts>>

JoinTask ==
    /\ pc = "join"
    /\ at < Len(PortSpec)
    /\ task[at + 1] \notin Probing
    /\ results' = Joined(at + 1)
    /\ at' = at + 1
    /\ UNCHANGED <<opts, pc, permits, task, tries, verdict, hosts>>

(* Bug: the sort is left out.                                              *)
Unsorted(rows) == {rows}

(* The rearrangements of a sequence that are in the order of the ports.    *)
Sortings(rows) ==
    {s \in {[k \in DOMAIN rows |-> rows[f[k]]] : f \in Bijection(DOMAIN rows, DOMAIN rows)} :
        \A k, l \in DOMAIN rows : k < l => s[k].port <= s[l].port}

JoinsDone ==
    /\ pc = "join"
    /\ at = Len(PortSpec)
    /\ results' \in Sortings(results)
    /\ pc' = "detect"
    /\ at' = 0
    /\ UNCHANGED <<opts, permits, task, tries, verdict, hosts>>

(* -sV connects to each open port in turn; detect() may find nothing.      *)
DetectService ==
    /\ pc = "detect"
    /\ opts.sV
    /\ at < Len(results)
    /\ \E found \in BOOLEAN :
          results' = [results EXCEPT ![at + 1] =
                         [@ EXCEPT !.service = found /\ results[at + 1].state = "open"]]
    /\ at' = at + 1
    /\ UNCHANGED <<opts, pc, permits, task, tries, verdict, hosts>>

(* Bug: port_results declared outside the host loop.                       *)
PushHostKeepsRows ==
    /\ HostScanned
    /\ hosts' = Append(hosts, [target |-> Current, state |-> "up", ports |-> results])
    /\ pc' = "discover"
    /\ at' = 0
    /\ task' = [i \in Tasks |-> "idle"]
    /\ tries' = [i \in Tasks |-> 0]
    /\ verdict' = [i \in Tasks |-> "none"]
    /\ UNCHANGED <<opts, permits, results>>

PushHost ==
    /\ HostScanned
    /\ hosts' = Append(hosts, [target |-> Current, state |-> "up", ports |-> results])
    /\ pc' = "discover"
    /\ at' = 0
    /\ task' = [i \in Tasks |-> "idle"]
    /\ tries' = [i \in Tasks |-> 0]
    /\ verdict' = [i \in Tasks |-> "none"]
    /\ results' = << >>
    /\ UNCHANGED <<opts, permits>>

Report ==
    /\ pc = "discover"
    /\ Current \notin Targets
    /\ pc' = "reported"
    /\ UNCHANGED <<opts, at, permits, task, tries, verdict, results, hosts>>

(* The process has exited.                                                 *)
Exited == pc \in {"reported", "aborted"} /\ UNCHANGED vars

-----------------------------------------------------------------------------
MainStep ==
    \/ HostUp \/ HostNotUp \/ MainDies
    \/ SpawnTask \/ SpawnsDone
    \/ JoinTask \/ JoinsDone
    \/ DetectService \/ PushHost \/ Report

TaskStep(i) ==
    \/ SynAnswered(i) \/ SynTimesOut(i) \/ SynFallsBack(i) \/ SynPanics(i)
    \/ ConnectAnswered(i) \/ ConnectRetries(i) \/ ConnectGivesUp(i)

Next == MainStep \/ (\E i \in Tasks : TaskStep(i)) \/ Exited

Spec == Init /\ [][Next]_vars

(* tokio runs every ready task, every await of a probe ends by a timeout   *)
(* and the attempts of a task are counted, so neither main nor a task can  *)
(* be ready for ever without moving.                                       *)
FairSpec == Spec /\ WF_vars(MainStep) /\ \A i \in Tasks : WF_vars(TaskStep(i))

-----------------------------------------------------------------------------
(***************************************************************************)
(* The type of the state.                                                  *)
(***************************************************************************)
TypeOK ==
    /\ opts \in Options
    /\ pc \in {"discover", "spawn", "join", "detect", "reported", "aborted"}
    /\ at \in Nat
    /\ permits \in Nat
    /\ task \in [Tasks -> {"idle", "syn", "connect", "done", "panicked"}]
    /\ tries \in [Tasks -> Nat]
    /\ verdict \in [Tasks -> {"none", "open", "closed", "filtered"}]
    /\ results \in Seq(Row)
    /\ hosts \in Seq(Entry)
    /\ Len(hosts) <= NumTargets

(* No permit is lost or made, whatever a task goes through (answer, time-  *)
(* out, fallback, retries, panic) and from one host to the next: main.rs   *)
(* never has more probes in flight than max_parallel.max(1), and the next  *)
(* host finds every permit back in the semaphore.                          *)
PermitConservation == permits + Cardinality(Running) = Limit

(* Probes are in flight only while main spawns or joins the tasks of the   *)
(* current host: service detection, the discovery of the next host and the *)
(* end of the run never overlap with a probe (the join loop of main.rs).   *)
NoStrayProbe ==
    /\ pc \notin {"spawn", "join"} => Running = {}
    /\ pc = "join" => \A i \in Tasks : i <= at => task[i] \notin Probing

(* Only a SYN scan prints from inside a task.                              *)
Lossy == opts.syn /\ ~opts.stderr

(* What main and the tasks know of each other: every host starts with all  *)
(* tasks unspawned and no rows; a spawned task belongs to the host being   *)
(* scanned; a verdict that names a state is that host's answer, and one    *)
(* task never returns two of them; only a failed print makes a task panic. *)
Bookkeeping ==
    /\ pc \in {"spawn", "join", "detect", "aborted"} => Current \in Targets
    /\ pc = "reported" => Current \notin Targets
    /\ pc \in {"discover", "reported"} =>
          at = 0 /\ results = << >> /\ \A i \in Tasks : task[i] = "idle"
    /\ pc = "spawn" => results = << >> /\ \A i \in Tasks : task[i] = "idle" <=> i > at
    /\ pc \in {"join", "detect"} => \A i \in Tasks : task[i] # "idle"
    /\ \A i \in Tasks :
          /\ task[i] = "done" <=> verdict[i] # "none"
          /\ task[i] \in {"idle", "syn"} => tries[i] = 0
          /\ task[i] = "syn" => FirstProbe = "syn"
          /\ task[i] = "panicked" => Lossy
          /\ verdict[i] \in {"open", "closed"} => verdict[i] = Truth[Current][PortSpec[i]]

(* connect.rs reports "filtered" only after max_retries + 1 attempts have  *)
(* failed, all of them also when the task first tried a SYN probe, and     *)
(* never begins an attempt beyond them; only a SYN probe that was never    *)
(* replaced by connect() is reported "filtered" with no attempt at all.    *)
RetryBudget ==
    \A i \in Tasks :
        /\ task[i] = "connect" => tries[i] <= MaxRetries
        /\ verdict[i] \in {"open", "closed"} => tries[i] <= MaxRetries
        /\ verdict[i] = "filtered" =>
              \/ tries[i] = MaxRetries + 1
              \/ tries[i] = 0 /\ FirstProbe = "syn"

(* The rows main.rs has joined are the verdicts of the tasks that returned *)
(* one, each under its own port and once, in whatever order tasks end and  *)
(* whichever of them panicked; the sort loses none of them and orders them *)
(* by port, and only an open port is given a service.                      *)
RowsAreVerdicts ==
    pc \in {"join", "detect"} =>
        /\ \A k \in DOMAIN results :
              /\ results[k].service => results[k].state = "open"
              /\ \E i \in Tasks : /\ pc = "join" => i <= at
                                 /\ task[i] = "done"
                                 /\ results[k].port = PortSpec[i]
                                 /\ results[k].state = verdict[i]
        /\ \A i \in Tasks :
              (task[i] = "done" /\ (pc = "join" => i <= at)) =>
                  \E k \in DOMAIN results : results[k].port = PortSpec[i]
        /\ \A k, l \in DOMAIN results :
              k < l => IF pc = "detect" THEN results[k].port < results[l].port
                                        ELSE results[k].port # results[l].port

-----------------------------------------------------------------------------
Fragile == opts.ping = "badPS" \/ ((opts.ping = "PE" \/ opts.verbose) /\ ~opts.stderr)

Outcome == IF pc \in {"reported", "aborted"} THEN pc ELSE "running"

Promise == INSTANCE ScanPromise WITH outcome <- Outcome, lossy <- Lossy, fragile <- Fragile

(* The scan loop keeps the promise of ScanPromise: hosts in order, rows    *)
(* sorted, complete and honest, a report that is published whole, rows     *)
(* missing only if a SYN fallback could not print, death only where `?` or *)
(* a failed print leaves main.                                             *)
ImplementsPromise == Promise!Spec

(* A run whose options parse and whose stderr is writable ends with the    *)
(* report, whatever the ports answer and for every -c, 0 included.         *)
Completes ==
    (opts.stderr /\ opts.ping # "badPS") => <>(pc = "reported")
=============================================================================
