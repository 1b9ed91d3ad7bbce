----------------------------- MODULE HostTime -----------------------------
(***************************************************************************)
(* The time one host takes: the spawn loop of main.rs waiting for permits, *)
(* the SYN probes waiting for a thread of tokio's blocking pool, the       *)
(* attempts of scan/connect.rs with their timeouts and growing sleeps, and *)
(* the sequential service detection that follows.                          *)
(*                                                                         *)
(* `now` counts from the host's first spawn.  A timer that is due fires    *)
(* before time goes on, and main spawns as soon as it gets a permit, so    *)
(* the bounds below are those of an idle machine.                          *)
(***************************************************************************)
EXTENDS Integers, FiniteSets, Timing

CONSTANTS
    NumPorts,        \* port_spec.ports.len()
    Limit,           \* timing.max_parallel.max(1)
    Threads,         \* max_blocking_threads of the tokio runtime
    ConnectTimeout,  \* timing.connect_timeout
    ReadTimeout,     \* timing.read_timeout
    MaxRetries,      \* timing.max_retries
    SleepStep,       \* the 50 ms that the sleep between attempts grows by
    Floor,           \* the 50 ms a recv waits at least
    LongerWait,      \* the 150 ms before a second passive read
    HostTimeout      \* timing.host_timeout, 0 = none

ASSUME HostTimeAssumption ==
    /\ {NumPorts, Limit, Threads, ConnectTimeout, ReadTimeout, SleepStep} \subseteq Nat \ {0}
    /\ {MaxRetries, Floor, LongerWait, HostTimeout} \subseteq Nat

Tasks == 1..NumPorts

VARIABLES
    syn,       \* want_syn and an IPv4 address, fixed from the start
    now,       \* time since the host's first spawn
    pc,        \* "scan", "detect" or "done"
    task,      \* what each task is doing, or the state it returned
    tries,     \* attempts of each task that have failed
    timer,     \* when its current attempt or sleep ends
    started,   \* when it was spawned
    waited,    \* how long its SYN probe waited for a thread
    took,      \* how long it took, once it has returned
    detected   \* open ports service detection has gone through

vars == <<syn, now, pc, task, tries, timer, started, waited, took, detected>>

Awake == {"waiting", "probing", "connecting", "sleeping"}
In(state) == {i \in Tasks : task[i] = state}
Running == {i \in Tasks : task[i] \in Awake}
Idle == In("idle")
Open == In("open")

Sleep(attempt) == SleepStep * (attempt + 1)

(* Bug: the bounds of the attempt loop off by one.                         *)
RetriesLeftOneMore(i) == tries[i] <= MaxRetries

RetriesLeft(i) == tries[i] < MaxRetries

-----------------------------------------------------------------------------
Init ==
    /\ syn \in BOOLEAN
    /\ now = 0
    /\ pc = "scan"
    /\ task = [i \in Tasks |-> "idle"]
    /\ tries = [i \in Tasks |-> 0]
    /\ timer = [i \in Tasks |-> 0]
    /\ started = [i \in Tasks |-> 0]
    /\ waited = [i \in Tasks |-> 0]
    /\ took = [i \in Tasks |-> 0]
    /\ detected = 0

(* Bug: the next task is spawned only when no other one is running.        *)
HasBatchPermit == Running = {}

HasPermit == Cardinality(Running) < Limit

(* Ports are spawned in order, each when a permit is free.                 *)
Spawn(i) ==
    /\ pc = "scan"
    /\ HasPermit
    /\ i \in Idle /\ \A j \in Idle : i <= j
    /\ task' = [task EXCEPT ![i] = IF syn THEN "waiting" ELSE "connecting"]
    /\ timer' = [timer EXCEPT ![i] = IF syn THEN @ ELSE now + ConnectTimeout]
    /\ started' = [started EXCEPT ![i] = now]
    /\ UNCHANGED <<syn, now, pc, tries, waited, took, detected>>

(* A task that returns drops its locals with its permit.                   *)
Returns(i, state) ==
    /\ task' = [task EXCEPT ![i] = state]
    /\ took' = [took EXCEPT ![i] = now - started[i]]
    /\ tries' = [tries EXCEPT ![i] = 0]
    /\ timer' = [timer EXCEPT ![i] = 0]
    /\ started' = [started EXCEPT ![i] = 0]
    /\ UNCHANGED <<syn, now, pc, waited, detected>>

-----------------------------------------------------------------------------
HasThread == Cardinality(In("probing")) < Threads

(* Bug: the deadline of a probe counts from the spawn of its task.         *)
DeadlineFromSpawn(i) == started[i] + ConnectTimeout

Deadline(i) == now + ConnectTimeout

(* spawn_blocking queues the probes it has no thread for, first come first *)
(* served; the probe's own clock starts in the thread.  Its last recv may  *)
(* outlive the deadline by the floor.                                      *)
TakesThread(i) ==
    /\ task[i] = "waiting" /\ HasThread
    /\ \A j \in In("waiting") : i <= j
    /\ task' = [task EXCEPT ![i] = "probing"]
    /\ timer' = [timer EXCEPT ![i] = Deadline(i) + Floor]
    /\ waited' = [waited EXCEPT ![i] = now - started[i]]
    /\ UNCHANGED <<syn, now, pc, tries, started, took, detected>>

SynAnswered(i) ==
    /\ task[i] = "probing"
    /\ \E state \in {"open", "closed"} : Returns(i, state)

SynTimesOut(i) ==
    /\ task[i] = "probing"
    /\ now + Floor >= timer[i]
    /\ Returns(i, "no-response")

(* An error, at any moment, leads to connect() under the same permit.      *)
SynFallsBack(i) ==
    /\ task[i] = "probing"
    /\ task' = [task EXCEPT ![i] = "connecting"]
    /\ timer' = [timer EXCEPT ![i] = now + ConnectTimeout]
    /\ UNCHANGED <<syn, now, pc, tries, started, waited, took, detected>>

-----------------------------------------------------------------------------
Answered(i) ==
    /\ task[i] = "connecting"
    /\ \E state \in {"open", "closed"} : Returns(i, state)

(* An attempt times out, or fails at any moment before with another error. *)
Retries(i) ==
    /\ task[i] = "connecting"
    /\ RetriesLeft(i)
    /\ task' = [task EXCEPT ![i] = "sleeping"]
    /\ timer' = [timer EXCEPT ![i] = now + Sleep(tries[i])]
    /\ tries' = [tries EXCEPT ![i] = @ + 1]
    /\ UNCHANGED <<syn, now, pc, started, waited, took, detected>>

GivesUp(i) ==
    /\ task[i] = "connecting"
    /\ ~RetriesLeft(i)
    /\ Returns(i, "filtered")

WakesUp(i) ==
    /\ task[i] = "sleeping"
    /\ now = timer[i]
    /\ task' = [task EXCEPT ![i] = "connecting"]
    /\ timer' = [timer EXCEPT ![i] = now + ConnectTimeout]
    /\ UNCHANGED <<syn, now, pc, tries, started, waited, took, detected>>

AllJoined ==
    /\ pc = "scan"
    /\ Idle \cup Running = {}
    /\ pc' = "detect"
    /\ UNCHANGED <<syn, now, task, tries, timer, started, waited, took, detected>>

LongestDetection == LongestDetect(ConnectTimeout, ReadTimeout, LongerWait)

Detect ==
    /\ pc = "detect"
    /\ detected < Cardinality(Open)
    /\ \E d \in 0..LongestDetection : now' = now + d
    /\ detected' = detected + 1
    /\ UNCHANGED <<syn, pc, task, tries, timer, started, waited, took>>

HostDone ==
    /\ pc = "detect"
    /\ detected = Cardinality(Open)
    /\ pc' = "done"
    /\ UNCHANGED <<syn, now, task, tries, timer, started, waited, took, detected>>

(* Something is due before time may go on.                                 *)
Urgent ==
    \/ \E i \in Running \ In("waiting") : timer[i] <= now
    \/ In("waiting") # {} /\ HasThread
    \/ Idle # {} /\ HasPermit
    \/ Idle \cup Running = {}

Tick ==
    /\ pc = "scan"
    /\ ~Urgent
    /\ now' = now + 1
    /\ UNCHANGED <<syn, pc, task, tries, timer, started, waited, took, detected>>

Finished == pc = "done" /\ UNCHANGED vars

Next ==
    \/ \E i \in Tasks :
          \/ Spawn(i)
          \/ TakesThread(i) \/ SynAnswered(i) \/ SynTimesOut(i) \/ SynFallsBack(i)
          \/ Answered(i) \/ Retries(i) \/ GivesUp(i) \/ WakesUp(i)
    \/ AllJoined \/ Detect \/ HostDone \/ Tick \/ Finished

Spec == Init /\ [][Next]_vars

-----------------------------------------------------------------------------
(***************************************************************************)
(* The type of the state; no task fails more often than it may retry.      *)
(***************************************************************************)
TypeOK ==
    /\ syn \in BOOLEAN
    /\ now \in Nat
    /\ pc \in {"scan", "detect", "done"}
    /\ task \in [Tasks -> {"idle", "open", "closed", "filtered", "no-response"} \cup Awake]
    /\ tries \in [Tasks -> 0..MaxRetries]
    /\ timer \in [Tasks -> Nat]
    /\ {started, waited} \subseteq [Tasks -> Nat]
    /\ took \in [Tasks -> Nat]
    /\ detected \in 0..NumPorts

(* The longest life of a task: its turn for a thread, which comes when the *)
(* probes before it in the pool are over, its SYN probe, and the connect   *)
(* attempts of a fallback.                                                 *)
LongestSyn == ConnectTimeout + Floor
LongestTurn == ((Limit - 1) \div Threads) * LongestSyn
LongestTask ==
    LongestProbe(ConnectTimeout, SleepStep, MaxRetries)
    + (IF syn THEN LongestTurn + LongestSyn ELSE 0)

(* A port has max_retries + 1 timeouts and the sleeps between them, and    *)
(* not a moment more; a SYN probe adds its own timeout, and its turn in a  *)
(* pool that may have fewer threads than there are permits (-T5 or -c      *)
(* above 512).                                                             *)
ProbeBudget ==
    \A i \in Tasks :
        /\ i \in Running => now <= started[i] + LongestTask
        /\ took[i] <= LongestTask

(* A port is not given up in a hurry either: even when every attempt fails *)
(* at once, its attempts are spread over sleeps of 50, 100, 150 ... ms,    *)
(* and a SYN probe listens for its whole timeout, however long it waited   *)
(* for a thread.                                                           *)
NotHasty ==
    \A i \in Tasks :
        /\ task[i] = "filtered" => took[i] >= waited[i] + AllSleeps(SleepStep, MaxRetries)
        /\ task[i] = "no-response" => took[i] >= waited[i] + ConnectTimeout

(* The semaphore of main.rs keeps max_parallel probes going, so a host of  *)
(* n ports is scanned in the time of ceil(n / max_parallel) probes, and -sV *)
(* adds the timeouts of one detect() for every open port.                  *)
HostBudget == now <= Rounds(NumPorts, Limit) * LongestTask + detected * LongestDetection

(* timing.rs: "Per-target host timeout (overall, 0 = none)."               *)
HostTimeoutHonoured == HostTimeout # 0 => now <= HostTimeout
=============================================================================
