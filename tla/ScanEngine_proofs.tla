------------------------- MODULE ScanEngine_proofs -------------------------
(***************************************************************************)
(* Proofs about ScanEngine, for every number of targets, port              *)
(* specification, retry count, -c value and network.                       *)
(*                                                                         *)
(* The bookkeeping between main and the tasks is inductive together with   *)
(* the type of the state; each of the other invariants is inductive        *)
(* relative to it, and the refinement of ScanPromise follows from all.     *)
(***************************************************************************)
EXTENDS ScanEngine, FiniteSetTheorems, TLAPS

USE TargetsAssumption, PortsAssumption, TimingAssumption, TruthAssumption

Core == TypeOK /\ NoStrayProbe /\ Bookkeeping

(***************************************************************************)
(* The tasks and the ports.                                                *)
(***************************************************************************)
LEMMA TaskFacts ==
    /\ Len(PortSpec) \in Nat
    /\ Tasks = DOMAIN PortSpec
    /\ \A i \in Tasks : PortSpec[i] \in Ports /\ PortSpec[i] \in Nat
    /\ Ports \subseteq Nat
  BY DEF Tasks, Ports

(* A port that answers gives one of the two states an answer can have.     *)
LEMMA AnswerIsState ==
    ASSUME NEW i \in Tasks, Current \in Targets, Reachable(i)
    PROVE  Truth[Current][PortSpec[i]] \in {"open", "closed"}
  BY TaskFacts DEF Reachable

(* The invariant holds when main enters the host loop.                     *)
LEMMA CoreInit == Init => Core
  <1> SUFFICES ASSUME Init PROVE Core
      OBVIOUS
  <1>1. TypeOK
      BY DEF Init, TypeOK, Options, Limit
  <1>2. NoStrayProbe
      BY DEF Init, NoStrayProbe, Running, Probing
  <1>3. Bookkeeping
      BY DEF Init, Bookkeeping
  <1> QED BY <1>1, <1>2, <1>3 DEF Core

(* A step of a task happens while main spawns or joins the tasks of a      *)
(* target.                                                                 *)
LEMMA TaskStepContext ==
    ASSUME Core, NEW i \in Tasks, task[i] \in Probing
    PROVE  pc \in {"spawn", "join"} /\ Current \in Targets /\ (pc = "join" => i > at)
  BY TaskFacts DEF Core, NoStrayProbe, Bookkeeping, Running, TypeOK

(***************************************************************************)
(* What a sorting keeps: rows in, the same rows out, in the order of the   *)
(* ports and, if no port occurs twice, strictly so.                        *)
(***************************************************************************)
LEMMA SortingFacts ==
    ASSUME NEW rows \in Seq(Row), NEW s \in Sortings(rows)
    PROVE  /\ s \in Seq(Row)
           /\ DOMAIN s = DOMAIN rows
           /\ \A k \in DOMAIN s : \E l \in DOMAIN rows : s[k] = rows[l]
           /\ \A l \in DOMAIN rows : \E k \in DOMAIN s : s[k] = rows[l]
           /\ (\A k, l \in DOMAIN rows : k < l => rows[k].port # rows[l].port)
              => (\A k, l \in DOMAIN s : k < l => s[k].port < s[l].port)
  <1>1. PICK f \in Bijection(DOMAIN rows, DOMAIN rows) :
           s = [k \in DOMAIN rows |-> rows[f[k]]]
        BY DEF Sortings
  <1>2. f \in [DOMAIN rows -> DOMAIN rows]
        BY DEF Bijection, Injection
  <1>3. \A k, l \in DOMAIN rows : f[k] = f[l] => k = l
        BY DEF Bijection, Injection, IsInjective
  <1>4. \A l \in DOMAIN rows : \E k \in DOMAIN rows : f[k] = l
        BY DEF Bijection, Surjection
  <1>5. DOMAIN rows = 1..Len(rows) /\ Len(rows) \in Nat
        OBVIOUS
  <1>6. \A k \in DOMAIN rows : s[k] = rows[f[k]] /\ s[k] \in Row
        BY <1>1, <1>2, <1>5
  <1>7. s \in Seq(Row) /\ DOMAIN s = DOMAIN rows
        BY <1>1, <1>5, <1>6
  <1>8. ASSUME \A k, l \in DOMAIN rows : k < l => rows[k].port # rows[l].port,
               NEW k \in DOMAIN s, NEW l \in DOMAIN s, k < l
        PROVE  s[k].port < s[l].port
    <2>1. s[k].port <= s[l].port
        BY <1>7, <1>8 DEF Sortings
    <2>2. f[k] # f[l] /\ f[k] \in DOMAIN rows /\ f[l] \in DOMAIN rows
        BY <1>2, <1>3, <1>5, <1>7, <1>8
    <2>3. rows[f[k]].port # rows[f[l]].port
        BY <1>5, <1>8, <2>2
    <2>4. s[k].port \in Nat /\ s[l].port \in Nat
        BY <1>6, <1>7, TaskFacts DEF Row
    <2> QED BY <1>6, <1>7, <2>1, <2>3, <2>4
  <1> QED BY <1>2, <1>4, <1>6, <1>7, <1>8

(***************************************************************************)
(* The core is inductive.                                                  *)
(***************************************************************************)
LEMMA CoreMain == Core /\ MainStep => Core'
  <1> SUFFICES ASSUME Core, MainStep PROVE Core'
      OBVIOUS
  <1> USE DEF Core
  <1>1. CASE HostUp
    <2>1. TypeOK'
        BY <1>1, TaskFacts DEF HostUp, TypeOK, Bookkeeping
    <2>2. NoStrayProbe'
        BY <1>1, TaskFacts DEF HostUp, TypeOK, NoStrayProbe, Running, Probing, Bookkeeping
    <2>3. Bookkeeping'
        BY <1>1, TaskFacts DEF HostUp, TypeOK, NoStrayProbe, Running, Probing, Bookkeeping, Lossy, FirstProbe, Current, Targets
    <2> QED BY <2>1, <2>2, <2>3
  <1>2. CASE HostNotUp
    <2>1. TypeOK'
        BY <1>2 DEF HostNotUp, TypeOK, Entry, Current, Targets
    <2>2. NoStrayProbe'
        BY <1>2, TaskFacts DEF HostNotUp, TypeOK, NoStrayProbe, Running, Probing, Bookkeeping
    <2>3. Bookkeeping'
        BY <1>2, TaskFacts DEF HostNotUp, TypeOK, NoStrayProbe, Running, Probing, Bookkeeping, Lossy, FirstProbe, Current, Targets
    <2> QED BY <2>1, <2>2, <2>3
  <1>3. CASE MainDies
    <2>1. TypeOK'
        BY <1>3, TaskFacts DEF MainDies, HostScanned, TypeOK, Bookkeeping
    <2>2. NoStrayProbe'
        BY <1>3, TaskFacts DEF MainDies, HostScanned, TypeOK, NoStrayProbe, Running, Probing, Bookkeeping
    <2>3. Bookkeeping'
      <3>1. pc \in {"discover", "detect"} /\ pc' = "aborted"
            /\ UNCHANGED <<opts, at, permits, task, tries, verdict, results, hosts>>
          BY <1>3 DEF MainDies, HostScanned
      <3>2. Current \in Targets
          BY <1>3 DEF MainDies, HostScanned, TypeOK, Bookkeeping, Current, Targets
      <3>3. Current' = Current /\ FirstProbe' = FirstProbe /\ Lossy' = Lossy
          BY <3>1 DEF Current, FirstProbe, Lossy
      <3> QED BY <3>1, <3>2, <3>3 DEF Bookkeeping
    <2> QED BY <2>1, <2>2, <2>3
  <1>4. CASE SpawnTask
    <2>1. TypeOK'
        BY <1>4 DEF SpawnTask, TypeOK, Bookkeeping, Tasks, FirstProbe
    <2>2. NoStrayProbe'
        BY <1>4, TaskFacts DEF SpawnTask, TypeOK, NoStrayProbe, Running, Probing, Bookkeeping
    <2>3. Bookkeeping'
        BY <1>4 DEF SpawnTask, TypeOK, Bookkeeping, Lossy, FirstProbe, Current, Tasks
    <2> QED BY <2>1, <2>2, <2>3
  <1>5. CASE SpawnsDone
    <2>1. TypeOK'
        BY <1>5, TaskFacts DEF SpawnsDone, TypeOK, Bookkeeping
    <2>2. NoStrayProbe'
        BY <1>5, TaskFacts DEF SpawnsDone, TypeOK, NoStrayProbe, Running, Probing, Bookkeeping
    <2>3. Bookkeeping'
        BY <1>5, TaskFacts DEF SpawnsDone, TypeOK, NoStrayProbe, Running, Probing, Bookkeeping, Lossy, FirstProbe, Current, Targets
    <2> QED BY <2>1, <2>2, <2>3
  <1>6. CASE JoinTask
    <2>1. TypeOK'
      <3>1. at + 1 \in Tasks
          BY <1>6 DEF JoinTask, TypeOK, Tasks
      <3>2. results' \in Seq(Row)
        <4>1. CASE task[at + 1] = "done"
          <5>1. verdict[at + 1] \in {"open", "closed", "filtered"}
              BY <3>1, <4>1 DEF TypeOK, Bookkeeping
          <5>2. [port |-> PortSpec[at + 1], state |-> verdict[at + 1], service |-> FALSE] \in Row
              BY <3>1, <5>1, TaskFacts DEF Row
          <5> QED BY <1>6, <4>1, <5>2 DEF JoinTask, Joined, TypeOK
        <4>2. CASE task[at + 1] # "done"
            BY <1>6, <4>2 DEF JoinTask, Joined, TypeOK
        <4> QED BY <4>1, <4>2
      <3> QED BY <1>6, <3>2 DEF JoinTask, TypeOK
    <2>2. NoStrayProbe'
        BY <1>6, TaskFacts DEF JoinTask, TypeOK, NoStrayProbe, Running, Probing, Bookkeeping
    <2>3. Bookkeeping'
        BY <1>6, TaskFacts DEF JoinTask, TypeOK, NoStrayProbe, Running, Probing, Bookkeeping, Lossy, FirstProbe, Current, Targets
    <2> QED BY <2>1, <2>2, <2>3
  <1>7. CASE JoinsDone
    <2>1. TypeOK'
        BY <1>7, SortingFacts DEF JoinsDone, TypeOK
    <2>2. NoStrayProbe'
        BY <1>7, TaskFacts DEF JoinsDone, TypeOK, NoStrayProbe, Running, Probing, Bookkeeping
    <2>3. Bookkeeping'
        BY <1>7, TaskFacts DEF JoinsDone, TypeOK, NoStrayProbe, Running, Probing, Bookkeeping, Lossy, FirstProbe, Current, Targets
    <2> QED BY <2>1, <2>2, <2>3
  <1>8. CASE DetectService
    <2>1. TypeOK'
      <3>1. PICK found \in BOOLEAN :
               results' = [results EXCEPT ![at + 1] =
                              [@ EXCEPT !.service = found /\ results[at + 1].state = "open"]]
          BY <1>8 DEF DetectService
      <3>2. at + 1 \in DOMAIN results /\ results[at + 1] \in Row
          BY <1>8 DEF DetectService, TypeOK
      <3>3. (found /\ results[at + 1].state = "open") \in BOOLEAN
          OBVIOUS
      <3>4. [results[at + 1] EXCEPT !.service = found /\ results[at + 1].state = "open"] \in Row
          BY <3>2, <3>3 DEF Row
      <3>5. results' \in Seq(Row)
          BY <3>1, <3>2, <3>4 DEF TypeOK
      <3> QED BY <1>8, <3>5 DEF DetectService, TypeOK
    <2>2. NoStrayProbe'
        BY <1>8, TaskFacts DEF DetectService, TypeOK, NoStrayProbe, Running, Probing, Bookkeeping
    <2>3. Bookkeeping'
        BY <1>8, TaskFacts DEF DetectService, TypeOK, NoStrayProbe, Running, Probing, Bookkeeping, Lossy, FirstProbe, Current, Targets
    <2> QED BY <2>1, <2>2, <2>3
  <1>9. CASE PushHost
    <2>1. TypeOK'
        BY <1>9 DEF PushHost, HostScanned, TypeOK, Bookkeeping, Entry, Current, Targets
    <2>2. NoStrayProbe'
        BY <1>9, TaskFacts DEF PushHost, HostScanned, TypeOK, NoStrayProbe, Running, Probing, Bookkeeping
    <2>3. Bookkeeping'
        BY <1>9, TaskFacts DEF PushHost, HostScanned, TypeOK, NoStrayProbe, Running, Probing, Bookkeeping, Lossy, FirstProbe, Current, Targets
    <2> QED BY <2>1, <2>2, <2>3
  <1>10. CASE Report
    <2>1. TypeOK'
        BY <1>10, TaskFacts DEF Report, TypeOK, Bookkeeping
    <2>2. NoStrayProbe'
        BY <1>10, TaskFacts DEF Report, TypeOK, NoStrayProbe, Running, Probing, Bookkeeping
    <2>3. Bookkeeping'
        BY <1>10, TaskFacts DEF Report, TypeOK, NoStrayProbe, Running, Probing, Bookkeeping, Lossy, FirstProbe, Current, Targets
    <2> QED BY <2>1, <2>2, <2>3
  <1> QED BY <1>1, <1>2, <1>3, <1>4, <1>5, <1>6, <1>7, <1>8, <1>9, <1>10 DEF MainStep

(* The books stay balanced when a task goes on to connect() or ends, if a   *)
(* verdict comes with the end and names the state the port answered with.  *)
LEMMA BooksOfTask ==
    ASSUME Core, NEW i \in Tasks, task[i] \in Probing,
           NEW s \in {"connect", "done", "panicked"}, NEW n, NEW v,
           task' = [task EXCEPT ![i] = s],
           tries' = [tries EXCEPT ![i] = n],
           verdict' = [verdict EXCEPT ![i] = v],
           UNCHANGED <<opts, pc, at, results, hosts>>,
           s = "done" <=> v # "none",
           s = "panicked" => Lossy,
           v \in {"open", "closed"} => v = Truth[Current][PortSpec[i]]
    PROVE  Bookkeeping'
  <1> USE DEF Core
  <1>1. pc \in {"spawn", "join"} /\ Current \in Targets /\ (pc = "join" => i > at)
      BY TaskStepContext
  <1>2. /\ Current' = Current /\ Lossy' = Lossy /\ FirstProbe' = FirstProbe
        /\ pc' = pc /\ at' = at /\ results' = results
      BY DEF Current, Lossy, FirstProbe
  <1>3. \A j \in Tasks : task'[j] = "idle" <=> task[j] = "idle"
      BY DEF TypeOK, Probing
  <1>4. task'[i] = s /\ tries'[i] = n /\ verdict'[i] = v
      BY DEF TypeOK
  <1>5. \A j \in Tasks : j # i =>
            task'[j] = task[j] /\ tries'[j] = tries[j] /\ verdict'[j] = verdict[j]
      BY DEF TypeOK
  <1>6. ASSUME NEW j \in Tasks
        PROVE  /\ task'[j] = "done" <=> verdict'[j] # "none"
               /\ task'[j] \in {"idle", "syn"} => tries'[j] = 0
               /\ task'[j] = "syn" => FirstProbe = "syn"
               /\ task'[j] = "panicked" => Lossy
               /\ verdict'[j] \in {"open", "closed"} => verdict'[j] = Truth[Current][PortSpec[j]]
    <2>1. CASE j = i
        BY <1>4, <2>1
    <2>2. CASE j # i
        BY <1>5, <2>2 DEF Bookkeeping
    <2> QED BY <2>1, <2>2
  <1> QED BY <1>1, <1>2, <1>3, <1>6 DEF Bookkeeping

(* Every step of a task keeps the invariant.                               *)
LEMMA CoreTask == ASSUME NEW i \in Tasks PROVE Core /\ TaskStep(i) => Core'
  <1> SUFFICES ASSUME Core, TaskStep(i) PROVE Core'
      OBVIOUS
  <1> USE DEF Core
  <1>1. CASE SynAnswered(i)
    <2>1. pc \in {"spawn", "join"} /\ Current \in Targets /\ (pc = "join" => i > at)
        BY <1>1, TaskStepContext DEF SynAnswered, Probing
    <2>2. TypeOK'
        BY <1>1, <2>1, AnswerIsState DEF SynAnswered, TypeOK, Bookkeeping, Return, FreedPermits
    <2>3. NoStrayProbe'
        BY <1>1, <2>1 DEF SynAnswered, TypeOK, NoStrayProbe, Running, Probing, Return, FreedPermits
    <2>4. Bookkeeping'
      <3>1. /\ task' = [task EXCEPT ![i] = "done"]
            /\ tries' = [tries EXCEPT ![i] = tries[i]]
            /\ verdict' = [verdict EXCEPT ![i] = Truth[Current][PortSpec[i]]]
            /\ task[i] \in Probing
            /\ UNCHANGED <<opts, pc, at, results, hosts>>
          BY <1>1 DEF SynAnswered, Return, Probing, TypeOK
      <3>2. Truth[Current][PortSpec[i]] \in {"open", "closed"}
          BY <1>1, <2>1, AnswerIsState DEF SynAnswered
      <3> QED BY <3>1, <3>2, BooksOfTask
    <2> QED BY <2>2, <2>3, <2>4
  <1>2. CASE SynTimesOut(i)
    <2>1. pc \in {"spawn", "join"} /\ Current \in Targets /\ (pc = "join" => i > at)
        BY <1>2, TaskStepContext DEF SynTimesOut, Probing
    <2>2. TypeOK'
        BY <1>2, <2>1, AnswerIsState DEF SynTimesOut, TypeOK, Bookkeeping, Return, FreedPermits
    <2>3. NoStrayProbe'
        BY <1>2, <2>1 DEF SynTimesOut, TypeOK, NoStrayProbe, Running, Probing, Return, FreedPermits
    <2>4. Bookkeeping'
      <3>1. /\ task' = [task EXCEPT ![i] = "done"]
            /\ tries' = [tries EXCEPT ![i] = tries[i]]
            /\ verdict' = [verdict EXCEPT ![i] = "filtered"]
            /\ task[i] \in Probing
            /\ UNCHANGED <<opts, pc, at, results, hosts>>
          BY <1>2 DEF SynTimesOut, Return, Probing, TypeOK
      <3> QED BY <3>1, BooksOfTask
    <2> QED BY <2>2, <2>3, <2>4
  <1>3. CASE SynFallsBack(i)
    <2>1. pc \in {"spawn", "join"} /\ Current \in Targets /\ (pc = "join" => i > at)
        BY <1>3, TaskStepContext DEF SynFallsBack, Probing
    <2>2. TypeOK'
        BY <1>3, <2>1, AnswerIsState DEF SynFallsBack, TypeOK, Bookkeeping, FreedPermits
    <2>3. NoStrayProbe'
        BY <1>3, <2>1 DEF SynFallsBack, TypeOK, NoStrayProbe, Running, Probing, FreedPermits
    <2>4. Bookkeeping'
      <3>1. /\ task' = [task EXCEPT ![i] = "connect"]
            /\ tries' = [tries EXCEPT ![i] = tries[i]]
            /\ verdict' = [verdict EXCEPT ![i] = "none"]
            /\ task[i] \in Probing
            /\ UNCHANGED <<opts, pc, at, results, hosts>>
          BY <1>3 DEF SynFallsBack, Probing, TypeOK, Bookkeeping
      <3> QED BY <3>1, BooksOfTask
    <2> QED BY <2>2, <2>3, <2>4
  <1>4. CASE SynPanics(i)
    <2>1. pc \in {"spawn", "join"} /\ Current \in Targets /\ (pc = "join" => i > at)
        BY <1>4, TaskStepContext DEF SynPanics, Probing
    <2>2. TypeOK'
        BY <1>4, <2>1, AnswerIsState DEF SynPanics, TypeOK, Bookkeeping, FreedPermits
    <2>3. NoStrayProbe'
        BY <1>4, <2>1 DEF SynPanics, TypeOK, NoStrayProbe, Running, Probing, FreedPermits
    <2>4. Bookkeeping'
      <3>1. /\ task' = [task EXCEPT ![i] = "panicked"]
            /\ tries' = [tries EXCEPT ![i] = tries[i]]
            /\ verdict' = [verdict EXCEPT ![i] = "none"]
            /\ task[i] \in Probing
            /\ UNCHANGED <<opts, pc, at, results, hosts>>
          BY <1>4 DEF SynPanics, Probing, TypeOK, Bookkeeping
      <3>2. Lossy
          BY <1>4 DEF SynPanics, Lossy, Bookkeeping, FirstProbe
      <3> QED BY <3>1, <3>2, BooksOfTask
    <2> QED BY <2>2, <2>3, <2>4
  <1>5. CASE ConnectAnswered(i)
    <2>1. pc \in {"spawn", "join"} /\ Current \in Targets /\ (pc = "join" => i > at)
        BY <1>5, TaskStepContext DEF ConnectAnswered, Probing
    <2>2. TypeOK'
        BY <1>5, <2>1, AnswerIsState DEF ConnectAnswered, TypeOK, Bookkeeping, Return, FreedPermits
    <2>3. NoStrayProbe'
        BY <1>5, <2>1 DEF ConnectAnswered, TypeOK, NoStrayProbe, Running, Probing, Return, FreedPermits
    <2>4. Bookkeeping'
      <3>1. /\ task' = [task EXCEPT ![i] = "done"]
            /\ tries' = [tries EXCEPT ![i] = tries[i]]
            /\ verdict' = [verdict EXCEPT ![i] = Truth[Current][PortSpec[i]]]
            /\ task[i] \in Probing
            /\ UNCHANGED <<opts, pc, at, results, hosts>>
          BY <1>5 DEF ConnectAnswered, Return, Probing, TypeOK
      <3>2. Truth[Current][PortSpec[i]] \in {"open", "closed"}
          BY <1>5, <2>1, AnswerIsState DEF ConnectAnswered
      <3> QED BY <3>1, <3>2, BooksOfTask
    <2> QED BY <2>2, <2>3, <2>4
  <1>6. CASE ConnectRetries(i)
    <2>1. pc \in {"spawn", "join"} /\ Current \in Targets /\ (pc = "join" => i > at)
        BY <1>6, TaskStepContext DEF ConnectRetries, Probing
    <2>2. TypeOK'
        BY <1>6, <2>1, AnswerIsState DEF ConnectRetries, TypeOK, Bookkeeping, FreedPermits
    <2>3. NoStrayProbe'
        BY <1>6, <2>1 DEF ConnectRetries, TypeOK, NoStrayProbe, Running, Probing, FreedPermits
    <2>4. Bookkeeping'
      <3>1. /\ task' = [task EXCEPT ![i] = "connect"]
            /\ tries' = [tries EXCEPT ![i] = tries[i] + 1]
            /\ verdict' = [verdict EXCEPT ![i] = "none"]
            /\ task[i] \in Probing
            /\ UNCHANGED <<opts, pc, at, results, hosts>>
          BY <1>6 DEF ConnectRetries, Probing, TypeOK, Bookkeeping
      <3> QED BY <3>1, BooksOfTask
    <2> QED BY <2>2, <2>3, <2>4
  <1>7. CASE ConnectGivesUp(i)
    <2>1. pc \in {"spawn", "join"} /\ Current \in Targets /\ (pc = "join" => i > at)
        BY <1>7, TaskStepContext DEF ConnectGivesUp, Probing
    <2>2. TypeOK'
        BY <1>7, <2>1, AnswerIsState DEF ConnectGivesUp, TypeOK, Bookkeeping, Return, FreedPermits
    <2>3. NoStrayProbe'
        BY <1>7, <2>1 DEF ConnectGivesUp, TypeOK, NoStrayProbe, Running, Probing, Return, FreedPermits
    <2>4. Bookkeeping'
      <3>1. /\ task' = [task EXCEPT ![i] = "done"]
            /\ tries' = [tries EXCEPT ![i] = tries[i] + 1]
            /\ verdict' = [verdict EXCEPT ![i] = "filtered"]
            /\ task[i] \in Probing
            /\ UNCHANGED <<opts, pc, at, results, hosts>>
          BY <1>7 DEF ConnectGivesUp, Return, Probing, TypeOK
      <3> QED BY <3>1, BooksOfTask
    <2> QED BY <2>2, <2>3, <2>4
  <1> QED BY <1>1, <1>2, <1>3, <1>4, <1>5, <1>6, <1>7 DEF TaskStep

(* Steps of main, steps of tasks and stuttering together.                  *)
LEMMA CoreStep == Core /\ [Next]_vars => Core'
  <1> SUFFICES ASSUME Core, [Next]_vars PROVE Core'
      OBVIOUS
  <1>1. CASE MainStep
      BY <1>1, CoreMain
  <1>2. ASSUME NEW i \in Tasks, TaskStep(i) PROVE Core'
      BY <1>2, CoreTask
  <1>3. CASE UNCHANGED vars
    <2>1. TypeOK' /\ NoStrayProbe'
        BY <1>3 DEF Core, vars, TypeOK, NoStrayProbe, Running
    <2>2. Bookkeeping'
        BY <1>3 DEF Core, vars, Bookkeeping, Lossy, FirstProbe, Current
    <2> QED BY <2>1, <2>2 DEF Core
  <1> QED BY <1>1, <1>2, <1>3 DEF Next, Exited

(* The state keeps its type, no probe is in flight outside the spawn and   *)
(* join loops of its own host, and main and the tasks agree on what each   *)
(* has done (main.rs:202-326).                                             *)
THEOREM CoreInvariant == Spec => []Core
  <1>1. Init => Core
      BY CoreInit
  <1>2. Core /\ [Next]_vars => Core'
      BY CoreStep
  <1> QED BY <1>1, <1>2, PTL DEF Spec

(* The type invariant, for every value of the constants.                   *)
THEOREM TypeCorrect == Spec => []TypeOK
  <1>1. Core => TypeOK
      BY DEF Core
  <1> QED BY <1>1, CoreInvariant, PTL

(* Joining every task of a host before the next step of main leaves no     *)
(* probe behind (main.rs:286-290).                                         *)
THEOREM ProbesStayInTheirHost == Spec => []NoStrayProbe
  <1>1. Core => NoStrayProbe
      BY DEF Core
  <1> QED BY <1>1, CoreInvariant, PTL

(* Main and the tasks agree: verdicts belong to the host being scanned     *)
(* and to the probe that gave them (main.rs:243-290).                      *)
THEOREM BooksBalance == Spec => []Bookkeeping
  <1>1. Core => Bookkeeping
      BY DEF Core
  <1> QED BY <1>1, CoreInvariant, PTL

-----------------------------------------------------------------------------
(***************************************************************************)
(* Permits.                                                                *)
(***************************************************************************)
LEMMA RunningFinite == IsFiniteSet(Running) /\ Cardinality(Running) \in Nat
  <1>1. IsFiniteSet(Tasks)
      BY FS_Interval, TaskFacts DEF Tasks
  <1>2. Running \subseteq Tasks
      BY DEF Running
  <1> QED BY <1>1, <1>2, FS_Subset, FS_CardinalityType

(* One more probe in flight, and one less.                                 *)
LEMMA ProbeStarts ==
    ASSUME TypeOK, NEW i \in Tasks, task[i] \notin Probing,
           NEW s \in Probing, task' = [task EXCEPT ![i] = s]
    PROVE  Cardinality(Running') = Cardinality(Running) + 1
  <1>1. Running' = Running \cup {i} /\ i \notin Running
      BY DEF Running, TypeOK
  <1> QED BY <1>1, RunningFinite, FS_AddElement

(* A task that leaves the probing states frees one place.                  *)
LEMMA ProbeEnds ==
    ASSUME TypeOK, NEW i \in Tasks, task[i] \in Probing,
           NEW s, s \notin Probing, task' = [task EXCEPT ![i] = s]
    PROVE  Cardinality(Running') = Cardinality(Running) - 1
  <1>1. Running' = Running \ {i} /\ i \in Running
      BY DEF Running, TypeOK
  <1> QED BY <1>1, RunningFinite, FS_RemoveElement

(* Of the steps of main only the spawn takes a permit, for a new probe.    *)
LEMMA PermitMain ==
    Core /\ PermitConservation /\ MainStep => PermitConservation'
  <1> SUFFICES ASSUME Core, PermitConservation, MainStep PROVE PermitConservation'
      OBVIOUS
  <1> USE DEF Core, PermitConservation
  <1>1. CASE SpawnTask
    <2>1. at + 1 \in Tasks /\ task[at + 1] \notin Probing
        BY <1>1 DEF SpawnTask, TypeOK, Bookkeeping, Tasks, Probing
    <2>2. FirstProbe \in Probing
        BY DEF FirstProbe, Probing
    <2>3. Cardinality(Running') = Cardinality(Running) + 1
        BY <1>1, <2>1, <2>2, ProbeStarts DEF SpawnTask
    <2>4. permits' = permits - 1 /\ Limit' = Limit /\ permits \in Nat
        BY <1>1 DEF SpawnTask, Limit, TypeOK
    <2> QED BY <2>3, <2>4, RunningFinite
  <1>2. CASE PushHost
    <2>1. Running = {} /\ Running' = {}
        BY <1>2 DEF PushHost, HostScanned, NoStrayProbe, Running, Probing
    <2> QED BY <1>2, <2>1 DEF PushHost, HostScanned, Limit
  <1>3. CASE UNCHANGED <<opts, permits, task>>
      BY <1>3 DEF Running, Limit
  <1> QED BY <1>1, <1>2, <1>3 DEF MainStep, HostUp, HostNotUp, MainDies, SpawnsDone,
             JoinTask, JoinsDone, DetectService, Report

(* A task gives its permit back in exactly the steps that end it.          *)
LEMMA PermitTask ==
    ASSUME NEW i \in Tasks
    PROVE  Core /\ PermitConservation /\ TaskStep(i) => PermitConservation'
  <1> SUFFICES ASSUME Core, PermitConservation, TaskStep(i) PROVE PermitConservation'
      OBVIOUS
  <1> USE DEF Core, PermitConservation
  <1>1. task[i] \in Probing /\ Limit' = Limit /\ permits \in Nat
      BY DEF TaskStep, SynAnswered, SynTimesOut, SynFallsBack, SynPanics, ConnectAnswered,
             ConnectRetries, ConnectGivesUp, Probing, Limit, TypeOK
  <1>2. CASE SynFallsBack(i) \/ ConnectRetries(i)
    <2>1. Running' = Running /\ permits' = permits
        BY <1>2 DEF SynFallsBack, ConnectRetries, Running, Probing, TypeOK
    <2> QED BY <1>1, <2>1
  <1>3. CASE ~(SynFallsBack(i) \/ ConnectRetries(i))
    <2>1. PICK s \in {"done", "panicked"} : task' = [task EXCEPT ![i] = s]
        BY <1>3 DEF TaskStep, SynAnswered, SynTimesOut, SynPanics, ConnectAnswered,
                    ConnectGivesUp, Return
    <2>2. permits' = permits + 1
        BY <1>3 DEF TaskStep, SynAnswered, SynTimesOut, SynPanics, ConnectAnswered,
                    ConnectGivesUp, Return, FreedPermits
    <2>3. s \notin Probing
        BY DEF Probing
    <2>4. Cardinality(Running') = Cardinality(Running) - 1
        BY <1>1, <2>1, <2>3, ProbeEnds
    <2> QED BY <1>1, <2>2, <2>4, RunningFinite
  <1> QED BY <1>2, <1>3

(* The semaphore's permits and the probes in flight always add up to       *)
(* max_parallel.max(1) (main.rs:199, 246-251).                             *)
THEOREM PermitsConserved == Spec => []PermitConservation
  <1>1. Init => PermitConservation
    <2> SUFFICES ASSUME Init PROVE PermitConservation
        OBVIOUS
    <2>1. Running = {}
        BY DEF Init, Running, Probing
    <2>2. Limit \in Nat /\ permits = Limit
        BY DEF Init, Limit, Options
    <2> QED BY <2>1, <2>2, FS_EmptySet DEF PermitConservation
  <1>2. Core /\ PermitConservation /\ [Next]_vars => PermitConservation'
    <2> SUFFICES ASSUME Core, PermitConservation, [Next]_vars PROVE PermitConservation'
        OBVIOUS
    <2>1. CASE MainStep
        BY <2>1, PermitMain
    <2>2. ASSUME NEW i \in Tasks, TaskStep(i) PROVE PermitConservation'
        BY <2>2, PermitTask
    <2>3. CASE UNCHANGED vars
        BY <2>3 DEF vars, PermitConservation, Running, Limit
    <2> QED BY <2>1, <2>2, <2>3 DEF Next, Exited
  <1> QED BY <1>1, <1>2, CoreInvariant, PTL DEF Spec

(* So main.rs never has more than max_parallel.max(1) probes in flight.    *)
THEOREM InFlightBound == Spec => [](Cardinality(Running) <= Limit)
  <1>1. Core /\ PermitConservation => Cardinality(Running) <= Limit
      BY RunningFinite DEF Core, TypeOK, PermitConservation
  <1> QED BY <1>1, CoreInvariant, PermitsConserved, PTL

-----------------------------------------------------------------------------
(***************************************************************************)
(* Retries.                                                                *)
(***************************************************************************)
LEMMA RetryMain == Core /\ RetryBudget /\ MainStep => RetryBudget'
  <1> SUFFICES ASSUME Core, RetryBudget, MainStep PROVE RetryBudget'
      OBVIOUS
  <1> USE DEF Core, RetryBudget
  <1>1. CASE SpawnTask
      BY <1>1 DEF SpawnTask, TypeOK, Bookkeeping, Tasks, FirstProbe, Current
  <1>2. CASE PushHost
      BY <1>2 DEF PushHost
  <1>3. CASE HostNotUp
    <2>1. \A i \in Tasks : verdict[i] = "none" /\ task[i] = "idle"
        BY <1>3 DEF HostNotUp, Bookkeeping
    <2> QED BY <1>3, <2>1 DEF HostNotUp
  <1>4. CASE UNCHANGED <<opts, task, tries, verdict, hosts>>
      BY <1>4 DEF FirstProbe, Current
  <1> QED BY <1>1, <1>2, <1>3, <1>4 DEF MainStep, HostUp, MainDies, SpawnsDone,
             JoinTask, JoinsDone, DetectService, Report

(* A task counts its attempts up to the bound and stops there.             *)
LEMMA RetryTask ==
    ASSUME NEW i \in Tasks
    PROVE  Core /\ RetryBudget /\ TaskStep(i) => RetryBudget'
  <1> SUFFICES ASSUME Core, RetryBudget, TaskStep(i) PROVE RetryBudget'
      OBVIOUS
  <1>1. /\ FirstProbe' = FirstProbe
        /\ \A j \in Tasks : j # i => /\ task'[j] = task[j]
                                    /\ tries'[j] = tries[j]
                                    /\ verdict'[j] = verdict[j]
      BY DEF TaskStep, SynAnswered, SynTimesOut, SynFallsBack, SynPanics, ConnectAnswered,
             ConnectRetries, ConnectGivesUp, Return, Core, TypeOK, FirstProbe, Current
  <1>2. /\ tries[i] \in Nat
        /\ task[i] \in Probing => verdict[i] = "none"
        /\ task[i] = "syn" => tries[i] = 0 /\ FirstProbe = "syn"
        /\ task[i] = "connect" => tries[i] <= MaxRetries
      BY DEF Core, TypeOK, Bookkeeping, Probing, RetryBudget
  <1>3. /\ task'[i] = "connect" => tries'[i] <= MaxRetries
        /\ verdict'[i] \in {"open", "closed"} => tries'[i] <= MaxRetries
        /\ verdict'[i] = "filtered" =>
              tries'[i] = MaxRetries + 1 \/ (tries'[i] = 0 /\ FirstProbe = "syn")
    <2> USE DEF Core, TypeOK
    <2>1. CASE SynAnswered(i) \/ SynTimesOut(i)
        BY <1>2, <2>1 DEF SynAnswered, SynTimesOut, Return
    <2>2. CASE SynFallsBack(i) \/ SynPanics(i)
        BY <1>2, <2>2 DEF SynFallsBack, SynPanics, Probing
    <2>3. CASE ConnectAnswered(i)
      <3>1. verdict'[i] \in {"open", "closed"}
          BY <2>3, TaskStepContext, AnswerIsState DEF ConnectAnswered, Return, Probing
      <3> QED BY <1>2, <2>3, <3>1 DEF ConnectAnswered, Return
    <2>4. CASE ConnectRetries(i)
        BY <1>2, <2>4 DEF ConnectRetries, MayRetry, Probing
    <2>5. CASE ConnectGivesUp(i)
        BY <1>2, <2>5 DEF ConnectGivesUp, MayRetry, Return
    <2> QED BY <2>1, <2>2, <2>3, <2>4, <2>5 DEF TaskStep
  <1> QED BY <1>1, <1>3 DEF RetryBudget

(* connect.rs makes max_retries + 1 attempts before it calls a port        *)
(* filtered, and never more (connect.rs:15-60).                            *)
THEOREM RetriesExact == Spec => []RetryBudget
  <1>1. Init => RetryBudget
      BY DEF Init, RetryBudget
  <1>2. Core /\ RetryBudget /\ [Next]_vars => RetryBudget'
    <2> SUFFICES ASSUME Core, RetryBudget, [Next]_vars PROVE RetryBudget'
        OBVIOUS
    <2>1. CASE MainStep
        BY <2>1, RetryMain
    <2>2. ASSUME NEW i \in Tasks, TaskStep(i) PROVE RetryBudget'
        BY <2>2, RetryTask
    <2>3. CASE UNCHANGED vars
        BY <2>3 DEF vars, RetryBudget, FirstProbe, Current
    <2> QED BY <2>1, <2>2, <2>3 DEF Next, Exited
  <1> QED BY <1>1, <1>2, CoreInvariant, PTL DEF Spec

-----------------------------------------------------------------------------
(***************************************************************************)
(* Rows.                                                                   *)
(***************************************************************************)
LEMMA RowHasTask ==
    ASSUME RowsAreVerdicts, pc \in {"join", "detect"}, NEW l \in DOMAIN results
    PROVE  /\ results[l].service => results[l].state = "open"
           /\ \E i \in Tasks : /\ pc = "join" => i <= at
                              /\ task[i] = "done"
                              /\ results[l].port = PortSpec[i]
                              /\ results[l].state = verdict[i]
  BY DEF RowsAreVerdicts

(* Appending leaves the earlier elements where they are.                   *)
LEMMA AppendFacts ==
    ASSUME NEW S, NEW s \in Seq(S), NEW e
    PROVE  /\ DOMAIN Append(s, e) = DOMAIN s \cup {Len(s) + 1}
           /\ \A k \in DOMAIN s : Append(s, e)[k] = s[k]
           /\ Append(s, e)[Len(s) + 1] = e
           /\ \A k \in DOMAIN s : k < Len(s) + 1
  <1>1. DOMAIN s = 1..Len(s) /\ Len(s) \in Nat
      OBVIOUS
  <1>2. DOMAIN Append(s, e) = 1..(Len(s) + 1) /\ Append(s, e)[Len(s) + 1] = e
      OBVIOUS
  <1>3. \A k \in 1..Len(s) : Append(s, e)[k] = s[k]
      OBVIOUS
  <1> QED BY <1>1, <1>2, <1>3

(* Joining the next task adds its row, if it returned one, and no other.   *)
LEMMA RowsJoinTask == Core /\ RowsAreVerdicts /\ JoinTask => RowsAreVerdicts'
  <1> SUFFICES ASSUME Core, RowsAreVerdicts, JoinTask PROVE RowsAreVerdicts'
      OBVIOUS
  <1>1. /\ pc = "join" /\ pc' = "join" /\ at' = at + 1 /\ at \in Nat
        /\ task' = task /\ verdict' = verdict /\ at + 1 \in Tasks
        /\ results \in Seq(Row) /\ results' = Joined(at + 1)
      BY DEF JoinTask, Core, TypeOK, Tasks
  <1>2. \A i \in Tasks : i <= at' <=> (i <= at \/ i = at + 1)
      BY <1>1 DEF Tasks
  <1>3. CASE task[at + 1] # "done"
      BY <1>1, <1>2, <1>3 DEF Joined, RowsAreVerdicts
  <1>4. CASE task[at + 1] = "done"
    <2> DEFINE row == [port |-> PortSpec[at + 1], state |-> verdict[at + 1], service |-> FALSE]
    <2>1. results' = Append(results, row)
        BY <1>1, <1>4 DEF Joined
    <2>2. /\ DOMAIN results' = DOMAIN results \cup {Len(results) + 1}
          /\ \A k \in DOMAIN results : results'[k] = results[k]
          /\ results'[Len(results) + 1] = row
          /\ \A k \in DOMAIN results : k < Len(results) + 1
      <3> HIDE DEF row
      <3>1. results \in Seq(Row)
          BY <1>1
      <3>2. /\ DOMAIN Append(results, row) = DOMAIN results \cup {Len(results) + 1}
            /\ \A k \in DOMAIN results : Append(results, row)[k] = results[k]
            /\ Append(results, row)[Len(results) + 1] = row
            /\ \A k \in DOMAIN results : k < Len(results) + 1
          BY <3>1, AppendFacts
      <3> QED BY <2>1, <3>2
    <2>3. \A k \in DOMAIN results : results[k].port # PortSpec[at + 1]
      <3> SUFFICES ASSUME NEW k \in DOMAIN results, results[k].port = PortSpec[at + 1]
                   PROVE  FALSE
          OBVIOUS
      <3>1. PICK i \in Tasks : i <= at /\ results[k].port = PortSpec[i]
          BY <1>1 DEF RowsAreVerdicts
      <3>2. i = at + 1
          BY <1>1, <3>1
      <3> QED BY <1>1, <3>1, <3>2 DEF Tasks
    <2>4. ASSUME NEW k \in DOMAIN results'
          PROVE  /\ results'[k].service => results'[k].state = "open"
                 /\ \E i \in Tasks : /\ i <= at'
                                    /\ task'[i] = "done"
                                    /\ results'[k].port = PortSpec[i]
                                    /\ results'[k].state = verdict'[i]
      <3>1. CASE k = Len(results) + 1
        <4>1. results'[k] = row
            BY <2>2, <3>1
        <4>2. row.port = PortSpec[at + 1] /\ row.state = verdict[at + 1] /\ row.service = FALSE
            OBVIOUS
        <4>3. at + 1 <= at' /\ task'[at + 1] = "done"
            BY <1>1, <1>4
        <4> QED BY <1>1, <4>1, <4>2, <4>3
      <3>2. CASE k \in DOMAIN results
        <4>1. results'[k] = results[k]
            BY <2>2, <3>2
        <4>2. /\ results[k].service => results[k].state = "open"
              /\ \E i \in Tasks : /\ i <= at
                                 /\ task[i] = "done"
                                 /\ results[k].port = PortSpec[i]
                                 /\ results[k].state = verdict[i]
            BY <1>1, <3>2, RowHasTask
        <4> QED BY <1>1, <1>2, <4>1, <4>2
      <3> QED BY <2>2, <3>1, <3>2
    <2>5. ASSUME NEW i \in Tasks, task'[i] = "done", i <= at'
          PROVE  \E k \in DOMAIN results' : results'[k].port = PortSpec[i]
      <3>1. CASE i = at + 1
        <4>1. results'[Len(results) + 1].port = PortSpec[i]
            BY <2>2, <3>1
        <4> QED BY <2>2, <4>1
      <3>2. CASE i <= at
        <4>1. PICK k \in DOMAIN results : results[k].port = PortSpec[i]
            BY <1>1, <2>5, <3>2 DEF RowsAreVerdicts
        <4> QED BY <2>2, <4>1
      <3> QED BY <1>2, <2>5, <3>1, <3>2
    <2>6. ASSUME NEW k \in DOMAIN results', NEW l \in DOMAIN results', k < l
          PROVE  results'[k].port # results'[l].port
      <3>1. DOMAIN results = 1..Len(results) /\ Len(results) \in Nat
          BY <1>1
      <3>2. k \in DOMAIN results
          BY <2>2, <2>6, <3>1
      <3>3. CASE l \in DOMAIN results
          BY <1>1, <2>2, <2>6, <3>2, <3>3 DEF RowsAreVerdicts
      <3>4. CASE l = Len(results) + 1
        <4>1. results'[l].port = PortSpec[at + 1]
            BY <2>2, <3>4
        <4> QED BY <2>2, <2>3, <3>2, <4>1
      <3> QED BY <2>2, <3>3, <3>4
    <2> QED BY <1>1, <2>4, <2>5, <2>6 DEF RowsAreVerdicts
  <1> QED BY <1>3, <1>4

(* The sort keeps every row and puts distinct ports in increasing order.   *)
LEMMA RowsJoinsDone == Core /\ RowsAreVerdicts /\ JoinsDone => RowsAreVerdicts'
  <1> SUFFICES ASSUME Core, RowsAreVerdicts, JoinsDone PROVE RowsAreVerdicts'
      OBVIOUS
  <1>1. /\ pc = "join" /\ pc' = "detect" /\ task' = task /\ verdict' = verdict
        /\ \A i \in Tasks : i <= at
        /\ results \in Seq(Row) /\ results' \in Sortings(results)
      BY DEF JoinsDone, Core, TypeOK, Tasks
  <1>2. /\ \A k \in DOMAIN results' : \E l \in DOMAIN results : results'[k] = results[l]
        /\ \A l \in DOMAIN results : \E k \in DOMAIN results' : results'[k] = results[l]
        /\ \A k, l \in DOMAIN results' : k < l => results'[k].port < results'[l].port
    <2>1. \A k, l \in DOMAIN results : k < l => results[k].port # results[l].port
        BY <1>1 DEF RowsAreVerdicts
    <2> QED BY <1>1, <2>1, SortingFacts
  <1>3. ASSUME NEW k \in DOMAIN results'
        PROVE  /\ results'[k].service => results'[k].state = "open"
               /\ \E i \in Tasks : /\ task[i] = "done"
                                  /\ results'[k].port = PortSpec[i]
                                  /\ results'[k].state = verdict[i]
    <2>1. PICK l \in DOMAIN results : results'[k] = results[l]
        BY <1>2
    <2>2. /\ results[l].service => results[l].state = "open"
          /\ \E i \in Tasks : /\ task[i] = "done"
                             /\ results[l].port = PortSpec[i]
                             /\ results[l].state = verdict[i]
        BY <1>1, RowHasTask
    <2> QED BY <2>1, <2>2
  <1>4. ASSUME NEW i \in Tasks, task[i] = "done"
        PROVE  \E k \in DOMAIN results' : results'[k].port = PortSpec[i]
    <2>1. PICK l \in DOMAIN results : results[l].port = PortSpec[i]
        BY <1>1, <1>4 DEF RowsAreVerdicts
    <2> QED BY <1>2, <2>1
  <1> QED BY <1>1, <1>2, <1>3, <1>4 DEF RowsAreVerdicts

(* Service detection changes no port and no state of a row.                *)
LEMMA RowsDetect == Core /\ RowsAreVerdicts /\ DetectService => RowsAreVerdicts'
  <1> SUFFICES ASSUME Core, RowsAreVerdicts, DetectService PROVE RowsAreVerdicts'
      OBVIOUS
  <1>1. PICK found \in BOOLEAN :
           results' = [results EXCEPT ![at + 1] =
                          [@ EXCEPT !.service = found /\ results[at + 1].state = "open"]]
      BY DEF DetectService
  <1>2. /\ pc = "detect" /\ pc' = "detect" /\ task' = task /\ verdict' = verdict
        /\ results \in Seq(Row) /\ at + 1 \in DOMAIN results
      BY DEF DetectService, Core, TypeOK
  <1>3. /\ DOMAIN results' = DOMAIN results
        /\ \A k \in DOMAIN results :
              /\ results'[k].port = results[k].port
              /\ results'[k].state = results[k].state
              /\ results'[k].service \in {results[k].service,
                                          found /\ results[k].state = "open"}
    <2>1. \A k \in DOMAIN results : results[k] \in Row
        BY <1>2
    <2>2. \A k \in DOMAIN results : k # at + 1 => results'[k] = results[k]
        BY <1>1, <1>2
    <2>3. results'[at + 1] = [results[at + 1] EXCEPT !.service =
                                  found /\ results[at + 1].state = "open"]
        BY <1>1, <1>2
    <2>4. /\ results'[at + 1].port = results[at + 1].port
          /\ results'[at + 1].state = results[at + 1].state
          /\ results'[at + 1].service = (found /\ results[at + 1].state = "open")
        BY <1>2, <2>1, <2>3 DEF Row
    <2> QED BY <1>1, <1>2, <2>2, <2>4
  <1>4. ASSUME NEW k \in DOMAIN results'
        PROVE  /\ results'[k].service => results'[k].state = "open"
               /\ \E i \in Tasks : /\ task[i] = "done"
                                  /\ results'[k].port = PortSpec[i]
                                  /\ results'[k].state = verdict[i]
    <2>1. /\ results[k].service => results[k].state = "open"
          /\ \E i \in Tasks : /\ task[i] = "done"
                             /\ results[k].port = PortSpec[i]
                             /\ results[k].state = verdict[i]
        BY <1>2, <1>3, <1>4, RowHasTask
    <2> QED BY <1>3, <1>4, <2>1
  <1>5. ASSUME NEW i \in Tasks, task[i] = "done"
        PROVE  \E k \in DOMAIN results' : results'[k].port = PortSpec[i]
      BY <1>2, <1>3, <1>5 DEF RowsAreVerdicts
  <1>6. \A k, l \in DOMAIN results' : k < l => results'[k].port < results'[l].port
      BY <1>2, <1>3 DEF RowsAreVerdicts
  <1> QED BY <1>2, <1>4, <1>5, <1>6 DEF RowsAreVerdicts

(* A task that ends later than the one main waits for leaves the joined    *)
(* rows alone.                                                             *)
LEMMA RowsTask ==
    ASSUME NEW i \in Tasks
    PROVE  Core /\ RowsAreVerdicts /\ TaskStep(i) => RowsAreVerdicts'
  <1> SUFFICES ASSUME Core, RowsAreVerdicts, TaskStep(i) PROVE RowsAreVerdicts'
      OBVIOUS
  <1>1. task[i] \in Probing /\ pc' = pc /\ at' = at /\ results' = results
      BY DEF TaskStep, SynAnswered, SynTimesOut, SynFallsBack, SynPanics, ConnectAnswered,
             ConnectRetries, ConnectGivesUp, Probing
  <1>2. pc \in {"spawn", "join"} /\ (pc = "join" => i > at)
      BY <1>1, TaskStepContext
  <1>3. \A j \in Tasks : j # i => task'[j] = task[j] /\ verdict'[j] = verdict[j]
      BY DEF TaskStep, SynAnswered, SynTimesOut, SynFallsBack, SynPanics, ConnectAnswered,
             ConnectRetries, ConnectGivesUp, Return, Core, TypeOK
  <1>4. \A j \in Tasks : pc = "join" /\ j <= at => j # i
      BY <1>2, TaskFacts DEF Core, TypeOK, Tasks
  <1> QED BY <1>1, <1>2, <1>3, <1>4 DEF RowsAreVerdicts

(* All steps together.                                                     *)
LEMMA RowsStep == Core /\ RowsAreVerdicts /\ [Next]_vars => RowsAreVerdicts'
  <1> SUFFICES ASSUME Core, RowsAreVerdicts, [Next]_vars PROVE RowsAreVerdicts'
      OBVIOUS
  <1>1. CASE HostUp \/ HostNotUp \/ MainDies \/ SpawnTask \/ PushHost \/ Report
      BY <1>1 DEF HostUp, HostNotUp, MainDies, SpawnTask, PushHost, Report, RowsAreVerdicts
  <1>2. CASE SpawnsDone
    <2>1. results' = << >> /\ at' = 0 /\ \A i \in Tasks : ~(i <= 0)
        BY <1>2, TaskFacts DEF SpawnsDone, Core, Bookkeeping, Tasks
    <2>2. DOMAIN results' = {}
        BY <2>1
    <2> QED BY <1>2, <2>1, <2>2 DEF SpawnsDone, RowsAreVerdicts
  <1>3. CASE JoinTask \/ JoinsDone \/ DetectService
      BY <1>3, RowsJoinTask, RowsJoinsDone, RowsDetect
  <1>4. ASSUME NEW i \in Tasks, TaskStep(i) PROVE RowsAreVerdicts'
      BY <1>4, RowsTask
  <1>5. CASE UNCHANGED vars
      BY <1>5 DEF vars, RowsAreVerdicts
  <1> QED BY <1>1, <1>2, <1>3, <1>4, <1>5 DEF Next, MainStep, Exited

(* The rows of a host are the verdicts of its tasks, each under its own    *)
(* port, once, and in the order of the ports after the sort                *)
(* (main.rs:285-301).                                                      *)
THEOREM RowsFaithful == Spec => []RowsAreVerdicts
  <1>1. Init => RowsAreVerdicts
      BY DEF Init, RowsAreVerdicts
  <1> QED BY <1>1, RowsStep, CoreInvariant, PTL DEF Spec

-----------------------------------------------------------------------------
(***************************************************************************)
(* The refinement of ScanPromise.                                          *)
(***************************************************************************)
PromiseVars == <<hosts, Outcome, Lossy, Fragile>>

(* Both modules mean the same ports.                                       *)
LEMMA PromisePorts == Promise!Ports = Ports
  BY TaskFacts DEF Promise!Ports, Ports

(* The rows main pushes are the ones promised for the host.                *)
LEMMA PushedRows ==
    ASSUME Core, RowsAreVerdicts, pc = "detect"
    PROVE  /\ \A k \in DOMAIN results : Promise!HonestRow(Current, results[k])
           /\ Promise!StrictlySorted(results)
           /\ ~Lossy => Promise!CoversAllPorts(results)
  <1>1. ASSUME NEW k \in DOMAIN results
        PROVE  Promise!HonestRow(Current, results[k])
    <2>1. results[k].port \in Ports /\ results[k].state \in {"open", "closed", "filtered"}
      <3>1. results[k] \in Row
          BY DEF Core, TypeOK
      <3> QED BY <3>1 DEF Row
    <2>2. PICK i \in Tasks : results[k].port = PortSpec[i] /\ results[k].state = verdict[i]
        BY DEF RowsAreVerdicts
    <2>3. results[k].state # "filtered" => results[k].state = Truth[Current][results[k].port]
        BY <2>1, <2>2 DEF Core, Bookkeeping
    <2>4. results[k].service => results[k].state = "open"
        BY DEF RowsAreVerdicts
    <2> QED BY <2>1, <2>3, <2>4, PromisePorts DEF Promise!HonestRow, Promise!PortStates
  <1>2. Promise!StrictlySorted(results)
      BY DEF RowsAreVerdicts, Promise!StrictlySorted
  <1>3. ASSUME ~Lossy PROVE Promise!CoversAllPorts(results)
    <2>1. \A i \in Tasks : task[i] = "done"
      <3> SUFFICES ASSUME NEW i \in Tasks PROVE task[i] = "done"
          OBVIOUS
      <3>1. task[i] \notin {"idle", "panicked"}
          BY <1>3 DEF Core, Bookkeeping
      <3>2. task[i] \notin {"syn", "connect"}
          BY DEF Core, NoStrayProbe, Running, Probing
      <3> QED BY <3>1, <3>2 DEF Core, TypeOK
    <2>2. \A i \in Tasks : \E k \in DOMAIN results : results[k].port = PortSpec[i]
        BY <2>1 DEF RowsAreVerdicts
    <2> QED BY <2>2, PromisePorts DEF Promise!CoversAllPorts, Ports
  <1> QED BY <1>1, <1>2, <1>3

(* A run begins as a promise does: nothing reported, still running.        *)
LEMMA PromiseInit == Init => Promise!Init
  BY DEF Init, Promise!Init, Outcome, Lossy, Fragile, Options

(* A host that is not up is reported without rows.                         *)
LEMMA PromiseHostNotUp == Core /\ HostNotUp => Promise!ReportHost
  <1> SUFFICES ASSUME Core, HostNotUp PROVE Promise!ReportHost
      OBVIOUS
  <1>1. PICK state \in {"down", "unknown"} :
           hosts' = Append(hosts, [target |-> Current, state |-> state, ports |-> << >>])
      BY DEF HostNotUp
  <1> DEFINE entry == [target |-> Current, state |-> state, ports |-> << >>]
  <1>2. hosts \in Seq(Entry) /\ Len(hosts) < NumTargets
      BY DEF Core, TypeOK, HostNotUp, Current, Targets
  <1>3. /\ Len(hosts') = Len(hosts) + 1
        /\ \A i \in DOMAIN hosts : hosts'[i] = hosts[i]
        /\ hosts'[Len(hosts) + 1] = entry
      BY <1>1, <1>2
  <1>4. Promise!Promised(Len(hosts) + 1, entry)
      BY DEF Promise!Promised, Promise!StrictlySorted, Current
  <1>5. Outcome = "running" /\ UNCHANGED <<Outcome, Lossy, Fragile>>
      BY DEF HostNotUp, Outcome, Lossy, Fragile
  <1> HIDE DEF entry
  <1> QED BY <1>2, <1>3, <1>4, <1>5 DEF Promise!ReportHost

(* A scanned host is reported with the rows that were promised.            *)
LEMMA PromisePushHost == Core /\ RowsAreVerdicts /\ PushHost => Promise!ReportHost
  <1> SUFFICES ASSUME Core, RowsAreVerdicts, PushHost PROVE Promise!ReportHost
      OBVIOUS
  <1> DEFINE entry == [target |-> Current, state |-> "up", ports |-> results]
  <1>1. hosts' = Append(hosts, entry) /\ pc = "detect"
      BY DEF PushHost, HostScanned
  <1>2. hosts \in Seq(Entry) /\ Len(hosts) < NumTargets
      BY <1>1 DEF Core, TypeOK, Bookkeeping, Current, Targets
  <1>3. /\ Len(hosts') = Len(hosts) + 1
        /\ \A i \in DOMAIN hosts : hosts'[i] = hosts[i]
        /\ hosts'[Len(hosts) + 1] = entry
      BY <1>1, <1>2
  <1>4. Promise!Promised(Len(hosts) + 1, entry)
    <2>1. entry.target = Len(hosts) + 1 /\ entry.state = "up" /\ entry.ports = results
        BY DEF Current
    <2>2. Len(hosts) + 1 = Current
        BY DEF Current
    <2> HIDE DEF entry
    <2> QED BY <1>1, <2>1, <2>2, PushedRows DEF Promise!Promised
  <1>5. Outcome = "running" /\ UNCHANGED <<Outcome, Lossy, Fragile>>
      BY DEF PushHost, HostScanned, Outcome, Lossy, Fragile
  <1> HIDE DEF entry
  <1> QED BY <1>2, <1>3, <1>4, <1>5 DEF Promise!ReportHost

(* The report is published when it covers every target.                    *)
LEMMA PromiseReport == Core /\ Report => Promise!Publish
  <1> SUFFICES ASSUME Core, Report PROVE Promise!Publish
      OBVIOUS
  <1>1. Len(hosts) = NumTargets
      BY DEF Core, TypeOK, Report, Current, Targets
  <1> QED BY <1>1 DEF Report, Promise!Publish, Outcome, Lossy, Fragile

(* Main dies only in a run that is fragile.                                *)
LEMMA PromiseMainDies == MainDies => Promise!Die
  BY DEF MainDies, HostScanned, Promise!Die, Outcome, Lossy, Fragile

(* Every other step changes nothing the promise speaks of.                 *)
LEMMA PromiseStutter ==
    ASSUME \/ HostUp \/ SpawnTask \/ SpawnsDone \/ JoinTask \/ JoinsDone \/ DetectService
           \/ (\E i \in Tasks : TaskStep(i)) \/ UNCHANGED vars
    PROVE  UNCHANGED PromiseVars
  <1>1. hosts' = hosts /\ opts' = opts
      BY DEF HostUp, SpawnTask, SpawnsDone, JoinTask, JoinsDone, DetectService, vars,
             TaskStep, SynAnswered, SynTimesOut, SynFallsBack, SynPanics, ConnectAnswered,
             ConnectRetries, ConnectGivesUp
  <1>2. \/ pc' = pc
        \/ pc \notin {"reported", "aborted"} /\ pc' \notin {"reported", "aborted"}
      BY DEF HostUp, SpawnTask, SpawnsDone, JoinTask, JoinsDone, DetectService, vars,
             TaskStep, SynAnswered, SynTimesOut, SynFallsBack, SynPanics, ConnectAnswered,
             ConnectRetries, ConnectGivesUp
  <1> QED BY <1>1, <1>2 DEF PromiseVars, Outcome, Lossy, Fragile

(* The scan loop of main.rs, with its tasks, permits, retries, fallbacks,  *)
(* join order, sort and service detection, implements ScanPromise: the     *)
(* report grows by one promised host at a time and is published whole.     *)
THEOREM EngineKeepsPromise == Spec => ImplementsPromise
  <1>1. Init => Promise!Init
      BY PromiseInit
  <1>2. Core /\ RowsAreVerdicts /\ [Next]_vars => [Promise!Next]_PromiseVars
    <2> SUFFICES ASSUME Core, RowsAreVerdicts, [Next]_vars
                 PROVE  [Promise!Next]_PromiseVars
        OBVIOUS
    <2>1. CASE HostNotUp
        BY <2>1, PromiseHostNotUp DEF Promise!Next
    <2>2. CASE PushHost
        BY <2>2, PromisePushHost DEF Promise!Next
    <2>3. CASE Report
        BY <2>3, PromiseReport DEF Promise!Next
    <2>4. CASE MainDies
        BY <2>4, PromiseMainDies DEF Promise!Next
    <2>5. CASE \/ HostUp \/ SpawnTask \/ SpawnsDone \/ JoinTask \/ JoinsDone \/ DetectService
              \/ (\E i \in Tasks : TaskStep(i)) \/ UNCHANGED vars
        BY <2>5, PromiseStutter
    <2> QED BY <2>1, <2>2, <2>3, <2>4, <2>5 DEF Next, MainStep, Exited
  <1> QED BY <1>1, <1>2, CoreInvariant, RowsFaithful, PTL
          DEF Spec, ImplementsPromise, Promise!Spec, Promise!vars, PromiseVars
=============================================================================
