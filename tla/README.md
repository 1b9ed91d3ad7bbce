# rnmap in TLA+

This directory is a verification project for rnmap, the port scanner in this
repository: TLA+ modules translated from its source, TLC configurations that
check them on small instances, and theorems about them checked by TLAPS. Paths
below are relative to the repository; `core/` stands for
`crates/rnmap-core/src/` and `main.rs` for `crates/rnmap/src/main.rs`.

1. [Inventory](#1-inventory)
2. [The modules](#2-the-modules)
3. [The runs](#3-the-runs)
4. [Fairness](#4-fairness)
5. [The proofs](#5-the-proofs)
6. [What the code does otherwise than it says](#6-what-the-code-does-otherwise-than-it-says)
7. [What is not modelled](#7-what-is-not-modelled)
8. [Plan](#8-plan)

## 1. Inventory

rnmap is one process. `main()` parses the command line, expands targets and
ports, and then scans the targets one after the other; only the probes of one
host run concurrently, as tokio tasks gated by a semaphore. Nothing is kept
between runs except the output files.

| Component | Source | State it keeps | Operations | Talks to |
|---|---|---|---|---|
| scan loop | main.rs:199-337 | semaphore, `futs`, `port_results`, `hosts` | discover, spawn, join, sort, detect, push, report | everything below |
| connect scan | core/scan/connect.rs | attempt number, sleep | attempt, retry, give up | called inside a task, directly or after a failed SYN probe |
| SYN scan | core/scan/syn.rs | raw socket, source port, deadline | build, send, recv, parse, match, time out, fail | one blocking thread per probe; the kernel shows every raw socket all TCP traffic |
| host discovery | core/discovery.rs | `any_rst`, raw ICMP socket | TCP ping, ICMP ping | awaited by the host loop before the ports |
| timing templates | core/timing.rs | constants T0..T5 | pick a template, override fields | read by all of the above |
| service detection | core/service.rs | connection, banner | connect, listen, probe or wait, listen again, guess | awaited for each open port in turn |
| output and files | main.rs:339-376, core/output/ | the files | render three formats, print, write up to six files | reads the report |
| result model | core/result.rs | rows, hosts, report | counts | built by the host loop, read by output |
| port lists | core/ports.rs, core/top_ports.rs | - | parse a list, take the top n | before the host loop, and for `-PS` inside it |
| target lists | core/target.rs | - | expand CIDR blocks and ranges, look names up | before the host loop |
| command line | main.rs:19-142 | - | rewrite nmap's flags, parse | first of all |
| errors, crate root | core/error.rs, core/lib.rs, core/scan/mod.rs | - | type definitions | - |

What is hard in it, and what makes each component correct:

* **Scan loop.** A permit is acquired by main and given back by a task, which
  may end by an answer, a timeout, after a fallback and retries, or by a panic.
  Correct: no permit is lost or made; nothing of a host is in flight when the
  next thing begins; the rows are the verdicts of the tasks whatever order they
  end in; the run ends.
* **Connect scan.** Two bounds (`0..=max_retries`, `attempt < max_retries`) must
  agree. Correct: exactly `max_retries + 1` attempts before "filtered", and
  the time that goes with them.
* **SYN scan.** Every probe sees the answers to all others, and two probes may
  draw the same source port; the thread of a probe may run late. Correct: a
  probe takes its own answer only, does not miss one that comes early enough,
  and ends on time whatever else arrives.
* **Host discovery.** Strictly sequential, over an unreliable network with late
  and foreign packets. Correct: up means that the target answered; every
  target is judged.
* **Service detection.** Three waits chosen by port, each racing the server.
  Correct: a greeting is waited for and not talked over; the whole is bounded;
  the name is that of the banner, or of the port where the code lets the port
  decide, and never a third one.
* **Command line, targets, ports, timing.** Sequential, but full of boundaries:
  compound flags cut into pieces, port 0 and the last port, open ends, /31 and
  /32, the last octet, a limit tested after a push, overrides of a template.
  Correct: the scan begins with exactly what was typed, or not at all, and
  never without targets, ports or permits.
* **Packets.** Checksums that carry, IP options, packets cut off anywhere.
  Correct: what is sent verifies; what is received is read where it stands.
* **Output.** Three independent implementations of `--open`; a print and up to
  six writes, each of which may fail, over the files of an earlier run.
  Correct: the formats agree; XML attributes give back their text; success means that every file is whole; a failure
  puts one file at risk.

`PROJECT.json` lists every such hazard at the line where it bites, with the
properties that would catch it.

## 2. The modules

| Module | Models | Role |
|---|---|---|
| `ScanPromise` | what a run promises about its report | abstract specification |
| `ScanEngine` | scan loop, tasks, outcomes of both scans | core; implements `ScanPromise` |
| `Timing` | the templates and the durations made of them | shared by the three modules with a clock in the code's units |
| `HostTime` | scan loop, connect scan and SYN scan's threads, with a clock | time bounds |
| `SynScan` | concurrent SYN probes of one target, with a clock | safety and time |
| `Packets` | bytes and checksums of packets, parsing | operators |
| `SynPackets` | `SynScan`'s segments as bytes of `Packets` | composes the two |
| `Discovery` | TCP and ICMP ping of all targets | soundness, progress |
| `Service` | `detect()` against one server, with a clock | the exchange and the guess |
| `Output` | rendering, printing and writing | agreement, failures |
| `CommandLine` | `rewrite_nmap_args`, and clap as far as it matters | part of `Startup` |
| `TargetList` | `TargetSpec::parse_many` | part of `Startup` |
| `PortList` | `PortSpec::parse`, `top_n` | part of `Startup` |
| `Startup` | main() up to its host loop | composes the three and `Timing`; meets `ScanEngine`'s assumptions |
| `MC...` | values for constants that a .cfg cannot write | instances for TLC |
| `Lemmas` | sets of numbers, folds and flattening of sequences | shared by the proofs |
| `..._proofs` | theorems about the module they extend | proofs |

Operators commented `Bug:` are plausible mistakes. No specification uses them;
each stands next to the definition it would replace, and putting it in that
place must make TLC report the property that PROJECT.json pairs it with. They
show that the properties can be violated by wrong code.

### ScanEngine

`pc` is where main is: `discover` (main.rs:207-237), `spawn` (240-283), `join`
(285-291), `detect` (294-302), `reported` or `aborted`. A target is its
position in `targets.addrs`, a task its position in `futs`.

| Action | Code |
|---|---|
| `HostUp`, `HostNotUp` | discovery's outcomes and the early `continue` for a host that is not up |
| `MainDies` | `?` on a bad `-PS` list, and every `eprintln!` of main that cannot write |
| `SpawnTask` | `acquire_owned().await`, then `tokio::spawn` with the permit |
| `SynAnswered`, `SynTimesOut`, `SynFallsBack`, `SynPanics` | the outcomes of `spawn_blocking(syn_scan_blocking)` in the task; the fallback to `connect_scan` |
| `ConnectAnswered`, `ConnectRetries`, `ConnectGivesUp` | one attempt of connect.rs |
| `JoinTask`, `JoinsDone` | `if let Ok(r) = f.await`, then the sort |
| `DetectService`, `PushHost`, `Report` | `-sV`, `hosts.push`, and the report |

The network is a constant, `Truth`, that says how each port would answer,
together with the freedom of every attempt to hear nothing. The options, and
whether stderr can be written to, are chosen in `Init` and never change. A
failed print matters because `eprintln!` panics: inside a task the panic costs
the row (the join loop drops a `JoinError`), inside main it costs the report.

### ScanPromise

The report as its reader may rely on it: one entry per target, in order; rows
only for hosts that are up, sorted, one per port, none claiming more than the
host answered; published when complete and never before. `ScanEngine` maps
`outcome` to its `pc`, and two flags to the options: `lossy` (a SYN scan whose
fallback cannot print: rows may be missing) and `fragile` (an option whose
failure leaves main). These flags are where the code falls short of the plain
promise, stated as exactly as the code allows.

### HostTime

The same spawn loop and attempt loop with a clock, for connect and for SYN
scans. A SYN probe needs a thread of tokio's blocking pool (`TakesThread`), which
has 512 of them while `-T5` or `-c` may give out more permits: the probe holds
its permit and waits, first come first served, and its own clock starts in the
thread. An error at any moment turns it into a connect scan with a full set of
retries (`SynFallsBack`). Time advances (`Tick`) only when nothing is due, so the
bounds are those of an idle machine: on a busy one, all of them grow by
scheduling delay. `Detect` takes any time up to the sum of the timeouts of
`detect()`, which `Service!DetectOnTime` establishes. The answers of tasks are
free here; `ScanEngine` looks after them.

### SynScan

One raw socket, and so one inbox, per probe. `HandOut` puts a copy of every
segment into the inbox of every open socket. Answers may be lost or arrive at
any time; `Noise` is anything from another host, and from the target anything
that is addressed to another port of this machine than the probe's, or neither
accepts nor refuses a connection. `GiveUp` and `Wait` are the top
of the loop, `Receive` and `RecvTimesOut` its recv, `Reading` the comparison of
address and ports and of the flags. `Fails` is an error of socket, send or recv;
the task then falls back (`ScanEngine!SynFallsBack`).

A thread gets the processor up to `Lag` after it has something to do (`wakes`):
`Tick` waits for no thread longer than that, so segments queue up, and a deadline
may pass while an answer is in the socket. syn.rs looks at the clock before the
socket and then gives up. How early an answer must come not to suffer this is
`Arrival`: every segment in front of it costs a recv and a test of the deadline,
each late by `Lag`. `AnswersAreHeard` is the promise for early answers,
`NoAnswerPassedOver` the one for all of them, which the code does not keep
(section 6). With `Lag = 0` the two say the same.

### Packets and SynPackets

`BuildTcp`, `BuildIpv4` and `BuildIcmpEcho` build the packets byte by byte,
`Checksum16` is the sum with its carries, `ParseTcp` and `StripIpv4` take apart
what was received, IP options and truncation included. `SynPackets` says that
`ReadingOfBytes`, the probe's loop on the bytes of a packet, is `SynScan`'s
`Reading` of the segment those bytes stand for, so that what is checked of
segments holds of packets. Both of its properties speak about operators alone;
they are looked at in the states in which no probe has been sent.
`SynScan_proofs` has the proofs about them too.

### Discovery

`tcp_ping` walks its list until a port accepts; `any_rst` remembers a refusal.
`icmp_v4_ping_blocking` sends one request and does one recv; `flying` keeps
echo replies to earlier targets, since a raw ICMP socket receives every ICMP
packet of the machine. Two history variables say what a ping could have known:
`heard`, whose reply reached the socket of its own ping, and `disturbed`, whose
ping received a packet of another program, and no echo reply, before anything
else.

### Service

A server is what it says (`Heads`: the part of a banner that the patterns look
at), whether it waits to be spoken to, and whether its banner comes in two
segments with the cut inside the head. A read takes what has arrived, once, so a
banner may be cut (`heard = "part"`). The server may close the connection, in order or by a reset, at any moment. `BannerRules` and
`HintedRules` are the chain of tests of `guess_from_banner` in its order: a head
alone, a head on some ports, or a head or a port. `Introductions` and `KnownPorts`
say what each head and each port stands for, apart from that order.

### Output

`NormalRows`, `XmlRows` and `JsonRows` are the three treatments of `--open`;
each is the fold that the Rust iterator is (a `filter` and a `retain` share
`OpenRows`, the `continue` of xml.rs is a fold of its own), and a report is any
sequence of `Host` with rows only where a host is up, as `ScanPromise` has it.
`Escaped` is the chain of `replace` calls of xml.rs, entity by entity, and
`Parsed` what a reader of XML makes of the result.
`Jobs` is the sequence of writes; a file is absent, from an earlier run,
partial, or whole in one of the formats. A path is the sequence of its parts
between dots, which is what `Path::with_extension` looks at.

### Startup, CommandLine, TargetList, PortList

`Startup` runs main() from its first line to its host loop: `pc` says whether it
is at the command line (main.rs:146-152), the targets (158-160), the ports
(162-171) or the timing and the semaphore (173-199), and every `?` and panic on
the way is an action of its own (`CommandLineFails`, `NoTargets`, `TargetsFail`,
`PortsFail`, `SemaphorePanics`).

* `CommandLine`: an argument is a text, or a flag with the text that follows it.
  `RewriteOne` is one turn of `rewrite_nmap_args`; `CutChar` is an argument whose
  third byte is inside a character, on which the slice panics. The actions
  `Takes...` and `Refuses` are clap's, external, for the options of `Cli`.
* `TargetList`: `ExpandOne` appends the addresses of one argument, a block, an
  octet range, a literal or a name; `Unusable` gathers the errors. An address is
  its family and a number, so blocks are arithmetic; what the resolver answers
  is part of a name.
* `PortList`: `ReadChunk`, `SkipBlank`, `RefuseChunk` and `AllChunksRead` are the
  loop of `PortSpec::parse`, `Walk` and `TableEnds` that of `top_n`.

The lower half of these modules is the other side of the comparison: what a
port chunk, a block or a range means (`PortsOf`, `Block`, `AddressesOf`), as sets
that share no operator with the code's walk.

## 3. The runs

Expected to pass:

| Run | Instance | Properties and what they say |
|---|---|---|
| `engine` | 2 targets (one IPv6), 3 ports in unsorted order, 1 retry, `-c` 0, 1 or 2, all options | `PermitConservation`: free permits and probes in flight add up to the limit. `NoStrayProbe`: probes only inside their host's loops. `Bookkeeping`: main and tasks agree. `RetryBudget`: filtered after exactly `max_retries + 1` failures. `RowsAreVerdicts`: rows are the verdicts, once each, sorted. `ImplementsPromise`: refinement of `ScanPromise`. `Completes`: a run whose options parse and whose stderr works ends with the report. |
| `host_time` | 3 ports, 2 permits, 1 blocking thread, 2 retries, connect or SYN | `ProbeBudget`: no probe outlives its turn for a thread, its timeouts and its sleeps. `NotHasty`: filtered only after all the sleeps, and a SYN probe only after its whole timeout, however long it waited for a thread. `HostBudget`: the time of ceil(n / permits) probes plus one `detect()` per open port. |
| `syn` | 2 probes, 2 source ports to draw from, 1 unrelated segment, threads up to 1 late | `NoCrossTalk`: a probe returns what its own port answered. `EndsOnTime`: less than 50 ms over, and twice the lag. `AnswersAreHeard`: no answer that comes early enough is passed over. `ChecksumsVerify`: a receiver accepts what is sent. `PacketsRecognised`: bytes read as the segments they are. |
| `discovery` | 3 targets, 2 ping ports, 2 foreign packets | `TcpPingTellsTruth`: up iff the target answered. `QuietPingHears`: a reply that comes in time is missed only if a foreign packet came first in that very ping. `EveryTargetJudged`. |
| `service` | 6 ports of the different classes, all servers, banners whole or in two segments | `BannerHeard`: the guess is made from all that has arrived. `NeverInterrupts`, `DetectOnTime`, `Returns`. `NamedByBannerOrPort`: SSH, HTTP and FTP are named wherever they are served, any other banner too unless one of seven ports overrules it, and a known port that says nothing known gets its own name. |
| `output` | 16 reports of two hosts, all combinations of file options | `RenderingsAgree`, `EscapedOnce`, `SuccessIsWhole`, `OneFileAtRisk`. |
| `startup` | ports 1..4 and all lists of at most 2 chunks; IPv4 of 4 bits, IPv6 of 2, all blocks, ranges and literals, alone and beside another; all lines of at most 3 of 21 arguments; all levels with overrides | `EngineAssumptionsMet`: a scan begins only with targets, distinct ports and permits. `PortsDenoted`, `TargetsDenoted`: with those that were meant, in order (`--top-ports` from 1 on). `AsTyped`: every value reaches its option, and where no letters follow a switch everything else the targets. `HigherIsFaster`: a higher level has no larger budget for a connect scan, overrides included. |

Expected to be violated, each a finding of section 6: `host_timeout`,
`icmp_echo`, `syn_late`, `service_banners`, `startup_topzero`. They use the
instances above, or smaller ones: the first target alone answers in `icmp_echo`,
`service_banners` has two ports, and `startup_topzero` takes lines of at most two
of the 21 arguments.

Every passing run also checks its module's `TypeOK`. Why the bounds are enough:

* *Two targets* are the least at which state left over from one host (permits,
  rows, tasks) can reach another; *three ports* the least at which the spawn
  loop waits, resumes and waits again over two permits, and at which a dropped
  task can have neighbours on both sides; the port order is neither sorted nor
  reversed. *One retry* tells the first attempt from the last. `-c 0` is the
  clamp, `-c 1` the strict sequence, `-c 2` real concurrency.
* In `host_time` the sleeps need *two retries* to have different lengths. Times
  are small integers in the order of those of the code (the sleep is shorter
  than the timeout, the longer wait differs from the read timeout).
  *One thread* for two permits makes a probe wait for its turn.
* In `syn` *two probes* are enough for one to see the other's answer, *two
  source ports* for them to draw the same or different ones, and *one unrelated
  segment* to be queued in front of an answer or to wake a recv late. The
  segment may accept or refuse a connection, also as one of the target to
  another port (`MCNoiseFlags`). A *lag of 1* is the least that lets a deadline
  pass over a queued answer, and with a timeout of *4* there are answers early
  enough behind one segment, late ones, and some between. The proofs lift all of
  these bounds. The sequence numbers and payloads for the
  checksums include all ones, a double carry and odd lengths.
* In `discovery` the *first two targets* answer echo requests, so that the reply
  of the first can come late into the ping of the second, before or after the
  second's own; the third has IPv6. `StrangeMax` bounds foreign
  packets; a ping reads one packet, so more of them change nothing.
* In `service` the ports are one per class: sent a probe or not, with a rule of
  its own, with a name that overrules banners (3306, 143) or does not (443), with
  none.
* In `output` a host has rows of each state, no rows, or is not up, and one of
  the file options names a file that `-oA` writes too. The texts for XML
  include ones that look like an entity.
* In `startup` the numbers reach one beyond each end of the ports and octets; a
  family of 4 bits has blocks of every kind (the whole, with and without ends,
  pairs, single addresses); *two* chunks or arguments meet, overlap or repeat,
  and *three* arguments give an option, its value and a target. Command lines
  are typed texts, not derived from the code. The template table is the code's
  own. `MaxPermits` lies between the largest template and a huge `-c`.

Deadlock is checked in every run. A specification that may end has an explicit
stuttering action for the end (`Exited`, `Finished`, `AllReturned`, `AllJudged`,
`Returned`); it is enabled nowhere else.

## 4. Fairness

* `ScanEngine!FairSpec`: weak fairness of main's steps together and of the
  steps of each task. tokio polls every task that is ready; an attempt ends by
  `tokio::time::timeout` at the latest, attempts are counted, and a blocking
  SYN probe ends by its own deadline (`SynScan!EndsOnTime`). Fairness is not
  assumed of any particular outcome: an attempt may fail every time. Permits
  need no strong fairness because only main acquires them.
* `Discovery!FairSpec`: weak fairness of the ping, since its every wait has a
  timeout. The network is owed nothing: no packet need ever arrive, and no
  error need ever end a recv (`IcmpBreaks` is not among `PingMoves`).
* `Service!FairSpec`: time passes, and a future that is ready is polled. The
  server is owed nothing.

## 5. The proofs

Every invariant and safety property that a passing run checks is a theorem,
proved for every value of the constants from the assumptions that the modules
name: the targets are a non-empty list, the ports distinct and not empty
(`PortsAssumption`; `Startup_proofs!ScanMayBegin` says that main sees to it),
limits are natural numbers, `Truth` has its type, arguments are texts and flags
(`CommandLinesAssumption`, `IsTarget` for the forms a target may have), there is
a sequence number to send (`SynPacketsAssumption`), and a report has rows only
for hosts that are up (`ReportsAssumption`, which `EngineKeepsPromise`
establishes).

* **`Lemmas`.** What several proofs rest on. The induction theorems of the
  library take an operator as a parameter, which the provers cannot
  instantiate; induction is therefore over sets: a set of numbers that is not
  empty has a least one (`LeastNumber`), and one with 0 and successors has all
  (`AllNumbers`). `FoldExists` says that a fold over a finite set is what its
  recursion says, `FirstPlaces` which element comes last, `SumIs` what a sum of
  a sequence is, and the `Flatten...` lemmas the same of `FlattenSeq`.
* **`ScanEngine_proofs`.** The inductive invariant is `Core == TypeOK /\
  NoStrayProbe /\ Bookkeeping`. None of the three is inductive alone: that no
  probe is in flight after the join loop needs `at` to say which tasks have
  been joined, which needs the tasks not to be spawned behind main's back; and
  a verdict stays the answer of the current host only because no task moves
  once main is past the join loop. Relative to `Core`:
  - `PermitsConserved`: each step changes permits and the number of running
    tasks by opposite amounts (`ProbeStarts`, `ProbeEnds`); `InFlightBound`,
    never more probes than `max_parallel.max(1)`, follows.
  - `RetriesExact`: `RetryBudget` is preserved by the steps of a task, and
    main's steps only reset or keep what it speaks of.
  - `RowsFaithful`: the join loop extends `results` in spawn order, and
    `SortingFacts` says what the sort keeps: all rows, and, ports being
    distinct, a strict order.
  - `EngineKeepsPromise`: refinement of `ScanPromise`. A push is `ReportHost`,
    for which `RowsAreVerdicts` and `Bookkeeping` give `Promised`; everything
    else is `Publish`, `Die` or a stutter.
* **`HostTime_proofs`.** Permits and blocking threads are the same problem: jobs
  that `c` workers take in order. `Slots` is the set of pairs of a worker and a
  number of jobs after which that worker is still free by a date; a worker that
  is done early loses no slot (`WorkerIsDone`), one that takes a job uses one
  up, and as long as no fewer slots than waiting jobs remain, every job starts
  by the date. A busy worker's next date is fixed, so time passing takes no slot
  while nothing is due. Counting slots instead of dividing is what makes the
  steps provable: each one adds or removes a job, and only the base case
  (`ManySlots`) multiplies. The invariant is `TypeOK /\ AllInTime /\ Order /\
  TurnsLeft /\ PermitsLeft /\ Begun /\ ScanInTime /\ HostBudget`: each task is on
  time in its own state, tasks have started in order and wait for a thread in
  order (`Order`), there are slots left for those that wait for a thread
  (`TurnsLeft`) and for those that wait for a permit (`PermitsLeft`).
  `ProbeBudget` alone is not inductive: it does not know why the probe at the
  end of the queue will find a thread. `ProbesInTime`, `NobodyHurried`,
  `HostsInTime`.
* **`SynScan_proofs`.** `Safe` adds to the type that every segment in an inbox
  is genuine: if it accepts or refuses for the target, the port it comes from
  does. So whatever a probe reads is the truth about its own port, even when
  another probe has drawn the same source port. `Timely` bounds each recv by
  deadline + floor, and each thread by its lag. `Unread` says of an early answer
  that it is still in the inbox until it has been read (`Queued`), and that the
  clock, with the lag of every turn of the loop up to it (`Late`), is before the
  deadline: a segment read shortens the way by as much as reading it may take.
  Then the bytes:
  - `SentPacketsVerify`: folding the carries is arithmetic modulo 65535
    (`CarriedIs`), so a checksum is right if the sum of the words is; a sum of
    words is a sum of weighed bytes (`WordSums`), to which the two bytes of the
    checksum, stamped over zeros, add what was missing (`StampedVerifies`), for
    odd lengths and with the pseudo header too.
  - `ReceivedPacketsRecognised`: a packet is the concatenation of its pieces,
    and the byte at an offset is that of a piece (`TwoPieces`), so ports and
    flags are read back where they were written, behind any options; a packet
    cut off is not read.
  - `ParseTcpTotal` and `StripIpv4Total`: for every byte sequence and every value
    of the header length field no index leaves the packet; in the code that
    index would panic.
* **`Discovery_proofs`.** `Sound` ties `any_rst` to the history of who has been
  heard: it speaks of the current target only. For `QuietPingSound` `InboxInv`
  says that a ping begins with an empty inbox, that the reply it has been sent is
  in it, and that what stands in front is an echo reply unless the ping is
  disturbed.
* **`Startup_proofs`.** `IInv` says for each phase what the ones before have
  established, for any command line, any table and any highest port:
  - *Arguments* (`ClapInv`). While main rewrites, `rewritten` consists of the
    pieces of the arguments read so far, one or two each (`Pieces`), and while
    clap reads, it is between two arguments or in the middle of one that was
    cut in two; options and targets hold the texts of those dealt with
    (`Onward`). `AsTaken` says what that comes to when the two counts meet, the
    text split off a switch included, which is a target then (`TakenAsTyped`
    leads from it to `AsTyped`, `TargetsStandAlone` to its targets).
  - *Targets* (`TargetInv`). The addresses so far are those of the first `m`
    arguments. That one argument expands to what it means is `ExpansionLists`:
    a block is the numbers that agree with it above its host bits, which are
    powers of two (`Powers`, `BlockArithmetic`), and a list is ascending, so
    that equal sets are equal lists (`AscendingLists`).
  - *Ports* (`PortInv`). The set built so far and the chunks still to come are
    together what the list means, and are as sound as it; `out` of `top_n` has
    the ports of the walked part of the table, each once and fewer than wanted.
    `ListRead` says what the loops end with, for `--top-ports 0` the one port
    that the code gives; `ListsDenoted` leads from it to `PortsDenoted`.
  - *Timing*. `HigherIsFaster` holds in every state: a timing with no fewer permits
    and no larger timeouts and retries has no larger budget for a host
    (`NoSlower`, `BudgetShrinks`), and each template is so beside the one below
    it, also after the overrides (`OverriddenFaster`).
  From it `TypeCorrect`, `ArgumentsAreAsTyped`, `TargetsAreDenoted`,
  `ScanMayBegin`, `PortsAreDenoted`, `HigherLevelsAreFaster`.
* **`Service_proofs`.** `Waits` bounds each deadline by where detect() is;
  `Course` says that the probe is written once and late, and that a greeting
  stays arrived. `BannersAreHeard`, `GreetingsAwaited`, `DetectionOnTime`. `Told`
  adds what detect() returns: the guess is made in the last step from what was
  heard, by the first rule that fits (`FirstThatFits`, `Guesses`). `TableOfRules`
  reads off the table that every head and every known port (`RecognisedHeads`,
  `WellKnownPorts`) has a rule, that a rule names what its head or its port
  stands for, and that those of SSH, HTTP and FTP come before all that have a
  port for a hint.
  `TypeCorrect`, `ServicesAreNamed`.
* **`Output_proofs`.** `BetweenWrites` says what every file holds between two
  writes: what it held before if none of its jobs is done, else the format of
  the last one done. A failed write disturbs one file (`FailureTouchesOne`),
  and at the end no job is left (`AllDoneIsWhole`). `TypeCorrect`, `OthersKept`,
  `SuccessTellsTruth`, also where two options name the same file.
  - `FormatsAgree`, for any report: the three loops go through the same lists
    of kept rows (`LoopIs`), and the sum over hosts that are up is that over
    all, since the others have no rows.
  - `EscapesOnce`, for any text: a text with one more character is escaped to
    the escaped text with one more character or entity (`EscapedOneMore`),
    because a later replacement finds no earlier one's ampersand or name
    (`AfterOneMore`), and the reader takes exactly that back (`OneReadBack`).

Only model-checked: the liveness properties (`Completes`, `EveryTargetJudged`,
`Returns`), which are out of the prover's reach, and the counterexamples of
section 6. `HIDE` and named abbreviations in the proofs keep literals and sums
away from provers that cannot handle them; they change no statement.

## 6. What the code does otherwise than it says

| Run | Disagreement |
|---|---|
| `host_timeout` | `--host-timeout` (main.rs:104, timing.rs:17) and T5's 900 s are stored and never read: a host takes as long as its ports do. |
| `icmp_echo` | The ICMP ping takes any echo reply for its own: identifier, sequence number and sender are not compared (discovery.rs:115-127). The late reply of one target makes the next, silent one up. |
| `syn_late` | A SYN probe looks at the clock before its socket (syn.rs:46): on a busy machine an answer that came before the deadline and has not been read is dropped, and the port filtered, though syn.rs:9 gives that to timeouts. |
| `service_banners` | The test for FTP matches every greeting that begins with 220, on every port, and comes first; the rule for SMTP below it is unreachable, though the comment at service.rs:131 says that the port decides. The same property, that a server is named by what it says (service.rs:9-14), fails in two more ways: in the pattern for MySQL a dot stands for the protocol version byte, which MySQL servers send as 0x0a, a newline, and a dot does not match a newline; and the rules from service.rs:141 on are also satisfied by a port number, so that redis, VNC, IMAP or POP3 on port 3306 are named mysql. |
| `startup_topzero` | `top_n` tests its limit after the push: `--top-ports 0` scans one port, where top_ports.rs:20 and main.rs:60 say n. |

More were met and have no run of their own, most of them being matters of
wording, of data or of parts that are not modelled. The first four are behaviour
of the model: its properties speak of what the code does there, or leave it out.

* An argument with a multi-byte character across its third byte makes the slice
  at main.rs:132 panic before clap has seen it (`RewritePanics`).
* `rewrite_nmap_args` is to make the command line match "Nmap exactly"
  (main.rs:112), but `-sSV` becomes `--sS` and a target `V`, where nmap reads
  two kinds of scan; so `AsTyped` says nothing of targets where letters follow a switch.
* Nor does `-PS-1024` match nmap's: it becomes `--PS` and a value that clap
  refuses for its dash.
* `-oA scan.v1` writes scan.nmap, scan.xml and scan.json, although main.rs:96
  promises "the given basename": `with_extension` replaces what follows the last
  dot. `Output` speaks of the files that are really written.
* README.md:83 of the repository lists `-iL <file>`, which no code handles.
* `-n`, "Disable reverse DNS lookup" (main.rs:72), disables the lookup of names
  given as targets (main.rs:160), while `hostname_for` goes on looking addresses
  up, without a timeout.
* `--max-retries`, "Maximum probe retries" (main.rs:100), does not apply to SYN
  probes, which are sent once.
* service.rs:5-8 speaks of 1 KB and of a "TLS-ish hello for 443"; the code reads
  4096 bytes and sends nothing on 443.
* The table of ports has 197 entries, 191 of them distinct, so `--top-ports 197`
  gives 191.
* The branch of target.rs:66 for a block without hosts is never taken: ipnet's
  `hosts()` of a /32 is not empty.
* Control characters, which XML forbids, are written as they are.

## 7. What is not modelled

* Host names in the report and reverse DNS, which main waits for without a
  timeout; reasons, times in the report, the wording and layout of the output;
  serde, regex and tokio themselves. Of a banner `Service` keeps the head; the
  captured product and version are text.
* Of clap: `-v`, `--help`, `--version`, the long names of `-p`, `-c` and `-n`,
  bundles of one-letter switches (`-nv`), and `--`. Texts are given by what
  their conversions make of them (a list of chunks, a form of target, a number),
  so `split`, `trim` and `parse` are not spelled out.
* Memory: an IPv6 /64 given as a target is expanded into a list.
* The limit on file descriptors. An attempt may fail at any time, so running
  out of descriptors is covered as far as rows go.
* A second SYN. Probes are sent once, and a lost one makes the port filtered, in
  the model as in the code; that main.rs:100 can be read to say otherwise is in
  section 6.
* Names of files that begin with a dot, for which `with_extension` has a rule
  of its own.
* `SynScan` assumes that no other program of the machine talks to the target
  over the very two ports of a probe: syn.rs does not look at sequence or
  acknowledgement numbers and could not tell. Nor is a probe's thread
  interrupted between its test of the deadline and its recv, or between taking
  the time and sending its SYN; elsewhere it may be late by `Lag`. `HostTime` is
  about an idle machine.
* The reader of XML that `EscapedOnce` speaks of does not normalise white space
  in attributes.
* core/error.rs, core/lib.rs and core/scan/mod.rs, which only define types.

## 8. Plan

The order was chosen by what a reader of a report relies on most.

1. `ScanPromise`, `ScanEngine`: model, runs, proofs. Done.
2. `HostTime`, `SynScan`, `Discovery`: model, runs, proofs. Done.
3. `Service`, `Output`: model, runs, proofs. Done.
4. `Startup` with `CommandLine`, `TargetList`, `PortList`, `Timing`: model, run,
   proofs. Done.
5. `Packets`, `SynPackets`: model done, checked and proved with `SynScan`.
6. Left: that each component keeps what the next assumes of it, as theorems of
   the modules that compose them: `DetectOnTime` as the bound that `HostTime`
   takes for `Detect`, and the outcomes of `SynScan` as those of `ScanEngine`.
