------------------------------ MODULE Startup ------------------------------
(***************************************************************************)
(* main() of main.rs from its first line to the loop over the hosts: the   *)
(* command line, the targets, the ports, the timing and the semaphore, in  *)
(* this order.  What comes out of it is what ScanEngine starts from.       *)
(***************************************************************************)
EXTENDS CommandLine, TargetList, PortList, Timing

CONSTANTS
    CommandLines,  \* the command lines typed
    MaxPermits     \* Semaphore::MAX_PERMITS

ASSUME StartupAssumption == MaxPermits \in Nat \ {0}

IsList(s) == s \in Seq(Range(s))

IsText(text) ==
    /\ text.number \in Nat \cup {NaN}
    /\ IsTarget(text.target)
    /\ IsList(text.ports) /\ \A c \in Range(text.ports) : IsChunk(c)

IsArgument(arg) ==
    \/ arg = CutChar
    \/ arg.text = NoText /\ arg.form # "word"
    \/ IsText(arg.text)

ASSUME CommandLinesAssumption ==
    \A line \in CommandLines : IsList(line) /\ \A arg \in Range(line) : IsArgument(arg)

VARIABLES
    pc,       \* "command line", "targets", "ports", "timing", then an end
    timing,   \* the Timing that was built
    permits   \* of the semaphore

vars == <<cliVars, targetVars, portVars, pc, timing, permits>>

Ends == {"scanning", "usage", "error", "panicked"}

Init ==
    /\ CliInit(CommandLines)
    /\ TargetInit
    /\ PortInit
    /\ pc = "command line"
    /\ timing = Template(3)
    /\ permits = 0

IsGiven(option) == option \in DOMAIN options

NumberGiven(option, default) ==
    IF IsGiven(option) THEN options[option].number ELSE default

-----------------------------------------------------------------------------
ReadCommandLine ==
    /\ pc = "command line"
    /\ CliStep
    /\ UNCHANGED <<targetVars, portVars, pc, timing, permits>>

(* clap prints its message and exits, or rewrite_nmap_args panics.         *)
CommandLineFails ==
    /\ pc = "command line" /\ cliPc \in {"usage", "panicked"}
    /\ pc' = cliPc
    /\ UNCHANGED <<cliVars, targetVars, portVars, timing, permits>>

NoTargets ==
    /\ pc = "command line" /\ cliPc = "parsed"
    /\ targets = <<>>
    /\ pc' = "error"
    /\ UNCHANGED <<cliVars, targetVars, portVars, timing, permits>>

ResolveTargets ==
    /\ pc = "command line" /\ cliPc = "parsed"
    /\ targets # <<>>
    /\ ParseTargets([i \in DOMAIN targets |-> targets[i].target])
    /\ pc' = "targets"
    /\ UNCHANGED <<cliVars, portVars, timing, permits>>

ExpandTargets ==
    /\ pc = "targets"
    /\ TargetStep(~IsGiven("n"))
    /\ UNCHANGED <<cliVars, portVars, pc, timing, permits>>

TargetsFail ==
    /\ pc = "targets" /\ targetPc = "error"
    /\ pc' = "error"
    /\ UNCHANGED <<cliVars, targetVars, portVars, timing, permits>>

(* -p is looked at before --top-ports; the default is the top 100.         *)
PickPorts ==
    /\ pc = "targets" /\ targetPc = "ok"
    /\ IF IsGiven("p") THEN ParsePorts(options["p"].ports)
       ELSE TopPorts(NumberGiven("top-ports", 100))
    /\ pc' = "ports"
    /\ UNCHANGED <<cliVars, targetVars, timing, permits>>

ListPorts ==
    /\ pc = "ports"
    /\ PortStep
    /\ UNCHANGED <<cliVars, targetVars, pc, timing, permits>>

PortsFail ==
    /\ pc = "ports" /\ portPc = "error"
    /\ pc' = "error"
    /\ UNCHANGED <<cliVars, targetVars, portVars, timing, permits>>

(* A template with -c, --max-retries and --host-timeout put over it.       *)
Overridden(t) ==
    [t EXCEPT !.parallel = NumberGiven("c", @),
              !.retries = NumberGiven("max-retries", @),
              !.host = IF IsGiven("host-timeout") THEN 1000 * options["host-timeout"].number ELSE @]

BuildTiming ==
    /\ pc = "ports" /\ portPc = "ok"
    /\ timing' = Overridden(Template(NumberGiven("T", 3)))
    /\ pc' = "timing"
    /\ UNCHANGED <<cliVars, targetVars, portVars, permits>>

PermitsOf(t) == Max({t.parallel, 1})

BeginScan ==
    /\ pc = "timing"
    /\ PermitsOf(timing) <= MaxPermits
    /\ permits' = PermitsOf(timing)
    /\ pc' = "scanning"
    /\ UNCHANGED <<cliVars, targetVars, portVars, timing>>

SemaphorePanics ==
    /\ pc = "timing"
    /\ PermitsOf(timing) > MaxPermits
    /\ pc' = "panicked"
    /\ UNCHANGED <<cliVars, targetVars, portVars, timing, permits>>

Ended == pc \in Ends /\ UNCHANGED vars

Next ==
    \/ ReadCommandLine \/ CommandLineFails \/ NoTargets
    \/ ResolveTargets \/ ExpandTargets \/ TargetsFail
    \/ PickPorts \/ ListPorts \/ PortsFail
    \/ BuildTiming \/ BeginScan \/ SemaphorePanics \/ Ended

Spec == Init /\ [][Next]_vars

-----------------------------------------------------------------------------
(***************************************************************************)
(* The type of the state of startup and of its components.                 *)
(***************************************************************************)
TypeOK ==
    /\ CliTypeOK
    /\ TargetTypeOK
    /\ PortTypeOK
    /\ pc \in {"command line", "targets", "ports", "timing"} \cup Ends
    /\ DOMAIN timing = DOMAIN Template(3) /\ \A f \in DOMAIN timing : timing[f] \in Nat
    /\ permits \in 0..MaxPermits

(* What main's loop over the hosts, and ScanEngine, take for granted, is   *)
(* so whatever was typed, --top-ports 0 and -c 0 included: a scan that     *)
(* begins has targets, distinct ports and permits.                         *)
EngineAssumptionsMet ==
    pc = "scanning" =>
        /\ addrs # <<>>
        /\ ports # <<>> /\ IsInjective(ports)
        /\ permits >= 1

(* ports.rs: "A parsed, deduped, sorted set of ports."  A scan that begins *)
(* has, for -p, the ports its chunks stand for, ascending, and no chunk    *)
(* was unsound; for --top-ports n the first n of the table, if n is not 0  *)
(* and the table has as many, and -p wins over it.  A list that is refused *)
(* had an unsound chunk or meant nothing.                                  *)
PortsDenoted ==
    LET typed == options["p"].ports
        meant == UNION {PortsOf(c) : c \in Range(typed)}
        sound == \A c \in Range(typed) : Sound(c)
        most == NumberGiven("top-ports", 100)
        known == Cardinality(Range(TopTable))
    IN /\ (portPc = "ok" /\ IsGiven("p")) =>
              /\ sound
              /\ Range(ports) = meant
              /\ \A i, j \in DOMAIN ports : i < j => ports[i] < ports[j]
       /\ (portPc = "ok" /\ ~IsGiven("p")) =>
              /\ most >= 1 => Len(ports) = Min({most, known})
              /\ \E k \in DOMAIN TopTable : Range(ports) = Range(SubSeq(TopTable, 1, k))
       /\ (portPc = "error") => ~sound \/ meant = {}

(* target.rs: "Resolved IP addresses, in order."  A scan that begins scans *)
(* the addresses each argument stands for, ascending, argument by          *)
(* argument, none missing and none added; one argument that stands for     *)
(* nothing that can be scanned stops it.                                   *)
TargetsDenoted ==
    LET args == [i \in DOMAIN targets |-> targets[i].target]
        meant(arg) == AddressesOf(arg, ~IsGiven("n"))
        unusable == {arg \in Range(args) : arg # Empty /\ meant(arg) = {}}
        numbers(arg) == Ascending({a.n : a \in meant(arg)})
        listed(arg) == [k \in DOMAIN numbers(arg) |->
                            CHOOSE a \in meant(arg) : a.n = numbers(arg)[k]]
    IN /\ targetPc = "ok" =>
              /\ unusable = {}
              /\ addrs = FlattenSeq([i \in DOMAIN args |-> listed(args[i])])
       /\ targetPc = "error" => unusable # {} \/ Range(args) = {Empty}

(* The arguments that stand for a target: they were typed on their own and *)
(* are not the value of the option before them.                            *)
TargetsTypedOut ==
    LET at == Ascending({i \in DOMAIN argv : argv[i].form = "word" /\ ~IsValueAt(i)})
    IN [k \in DOMAIN at |-> argv[at[k]].text]

NothingAfterSwitches ==
    \A i \in DOMAIN argv :
        (argv[i].form # "word" /\ argv[i].flag \in Switches) => argv[i].text = NoText

(* The value of an option is the one typed after it, with a space or       *)
(* without, whatever rewrite_nmap_args takes apart before clap reads it,   *)
(* and no option is given that was not typed.  What is no option or value  *)
(* is a target, in order, where no letters follow a switch.                *)
AsTyped ==
    cliPc = "parsed" =>
        /\ DOMAIN options = {argv[i].flag : i \in {j \in DOMAIN argv : argv[j].form # "word"}}
        /\ \A i \in DOMAIN argv :
               (argv[i].form # "word" /\ argv[i].flag \in Valued) =>
                   options[argv[i].flag] = TypedValue(i)
        /\ NothingAfterSwitches => targets = TargetsTypedOut

(* README.md: "Timing template. Higher means faster."  With the same       *)
(* -c and --max-retries a connect scan of a host takes no longer, at       *)
(* worst, on a higher level than on a lower one, whether its ports are     *)
(* open or silent.  (A SYN scan adds its own retries to the budget.)       *)
Budget(t, n, open) ==
    Rounds(n, PermitsOf(t)) * LongestProbe(t.connect, 50, t.retries)
    + open * LongestDetect(t.connect, t.read, 150)

HigherIsFaster ==
    pc = "scanning" =>
        \A level \in Levels : level <= NumberGiven("T", 3) =>
            \A open \in {0, Len(ports)} :
                Budget(timing, Len(ports), open)
                    <= Budget(Overridden(Template(level)), Len(ports), open)

(* "Return the top `n` distinct TCP ports." (top_ports.rs:20): for every n, *)
(* as far as the table goes.                                               *)
TopPortsDenoted ==
    (portPc = "ok" /\ ~IsGiven("p")) =>
        Len(ports) = Min({NumberGiven("top-ports", 100), Cardinality(Range(TopTable))})
=============================================================================
