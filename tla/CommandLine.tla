---------------------------- MODULE CommandLine ----------------------------
(***************************************************************************)
(* The command line: rewrite_nmap_args of main.rs, which turns the         *)
(* compound flags of Nmap into long options, and the parser that clap      *)
(* derives from `struct Cli`, which is external and modelled by what the   *)
(* program relies on.                                                      *)
(*                                                                         *)
(* A text is a record of what its conversions make of it: a list of ports, *)
(* a target, a number (NaN if it is none), and whether it begins with a    *)
(* dash and more.  An argument is a text, or a flag with the text that     *)
(* follows it without a space: "-sS", "-PS22", "-p80", "--oN=file".        *)
(***************************************************************************)
EXTENDS Integers, Sequences, SequencesExt

NoText == [none |-> TRUE]
NaN == -1

Word(text) == [form |-> "word", text |-> text]
Short(flag, text) == [form |-> "short", flag |-> flag, text |-> text]
Long(flag, text) == [form |-> "long", flag |-> flag, text |-> text]
CutChar == [form |-> "cut"]   \* a dash, and a character that straddles byte 3

NmapFlags ==
    {"Pn", "PE", "PS", "PA", "PU", "PR",
     "sS", "sT", "sU", "sV", "sN", "sF", "sX", "sA", "sW", "sM", "sO", "sY",
     "oN", "oX", "oJ", "oG", "oA", "oS"}

(* The options of Cli; those with a long and a short name under the short  *)
(* one.                                                                    *)
OneLetter == {"p", "T", "c", "n"}
Switches == {"sT", "sS", "sV", "Pn", "PE", "n", "open"}
Numeric == {"top-ports", "T", "c", "max-retries", "host-timeout"}
Valued == {"PS", "p", "oN", "oX", "oJ", "oA"} \cup Numeric

VARIABLES
    cliPc,      \* "rewrite", "clap", then "parsed", "usage" or "panicked"
    argv,       \* std::env::args(), without the program's name
    read,       \* arguments the current loop has gone through
    rewritten,  \* what rewrite_nmap_args returns
    options,    \* the options given, and their values
    targets     \* Cli.targets

cliVars == <<cliPc, argv, read, rewritten, options, targets>>

CliInit(lines) ==
    /\ cliPc = "rewrite"
    /\ argv \in lines
    /\ read = 0
    /\ rewritten = <<>>
    /\ options = <<>>
    /\ targets = <<>>

-----------------------------------------------------------------------------
IsCompound(arg) == arg.form = "short" /\ arg.flag \in NmapFlags

(* Bug: the text after the flag is dropped.                                *)
RewriteDropsText(arg) == IF IsCompound(arg) THEN <<Long(arg.flag, NoText)>> ELSE <<arg>>

RewriteOne(arg) ==
    CASE IsCompound(arg) /\ arg.text = NoText -> <<Long(arg.flag, NoText)>>
      [] IsCompound(arg) /\ arg.text # NoText -> <<Long(arg.flag, NoText), Word(arg.text)>>
      [] OTHER -> <<arg>>

Rewrite ==
    /\ cliPc = "rewrite" /\ read < Len(argv)
    /\ argv[read + 1] # CutChar
    /\ rewritten' = rewritten \o RewriteOne(argv[read + 1])
    /\ read' = read + 1
    /\ UNCHANGED <<cliPc, argv, options, targets>>

(* a[1..3] is no slice of whole characters.                                *)
RewritePanics ==
    /\ cliPc = "rewrite" /\ read < Len(argv)
    /\ argv[read + 1] = CutChar
    /\ cliPc' = "panicked"
    /\ UNCHANGED <<argv, read, rewritten, options, targets>>

AllRewritten ==
    /\ cliPc = "rewrite" /\ read = Len(argv)
    /\ cliPc' = "clap"
    /\ read' = 0
    /\ UNCHANGED <<argv, rewritten, options, targets>>

-----------------------------------------------------------------------------
(* clap reads the rewritten arguments from the left.                       *)
ClapAt == rewritten[read + 1]

ClapHasMore == cliPc = "clap" /\ read < Len(rewritten)

TakesPositional ==
    /\ ClapHasMore
    /\ ClapAt.form = "word" /\ ~ClapAt.text.dashed
    /\ targets' = Append(targets, ClapAt.text)
    /\ read' = read + 1
    /\ UNCHANGED <<cliPc, argv, rewritten, options>>

(* A value converts to the type of its field; -T is a u8.                  *)
Converts(flag, text) ==
    /\ flag \in Numeric => text.number # NaN
    /\ flag = "T" => text.number <= 255

Given(flag, text) == options' = [f \in DOMAIN options \cup {flag} |->
                                    IF f = flag THEN text ELSE options[f]]

(* Options of one letter have one dash, the others two.                    *)
IsNewFlag(flags) ==
    /\ ClapAt.form # "word"
    /\ ClapAt.form = IF ClapAt.flag \in OneLetter THEN "short" ELSE "long"
    /\ ClapAt.flag \in flags \ DOMAIN options

IsSwitch == IsNewFlag(Switches) /\ ClapAt.text = NoText

(* The value stands in the same argument, or is the next one.              *)
AttachedValue == IsNewFlag(Valued) /\ ClapAt.text # NoText /\ Converts(ClapAt.flag, ClapAt.text)

NextValue ==
    /\ IsNewFlag(Valued) /\ ClapAt.text = NoText
    /\ read + 2 <= Len(rewritten)
    /\ LET next == rewritten[read + 2]
       IN next.form = "word" /\ ~next.text.dashed /\ Converts(ClapAt.flag, next.text)

TakesSwitch ==
    /\ ClapHasMore /\ IsSwitch
    /\ Given(ClapAt.flag, NoText)
    /\ read' = read + 1
    /\ UNCHANGED <<cliPc, argv, rewritten, targets>>

TakesAttached ==
    /\ ClapHasMore /\ AttachedValue
    /\ Given(ClapAt.flag, ClapAt.text)
    /\ read' = read + 1
    /\ UNCHANGED <<cliPc, argv, rewritten, targets>>

TakesNext ==
    /\ ClapHasMore /\ NextValue
    /\ Given(ClapAt.flag, rewritten[read + 2].text)
    /\ read' = read + 2
    /\ UNCHANGED <<cliPc, argv, rewritten, targets>>

(* Unknown or repeated options, missing, dashed or unfit values.           *)
Refuses ==
    /\ ClapHasMore
    /\ IF ClapAt.form = "word" THEN ClapAt.text.dashed
       ELSE ~(IsSwitch \/ AttachedValue \/ NextValue)
    /\ cliPc' = "usage"
    /\ UNCHANGED <<argv, read, rewritten, options, targets>>

AllTaken ==
    /\ cliPc = "clap" /\ read = Len(rewritten)
    /\ cliPc' = "parsed"
    /\ UNCHANGED <<argv, read, rewritten, options, targets>>

CliStep ==
    \/ Rewrite \/ RewritePanics \/ AllRewritten
    \/ TakesPositional \/ TakesSwitch \/ TakesAttached \/ TakesNext \/ Refuses \/ AllTaken

-----------------------------------------------------------------------------
(* Which of the typed arguments are the value of the option before them.   *)
IsValueAt(i) ==
    /\ i > 1 /\ argv[i].form = "word"
    /\ argv[i - 1].form \in {"short", "long"}
    /\ argv[i - 1].flag \in Valued /\ argv[i - 1].text = NoText

(* The value an option was typed with, attached or apart.                  *)
TypedValue(i) == IF argv[i].text # NoText THEN argv[i].text ELSE argv[i + 1].text

TypedTexts == {NoText} \cup {argv[i].text : i \in {j \in DOMAIN argv : argv[j] # CutChar}}

CliTypeOK ==
    /\ cliPc \in {"rewrite", "clap", "parsed", "usage", "panicked"}
    /\ read \in 0..Max({Len(argv), Len(rewritten)})
    /\ DOMAIN options \subseteq Switches \cup Valued
    /\ Range(options) \cup Range(targets) \subseteq TypedTexts
=============================================================================
