------------------------------- MODULE Output -------------------------------
(***************************************************************************)
(* The end of a run: the report is rendered in three formats (output/), is *)
(* printed, and is written to the files that were asked for, one after the *)
(* other (main.rs).  A run may find files of an earlier one, and any print *)
(* or write may fail.                                                      *)
(*                                                                         *)
(* A path is the sequence of its parts between the dots.                   *)
(***************************************************************************)
EXTENDS Integers, Sequences, FiniteSets, SequencesExt

CONSTANTS
    Reports,  \* the reports a scan may end with
    Bases,    \* the values of -oA
    Names,    \* the values of -oN, -oX and -oJ
    Texts     \* what an attribute of the XML may have to hold

(* The parts of a report that decide what is shown (result.rs).            *)
Row == [port: 0..65535, state: {"open", "closed", "filtered", "unfiltered"}]
Host == [state: {"up", "down", "unknown"}, ports: Seq(Row)]

(* What ScanPromise promises: rows only for a host that is up.             *)
ASSUME ReportsAssumption ==
    /\ Reports \subseteq Seq(Host)
    /\ \A r \in Reports : \A h \in DOMAIN r : r[h].state # "up" => r[h].ports = << >>
ASSUME TextsAssumption == Texts \subseteq Seq(STRING)
ASSUME PathsAssumption == \A p \in Bases \cup Names : p # << >>

NoPath == << >>  \* an option that was not given
Formats == {"nmap", "xml", "json"}

(* PathBuf::with_extension puts the extension in the place of one that is  *)
(* there.                                                                  *)
WithExtension(p, e) == IF Len(p) = 1 THEN Append(p, e) ELSE [p EXCEPT ![Len(p)] = e]

Paths == Bases \cup Names
    \cup {WithExtension(b, e) : b \in Bases, e \in Formats}
    \cup {Append(b, e) : b \in Bases, e \in Formats}

VARIABLES
    report, opts,  \* fixed from the start
    before,        \* the files before the run
    pc,            \* "print", "write" or "exited"
    done,          \* files written
    files,         \* "absent", "old", "partial" or the format of the report
    status         \* "" until the process exits, then "ok" or "error"

vars == <<report, opts, before, pc, done, files, status>>

Options == [open: BOOLEAN, oA: Bases \cup {NoPath}, oN: Names \cup {NoPath},
            oX: Names \cup {NoPath}, oJ: Names \cup {NoPath}]

-----------------------------------------------------------------------------
(* The three renderers: the rows a reader finds under each host.           *)
OpenRows(rows) ==
    FoldLeft(LAMBDA kept, row : IF row.state = "open" THEN Append(kept, row) ELSE kept,
             << >>, rows)

NormalRows(host) ==
    IF host.state # "up" THEN << >>
    ELSE IF opts.open THEN OpenRows(host.ports) ELSE host.ports

(* Bug: the text says "only open", the XML has them all.                   *)
XmlRowsAll(host) == host.ports

XmlRows(host) ==
    FoldLeft(LAMBDA rows, row : IF opts.open /\ row.state # "open" THEN rows
                                ELSE Append(rows, row),
             << >>, host.ports)

JsonRows(host) == IF opts.open THEN OpenRows(host.ports) ELSE host.ports

(* The escaping of xml.rs: one character after the other is replaced by    *)
(* "&" and the name of its entity.  A text is a sequence of characters     *)
(* and names.                                                              *)
Entity(char, name) == [char |-> char, name |-> name]

(* Bug: the ampersand is replaced last.                                    *)
AmpersandLast ==
    <<Entity("<", "lt;"), Entity(">", "gt;"), Entity("quote", "quot;"),
      Entity("apostrophe", "apos;"), Entity("&", "amp;")>>

Replacements ==
    <<Entity("&", "amp;"), Entity("<", "lt;"), Entity(">", "gt;"),
      Entity("quote", "quot;"), Entity("apostrophe", "apos;")>>

Replaced(text, entity) ==
    FlattenSeq([i \in DOMAIN text |->
        IF text[i] = entity.char THEN <<"&", entity.name>> ELSE <<text[i]>>])

Escaped(text) == FoldLeft(Replaced, text, Replacements)

UpCount == Cardinality({h \in DOMAIN report : report[h].state = "up"})

OpenIn(rows) == Len(OpenRows(rows))

OpenPortCount == MapThenSumSet(LAMBDA h : OpenIn(report[h].ports), DOMAIN report)

(* What main writes, in its order.                                         *)
Job(path, format) == [path |-> path, format |-> format]

Single(path, format) == IF path = NoPath THEN << >> ELSE <<Job(path, format)>>

Jobs ==
    (IF opts.oA = NoPath THEN << >>
     ELSE <<Job(WithExtension(opts.oA, "nmap"), "nmap"),
            Job(WithExtension(opts.oA, "xml"), "xml"),
            Job(WithExtension(opts.oA, "json"), "json")>>)
    \o Single(opts.oN, "nmap") \o Single(opts.oX, "xml") \o Single(opts.oJ, "json")

-----------------------------------------------------------------------------
Init ==
    /\ report \in Reports
    /\ opts \in Options
    /\ before \in {[p \in Paths |-> "absent"], [p \in Paths |-> "old"]}
    /\ pc = "print"
    /\ done = 0
    /\ files = before
    /\ status = ""

(* Bug: the files are opened, and so truncated, before the print.          *)
PrintAfterOpening ==
    /\ pc = "print"
    /\ pc' = "write"
    /\ files' = [p \in Paths |-> IF \E j \in DOMAIN Jobs : Jobs[j].path = p
                                 THEN "partial" ELSE files[p]]
    /\ UNCHANGED <<report, opts, before, done, status>>

PrintReport ==
    /\ pc = "print"
    /\ pc' = "write"
    /\ UNCHANGED <<report, opts, before, done, files, status>>

(* print! panics if stdout is closed.                                      *)
PrintPanics ==
    /\ pc = "print"
    /\ pc' = "exited"
    /\ status' = "error"
    /\ UNCHANGED <<report, opts, before, done, files>>

WriteFile ==
    /\ pc = "write" /\ done < Len(Jobs)
    /\ files' = [files EXCEPT ![Jobs[done + 1].path] = Jobs[done + 1].format]
    /\ done' = done + 1
    /\ UNCHANGED <<report, opts, before, pc, status>>

(* Bug: the error of a write is dropped.                                   *)
WriteFailureIgnored ==
    /\ pc = "write" /\ done < Len(Jobs)
    /\ files' = [files EXCEPT ![Jobs[done + 1].path] = "partial"]
    /\ done' = done + 1
    /\ UNCHANGED <<report, opts, before, pc, status>>

(* The file could not be opened, or not be filled; `?` leaves main.        *)
WriteFails ==
    /\ pc = "write" /\ done < Len(Jobs)
    /\ \E content \in {files[Jobs[done + 1].path], "partial"} :
           files' = [files EXCEPT ![Jobs[done + 1].path] = content]
    /\ pc' = "exited"
    /\ status' = "error"
    /\ UNCHANGED <<report, opts, before, done>>

(* Bug: main leaves without a status.                                      *)
AllWrittenSilently ==
    /\ pc = "write" /\ done = Len(Jobs)
    /\ pc' = "exited"
    /\ UNCHANGED <<report, opts, before, done, files, status>>

AllWritten ==
    /\ pc = "write" /\ done = Len(Jobs)
    /\ pc' = "exited"
    /\ status' = "ok"
    /\ UNCHANGED <<report, opts, before, done, files>>

Exited == pc = "exited" /\ UNCHANGED vars

Next == PrintReport \/ PrintPanics \/ WriteFile \/ WriteFails \/ AllWritten \/ Exited

Spec == Init /\ [][Next]_vars

-----------------------------------------------------------------------------
(***************************************************************************)
(* The type of the state; a process that has exited has a status.          *)
(***************************************************************************)
TypeOK ==
    /\ report \in Reports /\ opts \in Options
    /\ pc \in {"print", "write", "exited"}
    /\ done \in 0..Len(Jobs)
    /\ {before, files} \subseteq [Paths -> Formats \cup {"absent", "old", "partial"}]
    /\ status \in {"", "ok", "error"}
    /\ pc = "exited" <=> status # ""

(* The three formats tell the same: the same rows under every host, with   *)
(* and without --open, whose three implementations share no code; and the  *)
(* totals of the last line count the hosts and rows above it.              *)
RenderingsAgree ==
    /\ \A h \in DOMAIN report :
          /\ NormalRows(report[h]) = XmlRows(report[h])
          /\ XmlRows(report[h]) = JsonRows(report[h])
    /\ OpenPortCount =
          MapThenSumSet(LAMBDA h : OpenIn(NormalRows(report[h])), DOMAIN report)
    /\ OpenPortCount > 0 => UpCount > 0

(* How a parser of XML reads a text: "&" and a name are one character.     *)
CharOf(name) == (CHOOSE e \in Range(Replacements) : e.name = name).char

Parsed(text) ==
    FoldLeft(LAMBDA read, next :
                 IF read.named
                 THEN [text |-> Append(read.text, CharOf(next)), named |-> FALSE]
                 ELSE IF next = "&" THEN [text |-> read.text, named |-> TRUE]
                 ELSE [text |-> Append(read.text, next), named |-> FALSE],
             [text |-> << >>, named |-> FALSE], text)

(* "Compatible with most nmap-XML parsers" (xml.rs:1): a parser gets back  *)
(* from an attribute the text that was put in, also one that looks like an *)
(* entity, and no character of it ends the attribute or opens a tag.       *)
EscapedOnce ==
    pc = "print" =>
        \A text \in Texts :
            /\ Parsed(Escaped(text)) = [text |-> text, named |-> FALSE]
            /\ Range(Escaped(text)) \cap {"<", ">", "quote", "apostrophe"} = {}

(* Exit status 0 says that every file asked for holds the whole report, in *)
(* the format of the last option that names it.                            *)
SuccessIsWhole ==
    status = "ok" =>
        \A j \in DOMAIN Jobs :
            (\A k \in DOMAIN Jobs : k > j => Jobs[k].path # Jobs[j].path)
                => files[Jobs[j].path] = Jobs[j].format

(* Whenever main dies, the files of the jobs before hold the whole report  *)
(* and those of the jobs after are as they were: nothing is lost of an     *)
(* earlier run's output but what is being replaced, and nothing of it      *)
(* before the report has been printed.                                     *)
OneFileAtRisk ==
    \A p \in Paths :
        LET writers == {j \in DOMAIN Jobs : Jobs[j].path = p}
        IN /\ (\A j \in writers : j > done + 1 \/ pc = "print") => files[p] = before[p]
           /\ \A j \in writers :
                 (j <= done /\ \A k \in writers : k > j => k > done + 1)
                     => files[p] = Jobs[j].format
=============================================================================
