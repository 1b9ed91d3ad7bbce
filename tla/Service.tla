------------------------------ MODULE Service ------------------------------
(***************************************************************************)
(* Service detection on one open port (service.rs): connect, listen for a  *)
(* greeting, if none comes speak first or wait longer and listen again,    *)
(* then name the service from what was heard and from the port.            *)
(*                                                                         *)
(* What a server says is reduced to the head the patterns of service.rs    *)
(* look at.  It arrives at once or in two segments with the cut inside the *)
(* head, and a read takes what has arrived, once.  Time stands still while *)
(* detect() has something to do, as on an idle machine.                    *)
(***************************************************************************)
EXTENDS Integers, Sequences, SequencesExt, Timing

CONSTANTS
    PortChoices,     \* the port that was found open
    ConnectTimeout,  \* timing.connect_timeout
    ReadTimeout,     \* timing.read_timeout
    LongerWait       \* the 150 ms before a second passive read

ASSUME ServiceAssumption ==
    /\ PortChoices \subseteq Nat
    /\ {ConnectTimeout, ReadTimeout, LongerWait} \subseteq Nat \ {0}

(* How a banner begins; "Server:" and "redis_version:" may also begin a    *)
(* later line of it.  A banner with several heads has the one service.rs   *)
(* looks for first.  "mysql9" and "mysql10" are the handshakes of the      *)
(* protocol versions 9 and 10: four bytes of header and the version byte,  *)
(* a tab or a newline.                                                     *)
Heads == {"SSH-", "HTTP/", "Server:", "220 ", "mysql9", "mysql10", "redis_version:",
          "FATAL", "RFB", "* OK", "+OK", "other"}

(* The servers that speak only when spoken to, and the others; those whose *)
(* banner may come in two segments, and the others.                        *)
Servers == [head: Heads, asked: BOOLEAN, split: BOOLEAN]

VARIABLES
    port, server,  \* fixed from the start
    pc,            \* where detect() is
    now,           \* time since its start
    deadline,      \* when its current wait ends
    spoken,        \* how much of the banner has arrived: "none", "part", "whole"
    peer,          \* the server's end of the connection: "open", "eof" or "reset"
    probed,        \* has the probe been written?
    heard,         \* the head of `banner`, "part" if cut, "silence" if empty
    name,          \* ServiceInfo.name, "none" for None, "pending" at first
    greeted        \* history: the banner began to arrive during the first read

vars == <<port, server, pc, now, deadline, spoken, peer, probed, heard, name, greeted>>

-----------------------------------------------------------------------------
(* The table of guess_from_banner, in its order: a rule names the service  *)
(* if the banner has the head, on the ports `on`, or if the port is enough *)
(* of a hint.  In the pattern for MySQL "." stands for the version byte,   *)
(* which is any but a newline.                                             *)
Rule(service, head, on, hints) == [name |-> service, head |-> head, on |-> on, hints |-> hints]

BannerRules == <<
    Rule("ssh",  "SSH-",    PortChoices, {}),
    Rule("http", "HTTP/",   PortChoices, {}),
    Rule("http", "Server:", PortChoices, {}),
    Rule("ftp",  "220 ",    PortChoices, {}),
    Rule("smtp", "220 ",    {25, 587, 465}, {}) >>

HintedRules == <<
    Rule("mysql",      "mysql9",         PortChoices, {3306}),
    Rule("redis",      "redis_version:", PortChoices, {6379}),
    Rule("postgresql", "FATAL",          PortChoices, {5432}),
    Rule("vnc",        "RFB",            PortChoices, {}),
    Rule("imap",       "* OK",           PortChoices, {143, 993}),
    Rule("pop3",       "+OK",            PortChoices, {110, 995}),
    Rule("https",      "none",           {},          {443}),
    Rule("dns",        "none",           {},          {53}),
    Rule("rdp",        "none",           {},          {3389}),
    Rule("mongodb",    "none",           {},          {27017}) >>

(* Bug: the rules with a port for a hint come first.                       *)
RulesHintsFirst == HintedRules \o BannerRules

Rules == BannerRules \o HintedRules

Guess(head) ==
    LET Fits(rule) == (head = rule.head /\ port \in rule.on) \/ port \in rule.hints
        first == SelectInSeq(Rules, Fits)
    IN IF first = 0 THEN "unknown" ELSE Rules[first].name

(* The ports that are sent a probe; on the others the server speaks first. *)
ProbePorts == {80, 8080, 8000, 8888, 81, 591, 8008, 8081, 25, 587, 110, 143, 21}

(* Bug: the longer wait comes on top of the write.                         *)
SecondWaitAdded == ReadTimeout + LongerWait

SecondWait == IF port \in ProbePorts THEN ReadTimeout ELSE LongerWait

-----------------------------------------------------------------------------
Init ==
    /\ port \in PortChoices
    /\ server \in Servers
    /\ pc = "connecting"
    /\ now = 0
    /\ deadline = ConnectTimeout
    /\ spoken = "none"
    /\ peer = "open"
    /\ probed = FALSE
    /\ heard = "silence"
    /\ name = "pending"
    /\ greeted = FALSE

(* The banner, empty or not, is matched against the table.                 *)
ReturnGuess(head) ==
    /\ pc' = "returned"
    /\ heard' = head
    /\ name' = Guess(head)
    /\ UNCHANGED <<port, server, now, deadline, spoken, peer, probed, greeted>>

Await(where, wait) ==
    /\ pc' = where
    /\ deadline' = now + wait
    /\ UNCHANGED <<port, server, now, spoken, peer, heard, name, greeted>>

Connects == pc = "connecting" /\ Await("reading", ReadTimeout) /\ UNCHANGED probed

(* A refusal, another error, or the timeout.                               *)
ConnectFails ==
    /\ pc = "connecting"
    /\ pc' = "returned"
    /\ name' = "none"
    /\ UNCHANGED <<port, server, now, deadline, spoken, peer, probed, heard, greeted>>

(* After a reset it depends on the system whether what came before it can  *)
(* still be read.                                                          *)
SomethingToRead == spoken # "none" /\ peer # "reset"

(* read_some: one read, of the bytes that are there.                       *)
Arrived ==
    CASE spoken = "none" -> "silence" [] spoken = "part" -> "part" [] OTHER -> server.head

(* Bug: the timeout is looked at before the socket.                        *)
NothingByDeadline == now = deadline \/ (peer # "open" /\ ~SomethingToRead)

(* A read ends with nothing: an error, the end of the stream or a timeout. *)
NothingToRead == ~SomethingToRead /\ (now = deadline \/ peer # "open")

FirstRead == pc = "reading" /\ spoken # "none" /\ ReturnGuess(Arrived)

(* Bug: a probe for every port.                                            *)
ProbeAnyPort == pc = "reading" /\ NothingToRead /\ Await("writing", SecondWait) /\ UNCHANGED probed

FirstReadEmpty ==
    /\ pc = "reading" /\ NothingToRead
    /\ Await(IF port \in ProbePorts THEN "writing" ELSE "waiting", SecondWait)
    /\ UNCHANGED probed

(* An error of the write is ignored; the read after it will fail as well.  *)
ProbeWritten == pc = "writing" /\ Await("rereading", ReadTimeout) /\ probed' = TRUE

WriteTimesOut == pc = "writing" /\ now = deadline /\ ReturnGuess("silence")

LongerWaitOver ==
    pc = "waiting" /\ now = deadline /\ Await("rereading", ReadTimeout) /\ UNCHANGED probed

SecondRead == pc = "rereading" /\ spoken # "none" /\ ReturnGuess(Arrived)

(* Bug: no timeout around the second read.                                 *)
SecondReadUntilEof ==
    pc = "rereading" /\ ~SomethingToRead /\ peer # "open" /\ ReturnGuess("silence")

SecondReadEmpty == pc = "rereading" /\ NothingToRead /\ ReturnGuess("silence")

-----------------------------------------------------------------------------
Connected == pc \notin {"connecting", "returned"}

ServerSpeaks ==
    /\ Connected /\ peer = "open"
    /\ server.asked => probed
    /\ \/ spoken = "none" /\ spoken' = IF server.split THEN "part" ELSE "whole"
       \/ spoken = "part" /\ spoken' = "whole"
    /\ greeted' = (greeted \/ (spoken = "none" /\ pc = "reading"))
    /\ UNCHANGED <<port, server, pc, now, deadline, peer, probed, heard, name>>

ServerCloses ==
    /\ Connected /\ peer # "reset"
    /\ peer' \in {"eof", "reset"} \ {peer}
    /\ UNCHANGED <<port, server, pc, now, deadline, spoken, probed, heard, name, greeted>>

Reading == pc \in {"reading", "rereading"}

Tick ==
    /\ pc # "returned" /\ now < deadline
    /\ Reading => ~SomethingToRead /\ peer = "open"
    /\ now' = now + 1
    /\ UNCHANGED <<port, server, pc, deadline, spoken, peer, probed, heard, name, greeted>>

Returned == pc = "returned" /\ UNCHANGED vars

Detect ==
    \/ Connects \/ ConnectFails \/ FirstRead \/ FirstReadEmpty
    \/ ProbeWritten \/ WriteTimesOut \/ LongerWaitOver \/ SecondRead \/ SecondReadEmpty

Next == Detect \/ ServerSpeaks \/ ServerCloses \/ Tick \/ Returned

Spec == Init /\ [][Next]_vars

(* Time passes, and tokio polls a future that is ready.                    *)
FairSpec == Spec /\ WF_vars(Tick) /\ WF_vars(Detect)

-----------------------------------------------------------------------------
Names == {"pending", "none", "unknown"} \cup {Rules[i].name : i \in DOMAIN Rules}

(***************************************************************************)
(* The type of the state; the probe goes only to the ports that have one.  *)
(***************************************************************************)
TypeOK ==
    /\ port \in PortChoices
    /\ server \in Servers
    /\ pc \in {"connecting", "reading", "waiting", "writing", "rereading", "returned"}
    /\ now \in Nat
    /\ deadline \in Nat
    /\ spoken \in {"none", "part", "whole"}
    /\ {probed, greeted} \subseteq BOOLEAN
    /\ probed => port \in ProbePorts
    /\ peer \in {"open", "eof", "reset"}
    /\ heard \in Heads \cup {"silence", "part"}
    /\ name \in Names

(* What arrives while detect() runs is not lost to a timeout: on a         *)
(* connection that stays open the guess is made from all that has arrived  *)
(* when detect() returns, the whole banner unless a segment is still on    *)
(* its way -- except that a server that would not take the probe, so that  *)
(* the write timed out, is not heard.                                      *)
BannerHeard ==
    (pc = "returned" /\ peer # "reset" /\ name # "none") =>
        \/ heard = Arrived
        \/ heard = "silence" /\ port \in ProbePorts /\ ~probed

(* "If nothing, send a tiny protocol-appropriate probe" (service.rs:6): a  *)
(* server that greets within read_timeout is not spoken to.                *)
NeverInterrupts ==
    (greeted /\ peer # "reset") => ~probed /\ pc \notin {"writing", "waiting", "rereading"}

(* The timeouts of detect() bound it as a whole, whoever speaks or closes  *)
(* when: HostTime counts on it for every open port.                        *)
DetectOnTime == now <= LongestDetect(ConnectTimeout, ReadTimeout, LongerWait)

(* Who introduces itself how, and what is served where.                    *)
Introductions == {
    <<"SSH-", "ssh">>, <<"HTTP/", "http">>, <<"Server:", "http">>, <<"220 ", "ftp">>,
    <<"mysql9", "mysql">>, <<"redis_version:", "redis">>, <<"FATAL", "postgresql">>,
    <<"RFB", "vnc">>, <<"* OK", "imap">>, <<"+OK", "pop3">>}

KnownPorts == {
    <<3306, "mysql">>, <<6379, "redis">>, <<5432, "postgresql">>, <<143, "imap">>, <<993, "imap">>,
    <<110, "pop3">>, <<995, "pop3">>, <<443, "https">>, <<53, "dns">>, <<3389, "rdp">>,
    <<27017, "mongodb">>}

(* The banners that are recognised wherever they are served, and the ports *)
(* that may overrule any other banner.                                     *)
Unmistakable == {"SSH-", "HTTP/", "Server:", "220 "}
Overruling == {3306, 6379, 5432, 143, 993, 110, 995}

Recognised == {pair[1] : pair \in Introductions}
WellKnown == {pair[1] : pair \in KnownPorts}

(* Of the banner and the number of the port, which one names the service.  *)
(* SSH, HTTP and FTP are recognised wherever they are served; every other  *)
(* banner is on every port but those of the seven below, where it may lose *)
(* to the port.  A port that stays silent, or whose banner was cut or is   *)
(* none that service.rs knows, gets the port's own name, or none.          *)
NamedByBannerOrPort ==
    (pc = "returned" /\ name # "none") =>
        IF heard \in Recognised
        THEN \/ <<heard, name>> \in Introductions
             \/ /\ <<port, name>> \in KnownPorts
                /\ port \in Overruling
                /\ heard \notin Unmistakable
        ELSE IF port \in WellKnown THEN <<port, name>> \in KnownPorts
        ELSE name = "unknown"

(* detect() returns, whatever the server does: main.rs awaits it for every *)
(* open port in turn.                                                      *)
Returns == <>(pc = "returned")

(* "It identifies the most common services people care about: SSH, HTTP,   *)
(* HTTPS, FTP, SMTP, POP3, IMAP, MySQL, PostgreSQL, Redis, [...]" by their *)
(* banner (service.rs:9-14), and "SMTP and FTP banners both start with     *)
(* 220; differentiate by port hint" (service.rs:131): a server that        *)
(* introduces itself is named so, whatever the number of its port, and on  *)
(* the ports for mail 220 introduces SMTP.                                 *)
BannersIdentify ==
    pc = "returned" =>
        /\ heard = "220 " => name = IF port \in {25, 587, 465} THEN "smtp" ELSE "ftp"
        /\ heard \in {"mysql9", "mysql10"} => name = "mysql"
        /\ heard \in Recognised \ {"220 "} => <<heard, name>> \in Introductions
=============================================================================
