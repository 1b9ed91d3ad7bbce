----------------------------- MODULE MCStartup -----------------------------
(* Instance: ports 1..4, IPv4 addresses of 4 bits with octets of 2, IPv6    *)
(* addresses of 2 bits, and four families of command lines.                 *)
EXTENDS Startup

MCTopTable == <<3, 1, 3, 2, 1>>

PortText(list) == [ports |-> list, target |-> BadNet, number |-> NaN, dashed |-> FALSE]
TargetText(arg) ==
    [ports |-> <<Single(Garbage)>>, target |-> arg, number |-> NaN, dashed |-> FALSE]
NumberText(n) ==
    [ports |-> <<Single(n)>>, target |-> HostName(LookupFails), number |-> n, dashed |-> FALSE]
UpTo3 == [PortText(<<Interval(Missing, 3)>>) EXCEPT !.dashed = TRUE]   \* "-3"

A4(n) == [family |-> 4, n |-> n]
A6(n) == [family |-> 6, n |-> n]
Host == TargetText(Literal(A4(5)))

(* -p with every list of at most two chunks.                               *)
Chunk ==
    {Blank} \cup {Single(n) : n \in {Garbage} \cup 0..5}
    \cup {Interval(lo, hi) : lo \in {Missing, Garbage} \cup 0..5, hi \in {Missing, Garbage} \cup 0..5}
PortTexts == {PortText(list) : list \in SeqOf(Chunk, 2)}
PortLines == {<<Short("p", text), Word(Host)>> : text \in PortTexts}

(* Every target, alone and before or after another one.                    *)
TargetArgs ==
    {Empty, BadNet}
    \cup {Net(A4(n), p) : n \in 0..15, p \in 0..4} \cup {Net(A6(n), p) : n \in 0..3, p \in 0..2}
    \cup {OctetRange(A4(n), hi) : n \in 0..15, hi \in NotAnOctet..3}
    \cup {Literal(a) : a \in Address}
    \cup {HostName(answers) : answers \in SeqOf({A4(2), A4(7), A6(1)}, 2)}
TargetTexts == {TargetText(arg) : arg \in TargetArgs}
Others == {TargetText(Empty), TargetText(OctetRange(A4(6), 3)), TargetText(HostName(<<A4(5)>>))}
TargetLines ==
    {<<Word(t)>> : t \in TargetTexts}
    \cup {<<Word(t), Word(o)>> : t \in TargetTexts, o \in Others}
    \cup {<<Word(o), Word(t)>> : t \in TargetTexts, o \in Others}

(* Every command line of at most three of these arguments.                 *)
Arguments ==
    {Word(Host), Word(NumberText(2)), Word(TargetText(HostName(<<A6(1)>>))),
     Short("PS", NoText), Short("PS", NumberText(2)), Short("PS", UpTo3),
     Short("sS", NoText), Short("sS", NumberText(2)), Short("sU", NoText), Long("sS", NoText),
     Short("p", NoText), Short("p", UpTo3), Short("p", PortText(AllPorts)),
     Short("oN", NoText), Long("oN", Host), Short("n", NoText),
     Short("T", NumberText(300)), Short("c", NumberText(5000)),
     Long("top-ports", NumberText(0)), Long("host-timeout", NoText), CutChar}
MixedLines == SeqOf(Arguments, 3)

(* Those of at most two, for the claim that fails.                         *)
MCFewLines == SeqOf(Arguments, 2)

(* Every level with some of the options that go over it.                   *)
Some(overriding) == {<<>>} \cup {<<o>> : o \in overriding}
TimingLines ==
    {<<Word(Host), Short("T", NumberText(level))>> \o c \o r \o n :
        level \in 0..7,
        c \in Some({Short("c", NumberText(k)) : k \in {0, 2}}),
        r \in Some({Long("max-retries", NumberText(k)) : k \in {0, 3}}),
        n \in Some({Long("top-ports", NumberText(k)) : k \in {0, 2}})}

MCCommandLines == PortLines \cup TargetLines \cup MixedLines \cup TimingLines
=============================================================================
