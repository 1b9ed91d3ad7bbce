----------------------------- MODULE TargetList -----------------------------
(***************************************************************************)
(* The list of addresses to scan: TargetSpec::parse_many of target.rs,     *)
(* which expands the TARGET arguments one after the other.                 *)
(*                                                                         *)
(* An argument is a record whose kind says which of the forms its text     *)
(* has; an address is a family and a number.  The name of a host carries   *)
(* what the resolver answers, LookupFails or a list of addresses.          *)
(***************************************************************************)
EXTENDS Integers, Sequences, FiniteSets, SequencesExt

CONSTANTS
    V4Bits,     \* 32
    V6Bits,     \* 128
    OctetBits   \* 8

ASSUME TargetListAssumption ==
    /\ {V4Bits, V6Bits, OctetBits} \subseteq Nat \ {0}
    /\ OctetBits <= V4Bits

Bits(family) == IF family = 4 THEN V4Bits ELSE V6Bits
Address == UNION {[family: {f}, n: 0..2^Bits(f) - 1] : f \in {4, 6}}
Octet == 2^OctetBits

NotAnOctet == -1
LookupFails == <<>>

Empty == [kind |-> "blank"]
Net(a, prefix) == [kind |-> "cidr", addr |-> a, prefix |-> prefix]
BadNet == [kind |-> "bad cidr"]
OctetRange(a, hi) == [kind |-> "range", addr |-> a, hi |-> hi]
Literal(a) == [kind |-> "literal", addr |-> a]
HostName(answers) == [kind |-> "name", answers |-> answers]

IsTarget(arg) ==
    \/ arg \in {Empty, BadNet}
    \/ arg.kind = "cidr" /\ arg.addr \in Address /\ arg.prefix \in 0..Bits(arg.addr.family)
    \/ /\ arg.kind = "range" /\ arg.addr \in Address /\ arg.addr.family = 4
       /\ arg.hi \in NotAnOctet..(Octet - 1)
    \/ arg.kind = "literal" /\ arg.addr \in Address
    \/ arg.kind = "name" /\ arg.answers \in Seq(Address)

VARIABLES
    targetPc,   \* "idle" or "expanding", then "ok" or "error"
    inputs,     \* arguments still to be expanded
    addrs       \* TargetSpec.addrs

targetVars == <<targetPc, inputs, addrs>>

TargetInit ==
    /\ targetPc = "idle"
    /\ inputs = <<>>
    /\ addrs = <<>>

-----------------------------------------------------------------------------
(* The addresses of `a`'s family from number lo to number hi.              *)
From(a, lo, hi) == [i \in 1..(hi - lo + 1) |-> [a EXCEPT !.n = lo + i - 1]]

(* Bug: network and broadcast address left out of every block.             *)
HostsAlwaysDropped(a, prefix) ==
    LET size == 2^(Bits(a.family) - prefix)
        network == a.n - (a.n % size)
    IN From(a, network + 1, network + size - 2)

(* ipnet's hosts(): all addresses of a block, but of IPv4 blocks of more   *)
(* than two the first and the last are left out.                           *)
Hosts(a, prefix) ==
    LET size == 2^(Bits(a.family) - prefix)
        network == a.n - (a.n % size)
        ends == IF a.family = 4 /\ prefix < V4Bits - 1 THEN 1 ELSE 0
    IN From(a, network + ends, network + size - 1 - ends)

LastOctet(a) == a.n % Octet

RangeFrom(a, hi) == From(a, a.n, a.n - LastOctet(a) + hi)

(* The first IPv4 address of the answer, or the first of all.              *)
Chosen(answers) ==
    LET v4 == SelectInSeq(answers, LAMBDA a : a.family = 4)
    IN IF v4 = 0 THEN answers[1] ELSE answers[v4]

Unusable(arg, resolve) ==
    \/ arg.kind = "bad cidr"
    \/ arg.kind = "range" /\ (arg.hi = NotAnOctet \/ arg.hi < LastOctet(arg.addr))
    \/ arg.kind = "name" /\ (~resolve \/ arg.answers = LookupFails)

Expansion(arg) ==
    CASE arg.kind = "blank"   -> <<>>
      [] arg.kind = "cidr"    -> Hosts(arg.addr, arg.prefix)
      [] arg.kind = "range"   -> RangeFrom(arg.addr, arg.hi)
      [] arg.kind = "literal" -> <<arg.addr>>
      [] arg.kind = "name"    -> <<Chosen(arg.answers)>>

ParseTargets(args) ==
    /\ targetPc = "idle"
    /\ targetPc' = "expanding"
    /\ inputs' = args
    /\ UNCHANGED addrs

ExpandOne(resolve) ==
    /\ targetPc = "expanding" /\ inputs # <<>>
    /\ ~Unusable(Head(inputs), resolve)
    /\ addrs' = addrs \o Expansion(Head(inputs))
    /\ inputs' = Tail(inputs)
    /\ UNCHANGED targetPc

(* One argument that cannot be used ends the whole run.                    *)
RefuseOne(resolve) ==
    /\ targetPc = "expanding" /\ inputs # <<>>
    /\ Unusable(Head(inputs), resolve)
    /\ targetPc' = "error"
    /\ UNCHANGED <<inputs, addrs>>

AllExpanded ==
    /\ targetPc = "expanding" /\ inputs = <<>>
    /\ targetPc' = IF addrs = <<>> THEN "error" ELSE "ok"
    /\ UNCHANGED <<inputs, addrs>>

TargetStep(resolve) == ExpandOne(resolve) \/ RefuseOne(resolve) \/ AllExpanded

-----------------------------------------------------------------------------
(* What an argument means.  A block: the addresses that share its prefix,  *)
(* without those whose host part is all zeros or all ones where there are  *)
(* others.  A range: the addresses that share all but the last octet.      *)
Block(a, prefix) ==
    LET size == 2^(Bits(a.family) - prefix)
        same == {x \in Address : x.family = a.family /\ x.n \div size = a.n \div size}
    IN IF a.family = 4 /\ size > 2
       THEN {x \in same : x.n % size \notin {0, size - 1}}
       ELSE same

FirstOf(answers, family) ==
    {a \in Range(answers) :
        /\ a.family = family
        /\ \E i \in DOMAIN answers : /\ answers[i] = a
                                     /\ \A j \in 1..(i - 1) : answers[j].family # family}

AddressesOf(arg, resolve) ==
    CASE arg.kind = "cidr" -> Block(arg.addr, arg.prefix)
      [] arg.kind = "range" ->
             {x \in Address : /\ x.family = 4
                              /\ x.n \div Octet = arg.addr.n \div Octet
                              /\ LastOctet(arg.addr) <= x.n % Octet /\ x.n % Octet <= arg.hi}
      [] arg.kind = "literal" -> {arg.addr}
      [] arg.kind = "name" /\ resolve ->
             IF FirstOf(arg.answers, 4) # {} THEN FirstOf(arg.answers, 4) ELSE FirstOf(arg.answers, 6)
      [] OTHER -> {}

TargetTypeOK ==
    /\ targetPc \in {"idle", "expanding", "ok", "error"}
    /\ addrs \in Seq(Address)
=============================================================================
