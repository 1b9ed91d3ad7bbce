--------------------------- MODULE Startup_proofs ---------------------------
(***************************************************************************)
(* Proofs about Startup, for any command line, any table of ports and any  *)
(* number of ports and permits: the arguments are taken as they were       *)
(* typed, the lists of ports and of targets are read as what they mean, a  *)
(* higher -T level is never slower, and a scan that begins finds what      *)
(* ScanEngine assumes.                                                     *)
(***************************************************************************)
EXTENDS Startup, Lemmas, FiniteSetTheorems, TLAPS

-----------------------------------------------------------------------------
(* What the options mean to the list of ports.                             *)
Typed == options["p"].ports
Meant == UNION {PortsOf(c) : c \in Range(Typed)}
AllSound(list) == \A c \in Range(list) : Sound(c)
Most == NumberGiven("top-ports", 100)
Known == Cardinality(Range(TopTable))
SeenOfTable(n) == {TopTable[i] : i \in 1..n}

(* The arguments are arguments, and the values of options are texts.       *)
CliInv ==
    /\ IsList(argv) /\ \A arg \in Range(argv) : IsArgument(arg)
    /\ IsList(rewritten) /\ \A arg \in Range(rewritten) : IsArgument(arg)
    /\ read \in Nat
    /\ \A f \in DOMAIN options \cap Valued : IsText(options[f])
    /\ \A f \in DOMAIN options \cap Numeric : options[f].number \in Nat
    /\ IsList(targets) /\ \A text \in Range(targets) : IsText(text)

(* No loop reads on beyond its end, and every text was typed.              *)
CliTyped ==
    /\ CliTypeOK
    /\ read <= IF cliPc \in {"rewrite", "panicked"} THEN Len(argv) ELSE Len(rewritten)
    /\ \A arg \in Range(rewritten) : arg # CutChar /\ arg.text \in TypedTexts

(* What the argument i is rewritten to: its first piece, and whether there *)
(* is another.                                                             *)
IsSplit(i) == IsCompound(argv[i]) /\ argv[i].text # NoText
FirstPiece(i) == IF IsCompound(argv[i]) THEN Long(argv[i].flag, NoText) ELSE argv[i]

(* The number of pieces of the first n arguments.                          *)
Pieces(n) == n + Cardinality({i \in 1..n : IsSplit(i)})

(* The pieces of the first n arguments stand one after the other.          *)
RewrittenTo(n) ==
    /\ Len(rewritten) = Pieces(n)
    /\ \A i \in 1..n :
           /\ argv[i] # CutChar
           /\ rewritten[Pieces(i - 1) + 1] = FirstPiece(i)
           /\ IsSplit(i) => rewritten[Pieces(i - 1) + 2] = Word(argv[i].text)

(* Where a target was typed, and what targets that makes.                  *)
Stray(i) ==
    \/ argv[i].form = "word" /\ ~IsValueAt(i)
    \/ argv[i].form # "word" /\ argv[i].flag \in Switches /\ argv[i].text # NoText
Strays(j) == {i \in 1..j : Stray(i)}
TextsAt(S) == LET at == Ascending(S) IN [k \in DOMAIN at |-> argv[at[k]].text]

FlagsTyped(j) == {argv[i].flag : i \in {k \in 1..j : argv[k].form # "word"}}

(* The options of the first j arguments are given, and have their values.  *)
Taken(j) ==
    /\ DOMAIN options = FlagsTyped(j)
    /\ \A i \in 1..j : (argv[i].form # "word" /\ argv[i].flag \in Valued) =>
                           options[argv[i].flag] = TypedValue(i)

(* An option whose value is to be the next argument.                       *)
Awaits(i) ==
    /\ argv[i].form \in {"short", "long"}
    /\ argv[i].flag \in Valued /\ argv[i].text = NoText

(* clap has dealt with the first j arguments, or with all of them but the  *)
(* text that was split off the j-th.                                       *)
Between(j) ==
    /\ read = Pieces(j)
    /\ Taken(j) /\ targets = TextsAt(Strays(j))
    /\ j > 0 => ~Awaits(j)
Midway(j) ==
    /\ read = Pieces(j - 1) + 1
    /\ IsSplit(j) /\ argv[j].flag \in Switches
    /\ Taken(j) /\ targets = TextsAt(Strays(j - 1))

(* clap has gone on to the end of an argument, or to the middle of one.    *)
Onward ==
    \/ \E j \in 0..Len(argv) : Between(j)
    \/ \E j \in 1..Len(argv) : Midway(j)

(* Every text is taken as a value or a target, what was split off a switch *)
(* as a target, too.                                                       *)
AsTaken ==
    cliPc = "parsed" => Taken(Len(argv)) /\ targets = TextsAt(Strays(Len(argv)))

ClapInv ==
    /\ cliPc = "rewrite" => /\ DOMAIN options = {} /\ targets = <<>>
                            /\ RewrittenTo(read)
    /\ cliPc = "clap" => RewrittenTo(Len(argv)) /\ Onward
    /\ AsTaken

(* A set of addresses as TargetsDenoted lists it.                          *)
InOrder(M) ==
    LET numbers == Ascending({a.n : a \in M})
    IN [k \in DOMAIN numbers |-> CHOOSE a \in M : a.n = numbers[k]]

(* What the options mean to the list of targets.                           *)
Args == [i \in DOMAIN targets |-> targets[i].target]
Resolved == ~IsGiven("n")
Listing == [i \in DOMAIN Args |-> InOrder(AddressesOf(Args[i], Resolved))]

(* The first m arguments are expanded, the others still to come; if they   *)
(* came to nothing they were all blank.                                    *)
Expanded(m) ==
    /\ inputs \in Seq(Range(Args)) /\ Len(inputs) = Len(Args) - m
    /\ \A i \in 1..Len(inputs) : inputs[i] = Args[m + i]
    /\ \A i \in 1..m : ~Unusable(Args[i], Resolved)
    /\ addrs = FlattenSeq(FirstOfAll(Listing, m))
    /\ addrs = <<>> => \A i \in 1..m : Args[i] = Empty

TargetInv ==
    /\ targetPc \in {"idle", "expanding", "ok", "error"}
    /\ addrs \in Seq(Address)
    /\ targetPc = "idle" => addrs = <<>>
    /\ targetPc = "expanding" => targets # <<>> /\ \E m \in 0..Len(Args) : Expanded(m)
    /\ targetPc = "ok" => addrs # <<>>
    /\ TargetsDenoted

(* While a list is parsed, the set and the chunks to come are what the     *)
(* list means.                                                             *)
ParseInv ==
    /\ IsGiven("p")
    /\ IsList(chunks) /\ \A c \in Range(chunks) : IsChunk(c)
    /\ set \cup UNION {PortsOf(c) : c \in Range(chunks)} = Meant
    /\ AllSound(chunks) <=> AllSound(Typed)

(* While the table is walked, the ports are those seen so far, each once,  *)
(* and fewer than wanted.                                                  *)
WalkInv ==
    /\ ~IsGiven("p")
    /\ wanted = Most
    /\ ports \in Seq(1..MaxPort) /\ IsInjective(ports)
    /\ Range(ports) = SeenOfTable(walked)
    /\ ports = <<>> <=> walked = 0
    /\ ports # <<>> => Len(ports) < wanted

(* What has been read of -p, or of the table, when its loop has ended: at  *)
(* least one port of the table, whatever was wanted.                       *)
ListRead ==
    /\ (portPc = "ok" /\ IsGiven("p")) =>
           /\ AllSound(Typed)
           /\ Range(ports) = Meant
           /\ \A i, j \in DOMAIN ports : i < j => ports[i] < ports[j]
    /\ (portPc = "ok" /\ ~IsGiven("p")) =>
           /\ Len(ports) = Min({Max({Most, 1}), Known})
           /\ \E k \in DOMAIN TopTable : Range(ports) = Range(SubSeq(TopTable, 1, k))
    /\ (portPc = "error") => ~AllSound(Typed) \/ Meant = {}

PortInv ==
    /\ portPc \in {"idle", "parsing", "walking", "ok", "error"}
    /\ set \subseteq 1..MaxPort
    /\ walked \in 0..Len(TopTable)
    /\ portPc = "idle" => set = {} /\ walked = 0 /\ ports = <<>>
    /\ portPc = "parsing" => ParseInv
    /\ portPc = "walking" => WalkInv
    /\ portPc = "ok" => ports # <<>> /\ IsInjective(ports)
    /\ ListRead

(* The fields of a Timing.                                                 *)
TimingType == [parallel: Nat, connect: Nat, read: Nat, retries: Nat, host: Nat]

(* The timing is the one the options ask for.                              *)
TimingBuilt == pc \in {"timing", "scanning"} => timing = Overridden(Template(NumberGiven("T", 3)))

MainInv ==
    /\ pc \in {"command line", "targets", "ports", "timing"} \cup Ends
    /\ pc = "command line" => targetPc = "idle"
    /\ pc \in {"command line", "targets"} => portPc = "idle"
    /\ pc \in {"ports", "timing", "scanning"} => targetPc = "ok"
    /\ pc \in {"timing", "scanning"} => portPc = "ok"
    /\ timing \in TimingType /\ TimingBuilt
    /\ permits \in 0..MaxPermits
    /\ pc = "scanning" => permits >= 1

IInv == CliInv /\ CliTyped /\ ClapInv /\ TargetInv /\ PortInv /\ PortTypeOK /\ MainInv

-----------------------------------------------------------------------------
(* Sequences and what is in them.                                          *)

(* A sequence is a function on an interval from 1.                         *)
LEMMA ListDomain ==
    ASSUME NEW s, IsList(s)
    PROVE  Len(s) \in Nat /\ DOMAIN s = 1..Len(s) /\ \A i \in 1..Len(s) : s[i] \in Range(s)
BY LenProperties, ElementOfSeq DEF IsList

(* Any sequence over some set is a list.                                   *)
LEMMA SeqIsList ==
    ASSUME NEW S, NEW s \in Seq(S)
    PROVE  IsList(s) /\ Range(s) \subseteq S
<1>1. Len(s) \in Nat /\ DOMAIN s = 1..Len(s) /\ s \in [1..Len(s) -> S]
  BY LenProperties
<1>2. s \in [1..Len(s) -> Range(s)]
  BY <1>1 DEF Range
<1>3. s \in Seq(Range(s))
  BY <1>1, <1>2, SeqDef
<1>. QED  BY <1>1, <1>3 DEF IsList, Range

(* Nothing is in the concatenation but what is in its parts.               *)
LEMMA RangeConcat ==
    ASSUME NEW s, NEW t, IsList(s), IsList(t)
    PROVE  IsList(s \o t) /\ Range(s \o t) = Range(s) \cup Range(t)
<1>. DEFINE S == Range(s) \cup Range(t)
<1>1. s \in Seq(S) /\ t \in Seq(S)
  BY SeqMonotonic DEF IsList
<1>2. /\ s \o t \in Seq(S)
      /\ Len(s \o t) = Len(s) + Len(t)
      /\ \A i \in 1..Len(s) + Len(t) :
            (s \o t)[i] = IF i <= Len(s) THEN s[i] ELSE t[i - Len(s)]
  BY <1>1, ConcatProperties
<1>3. IsList(s \o t) /\ Range(s \o t) \subseteq S
  BY <1>2, SeqIsList
<1>4. ASSUME NEW x \in S  PROVE x \in Range(s \o t)
  <2>1. CASE x \in Range(s)
    <3>1. PICK i \in 1..Len(s) : x = s[i]
      BY <2>1, ListDomain DEF Range
    <3>2. i \in 1..Len(s) + Len(t) /\ x = (s \o t)[i]
      BY <3>1, <1>2, ListDomain
    <3>. QED  BY <3>2, <1>2, <1>3, ListDomain DEF Range
  <2>2. CASE x \in Range(t)
    <3>1. PICK i \in 1..Len(t) : x = t[i]
      BY <2>2, ListDomain DEF Range
    <3>2. Len(s) + i \in 1..Len(s) + Len(t) /\ x = (s \o t)[Len(s) + i]
      BY <3>1, <1>2, ListDomain
    <3>. QED  BY <3>2, <1>2, <1>3, ListDomain DEF Range
  <2>. QED  BY <2>1, <2>2
<1>. QED  BY <1>3, <1>4

(* What is appended comes on top.                                          *)
LEMMA RangeAppend ==
    ASSUME NEW s, NEW x, IsList(s)
    PROVE  IsList(Append(s, x)) /\ Range(Append(s, x)) = Range(s) \cup {x}
<1>. DEFINE S == Range(s) \cup {x}
<1>1. s \in Seq(S) /\ x \in S
  BY SeqMonotonic DEF IsList
<1>2. /\ Append(s, x) \in Seq(S)
      /\ Len(Append(s, x)) = Len(s) + 1
      /\ \A i \in 1..Len(s) : Append(s, x)[i] = s[i]
      /\ Append(s, x)[Len(s) + 1] = x
  BY <1>1, AppendProperties
<1>3. IsList(Append(s, x)) /\ Range(Append(s, x)) \subseteq S
  BY <1>2, SeqIsList
<1>4. /\ \A i \in 1..(Len(s) + 1) : Append(s, x)[i] \in Range(Append(s, x))
      /\ Len(s) \in Nat
  BY <1>2, <1>3, ListDomain, Zenon
<1>5. x \in Range(Append(s, x)) /\ \A i \in 1..Len(s) : s[i] \in Range(Append(s, x))
  <2>1. Len(s) + 1 \in 1..(Len(s) + 1) /\ \A i \in 1..Len(s) : i \in 1..(Len(s) + 1)
    BY <1>4
  <2>. QED  BY <1>2, <1>4, <2>1, Zenon
<1>6. \A y \in Range(s) : \E i \in 1..Len(s) : y = s[i]
  BY ListDomain DEF Range
<1>. QED  BY <1>3, <1>5, <1>6

(* A list is its head and what is in its tail.                             *)
LEMMA RangeTail ==
    ASSUME NEW s, IsList(s), s # <<>>
    PROVE  /\ IsList(Tail(s))
           /\ Head(s) \in Range(s)
           /\ Range(s) = {Head(s)} \cup Range(Tail(s))
<1>1. /\ Head(s) \in Range(s)
      /\ Tail(s) \in Seq(Range(s))
      /\ Len(Tail(s)) = Len(s) - 1
      /\ \A i \in 1..Len(Tail(s)) : Tail(s)[i] = s[i + 1]
  BY HeadTailProperties DEF IsList
<1>2. IsList(Tail(s)) /\ Range(Tail(s)) \subseteq Range(s)
  BY <1>1, SeqIsList
<1>3. ASSUME NEW x \in Range(s)  PROVE x = Head(s) \/ x \in Range(Tail(s))
  <2>1. PICK i \in 1..Len(s) : x = s[i]
    BY ListDomain DEF Range
  <2>2. CASE i = 1
    BY <2>1, <2>2
  <2>3. CASE i # 1
    <3>1. i - 1 \in 1..Len(Tail(s)) /\ x = Tail(s)[i - 1]
      BY <2>1, <2>3, <1>1, ListDomain
    <3>. QED  BY <3>1, <1>2, ListDomain
  <2>. QED  BY <2>2, <2>3
<1>. QED  BY <1>1, <1>2, <1>3

(* The greater and the smaller of two numbers.                             *)
LEMMA MaxOfTwo ==
    ASSUME NEW a \in Int, NEW b \in Int
    PROVE  Max({a, b}) = IF a >= b THEN a ELSE b
BY DEF Max

LEMMA MinOfTwo ==
    ASSUME NEW a \in Int, NEW b \in Int
    PROVE  Min({a, b}) = IF a <= b THEN a ELSE b
BY DEF Min

(* A list without repetitions is as long as the set of what is in it.      *)
LEMMA InjectiveLength ==
    ASSUME NEW s, IsList(s), IsInjective(s)
    PROVE  IsFiniteSet(Range(s)) /\ Cardinality(Range(s)) = Len(s)
<1>1. Len(s) \in Nat /\ s \in [1..Len(s) -> Range(s)]
  BY ListDomain, LenProperties DEF IsList
<1>2. s \in Bijection(1..Len(s), Range(s))
  BY <1>1, ListDomain DEF IsInjective, Bijection, Injection, Surjection, Range
<1>. QED  BY <1>1, <1>2, FS_CountingElements, FS_NatBijection DEF ExistsBijection

-----------------------------------------------------------------------------
(* What list of ports comes out of a set and of a chunk.                   *)

Below(S, p) == {q \in S : q < p}

(* A set of numbers listed in ascending order: every number once, at the   *)
(* place that those below it leave to it.                                  *)
LEMMA AscendingLists ==
    ASSUME NEW m \in Nat, NEW S \in SUBSET (1..m)
    PROVE  /\ Ascending(S) \in Seq(S)
           /\ Range(Ascending(S)) = S
           /\ \A i, j \in DOMAIN Ascending(S) : i < j => Ascending(S)[i] < Ascending(S)[j]
           /\ IsInjective(Ascending(S))
           /\ S # {} => Ascending(S) # <<>>
           /\ IsFiniteSet(S) /\ Cardinality(S) \in Nat
           /\ DOMAIN Ascending(S) = 1..Cardinality(S)
           /\ \A k \in 1..Cardinality(S) :
                  Ascending(S)[k] \in S /\ Cardinality(Below(S, Ascending(S)[k])) = k - 1
           /\ \A p, q \in S : Cardinality(Below(S, p)) = Cardinality(Below(S, q)) => p = q
<1>. DEFINE n == Cardinality(S)
            rank == [p \in S |-> Cardinality(Below(S, p))]
<1>1. /\ IsFiniteSet(S) /\ n \in Nat
      /\ \A p \in S : p \in Int
  <2>1. IsFiniteSet(1..m)
    BY FS_Interval
  <2>2. IsFiniteSet(S)
    BY <2>1, FS_Subset
  <2>. QED  BY <2>2, FS_CardinalityType
<1>2. ASSUME NEW p \in S
      PROVE  /\ IsFiniteSet(Below(S, p)) /\ rank[p] \in 0..(n - 1)
  <2>1. Below(S, p) \in SUBSET S /\ p \notin Below(S, p)
    BY DEF Below
  <2>2. IsFiniteSet(Below(S, p)) /\ Cardinality(Below(S, p)) <= n /\ Cardinality(Below(S, p)) # n
    BY <1>1, <2>1, FS_Subset
  <2>. QED  BY <1>1, <2>2, FS_CardinalityType
<1>3. ASSUME NEW p \in S, NEW q \in S, p < q
      PROVE  rank[p] < rank[q]
  <2>0. p \in Int /\ q \in Int /\ p < q /\ \A x \in S : x \in Int
    BY <1>1, <1>3
  <2>1. /\ \A x \in S : x < p => x < q
        /\ ~(p < p)
    BY <2>0
  <2>2. /\ Below(S, p) \in SUBSET Below(S, q)
        /\ p \in Below(S, q)
        /\ p \notin Below(S, p)
    BY <2>0, <2>1, Zenon DEF Below
  <2>3. Cardinality(Below(S, p)) <= Cardinality(Below(S, q))
        /\ Cardinality(Below(S, p)) # Cardinality(Below(S, q))
    BY <1>2, <2>2, FS_Subset
  <2>. QED  BY <1>2, <2>3
<1>4. rank \in Injection(S, 0..(n - 1))
  <2>1. rank \in [S -> 0..(n - 1)]
    BY <1>2
  <2>2. \A p, q \in S : rank[p] = rank[q] => p = q
    BY <1>1, <1>2, <1>3
  <2>. QED  BY <2>1, <2>2 DEF Injection, IsInjective
<1>5. rank \in Surjection(S, 0..(n - 1))
  <2>1. IsFiniteSet(0..(n - 1)) /\ Cardinality(0..(n - 1)) = n
    BY <1>1, FS_Interval
  <2>. QED  BY <1>1, <1>4, <2>1, FS_Injection
<1>6. ASSUME NEW k \in 1..n
      PROVE  Ascending(S)[k] \in S /\ rank[Ascending(S)[k]] = k - 1
  <2>1. k - 1 \in 0..(n - 1)
    BY <1>1
  <2>2. \E p \in S : Cardinality({q \in S : q < p}) = k - 1
    BY <1>5, <2>1 DEF Surjection, Below
  <2>3. Ascending(S)[k] = CHOOSE p \in S : Cardinality({q \in S : q < p}) = k - 1
    BY DEF Ascending
  <2>. QED  BY <2>2, <2>3 DEF Below
<1>7. Ascending(S) \in [1..n -> S]
  BY <1>6 DEF Ascending
<1>8. Ascending(S) \in Seq(S) /\ DOMAIN Ascending(S) = 1..n
  BY <1>1, <1>7, SeqDef
<1>9. \A i, j \in 1..n : i < j => Ascending(S)[i] < Ascending(S)[j]
  <2>. SUFFICES ASSUME NEW i \in 1..n, NEW j \in 1..n, i < j
                PROVE  Ascending(S)[i] < Ascending(S)[j]
    OBVIOUS
  <2>1. /\ Ascending(S)[i] \in S /\ rank[Ascending(S)[i]] = i - 1
        /\ Ascending(S)[j] \in S /\ rank[Ascending(S)[j]] = j - 1
    BY <1>6
  <2>2. Ascending(S)[j] < Ascending(S)[i] => j - 1 < i - 1
    BY <1>3, <2>1
  <2>3. Ascending(S)[j] # Ascending(S)[i]
    BY <2>1, <1>1
  <2>4. Ascending(S)[i] \in Int /\ Ascending(S)[j] \in Int
    BY <1>1, <2>1
  <2>. QED  BY <1>1, <2>2, <2>3, <2>4
<1>10. Range(Ascending(S)) = S
  <2>1. ASSUME NEW p \in S  PROVE \E k \in 1..n : Ascending(S)[k] = p
    <3>. DEFINE k == rank[p] + 1
    <3>1. k \in 1..n /\ rank[p] = k - 1
      BY <1>1, <1>2
    <3>2. Ascending(S)[k] \in S /\ rank[Ascending(S)[k]] = rank[p]
      BY <1>6, <3>1
    <3>3. Ascending(S)[k] = p
      BY <1>4, <3>2 DEF Injection, IsInjective
    <3>. QED  BY <3>1, <3>3
  <2>. QED  BY <1>7, <1>8, <2>1 DEF Range
<1>11. IsInjective(Ascending(S))
  <2>1. \A k \in 1..n : Ascending(S)[k] \in Int
    BY <1>1, <1>6
  <2>. QED  BY <1>1, <1>8, <1>9, <2>1 DEF IsInjective
<1>12. S # {} => Ascending(S) # <<>>
  BY <1>1, <1>8, <1>10 DEF Range
<1>13. \A k \in 1..n : Ascending(S)[k] \in S /\ Cardinality(Below(S, Ascending(S)[k])) = k - 1
  BY <1>6
<1>14. \A p, q \in S : Cardinality(Below(S, p)) = Cardinality(Below(S, q)) => p = q
  BY <1>4 DEF Injection, IsInjective
<1>. QED  BY <1>1, <1>8, <1>9, <1>10, <1>11, <1>12, <1>13, <1>14

(* A greater number than all others comes last.                            *)
LEMMA AscendingLast ==
    ASSUME NEW m \in Nat, NEW S \in SUBSET (1..m)
    PROVE  Ascending(S \cup {m + 1}) = Append(Ascending(S), m + 1)
<1>. DEFINE T == S \cup {m + 1}
            c == Cardinality(S)
            A == Ascending(S)
            B == Ascending(T)
<1>1. /\ A \in Seq(S) /\ DOMAIN A = 1..c /\ IsFiniteSet(S) /\ c \in Nat
      /\ \A k \in 1..c : A[k] \in S /\ Cardinality(Below(S, A[k])) = k - 1
  BY AscendingLists
<1>2. Cardinality(T) = c + 1
  <2>1. m + 1 \notin S
    OBVIOUS
  <2>. QED  BY <1>1, <2>1, FS_AddElement
<1>3. /\ B \in Seq(T) /\ DOMAIN B = 1..(c + 1)
      /\ \A k \in 1..(c + 1) : B[k] \in T /\ Cardinality(Below(T, B[k])) = k - 1
      /\ \A p, q \in T : Cardinality(Below(T, p)) = Cardinality(Below(T, q)) => p = q
  <2>1. m + 1 \in Nat /\ T \in SUBSET (1..(m + 1))
    OBVIOUS
  <2>. HIDE DEF T
  <2>. QED  BY <1>2, <2>1, AscendingLists
<1>4. ASSUME NEW p \in S
      PROVE  Below(T, p) = Below(S, p)
  BY DEF Below
<1>5. Below(T, m + 1) = S
  <2>1. \A q \in S : q \in Int /\ q < m + 1
    OBVIOUS
  <2>2. ~(m + 1 < m + 1)
    OBVIOUS
  <2>. QED  BY <2>1, <2>2, Zenon DEF Below
<1>. HIDE DEF A, B, c
<1>6. ASSUME NEW k \in 1..c
      PROVE  B[k] = A[k]
  <2>1. A[k] \in S /\ Cardinality(Below(T, A[k])) = k - 1
    BY <1>1, <1>4
  <2>2. A[k] \in T
    BY <2>1
  <2>3. k \in 1..(c + 1)
    BY <1>1
  <2>4. B[k] \in T /\ Cardinality(Below(T, B[k])) = k - 1
    BY <1>3, <2>3, Zenon
  <2>. HIDE DEF T
  <2>. QED  BY <1>3, <2>1, <2>2, <2>4, Zenon
<1>7. B[c + 1] = m + 1
  <2>1. c + 1 \in 1..(c + 1) /\ c + 1 - 1 = c
    BY <1>1
  <2>2. Cardinality(Below(T, B[c + 1])) = c /\ B[c + 1] \in T
    <3>1. \A k \in 1..(c + 1) : B[k] \in T /\ Cardinality(Below(T, B[k])) = k - 1
      BY <1>3
    <3>. HIDE DEF T
    <3>. QED  BY <1>1, <2>1, <3>1
  <2>3. Cardinality(Below(T, m + 1)) = c
    BY <1>5, Zenon DEF c
  <2>4. m + 1 \in T
    OBVIOUS
  <2>. HIDE DEF T
  <2>5. \A p, q \in T : Cardinality(Below(T, p)) = Cardinality(Below(T, q)) => p = q
    BY <1>3
  <2>. QED  BY <2>2, <2>3, <2>4, <2>5
<1>8. B = Append(A, m + 1)
  <2>1. Len(A) = c /\ Len(B) = c + 1
    BY <1>1, <1>3, LenProperties
  <2>. DEFINE C == Append(A, m + 1)
  <2>2. /\ C \in Seq(T) /\ Len(C) = c + 1 /\ C[c + 1] = m + 1
        /\ \A k \in 1..c : C[k] = A[k]
    <3>1. A \in Seq(T) /\ m + 1 \in T
      <4>1. A \in [1..c -> T]
        BY <1>1, <2>1, LenProperties
      <4>. QED  BY <1>1, <4>1, SeqDef
    <3>. HIDE DEF T
    <3>. QED  BY <2>1, <3>1, AppendProperties
  <2>. HIDE DEF T, C
  <2>3. \A k \in 1..(c + 1) : C[k] = B[k]
    BY <1>1, <1>6, <1>7, <2>2
  <2>4. B = C
    BY <1>3, <2>1, <2>2, <2>3, SeqEqual
  <2>. QED  BY <2>4 DEF C
<1>. QED  BY <1>8 DEF A, B

(* A chunk is refused just if it is not sound, and read as what it means.  *)
LEMMA ChunkRead ==
    ASSUME NEW c, IsChunk(c), c # Blank
    PROVE  /\ Refused(c) <=> ~Sound(c)
           /\ ~Refused(c) => Bounds(c).lo..Bounds(c).hi = PortsOf(c)
           /\ PortsOf(c) \subseteq 1..MaxPort
<1>1. /\ c.kind \in {"single", "range"} /\ {c.lo, c.hi} \subseteq Number
      /\ c.kind = "single" => c.lo = c.hi /\ c.lo # Missing
  BY DEF IsChunk
<1>2. MaxPort \in Nat \ {0}
  BY PortListAssumption
<1>3. /\ Bounds(c).lo = IF c.lo = Missing THEN 1 ELSE c.lo
      /\ Bounds(c).hi = IF c.hi = Missing THEN MaxPort ELSE c.hi
  BY DEF Bounds
<1>4. c.lo \in Int /\ c.hi \in Int
  BY <1>1 DEF Number, Missing, Garbage
<1>5. Refused(c) <=> ~Sound(c)
  BY <1>1, <1>2, <1>3, <1>4 DEF Refused, Sound, IsU16, Missing, Garbage, Number
<1>6. ~Refused(c) => Bounds(c).lo..Bounds(c).hi = PortsOf(c)
  <2>. SUFFICES ASSUME ~Refused(c), NEW p
                PROVE  p \in Bounds(c).lo..Bounds(c).hi <=> p \in PortsOf(c)
    OBVIOUS
  <2>1. /\ Bounds(c).lo \in 1..MaxPort /\ Bounds(c).hi \in 1..MaxPort
    BY <1>2, <1>3, <1>4 DEF Refused, IsU16
  <2>. QED  BY <1>2, <1>3, <1>4, <2>1 DEF PortsOf
<1>. QED  BY <1>5, <1>6 DEF PortsOf

-----------------------------------------------------------------------------
(* Powers of two: the subsets of a set with one element more are those     *)
(* without it and those with it.                                           *)
LEMMA PowerDoubles ==
    ASSUME NEW k \in Nat
    PROVE  2^k \in Nat /\ 2^(k + 1) = 2 * 2^k
<1>. DEFINE S == 1..k
            A == SUBSET S
            B == {x \cup {k + 1} : x \in A}
            f == [x \in A |-> x \cup {k + 1}]
<1>1. /\ IsFiniteSet(S) /\ Cardinality(S) = k
      /\ IsFiniteSet(1..(k + 1)) /\ Cardinality(1..(k + 1)) = k + 1
  <2>1. 1 \in Int /\ k \in Int /\ k + 1 \in Int /\ k + 1 - 1 + 1 = k + 1 /\ k - 1 + 1 = k
    OBVIOUS
  <2>2. Cardinality(1..k) = IF 1 > k THEN 0 ELSE k - 1 + 1
    BY <2>1, FS_Interval
  <2>3. Cardinality(1..(k + 1)) = IF 1 > k + 1 THEN 0 ELSE k + 1 - 1 + 1
    BY <2>1, FS_Interval
  <2>. QED  BY <2>1, <2>2, <2>3, FS_Interval
<1>2. /\ IsFiniteSet(A) /\ Cardinality(A) = 2^k
      /\ Cardinality(SUBSET (1..(k + 1))) = 2^(k + 1)
  BY <1>1, FS_SUBSET
<1>3. \A x \in A : k + 1 \notin x
  OBVIOUS
<1>4. f \in Bijection(A, B)
  <2>1. \A x, y \in A : x \cup {k + 1} = y \cup {k + 1} => x = y
    BY <1>3
  <2>2. f \in [A -> B] /\ \A t \in B : \E x \in A : f[x] = t
    OBVIOUS
  <2>3. f \in Injection(A, B)
    BY <2>1, <2>2 DEF Injection, IsInjective
  <2>4. f \in Surjection(A, B)
    BY <2>2 DEF Surjection
  <2>. QED  BY <2>3, <2>4 DEF Bijection
<1>5. IsFiniteSet(B) /\ Cardinality(B) = 2^k
  <2>. HIDE DEF A, B, f
  <2>1. ExistsBijection(A, B)
    BY <1>4 DEF ExistsBijection
  <2>. QED  BY <1>2, <2>1, FS_Bijection
<1>6. A \cap B = {}
  BY <1>3
<1>7. SUBSET (1..(k + 1)) = A \cup B
  <2>1. 1..(k + 1) = S \cup {k + 1}
    OBVIOUS
  <2>2. ASSUME NEW x \in SUBSET (S \cup {k + 1}), k + 1 \in x
        PROVE  x \in B
    <3>1. x \ {k + 1} \in A /\ x = (x \ {k + 1}) \cup {k + 1}
      BY <2>2
    <3>. QED  BY <3>1
  <2>3. ASSUME NEW x \in SUBSET (S \cup {k + 1}), k + 1 \notin x
        PROVE  x \in A
    BY <2>3
  <2>4. A \cup B \subseteq SUBSET (S \cup {k + 1})
    OBVIOUS
  <2>. QED  BY <2>1, <2>2, <2>3, <2>4
<1>8. 2^k \in Nat
  BY <1>2, FS_CardinalityType
<1>. DEFINE p == 2^k
<1>9. Cardinality(A \cup B) = 2 * p
  <2>1. Cardinality(A \cap B) = 0
    BY <1>6, FS_EmptySet
  <2>2. IsFiniteSet(A) /\ IsFiniteSet(B) /\ Cardinality(A) = p /\ Cardinality(B) = p /\ p \in Nat
    BY <1>2, <1>5, <1>8
  <2>. HIDE DEF A, B, p
  <2>. QED  BY <2>1, <2>2, FS_Union
<1>10. 2^(k + 1) = 2 * p
  BY <1>2, <1>7, <1>9, Zenon
<1>. QED  BY <1>8, <1>10

LEMMA Powers ==
    /\ 2^0 = 1 /\ 2^1 = 2
    /\ \A k \in Nat : 2^k \in Nat \ {0} /\ 2^(k + 1) = 2 * 2^k
    /\ \A k \in Nat : 2^k > 2 <=> k > 1
    /\ \A m, n \in Nat : 2^(m + n) = 2^m * 2^n
<1>1. 2^0 = 1
  OBVIOUS
<1>2. \A k \in Nat : 2^k \in Nat /\ 2^(k + 1) = 2 * 2^k
  BY PowerDoubles
<1>3. 2^1 = 2
  <2>1. 2^(0 + 1) = 2 * 2^0
    BY <1>2
  <2>. QED  BY <1>1, <2>1
<1>4. \A k \in Nat : 2^k # 0
  <2>. DEFINE T == {k \in Nat : 2^k # 0}
  <2>1. 0 \in T
    BY <1>1
  <2>2. ASSUME NEW n \in Nat, n \in T
        PROVE  n + 1 \in T
    <3>1. 2^n \in Nat /\ 2^n # 0 /\ 2^(n + 1) = 2 * 2^n
      BY <1>2, <2>2
    <3>2. 2^(n + 1) # 0
      BY <3>1
    <3>. QED  BY <3>2
  <2>. HIDE DEF T
  <2>3. Nat \subseteq T
    BY <2>1, <2>2, AllNumbers
  <2>. QED  BY <2>3 DEF T
<1>5. ASSUME NEW k \in Nat
      PROVE  2^k > 2 <=> k > 1
  <2>1. CASE k <= 1
    <3>. DEFINE a == 2^k
    <3>1. k = 0 \/ k = 1
      BY <2>1
    <3>2. a = 1 \/ a = 2
      BY <1>1, <1>3, <3>1, Zenon
    <3>. HIDE DEF a
    <3>3. a > 2 <=> k > 1
      BY <2>1, <3>2
    <3>. QED  BY <3>3 DEF a
  <2>2. CASE k > 1
    <3>. DEFINE a == 2^(k - 2)
    <3>1. k - 2 \in Nat /\ k - 1 \in Nat /\ k - 2 + 1 = k - 1 /\ k - 1 + 1 = k
      BY <2>2
    <3>2. a \in Nat /\ a # 0
      BY <1>2, <1>4, <3>1
    <3>3. 2^(k - 2 + 1) = 2 * a
      BY <1>2, <3>1
    <3>4. 2^(k - 1 + 1) = 2 * 2^(k - 1)
      BY <1>2, <3>1
    <3>5. 2^k = 2 * (2 * a)
      BY <3>1, <3>3, <3>4
    <3>. HIDE DEF a
    <3>. QED  BY <2>2, <3>2, <3>5
  <2>. QED  BY <2>1, <2>2
<1>6. ASSUME NEW m \in Nat
      PROVE  \A n \in Nat : 2^(m + n) = 2^m * 2^n
  <2>. DEFINE T == {n \in Nat : 2^(m + n) = 2^m * 2^n}
  <2>1. 0 \in T
    <3>1. m + 0 = m /\ 2^m \in Nat
      BY <1>2
    <3>. QED  BY <1>1, <3>1
  <2>2. ASSUME NEW n \in Nat, n \in T
        PROVE  n + 1 \in T
    <3>. DEFINE a == 2^m
                b == 2^n
    <3>1. 2^(m + n) = a * b /\ a \in Nat /\ b \in Nat
      BY <1>2, <2>2
    <3>2. 2^(m + n + 1) = 2 * 2^(m + n)
      BY <1>2
    <3>3. 2^(n + 1) = 2 * b
      BY <1>2
    <3>4. m + (n + 1) = m + n + 1
      OBVIOUS
    <3>5. 2 * (a * b) = a * (2 * b)
      <4>. HIDE DEF a, b
      <4>. QED  BY <3>1
    <3>6. 2^(m + (n + 1)) = 2^m * 2^(n + 1)
      BY <3>1, <3>2, <3>3, <3>4, <3>5
    <3>. QED  BY <3>6
  <2>. HIDE DEF T
  <2>3. Nat \subseteq T
    BY <2>1, <2>2, AllNumbers
  <2>. QED  BY <2>3 DEF T
<1>. QED  BY <1>1, <1>2, <1>3, <1>4, <1>5, <1>6

-----------------------------------------------------------------------------
(* What an argument means, and what it is expanded to.                     *)

(* Consecutive numbers in ascending order.                                 *)
LEMMA AscendingInterval ==
    ASSUME NEW lo \in Int, NEW hi \in Int, lo <= hi
    PROVE  Ascending(lo..hi) = [k \in 1..(hi - lo + 1) |-> lo + k - 1]
<1>. DEFINE S == lo..hi
<1>1. Cardinality(S) = hi - lo + 1
  <2>1. Cardinality(lo..hi) = IF lo > hi THEN 0 ELSE hi - lo + 1
    BY FS_Interval
  <2>. QED  BY <2>1
<1>2. ASSUME NEW p \in S
      PROVE  Cardinality({q \in S : q < p}) = p - lo
  <2>1. {q \in S : q < p} = lo..(p - 1)
    OBVIOUS
  <2>2. p - 1 \in Int /\ p - 1 - lo + 1 = p - lo
    OBVIOUS
  <2>3. Cardinality(lo..(p - 1)) = IF lo > p - 1 THEN 0 ELSE p - 1 - lo + 1
    BY <2>2, FS_Interval
  <2>4. Cardinality(lo..(p - 1)) = p - lo
    BY <2>2, <2>3
  <2>. HIDE DEF S
  <2>. QED  BY <2>1, <2>4, Zenon
<1>3. ASSUME NEW k \in 1..(hi - lo + 1)
      PROVE  (CHOOSE p \in S : Cardinality({q \in S : q < p}) = k - 1) = lo + k - 1
  <2>1. lo + k - 1 \in S /\ lo + k - 1 - lo = k - 1
    OBVIOUS
  <2>2. Cardinality({q \in S : q < lo + k - 1}) = k - 1
    BY <1>2, <2>1
  <2>3. \A p \in S : Cardinality({q \in S : q < p}) = k - 1 => p = lo + k - 1
    BY <1>2
  <2>. DEFINE c == CHOOSE p \in S : Cardinality({q \in S : q < p}) = k - 1
  <2>4. c \in S /\ Cardinality({q \in S : q < c}) = k - 1
    <3>1. \E p \in S : Cardinality({q \in S : q < p}) = k - 1
      <4>. HIDE DEF S
      <4>. QED  BY <2>1, <2>2, Zenon
    <3>. HIDE DEF S
    <3>. QED  BY <3>1, Zenon
  <2>. HIDE DEF S, c
  <2>5. c = lo + k - 1
    BY <2>3, <2>4
  <2>. QED  BY <2>5 DEF c
<1>4. Ascending(S) = [k \in 1..(hi - lo + 1) |->
                        CHOOSE p \in S : Cardinality({q \in S : q < p}) = k - 1]
  BY <1>1 DEF Ascending
<1>. QED  BY <1>3, <1>4, Zenon

(* The addresses of a's family from number lo to number hi, as a set.      *)
Span(a, lo, hi) == {[a EXCEPT !.n = x] : x \in lo..hi}

LEMMA SpanInOrder ==
    ASSUME NEW a \in Address, NEW lo \in Int, NEW hi \in Int, lo <= hi
    PROVE  InOrder(Span(a, lo, hi)) = From(a, lo, hi)
<1>. DEFINE M == Span(a, lo, hi)
            numbers == Ascending({x.n : x \in M})
<1>1. a = [family |-> a.family, n |-> a.n]
  BY DEF Address
<1>2. \A x : [a EXCEPT !.n = x].n = x
  BY <1>1
<1>3. {x.n : x \in M} = lo..hi
  BY <1>2 DEF Span
<1>4. numbers = [k \in 1..(hi - lo + 1) |-> lo + k - 1]
  BY <1>3, AscendingInterval
<1>5. ASSUME NEW k \in 1..(hi - lo + 1)
      PROVE  (CHOOSE x \in M : x.n = numbers[k]) = [a EXCEPT !.n = lo + k - 1]
  <2>. DEFINE b == [a EXCEPT !.n = lo + k - 1]
  <2>1. numbers[k] = lo + k - 1 /\ lo + k - 1 \in lo..hi
    BY <1>4
  <2>2. b \in M /\ b.n = numbers[k]
    BY <1>2, <2>1 DEF Span
  <2>3. \A x \in M : x.n = numbers[k] => x = b
    BY <1>2, <2>1 DEF Span
  <2>. DEFINE c == CHOOSE x \in M : x.n = numbers[k]
  <2>. HIDE DEF b, M, numbers
  <2>4. c \in M /\ c.n = numbers[k]
    BY <2>2
  <2>5. c = b
    BY <2>3, <2>4, Zenon
  <2>. QED  BY <2>5, Zenon DEF b
<1>6. DOMAIN numbers = 1..(hi - lo + 1)
  BY <1>4
<1>7. InOrder(M) = [k \in 1..(hi - lo + 1) |-> CHOOSE x \in M : x.n = numbers[k]]
  BY <1>6 DEF InOrder
<1>8. From(a, lo, hi) = [k \in 1..(hi - lo + 1) |-> [a EXCEPT !.n = lo + k - 1]]
  BY DEF From
<1>9. InOrder(M) = From(a, lo, hi)
  <2>. HIDE DEF M, numbers
  <2>1. [k \in 1..(hi - lo + 1) |-> CHOOSE x \in M : x.n = numbers[k]]
           = [k \in 1..(hi - lo + 1) |-> [a EXCEPT !.n = lo + k - 1]]
    BY <1>5, Zenon
  <2>. QED  BY <1>7, <1>8, <2>1, Zenon
<1>. QED  BY <1>9

(* Products grow with their factors.                                       *)
LEMMA ProductGrows ==
    ASSUME NEW z \in Nat, NEW a \in Int, NEW b \in Int, a < b
    PROVE  z * a + z <= z * b
<1>. DEFINE d == b - a - 1
<1>1. d \in Nat /\ b = a + 1 + d
  OBVIOUS
<1>. HIDE DEF d
<1>2. z * d >= 0 /\ z * d \in Int
  BY <1>1
<1>3. z * (a + 1 + d) = z * a + z + z * d
  BY <1>1
<1>. QED  BY <1>1, <1>2, <1>3

(* Numbers to the base z agree in all digits but the last.                 *)
LEMMA SameDigits ==
    ASSUME NEW z \in Nat \ {0}, NEW p \in Int, NEW q \in Int, NEW r \in 0..(z - 1)
    PROVE  p = q <=> z * p + r \in (z * q)..(z * q + z - 1)
<1>1. z * p \in Int /\ z * q \in Int
  OBVIOUS
<1>2. p < q => z * p + z <= z * q
  BY ProductGrows
<1>3. q < p => z * q + z <= z * p
  BY ProductGrows
<1>. DEFINE zp == z * p
            zq == z * q
<1>4. zp \in Int /\ zq \in Int /\ (p < q => zp + z <= zq) /\ (q < p => zq + z <= zp) /\ (p = q => zp = zq)
  BY <1>1, <1>2, <1>3
<1>. HIDE DEF zp, zq
<1>5. p = q <=> zp + r \in zq..(zq + z - 1)
  BY <1>4
<1>. QED  BY <1>5 DEF zp, zq

(* Numbers that share all but their last digit to the base z.              *)
LEMMA BlockArithmetic ==
    ASSUME NEW z \in Nat \ {0}, NEW w \in Nat, NEW n \in Nat, n <= z * w - 1
    PROVE  /\ n % z \in 0..(z - 1)
           /\ n - (n % z) \in Nat
           /\ n - (n % z) + z - 1 <= z * w - 1
           /\ \A x \in Int : x \div z = n \div z <=> x \in (n - (n % z))..(n - (n % z) + z - 1)
           /\ \A x \in Int : x \div z = n \div z => x % z = x - (n - (n % z))
<1>. DEFINE div(x) == x \div z
            mod(x) == x % z
            q == div(n)
<1>1. \A x \in Int : div(x) \in Int /\ mod(x) \in 0..(z - 1) /\ x = z * div(x) + mod(x)
  OBVIOUS
<1>2. q \in Int /\ mod(n) \in 0..(z - 1) /\ n - mod(n) = z * q /\ z * q \in Int
  BY <1>1
<1>3. q >= 0
  OBVIOUS
<1>4. z * q >= 0
  BY <1>2, <1>3
<1>5. q < w
  <2>. HIDE DEF div, mod, q
  <2>1. w < q => z * w + z <= z * q
    BY <1>2, ProductGrows
  <2>. DEFINE zq == z * q
              zw == z * w
  <2>2. zq \in Int /\ zw \in Int /\ n - mod(n) = zq /\ n <= zw - 1 /\ (w < q => zw + z <= zq) /\ (w = q => zw = zq)
    BY <1>2, <2>1
  <2>. HIDE DEF zq, zw
  <2>. QED  BY <1>2, <2>2
<1>6. z * q + z <= z * w
  <2>. HIDE DEF div, mod, q
  <2>. QED  BY <1>2, <1>5, ProductGrows
<1>. HIDE DEF div, mod, q
<1>7. ASSUME NEW x \in Int
      PROVE  /\ div(x) = q <=> x \in (z * q)..(z * q + z - 1)
             /\ div(x) = q => mod(x) = x - z * q
  <2>1. div(x) = q <=> z * div(x) + mod(x) \in (z * q)..(z * q + z - 1)
    BY <1>1, <1>2, SameDigits
  <2>2. /\ div(x) = q <=> x \in (z * q)..(z * q + z - 1)
        /\ div(x) = q => z * div(x) = z * q
    BY <1>1, <2>1
  <2>3. z * div(x) \in Int /\ mod(x) \in Int /\ x = z * div(x) + mod(x)
    BY <1>1
  <2>4. div(x) = q => x = z * q + mod(x)
    BY <2>2, <2>3
  <2>5. div(x) = q => mod(x) = x - z * q
    BY <1>2, <2>3, <2>4
  <2>. QED  BY <2>2, <2>5
<1>8. /\ mod(n) \in 0..(z - 1)
      /\ n - mod(n) \in Nat
      /\ n - mod(n) + z - 1 <= z * w - 1
      /\ \A x \in Int : div(x) = q <=> x \in (n - mod(n))..(n - mod(n) + z - 1)
      /\ \A x \in Int : div(x) = q => mod(x) = x - (n - mod(n))
  BY <1>2, <1>4, <1>6, <1>7
<1>. QED  BY <1>8, Zenon DEF div, mod, q

(* The expansion of an argument lists what the argument means.             *)
Lists(arg, resolve) ==
    \E a \in Address : \E lo \in Int : \E hi \in Int :
        /\ lo <= hi
        /\ AddressesOf(arg, resolve) = Span(a, lo, hi)
        /\ Expansion(arg) = From(a, lo, hi)

LEMMA AddressParts ==
    ASSUME NEW a
    PROVE  a \in Address <=> /\ a = [family |-> a.family, n |-> a.n]
                             /\ a.family \in {4, 6}
                             /\ a.n \in 0..(2^Bits(a.family) - 1)
BY DEF Address

LEMMA SpanParts ==
    ASSUME NEW a \in Address, NEW lo \in Nat, NEW hi \in Int,
           hi <= 2^Bits(a.family) - 1
    PROVE  Span(a, lo, hi) = {x \in Address : x.family = a.family /\ x.n \in lo..hi}
<1>0. 2^Bits(a.family) \in Nat /\ a.family \in {4, 6}
  <2>1. Bits(a.family) \in Nat
    BY TargetListAssumption DEF Bits
  <2>. QED  BY <2>1, Powers, AddressParts
<1>. DEFINE top == 2^Bits(a.family) - 1
<1>1. top \in Int /\ hi <= top
  BY <1>0
<1>2. \A f : f = a.family => 2^Bits(f) - 1 = top
  OBVIOUS
<1>. HIDE DEF top
<1>3. \A y \in lo..hi : y \in 0..top
  BY <1>1
<1>4. a = [family |-> a.family, n |-> a.n]
  BY AddressParts
<1>5. ASSUME NEW x \in Address, x.family = a.family, x.n \in lo..hi
      PROVE  x \in Span(a, lo, hi)
  <2>1. x = [family |-> x.family, n |-> x.n]
    BY AddressParts
  <2>2. x = [a EXCEPT !.n = x.n]
    BY <1>4, <1>5, <2>1
  <2>. QED  BY <1>5, <2>2 DEF Span
<1>6. ASSUME NEW y \in lo..hi
      PROVE  /\ [a EXCEPT !.n = y] \in Address
             /\ [a EXCEPT !.n = y].family = a.family /\ [a EXCEPT !.n = y].n = y
  <2>. DEFINE x == [a EXCEPT !.n = y]
  <2>1. x = [family |-> a.family, n |-> y] /\ x.family = a.family /\ x.n = y
    BY <1>4
  <2>2. x.n \in 0..(2^Bits(x.family) - 1)
    <3>. HIDE DEF x
    <3>. QED  BY <1>2, <1>3, <2>1, Zenon
  <2>. HIDE DEF x
  <2>3. x \in Address
    BY <1>0, <2>1, <2>2, AddressParts
  <2>. QED  BY <2>1, <2>3 DEF x
<1>7. ASSUME NEW x \in Span(a, lo, hi)
      PROVE  x \in Address /\ x.family = a.family /\ x.n \in lo..hi
  <2>1. PICK y \in lo..hi : x = [a EXCEPT !.n = y]
    BY DEF Span
  <2>. QED  BY <1>6, <2>1, Zenon
<1>. QED  BY <1>5, <1>7

(* A block of addresses, with or without its ends.                         *)
LEMMA CidrLists ==
    ASSUME NEW arg, NEW resolve, arg.kind = "cidr", arg.addr \in Address,
           arg.prefix \in 0..Bits(arg.addr.family)
    PROVE  Lists(arg, resolve)
<1>. DEFINE a == arg.addr
            p == arg.prefix
            b == Bits(a.family)
            z == 2^(b - p)
            w == 2^p
            low == a.n - (a.n % z)
<1>1. b \in Nat /\ p \in Nat /\ b - p \in Nat /\ a.family \in {4, 6} /\ a \in Address
  BY TargetListAssumption, AddressParts DEF Bits
<1>2. z \in Nat \ {0} /\ w \in Nat \ {0} /\ 2^b = z * w
  <2>1. (b - p) + p = b
    BY <1>1
  <2>2. 2^((b - p) + p) = 2^(b - p) * 2^p
    BY <1>1, Powers
  <2>. QED  BY <1>1, <2>1, <2>2, Powers
<1>3. a.n \in Nat /\ a.n <= z * w - 1
  BY <1>1, <1>2, AddressParts
<1>4. /\ a.n % z \in 0..(z - 1) /\ low \in Nat /\ low + z - 1 <= z * w - 1
      /\ \A x \in Int : x \div z = a.n \div z <=> x \in low..(low + z - 1)
      /\ \A x \in Int : x \div z = a.n \div z => x % z = x - low
  <2>. HIDE DEF a, z, w
  <2>. QED  BY <1>2, <1>3, BlockArithmetic, Zenon
<1>5. low + z - 1 <= 2^b - 1
  BY <1>2, <1>4
<1>. DEFINE same == {x \in Address : x.family = a.family /\ x.n \div z = a.n \div z}
            cut == a.family = 4 /\ z > 2
            ends == IF cut THEN 1 ELSE 0
<1>6. \A x \in Address : x.n \in Int
  <2>1. \A x \in Address : x.n \in 0..(2^Bits(x.family) - 1)
    BY AddressParts
  <2>. QED  BY <2>1
<1>7. cut <=> (a.family = 4 /\ p < V4Bits - 1)
  <2>1. a.family = 4 => b = V4Bits
    BY DEF Bits
  <2>2. z > 2 <=> b - p > 1
    BY <1>1, Powers
  <2>. QED  BY <1>1, <2>1, <2>2
<1>8. Expansion(arg) = From(a, low + ends, low + z - 1 - ends)
  <2>1. Expansion(arg) = Hosts(a, p)
    BY DEF Expansion
  <2>. QED  BY <1>7, <2>1 DEF Hosts
<1>9. AddressesOf(arg, resolve) = IF cut THEN {x \in same : x.n % z \notin {0, z - 1}} ELSE same
  <2>1. AddressesOf(arg, resolve) = Block(a, p)
    BY DEF AddressesOf
  <2>. QED  BY <2>1 DEF Block
<1>10. AddressesOf(arg, resolve) = {x \in Address : x.family = a.family /\ x.n \in (low + ends)..(low + z - 1 - ends)}
  <2>. HIDE DEF a, b, p, z, w, low
  <2>1. ASSUME NEW x \in Address
        PROVE  x.n \div z = a.n \div z <=> x.n \in low..(low + z - 1)
    BY <1>4, <1>6
  <2>2. CASE cut
    <3>1. ASSUME NEW x \in Address
          PROVE  (x.n \div z = a.n \div z /\ x.n % z \notin {0, z - 1})
                     <=> x.n \in (low + 1)..(low + z - 1 - 1)
      <4>. DEFINE d == x.n \div z
                  r == x.n % z
                  e == a.n \div z
      <4>1. x.n \in Int /\ (d = e <=> x.n \in low..(low + z - 1)) /\ (d = e => r = x.n - low)
        BY <1>4, <1>6
      <4>2. z \in Nat \ {0} /\ low \in Nat
        BY <1>2, <1>4
      <4>. HIDE DEF d, r, e
      <4>3. (d = e /\ r # 0 /\ r # z - 1) <=> x.n \in (low + 1)..(low + z - 1 - 1)
        BY <4>1, <4>2
      <4>. QED  BY <4>3 DEF d, r, e
    <3>. QED  BY <1>9, <2>2, <3>1
  <2>3. CASE ~cut
    <3>1. low + ends = low /\ low + z - 1 - ends = low + z - 1
      <4>1. ends = 0
        BY <2>3
      <4>. HIDE DEF ends
      <4>. QED  BY <1>2, <1>4, <4>1
    <3>. QED  BY <1>9, <2>1, <2>3, <3>1
  <2>. QED  BY <2>2, <2>3
<1>11. /\ low + ends \in Nat /\ low + z - 1 - ends \in Int
       /\ low + ends <= low + z - 1 - ends
       /\ low + z - 1 - ends <= 2^b - 1
  <2>. DEFINE top == 2^b - 1
  <2>1. low + z - 1 <= top /\ top \in Int
    BY <1>1, <1>5, Powers
  <2>. HIDE DEF a, b, p, z, w, low, top
  <2>2. /\ low + ends \in Nat /\ low + z - 1 - ends \in Int
        /\ low + ends <= low + z - 1 - ends
        /\ low + z - 1 - ends <= top
    BY <1>2, <1>4, <2>1
  <2>. QED  BY <2>2 DEF top
<1>12. AddressesOf(arg, resolve) = Span(a, low + ends, low + z - 1 - ends)
  <2>. HIDE DEF a, p, z, w, low, ends
  <2>. QED  BY <1>1, <1>10, <1>11, SpanParts
<1>. HIDE DEF low, ends, z
<1>. QED  BY <1>1, <1>8, <1>11, <1>12 DEF Lists

(* What an argument carries depends on its kind.                           *)
LEMMA TargetKinds ==
    ASSUME NEW arg, IsTarget(arg)
    PROVE  /\ \/ arg \in {Empty, BadNet}
              \/ arg.kind \in {"cidr", "range", "literal", "name"}
           /\ arg.kind = "cidr" => arg.addr \in Address /\ arg.prefix \in 0..Bits(arg.addr.family)
           /\ arg.kind = "range" => /\ arg.addr \in Address /\ arg.addr.family = 4
                                   /\ arg.hi \in NotAnOctet..(Octet - 1)
           /\ arg.kind = "literal" => arg.addr \in Address
           /\ arg.kind = "name" => arg.answers \in Seq(Address)
<1>1. Empty.kind = "blank" /\ BadNet.kind = "bad cidr"
  BY DEF Empty, BadNet
<1>2. arg \in {Empty, BadNet} => arg.kind \in {"blank", "bad cidr"}
  BY <1>1
<1>. QED  BY <1>2, Zenon DEF IsTarget

(* The addresses from an address to the one with a given last octet.       *)
LEMMA RangeLists ==
    ASSUME NEW arg, NEW resolve, arg.kind = "range", IsTarget(arg), ~Unusable(arg, resolve)
    PROVE  Lists(arg, resolve)
<1>. DEFINE a == arg.addr
            hi == arg.hi
            z == Octet
            w == 2^(V4Bits - OctetBits)
            low == a.n - (a.n % z)
            last == a.n % z
<1>1. /\ a \in Address /\ a.family = 4
      /\ hi \in NotAnOctet..(Octet - 1)
      /\ hi # NotAnOctet /\ ~(hi < last)
  <2>1. a \in Address /\ a.family = 4 /\ hi \in NotAnOctet..(Octet - 1)
    BY TargetKinds
  <2>2. ~(hi = NotAnOctet \/ hi < LastOctet(a))
    BY Zenon DEF Unusable
  <2>. QED  BY <2>1, <2>2 DEF LastOctet
<1>2. V4Bits \in Nat /\ OctetBits \in Nat /\ V4Bits - OctetBits \in Nat
      /\ (V4Bits - OctetBits) + OctetBits = V4Bits
  BY TargetListAssumption
<1>3. z \in Nat \ {0} /\ w \in Nat \ {0} /\ 2^V4Bits = z * w
  <2>1. 2^((V4Bits - OctetBits) + OctetBits) = 2^(V4Bits - OctetBits) * 2^OctetBits
    BY <1>2, Powers
  <2>. QED  BY <1>2, <2>1, Powers DEF Octet
<1>4. a.n \in Nat /\ a.n <= z * w - 1
  <2>1. Bits(a.family) = V4Bits
    BY <1>1 DEF Bits
  <2>. QED  BY <1>1, <1>3, <2>1, AddressParts
<1>5. /\ last \in 0..(z - 1) /\ low \in Nat /\ low + z - 1 <= z * w - 1
      /\ \A x \in Int : x \div z = a.n \div z <=> x \in low..(low + z - 1)
      /\ \A x \in Int : x \div z = a.n \div z => x % z = x - low
  <2>. HIDE DEF a, z, w
  <2>. QED  BY <1>3, <1>4, BlockArithmetic, Zenon
<1>6. hi \in Nat /\ last <= hi /\ hi <= z - 1
  <2>. HIDE DEF a, last
  <2>. QED  BY <1>1, <1>3, <1>5 DEF NotAnOctet
<1>7. \A x \in Address : x.n \in Int
  <2>1. \A x \in Address : x.n \in 0..(2^Bits(x.family) - 1)
    BY AddressParts
  <2>. QED  BY <2>1
<1>8. Expansion(arg) = From(a, a.n, a.n - last + hi)
  BY DEF Expansion, RangeFrom, LastOctet
<1>9. AddressesOf(arg, resolve) =
          {x \in Address : x.family = 4 /\ x.n \div z = a.n \div z
                           /\ last <= x.n % z /\ x.n % z <= hi}
  BY DEF AddressesOf, LastOctet
<1>10. AddressesOf(arg, resolve)
          = {x \in Address : x.family = a.family /\ x.n \in (a.n)..(a.n - last + hi)}
  <2>1. ASSUME NEW x \in Address
        PROVE  (x.n \div z = a.n \div z /\ last <= x.n % z /\ x.n % z <= hi)
                   <=> x.n \in (a.n)..(a.n - last + hi)
    <3>. DEFINE d == x.n \div z
                r == x.n % z
                e == a.n \div z
                n == a.n
    <3>1. x.n \in Int /\ (d = e <=> x.n \in low..(low + z - 1)) /\ (d = e => r = x.n - low)
      <4>. HIDE DEF z, low, a
      <4>. QED  BY <1>5, <1>7
    <3>2. /\ z \in Nat \ {0} /\ low \in Nat /\ last \in 0..(z - 1) /\ low = n - last /\ n \in Nat
          /\ hi \in Nat /\ last <= hi /\ hi <= z - 1
      BY <1>3, <1>4, <1>5, <1>6
    <3>. HIDE DEF d, r, e, z, low, last, n, hi
    <3>3. (d = e /\ last <= r /\ r <= hi) <=> x.n \in n..(n - last + hi)
      BY <3>1, <3>2
    <3>. QED  BY <3>3 DEF d, r, e, n
  <2>. HIDE DEF a, z, low, last, hi
  <2>. QED  BY <1>1, <1>9, <2>1
<1>11. /\ a.n - last + hi \in Int /\ a.n <= a.n - last + hi
       /\ a.n - last + hi <= 2^Bits(a.family) - 1
  <2>. DEFINE n == a.n
              zw == z * w
  <2>1. Bits(a.family) = V4Bits /\ n \in Nat /\ zw \in Int /\ low = n - last /\ last \in Int
    BY <1>1, <1>3, <1>4, <1>5 DEF Bits
  <2>2. 2^Bits(a.family) = zw
    BY <1>3, <2>1
  <2>3. low + z - 1 <= zw - 1 /\ z \in Nat
    BY <1>3, <1>5
  <2>. HIDE DEF z, low, last, n, hi, zw
  <2>4. n - last + hi \in Int /\ n <= n - last + hi /\ n - last + hi <= zw - 1
    BY <1>6, <2>1, <2>3
  <2>. QED  BY <2>2, <2>4 DEF n
<1>12. AddressesOf(arg, resolve) = Span(a, a.n, a.n - last + hi)
  <2>. HIDE DEF a, z, w, low, last, hi
  <2>. QED  BY <1>1, <1>4, <1>10, <1>11, SpanParts
<1>13. a.n \in Int
  BY <1>4
<1>. HIDE DEF z, last, hi
<1>. QED  BY <1>1, <1>8, <1>11, <1>12, <1>13 DEF Lists

(* A single address is the span from itself to itself.                     *)
LEMMA OneAddress ==
    ASSUME NEW a \in Address
    PROVE  Span(a, a.n, a.n) = {a} /\ From(a, a.n, a.n) = <<a>> /\ a.n \in Int
<1>1. a = [family |-> a.family, n |-> a.n] /\ a.n \in Int
  <2>1. a.n \in 0..(2^Bits(a.family) - 1)
    BY AddressParts
  <2>. QED  BY <2>1, AddressParts
<1>2. [a EXCEPT !.n = a.n] = a
  BY <1>1
<1>3. (a.n)..(a.n) = {a.n}
  BY <1>1
<1>4. Span(a, a.n, a.n) = {a}
  BY <1>2, <1>3, Zenon DEF Span
<1>5. From(a, a.n, a.n) = [i \in 1..1 |-> [a EXCEPT !.n = a.n + i - 1]]
  BY <1>1 DEF From
<1>6. From(a, a.n, a.n) = [i \in 1..1 |-> a]
  <2>1. \A i \in 1..1 : a.n + i - 1 = a.n
    BY <1>1
  <2>2. \A i \in 1..1 : [a EXCEPT !.n = a.n + i - 1] = a
    BY <1>2, <2>1, Zenon
  <2>. QED  BY <1>5, <2>2, Zenon
<1>. QED  BY <1>1, <1>4, <1>6

LEMMA OneAddressLists ==
    ASSUME NEW arg, NEW resolve, NEW a \in Address,
           AddressesOf(arg, resolve) = {a}, Expansion(arg) = <<a>>
    PROVE  Lists(arg, resolve)
<1>1. a.n <= a.n
  BY OneAddress
<1>. QED  BY <1>1, OneAddress DEF Lists

LEMMA LiteralLists ==
    ASSUME NEW arg, NEW resolve, arg.kind = "literal", arg.addr \in Address
    PROVE  Lists(arg, resolve)
<1>1. AddressesOf(arg, resolve) = {arg.addr} /\ Expansion(arg) = <<arg.addr>>
  BY DEF AddressesOf, Expansion
<1>. QED  BY <1>1, OneAddressLists

(* The first IPv4 address of an answer, or else its first.                 *)
LEMMA NameLists ==
    ASSUME NEW arg, NEW resolve \in BOOLEAN, arg.kind = "name", arg.answers \in Seq(Address),
           ~Unusable(arg, resolve)
    PROVE  Lists(arg, resolve)
<1>. DEFINE s == arg.answers
            I == {i \in 1..Len(s) : s[i].family = 4}
<1>1. resolve /\ s # <<>> /\ s \in Seq(Address)
  BY DEF Unusable, LookupFails
<1>2. Len(s) \in Nat /\ Len(s) >= 1 /\ DOMAIN s = 1..Len(s) /\ \A i \in 1..Len(s) : s[i] \in Address
  BY <1>1, LenProperties, EmptySeq, ElementOfSeq
<1>3. AddressesOf(arg, resolve) = IF FirstOf(s, 4) # {} THEN FirstOf(s, 4) ELSE FirstOf(s, 6)
  BY <1>1 DEF AddressesOf
<1>4. Expansion(arg) = <<Chosen(s)>>
  BY DEF Expansion
<1>5. \A i \in 1..Len(s) : s[i].family \in {4, 6}
  BY <1>2, AddressParts
<1>6. CASE I # {}
  <2>1. I \in SUBSET Nat
    OBVIOUS
  <2>2. \E i \in I : \A j \in I : i <= j
    <3>. HIDE DEF I
    <3>. QED  BY <1>6, <2>1, LeastNumber
  <2>3. Min(I) \in I /\ \A j \in I : Min(I) <= j
    <3>. HIDE DEF I
    <3>. QED  BY <2>2 DEF Min
  <2>. DEFINE m == Min(I)
  <2>4. m \in 1..Len(s) /\ s[m].family = 4 /\ m # 0
    BY <2>3
  <2>5. Chosen(s) = s[m]
    BY <1>6, <2>4 DEF Chosen, SelectInSeq
  <2>6. FirstOf(s, 4) = {s[m]}
    <3>. HIDE DEF m
    <3>1. \A j \in 1..(m - 1) : s[j].family # 4
      <4>1. \A j \in 1..(m - 1) : j \in 1..Len(s) /\ ~(m <= j)
        BY <1>2, <2>4
      <4>. QED  BY <2>3, <4>1 DEF m
    <3>2. s[m] \in FirstOf(s, 4)
      BY <1>2, <2>4, <3>1 DEF FirstOf, Range
    <3>3. ASSUME NEW i \in 1..Len(s), s[i].family = 4, \A j \in 1..(i - 1) : s[j].family # 4
          PROVE  i = m
      <4>1. m <= i
        BY <2>3, <3>3 DEF m
      <4>2. ~(m \in 1..(i - 1))
        BY <2>4, <3>3
      <4>. QED  BY <1>2, <2>4, <4>1, <4>2
    <3>4. ASSUME NEW x \in FirstOf(s, 4)
          PROVE  x = s[m]
      <4>1. PICK i \in 1..Len(s) : /\ s[i] = x /\ x.family = 4
                                    /\ \A j \in 1..(i - 1) : s[j].family # 4
        BY <1>2 DEF FirstOf
      <4>2. i = m
        BY <3>3, <4>1
      <4>. QED  BY <4>1, <4>2
    <3>. QED  BY <3>2, <3>4
  <2>7. s[m] \in Address /\ AddressesOf(arg, resolve) = {s[m]} /\ Expansion(arg) = <<s[m]>>
    <3>. HIDE DEF m
    <3>. QED  BY <1>2, <1>3, <1>4, <2>4, <2>5, <2>6
  <2>. HIDE DEF m
  <2>. QED  BY <2>7, OneAddressLists
<1>7. CASE I = {}
  <2>1. Chosen(s) = s[1]
    BY <1>7 DEF Chosen, SelectInSeq
  <2>2. \A i \in 1..Len(s) : s[i].family = 6
    BY <1>5, <1>7
  <2>3. FirstOf(s, 4) = {}
    BY <1>2, <2>2 DEF FirstOf
  <2>4. FirstOf(s, 6) = {s[1]}
    <3>1. s[1] \in FirstOf(s, 6)
      BY <1>2, <2>2 DEF FirstOf, Range
    <3>2. ASSUME NEW i \in 1..Len(s), \A j \in 1..(i - 1) : s[j].family # 6
          PROVE  i = 1
      <4>1. i # 1 => 1 \in 1..(i - 1)
        OBVIOUS
      <4>. QED  BY <1>2, <2>2, <3>2, <4>1
    <3>3. ASSUME NEW x \in FirstOf(s, 6)
          PROVE  x = s[1]
      <4>1. PICK i \in 1..Len(s) : s[i] = x /\ \A j \in 1..(i - 1) : s[j].family # 6
        BY <1>2 DEF FirstOf
      <4>2. i = 1
        BY <3>2, <4>1
      <4>. QED  BY <4>1, <4>2
    <3>. QED  BY <3>1, <3>3
  <2>5. s[1] \in Address /\ AddressesOf(arg, resolve) = {s[1]} /\ Expansion(arg) = <<s[1]>>
    BY <1>2, <1>3, <1>4, <2>1, <2>3, <2>4
  <2>. QED  BY <2>5, OneAddressLists
<1>. QED  BY <1>6, <1>7

(* Of any argument that can be used: the expansion lists what it means,    *)
(* in ascending order, and not nothing.                                    *)
LEMMA ExpansionLists ==
    ASSUME NEW arg, NEW resolve \in BOOLEAN, IsTarget(arg), ~Unusable(arg, resolve), arg # Empty
    PROVE  /\ AddressesOf(arg, resolve) # {}
           /\ InOrder(AddressesOf(arg, resolve)) = Expansion(arg)
           /\ Expansion(arg) # <<>>
           /\ Lists(arg, resolve)
<1>1. arg.kind \in {"cidr", "range", "literal", "name"}
  <2>1. BadNet.kind = "bad cidr"
    BY DEF BadNet
  <2>2. arg.kind # "bad cidr"
    BY DEF Unusable
  <2>. QED  BY <2>1, <2>2, TargetKinds
<1>2. Lists(arg, resolve)
  BY <1>1, TargetKinds, CidrLists, RangeLists, LiteralLists, NameLists
<1>3. PICK a \in Address, lo \in Int, hi \in Int :
          /\ lo <= hi
          /\ AddressesOf(arg, resolve) = Span(a, lo, hi)
          /\ Expansion(arg) = From(a, lo, hi)
  BY <1>2 DEF Lists
<1>4. InOrder(AddressesOf(arg, resolve)) = Expansion(arg)
  BY <1>3, SpanInOrder
<1>5. AddressesOf(arg, resolve) # {}
  <2>1. lo \in lo..hi
    BY <1>3
  <2>2. [a EXCEPT !.n = lo] \in Span(a, lo, hi)
    BY <2>1 DEF Span
  <2>. QED  BY <1>3, <2>2
<1>6. Expansion(arg) # <<>>
  <2>1. DOMAIN Expansion(arg) = 1..(hi - lo + 1)
    BY <1>3 DEF From
  <2>2. 1 \in 1..(hi - lo + 1)
    BY <1>3
  <2>3. DOMAIN <<>> = {}
    OBVIOUS
  <2>. QED  BY <2>1, <2>2, <2>3
<1>. QED  BY <1>2, <1>4, <1>5, <1>6

(* Nothing but addresses is meant by an argument.                          *)
LEMMA AddressesAreAddresses ==
    ASSUME NEW arg, NEW resolve, IsTarget(arg)
    PROVE  AddressesOf(arg, resolve) \subseteq Address
<1>1. CASE arg.kind = "cidr"
  <2>1. AddressesOf(arg, resolve) = Block(arg.addr, arg.prefix)
    BY <1>1 DEF AddressesOf
  <2>. QED  BY <2>1 DEF Block
<1>2. CASE arg.kind = "range"
  BY <1>2 DEF AddressesOf
<1>3. CASE arg.kind = "literal"
  BY <1>3, TargetKinds DEF AddressesOf
<1>4. CASE arg.kind = "name"
  <2>1. Range(arg.answers) \subseteq Address
    BY <1>4, TargetKinds, SeqIsList
  <2>2. FirstOf(arg.answers, 4) \subseteq Address /\ FirstOf(arg.answers, 6) \subseteq Address
    BY <2>1 DEF FirstOf
  <2>. QED  BY <1>4, <2>2 DEF AddressesOf
<1>5. CASE arg.kind \notin {"cidr", "range", "literal", "name"}
  BY <1>5 DEF AddressesOf
<1>. QED  BY <1>1, <1>2, <1>3, <1>4, <1>5

(* A blank argument means nothing and is expanded to nothing.              *)
LEMMA BlankLists ==
    ASSUME NEW resolve
    PROVE  /\ AddressesOf(Empty, resolve) = {} /\ ~Unusable(Empty, resolve)
           /\ Expansion(Empty) = <<>> /\ InOrder({}) = <<>>
<1>1. Empty.kind = "blank"
  BY DEF Empty
<1>2. AddressesOf(Empty, resolve) = {} /\ ~Unusable(Empty, resolve)
  BY <1>1 DEF AddressesOf, Unusable
<1>3. Expansion(Empty) = <<>>
  BY <1>1 DEF Expansion
<1>4. InOrder({}) = <<>>
  <2>1. {x.n : x \in {}} = {}
    OBVIOUS
  <2>2. Cardinality({}) = 0
    BY FS_EmptySet
  <2>3. DOMAIN Ascending({}) = 1..0
    BY <2>2 DEF Ascending
  <2>4. InOrder({}) = [k \in {} |-> CHOOSE x \in {} : x.n = Ascending({})[k]]
    <3>1. 1..0 = {}
      OBVIOUS
    <3>. QED  BY <2>1, <2>3, <3>1 DEF InOrder
  <2>. QED  BY <2>4
<1>. QED  BY <1>2, <1>3, <1>4

(* An argument that cannot be used means nothing.                          *)
LEMMA UnusableMeansNothing ==
    ASSUME NEW arg, NEW resolve \in BOOLEAN, IsTarget(arg), Unusable(arg, resolve)
    PROVE  arg # Empty /\ AddressesOf(arg, resolve) = {}
<1>1. arg # Empty
  BY BlankLists
<1>2. CASE arg.kind = "bad cidr"
  BY <1>1, <1>2, Zenon DEF AddressesOf
<1>3. CASE arg.kind = "range" /\ (arg.hi = NotAnOctet \/ arg.hi < LastOctet(arg.addr))
  <2>. DEFINE last == LastOctet(arg.addr)
  <2>1. /\ arg.addr \in Address /\ arg.hi \in NotAnOctet..(Octet - 1)
    BY <1>3, TargetKinds
  <2>2. Octet \in Nat \ {0}
    BY TargetListAssumption, Powers DEF Octet
  <2>3. arg.addr.n \in Int
    BY <2>1, OneAddress
  <2>4. last \in 0..(Octet - 1)
    BY <2>2, <2>3 DEF LastOctet
  <2>5. arg.hi < last
    BY <1>3, <2>1, <2>2, <2>4 DEF NotAnOctet
  <2>6. \A r \in Int : ~(last <= r /\ r <= arg.hi)
    <3>. HIDE DEF last
    <3>. QED  BY <2>1, <2>2, <2>4, <2>5 DEF NotAnOctet
  <2>7. \A x \in Address : x.n % Octet \in Int
    BY <2>2, OneAddress
  <2>8. AddressesOf(arg, resolve) =
            {x \in Address : /\ x.family = 4
                             /\ x.n \div Octet = arg.addr.n \div Octet
                             /\ last <= x.n % Octet /\ x.n % Octet <= arg.hi}
    BY <1>3 DEF AddressesOf
  <2>. HIDE DEF last
  <2>. QED  BY <1>1, <2>6, <2>7, <2>8
<1>4. CASE arg.kind = "name" /\ ~resolve
  BY <1>1, <1>4 DEF AddressesOf
<1>5. CASE arg.kind = "name" /\ arg.answers = LookupFails
  <2>1. FirstOf(<<>>, 4) = {} /\ FirstOf(<<>>, 6) = {}
    BY DEF FirstOf, Range
  <2>2. AddressesOf(arg, resolve) \in {{}, IF FirstOf(<<>>, 4) # {} THEN FirstOf(<<>>, 4) ELSE FirstOf(<<>>, 6)}
    BY <1>5 DEF AddressesOf, LookupFails
  <2>. QED  BY <1>1, <2>1, <2>2
<1>. QED  BY <1>2, <1>3, <1>4, <1>5 DEF Unusable

-----------------------------------------------------------------------------
(* The command line.                                                       *)

(* What an argument is rewritten to are arguments again.                   *)
LEMMA RewriteKeepsArguments ==
    ASSUME NEW arg, IsArgument(arg), arg # CutChar
    PROVE  /\ IsList(RewriteOne(arg))
           /\ \A a \in Range(RewriteOne(arg)) : IsArgument(a)
<1>1. IsArgument(Long(arg.flag, NoText))
  BY DEF IsArgument, Long
<1>2. CASE IsCompound(arg) /\ arg.text = NoText
  <2>1. RewriteOne(arg) = <<Long(arg.flag, NoText)>>
    BY <1>2 DEF RewriteOne
  <2>2. RewriteOne(arg) \in Seq({Long(arg.flag, NoText)})
    BY <2>1
  <2>3. IsList(RewriteOne(arg)) /\ Range(RewriteOne(arg)) \subseteq {Long(arg.flag, NoText)}
    BY <2>2, SeqIsList
  <2>. QED  BY <1>1, <2>3
<1>3. CASE IsCompound(arg) /\ arg.text # NoText
  <2>1. RewriteOne(arg) = <<Long(arg.flag, NoText), Word(arg.text)>>
    BY <1>3 DEF RewriteOne
  <2>2. IsArgument(Word(arg.text))
    BY <1>3 DEF IsArgument, Word
  <2>3. RewriteOne(arg) \in Seq({Long(arg.flag, NoText), Word(arg.text)})
    BY <2>1
  <2>. QED  BY <1>1, <2>2, <2>3, SeqIsList
<1>4. CASE ~IsCompound(arg)
  <2>1. RewriteOne(arg) = <<arg>>
    BY <1>4 DEF RewriteOne
  <2>2. RewriteOne(arg) \in Seq({arg})
    BY <2>1
  <2>. QED  BY <2>2, SeqIsList
<1>. QED  BY <1>2, <1>3, <1>4

(* The value of an option is a text, and of a numeric one a number.        *)
LEMMA GivenKeepsValues ==
    ASSUME CliInv, NEW flag, NEW text, Given(flag, text),
           flag \in Valued => IsText(text),
           flag \in Numeric => text.number \in Nat
    PROVE  /\ \A f \in DOMAIN options' \cap Valued : IsText(options'[f])
           /\ \A f \in DOMAIN options' \cap Numeric : options'[f].number \in Nat
BY DEF CliInv, Given

LEMMA CliStepKeepsInv ==
    ASSUME CliInv, CliStep
    PROVE  CliInv'
<1>1. /\ IsList(argv) /\ \A arg \in Range(argv) : IsArgument(arg)
      /\ IsList(rewritten) /\ \A arg \in Range(rewritten) : IsArgument(arg)
      /\ read \in Nat
  BY DEF CliInv
<1>2. ASSUME ClapHasMore
      PROVE  IsArgument(ClapAt)
  <2>1. read + 1 \in 1..Len(rewritten)
    BY <1>1, <1>2, ListDomain DEF ClapHasMore
  <2>. QED  BY <1>1, <2>1, ListDomain DEF ClapAt
<1>3. CASE Rewrite
  <2>1. read + 1 \in 1..Len(argv) /\ argv[read + 1] # CutChar
    BY <1>1, <1>3, ListDomain DEF Rewrite
  <2>2. IsArgument(argv[read + 1])
    BY <1>1, <2>1, ListDomain
  <2>3. /\ IsList(rewritten') /\ \A arg \in Range(rewritten') : IsArgument(arg)
    BY <1>1, <1>3, <2>1, <2>2, RewriteKeepsArguments, RangeConcat DEF Rewrite
  <2>. QED  BY <1>1, <1>3, <2>3 DEF CliInv, Rewrite
<1>4. CASE RewritePanics \/ AllRewritten \/ Refuses \/ AllTaken
  BY <1>4 DEF CliInv, RewritePanics, AllRewritten, Refuses, AllTaken
<1>5. CASE TakesPositional
  <2>1. ClapAt # CutChar /\ IsArgument(ClapAt) /\ ClapAt.form = "word"
    BY <1>2, <1>5 DEF TakesPositional, CutChar
  <2>2. IsText(ClapAt.text)
    BY <2>1 DEF IsArgument
  <2>3. targets' = Append(targets, ClapAt.text) /\ UNCHANGED <<argv, rewritten, options>>
        /\ read' \in Nat
    BY <1>1, <1>5 DEF TakesPositional
  <2>4. IsList(targets') /\ \A text \in Range(targets') : IsText(text)
    <3>1. IsList(targets) /\ \A text \in Range(targets) : IsText(text)
      BY DEF CliInv
    <3>. QED  BY <2>2, <2>3, <3>1, RangeAppend
  <2>. QED  BY <1>1, <2>3, <2>4 DEF CliInv
<1>6. CASE TakesSwitch
  <2>1. ClapAt.flag \notin Valued
    BY <1>6 DEF TakesSwitch, IsSwitch, IsNewFlag, Switches, Valued, Numeric
  <2>2. ClapAt.flag \notin Numeric
    BY <2>1 DEF Valued
  <2>3. Given(ClapAt.flag, NoText) /\ read' \in Nat /\ UNCHANGED <<argv, rewritten, targets>>
    BY <1>1, <1>6 DEF TakesSwitch
  <2>. QED  BY <1>1, <2>1, <2>2, <2>3, GivenKeepsValues DEF CliInv
<1>7. CASE TakesAttached
  <2>1. ClapAt.text # NoText /\ ClapAt # CutChar /\ Converts(ClapAt.flag, ClapAt.text)
    BY <1>7 DEF TakesAttached, AttachedValue, IsNewFlag, CutChar
  <2>2. IsText(ClapAt.text)
    BY <1>2, <1>7, <2>1 DEF TakesAttached, IsArgument
  <2>3. ClapAt.flag \in Numeric => ClapAt.text.number \in Nat
    BY <2>1, <2>2 DEF Converts, IsText
  <2>4. Given(ClapAt.flag, ClapAt.text) /\ read' \in Nat /\ UNCHANGED <<argv, rewritten, targets>>
    BY <1>1, <1>7 DEF TakesAttached
  <2>. QED  BY <1>1, <2>2, <2>3, <2>4, GivenKeepsValues DEF CliInv
<1>8. CASE TakesNext
  <2>. DEFINE next == rewritten[read + 2]
  <2>1. /\ read + 2 \in 1..Len(rewritten)
        /\ next.form = "word" /\ Converts(ClapAt.flag, next.text)
    BY <1>1, <1>8, ListDomain DEF TakesNext, NextValue
  <2>2. IsArgument(next) /\ next # CutChar
    BY <1>1, <2>1, ListDomain DEF CutChar
  <2>3. IsText(next.text)
    BY <2>1, <2>2 DEF IsArgument
  <2>4. ClapAt.flag \in Numeric => next.text.number \in Nat
    BY <2>1, <2>3 DEF Converts, IsText
  <2>5. Given(ClapAt.flag, next.text) /\ read' \in Nat /\ UNCHANGED <<argv, rewritten, targets>>
    BY <1>1, <1>8 DEF TakesNext
  <2>. QED  BY <1>1, <2>3, <2>4, <2>5, GivenKeepsValues DEF CliInv
<1>. QED  BY <1>3, <1>4, <1>5, <1>6, <1>7, <1>8 DEF CliStep

(* What is rewritten and parsed was typed.                                 *)
LEMMA RewriteKeepsTexts ==
    ASSUME NEW arg, arg # CutChar, NEW S, arg.text \in S, NoText \in S
    PROVE  \A a \in Range(RewriteOne(arg)) : a # CutChar /\ a.text \in S
<1>. DEFINE flag == Long(arg.flag, NoText)
            word == Word(arg.text)
<1>1. /\ flag # CutChar /\ flag.text = NoText
      /\ word # CutChar /\ word.text = arg.text
  <2>1. flag.form = "long" /\ word.form = "word" /\ CutChar.form = "cut"
    BY DEF Long, Word, CutChar
  <2>2. flag.text = NoText /\ word.text = arg.text
    BY DEF Long, Word
  <2>. HIDE DEF flag, word
  <2>3. flag # CutChar /\ word # CutChar
    BY <2>1
  <2>. QED  BY <2>2, <2>3
<1>. HIDE DEF flag, word
<1>2. CASE IsCompound(arg) /\ arg.text = NoText
  <2>1. RewriteOne(arg) = <<flag>>
    BY <1>2 DEF RewriteOne, flag
  <2>. QED  BY <1>1, <2>1 DEF Range
<1>3. CASE IsCompound(arg) /\ arg.text # NoText
  <2>1. RewriteOne(arg) = <<flag, word>>
    BY <1>3 DEF RewriteOne, flag, word
  <2>. QED  BY <1>1, <2>1 DEF Range
<1>4. CASE ~IsCompound(arg)
  <2>1. RewriteOne(arg) = <<arg>>
    BY <1>4 DEF RewriteOne
  <2>. QED  BY <2>1 DEF Range
<1>. QED  BY <1>2, <1>3, <1>4

LEMMA GivenKeepsTypes ==
    ASSUME NEW flag \in Switches \cup Valued, NEW text \in TypedTexts, Given(flag, text),
           DOMAIN options \subseteq Switches \cup Valued, Range(options) \subseteq TypedTexts
    PROVE  DOMAIN options' \subseteq Switches \cup Valued /\ Range(options') \subseteq TypedTexts
<1>1. options' = [f \in DOMAIN options \cup {flag} |-> IF f = flag THEN text ELSE options[f]]
  BY DEF Given
<1>2. \A f \in DOMAIN options' : options'[f] \in TypedTexts
  BY <1>1 DEF Range
<1>. QED  BY <1>1, <1>2 DEF Range

LEMMA CliStepKeepsTypes ==
    ASSUME CliInv, CliTyped, CliStep
    PROVE  CliTyped'
<1>1. /\ IsList(argv) /\ IsList(rewritten) /\ IsList(targets) /\ read \in Nat
      /\ Len(argv) \in Nat /\ Len(rewritten) \in Nat
  BY ListDomain DEF CliInv
<1>2. /\ cliPc \in {"rewrite", "clap", "parsed", "usage", "panicked"}
      /\ DOMAIN options \subseteq Switches \cup Valued
      /\ Range(options) \subseteq TypedTexts /\ Range(targets) \subseteq TypedTexts
      /\ read <= IF cliPc \in {"rewrite", "panicked"} THEN Len(argv) ELSE Len(rewritten)
      /\ \A arg \in Range(rewritten) : arg # CutChar /\ arg.text \in TypedTexts
      /\ NoText \in TypedTexts
  BY DEF CliTyped, CliTypeOK, TypedTexts
<1>3. argv' = argv /\ TypedTexts' = TypedTexts
  <2>1. argv' = argv
    BY DEF CliStep, Rewrite, RewritePanics, AllRewritten, TakesPositional, TakesSwitch,
           TakesAttached, TakesNext, Refuses, AllTaken
  <2>. QED  BY <2>1 DEF TypedTexts
<1>4. ASSUME /\ cliPc' \in {"rewrite", "clap", "parsed", "usage", "panicked"}
             /\ DOMAIN options' \subseteq Switches \cup Valued
             /\ Range(options') \subseteq TypedTexts /\ Range(targets') \subseteq TypedTexts
             /\ read' \in Nat /\ Len(rewritten') \in Nat
             /\ read' <= IF cliPc' \in {"rewrite", "panicked"} THEN Len(argv) ELSE Len(rewritten')
             /\ \A arg \in Range(rewritten') : arg # CutChar /\ arg.text \in TypedTexts
      PROVE  CliTyped'
  <2>1. read' \in 0..Max({Len(argv'), Len(rewritten')})
    BY <1>1, <1>3, <1>4, MaxOfTwo
  <2>. QED  BY <1>3, <1>4, <2>1 DEF CliTyped, CliTypeOK
<1>5. ASSUME ClapHasMore
      PROVE  /\ read + 1 \in 1..Len(rewritten) /\ cliPc = "clap"
             /\ ClapAt.text \in TypedTexts
  <2>1. read + 1 \in 1..Len(rewritten)
    BY <1>1, <1>5 DEF ClapHasMore
  <2>2. ClapAt \in Range(rewritten)
    BY <1>1, <2>1, ListDomain DEF ClapAt
  <2>. QED  BY <1>2, <1>5, <2>1, <2>2 DEF ClapHasMore
<1>6. CASE Rewrite
  <2>1. /\ cliPc = "rewrite" /\ read + 1 \in 1..Len(argv) /\ argv[read + 1] # CutChar
        /\ UNCHANGED <<cliPc, options, targets>> /\ read' = read + 1
        /\ rewritten' = rewritten \o RewriteOne(argv[read + 1])
    BY <1>1, <1>6 DEF Rewrite
  <2>2. argv[read + 1].text \in TypedTexts
    BY <1>1, <2>1, ListDomain DEF TypedTexts
  <2>3. IsList(RewriteOne(argv[read + 1]))
    <3>1. IsArgument(argv[read + 1])
      BY <1>1, <2>1, ListDomain DEF CliInv
    <3>. QED  BY <2>1, <3>1, RewriteKeepsArguments
  <2>4. IsList(rewritten') /\ Range(rewritten') = Range(rewritten) \cup Range(RewriteOne(argv[read + 1]))
    BY <1>1, <2>1, <2>3, RangeConcat
  <2>5. \A arg \in Range(rewritten') : arg # CutChar /\ arg.text \in TypedTexts
    BY <1>2, <2>1, <2>2, <2>4, RewriteKeepsTexts
  <2>6. Len(rewritten') \in Nat
    BY <2>4, ListDomain
  <2>. QED  BY <1>1, <1>2, <1>4, <2>1, <2>5, <2>6
<1>7. CASE RewritePanics \/ AllRewritten \/ Refuses \/ AllTaken
  <2>1. /\ UNCHANGED <<rewritten, options, targets>>
        /\ \/ read' = read /\ cliPc' \in {"panicked"} /\ cliPc = "rewrite"
           \/ read' = read /\ cliPc' \in {"usage", "parsed"} /\ cliPc = "clap"
           \/ read' = 0 /\ cliPc' = "clap"
    BY <1>7 DEF RewritePanics, AllRewritten, Refuses, AllTaken, ClapHasMore
  <2>. QED  BY <1>1, <1>2, <1>4, <2>1
<1>8. CASE TakesPositional
  <2>1. /\ ClapHasMore /\ UNCHANGED <<cliPc, rewritten, options>> /\ read' = read + 1
        /\ targets' = Append(targets, ClapAt.text)
    BY <1>8 DEF TakesPositional
  <2>2. Range(targets') \subseteq TypedTexts
    BY <1>1, <1>2, <1>5, <2>1, RangeAppend
  <2>. QED  BY <1>1, <1>2, <1>4, <1>5, <2>1, <2>2
<1>9. CASE TakesSwitch \/ TakesAttached
  <2>1. /\ ClapHasMore /\ UNCHANGED <<cliPc, rewritten, targets>> /\ read' = read + 1
        /\ ClapAt.flag \in Switches \cup Valued
        /\ Given(ClapAt.flag, NoText) \/ Given(ClapAt.flag, ClapAt.text)
    BY <1>9 DEF TakesSwitch, TakesAttached, IsSwitch, AttachedValue, IsNewFlag
  <2>2. DOMAIN options' \subseteq Switches \cup Valued /\ Range(options') \subseteq TypedTexts
    BY <1>2, <1>5, <2>1, GivenKeepsTypes
  <2>. QED  BY <1>1, <1>2, <1>4, <1>5, <2>1, <2>2
<1>10. CASE TakesNext
  <2>1. /\ ClapHasMore /\ UNCHANGED <<cliPc, rewritten, targets>> /\ read' = read + 2
        /\ ClapAt.flag \in Switches \cup Valued /\ read + 2 \in 1..Len(rewritten)
        /\ Given(ClapAt.flag, rewritten[read + 2].text)
    BY <1>1, <1>10 DEF TakesNext, NextValue, IsNewFlag
  <2>2. rewritten[read + 2].text \in TypedTexts
    BY <1>1, <1>2, <2>1, ListDomain
  <2>3. DOMAIN options' \subseteq Switches \cup Valued /\ Range(options') \subseteq TypedTexts
    BY <1>2, <2>1, <2>2, GivenKeepsTypes
  <2>. QED  BY <1>1, <1>2, <1>4, <1>5, <2>1, <2>3
<1>. QED  BY <1>6, <1>7, <1>8, <1>9, <1>10 DEF CliStep

-----------------------------------------------------------------------------
(* The list of ports.                                                      *)

(* What is not touched keeps its value, also in the invariant.             *)
LEMMA PortsUntouched ==
    ASSUME PortInv, UNCHANGED <<portVars, options>>
    PROVE  PortInv'
BY DEF PortInv, ParseInv, WalkInv, ListRead, portVars, Typed, Meant, AllSound, Most,
       IsGiven, NumberGiven, SeenOfTable

(* The last chunk is read: the set is what the list means.                 *)
LEMMA ListIsRead ==
    ASSUME ParseInv, chunks = <<>>
    PROVE  set = Meant /\ AllSound(Typed)
<1>1. Range(chunks) = {}
  BY DEF Range
<1>. QED  BY <1>1 DEF ParseInv, AllSound

LEMMA ReadChunkKeepsInv ==
    ASSUME PortInv, ReadChunk, UNCHANGED options
    PROVE  PortInv'
<1>. DEFINE c == Head(chunks)
<1>1. /\ portPc = "parsing" /\ portPc' = "parsing"
      /\ chunks # <<>> /\ c # Blank /\ ~Refused(c)
      /\ set' = set \cup (Bounds(c).lo..Bounds(c).hi)
      /\ chunks' = Tail(chunks)
      /\ UNCHANGED <<walked, wanted, ports>>
  BY DEF ReadChunk
<1>2. ParseInv
  BY <1>1 DEF PortInv
<1>3. /\ IsList(Tail(chunks)) /\ c \in Range(chunks)
      /\ Range(chunks) = {c} \cup Range(Tail(chunks))
  BY <1>1, <1>2, RangeTail DEF ParseInv
<1>4. Sound(c) /\ set' = set \cup PortsOf(c) /\ PortsOf(c) \subseteq 1..MaxPort
  BY <1>1, <1>2, <1>3, ChunkRead DEF ParseInv
<1>5. /\ set' \cup UNION {PortsOf(d) : d \in Range(chunks')} = Meant
      /\ AllSound(chunks') <=> AllSound(Typed)
  BY <1>1, <1>2, <1>3, <1>4 DEF ParseInv, AllSound
<1>6. ParseInv'
  BY <1>1, <1>2, <1>3, <1>5 DEF ParseInv, IsGiven, Meant, Typed, AllSound
<1>7. set' \subseteq 1..MaxPort
  BY <1>4 DEF PortInv
<1>. QED  BY <1>1, <1>6, <1>7 DEF PortInv, ListRead

LEMMA SkipBlankKeepsInv ==
    ASSUME PortInv, SkipBlank, UNCHANGED options
    PROVE  PortInv'
<1>1. /\ portPc = "parsing" /\ portPc' = "parsing"
      /\ chunks # <<>> /\ Head(chunks) = Blank
      /\ chunks' = Tail(chunks)
      /\ UNCHANGED <<set, walked, wanted, ports>>
  BY DEF SkipBlank
<1>2. ParseInv
  BY <1>1 DEF PortInv
<1>3. /\ IsList(Tail(chunks))
      /\ Range(chunks) = {Blank} \cup Range(Tail(chunks))
  BY <1>1, <1>2, RangeTail DEF ParseInv
<1>4. Sound(Blank) /\ PortsOf(Blank) = {}
  BY DEF Sound, PortsOf
<1>5. /\ set' \cup UNION {PortsOf(d) : d \in Range(chunks')} = Meant
      /\ AllSound(chunks') <=> AllSound(Typed)
  BY <1>1, <1>2, <1>3, <1>4 DEF ParseInv, AllSound
<1>6. ParseInv'
  BY <1>1, <1>2, <1>3, <1>5 DEF ParseInv, IsGiven, Meant, Typed, AllSound
<1>. QED  BY <1>1, <1>6 DEF PortInv, ListRead

(* A chunk is refused for a reason: it was not sound.                      *)
LEMMA RefuseChunkKeepsInv ==
    ASSUME PortInv, RefuseChunk, UNCHANGED options
    PROVE  PortInv'
<1>. DEFINE c == Head(chunks)
<1>1. /\ portPc = "parsing" /\ portPc' = "error"
      /\ chunks # <<>> /\ c # Blank /\ Refused(c)
      /\ UNCHANGED <<set, walked, wanted, ports>>
  BY DEF RefuseChunk
<1>2. ParseInv
  BY <1>1 DEF PortInv
<1>3. c \in Range(chunks) /\ IsChunk(c)
  BY <1>1, <1>2, RangeTail DEF ParseInv
<1>4. ~AllSound(Typed)
  BY <1>1, <1>2, <1>3, ChunkRead DEF ParseInv, AllSound
<1>5. ListRead'
  BY <1>1, <1>4 DEF ListRead, AllSound, Typed
<1>. QED  BY <1>1, <1>5 DEF PortInv

LEMMA AllChunksReadKeepsInv ==
    ASSUME PortInv, AllChunksRead, UNCHANGED options
    PROVE  PortInv'
<1>1. /\ portPc = "parsing" /\ chunks = <<>>
      /\ portPc' = IF set = {} THEN "error" ELSE "ok"
      /\ ports' = Ascending(set)
      /\ UNCHANGED <<set, walked, wanted>>
  BY DEF AllChunksRead
<1>2. ParseInv /\ set \subseteq 1..MaxPort
  BY <1>1 DEF PortInv
<1>3. set = Meant /\ AllSound(Typed)
  BY <1>1, <1>2, ListIsRead
<1>4. /\ Range(ports') = set
      /\ \A i, j \in DOMAIN ports' : i < j => ports'[i] < ports'[j]
      /\ IsInjective(ports')
      /\ set # {} => ports' # <<>>
  BY <1>1, <1>2, PortListAssumption, AscendingLists
<1>5. IsGiven("p")' /\ Typed' = Typed /\ Meant' = Meant /\ set' = set
  BY <1>1, <1>2 DEF ParseInv, IsGiven, Typed, Meant
<1>6. ListRead'
  BY <1>1, <1>3, <1>4, <1>5 DEF ListRead, AllSound, Typed, Meant
<1>. QED  BY <1>1, <1>4, <1>6 DEF PortInv

(* One more entry of the table is one more port seen.                      *)
LEMMA SeenOneMore ==
    ASSUME NEW n \in Nat
    PROVE  SeenOfTable(n + 1) = SeenOfTable(n) \cup {TopTable[n + 1]}
<1>1. 1..(n + 1) = (1..n) \cup {n + 1}
  OBVIOUS
<1>. QED  BY <1>1 DEF SeenOfTable

(* There are finitely many ports in the table, at least one.               *)
LEMMA TableIsFinite ==
    /\ Len(TopTable) \in Nat \ {0} /\ DOMAIN TopTable = 1..Len(TopTable)
    /\ \A i \in 1..Len(TopTable) : TopTable[i] \in 1..MaxPort
    /\ Range(TopTable) = SeenOfTable(Len(TopTable))
    /\ IsFiniteSet(Range(TopTable)) /\ Known \in Nat
<1>1. TopTable \in Seq(1..MaxPort) /\ TopTable # <<>> /\ MaxPort \in Nat
  BY PortListAssumption
<1>2. /\ Len(TopTable) \in Nat /\ Len(TopTable) # 0 /\ DOMAIN TopTable = 1..Len(TopTable)
      /\ \A i \in 1..Len(TopTable) : TopTable[i] \in 1..MaxPort
  BY <1>1, LenProperties, EmptySeq, ElementOfSeq
<1>3. Range(TopTable) = SeenOfTable(Len(TopTable))
  BY <1>2 DEF Range, SeenOfTable
<1>4. IsFiniteSet(1..MaxPort) /\ Range(TopTable) \in SUBSET (1..MaxPort)
  BY <1>1, <1>2, FS_Interval DEF Range
<1>5. IsFiniteSet(Range(TopTable))
  BY <1>4, FS_Subset
<1>. QED  BY <1>2, <1>3, <1>5, FS_CardinalityType DEF Known

(* The beginning of the table holds the ports seen.                        *)
LEMMA SeenIsPrefix ==
    ASSUME NEW n \in 0..Len(TopTable)
    PROVE  SeenOfTable(n) = Range(SubSeq(TopTable, 1, n))
<1>1. TopTable \in Seq(1..MaxPort) /\ Len(TopTable) \in Nat
  BY PortListAssumption, LenProperties
<1>2. \A i \in 1..n : TopTable[i] \in 1..MaxPort
  BY TableIsFinite
<1>3. /\ SubSeq(TopTable, 1, n) \in Seq(1..MaxPort)
      /\ Len(SubSeq(TopTable, 1, n)) = n
      /\ \A i \in 1..n : SubSeq(TopTable, 1, n)[i] = TopTable[i]
  <2>1. 1 \in Int /\ n \in Int /\ n - 1 + 1 = n /\ (1 <= n \/ n = 0)
    BY <1>1
  <2>2. /\ SubSeq(TopTable, 1, n) \in Seq(1..MaxPort)
        /\ Len(SubSeq(TopTable, 1, n)) = IF 1 <= n THEN n - 1 + 1 ELSE 0
        /\ \A i \in 1..n - 1 + 1 : SubSeq(TopTable, 1, n)[i] = TopTable[1 + i - 1]
    BY <1>2, <2>1, SubSeqProperties
  <2>3. \A i \in 1..n : 1 + i - 1 = i
    OBVIOUS
  <2>. QED  BY <2>1, <2>2, <2>3
<1>4. DOMAIN SubSeq(TopTable, 1, n) = 1..n
  BY <1>3, LenProperties
<1>. QED  BY <1>3, <1>4 DEF SeenOfTable, Range

(* The walk has as many ports as it has seen, and no more than there are.  *)
LEMMA WalkCounts ==
    ASSUME NEW list \in Seq(1..MaxPort), IsInjective(list),
           NEW n \in 0..Len(TopTable), Range(list) = SeenOfTable(n)
    PROVE  /\ Len(list) \in Nat /\ Len(list) <= Known
           /\ n = Len(TopTable) => Len(list) = Known
<1>1. IsList(list) /\ Len(list) \in Nat
  BY SeqIsList, LenProperties
<1>2. Cardinality(Range(list)) = Len(list)
  BY <1>1, InjectiveLength
<1>3. SeenOfTable(n) \in SUBSET Range(TopTable)
  BY TableIsFinite DEF SeenOfTable
<1>4. Cardinality(Range(list)) <= Known
  BY <1>3, TableIsFinite, FS_Subset DEF Known
<1>5. n = Len(TopTable) => Cardinality(Range(list)) = Known
  BY TableIsFinite DEF Known
<1>. QED  BY <1>1, <1>2, <1>4, <1>5

(* What is promised of the ports of a walk that is over.                   *)
LEMMA WalkIsOver ==
    ASSUME NEW list \in Seq(1..MaxPort), NEW n \in 1..Len(TopTable),
           Range(list) = SeenOfTable(n),
           Len(list) = Min({Max({Most, 1}), Known}),
           ports' = list, portPc' = "ok", UNCHANGED options, ~IsGiven("p")
    PROVE  ListRead'
<1>1. n \in DOMAIN TopTable /\ n \in 0..Len(TopTable)
  BY TableIsFinite
<1>2. Range(list) = Range(SubSeq(TopTable, 1, n))
  BY <1>1, SeenIsPrefix
<1>3. ~IsGiven("p")' /\ NumberGiven("top-ports", 100)' = NumberGiven("top-ports", 100)
  BY DEF IsGiven, NumberGiven
<1>. QED  BY <1>1, <1>2, <1>3 DEF ListRead, Most, Known

LEMMA WalkKeepsInv ==
    ASSUME PortInv, CliInv, Walk, UNCHANGED options
    PROVE  PortInv'
<1>. DEFINE p == TopTable[walked + 1]
<1>1. /\ portPc = "walking" /\ walked < Len(TopTable) /\ walked' = walked + 1
      /\ UNCHANGED <<chunks, set, wanted>>
  BY DEF Walk
<1>2. /\ WalkInv /\ walked \in 0..Len(TopTable)
      /\ ports \in Seq(1..MaxPort) /\ IsInjective(ports) /\ Range(ports) = SeenOfTable(walked)
  BY <1>1 DEF PortInv, WalkInv
<1>3. walked \in Nat /\ walked' \in 1..Len(TopTable) /\ p \in 1..MaxPort
  BY <1>1, <1>2, TableIsFinite
<1>4. SeenOfTable(walked') = Range(ports) \cup {p}
  BY <1>1, <1>2, <1>3, SeenOneMore
<1>5. Most \in Nat /\ wanted = Most
  BY <1>2 DEF Most, NumberGiven, IsGiven, CliInv, WalkInv, Numeric
<1>6. ~IsGiven("p") /\ ~IsGiven("p")' /\ Most' = Most
  BY <1>2 DEF WalkInv, IsGiven, Most, NumberGiven
<1>7. CASE p \in Range(ports)
  <2>1. UNCHANGED <<portPc, ports>>
    BY <1>7 DEF Walk
  <2>2. ports # <<>>
    BY <1>7 DEF Range
  <2>3. Range(ports') = SeenOfTable(walked') /\ walked' # 0
    BY <1>3, <1>4, <1>7, <2>1
  <2>4. /\ ports' \in Seq(1..MaxPort) /\ IsInjective(ports') /\ ports' # <<>>
        /\ Len(ports') < wanted' /\ wanted' = Most'
    BY <1>1, <1>2, <1>5, <1>6, <2>1, <2>2 DEF WalkInv
  <2>5. WalkInv'
    BY <1>6, <2>3, <2>4 DEF WalkInv
  <2>. QED  BY <1>1, <1>3, <2>1, <2>5 DEF PortInv, ListRead
<1>8. CASE p \notin Range(ports)
  <2>1. /\ ports' = Append(ports, p)
        /\ portPc' = IF Len(ports') >= wanted THEN "ok" ELSE "walking"
    BY <1>8 DEF Walk
  <2>2. /\ ports' \in Seq(1..MaxPort) /\ ports' # <<>>
        /\ Len(ports) \in Nat /\ Len(ports') = Len(ports) + 1
        /\ DOMAIN ports = 1..Len(ports) /\ DOMAIN ports' = 1..(Len(ports) + 1)
        /\ \A i \in 1..Len(ports) : ports'[i] = ports[i]
        /\ ports'[Len(ports) + 1] = p
    BY <1>2, <1>3, <2>1
  <2>3. IsInjective(ports')
    BY <1>2, <1>8, <2>2 DEF IsInjective, Range
  <2>4. Range(ports') = SeenOfTable(walked')
    BY <1>4, <2>2 DEF Range
  <2>5. CASE portPc' = "walking"
    <3>1. Len(ports') < wanted
      BY <1>5, <2>1, <2>2, <2>5
    <3>2. WalkInv'
      BY <1>1, <1>3, <1>5, <1>6, <2>2, <2>3, <2>4, <3>1 DEF WalkInv
    <3>. QED  BY <1>1, <1>3, <2>5, <3>2 DEF PortInv, ListRead
  <2>6. CASE portPc' = "ok"
    <3>1. Len(ports') >= Most
      BY <1>5, <2>1, <2>6
    <3>2. Len(ports) < Most \/ Len(ports) = 0
      BY <1>2, <1>5 DEF WalkInv
    <3>3. Len(ports') = Max({Most, 1})
      BY <1>5, <2>2, <3>1, <3>2, MaxOfTwo
    <3>4. Len(ports') <= Known
      BY <1>3, <2>2, <2>3, <2>4, WalkCounts
    <3>5. Len(ports') = Min({Max({Most, 1}), Known})
      <4>1. Len(ports') \in Int /\ Known \in Int
        BY <2>2, TableIsFinite
      <4>2. Min({Len(ports'), Known}) = Len(ports')
        BY <3>4, <4>1, MinOfTwo
      <4>. QED  BY <3>3, <4>2
    <3>6. ListRead'
      BY <1>3, <1>6, <2>2, <2>4, <2>6, <3>5, WalkIsOver
    <3>. QED  BY <1>1, <1>3, <2>2, <2>3, <2>6, <3>6 DEF PortInv
  <2>. QED  BY <2>1, <2>5, <2>6
<1>. QED  BY <1>7, <1>8

LEMMA TableEndsKeepsInv ==
    ASSUME PortInv, CliInv, TableEnds, UNCHANGED options
    PROVE  PortInv'
<1>1. /\ portPc = "walking" /\ walked = Len(TopTable) /\ portPc' = "ok"
      /\ UNCHANGED <<chunks, set, walked, wanted, ports>>
  BY DEF TableEnds
<1>2. /\ WalkInv
      /\ ports \in Seq(1..MaxPort) /\ IsInjective(ports) /\ Range(ports) = SeenOfTable(walked)
  BY <1>1 DEF PortInv, WalkInv
<1>3. walked \in 1..Len(TopTable) /\ walked \in 0..Len(TopTable)
  BY <1>1, TableIsFinite
<1>4. Most \in Nat /\ wanted = Most /\ ~IsGiven("p")
  BY <1>2 DEF Most, NumberGiven, IsGiven, CliInv, WalkInv, Numeric
<1>5. ports # <<>> /\ Len(ports) < Most
  BY <1>2, <1>3, <1>4 DEF WalkInv
<1>6. Len(ports) \in Nat /\ Len(ports) = Known
  BY <1>1, <1>2, <1>3, WalkCounts
<1>7. Len(ports) = Min({Max({Most, 1}), Known})
  BY <1>4, <1>5, <1>6, MaxOfTwo, MinOfTwo
<1>8. ListRead'
  BY <1>1, <1>2, <1>3, <1>4, <1>7, WalkIsOver
<1>. QED  BY <1>1, <1>2, <1>5, <1>8 DEF PortInv

LEMMA PortStepKeepsInv ==
    ASSUME PortInv, CliInv, PortStep, UNCHANGED options
    PROVE  PortInv'
BY ReadChunkKeepsInv, SkipBlankKeepsInv, RefuseChunkKeepsInv, AllChunksReadKeepsInv,
   WalkKeepsInv, TableEndsKeepsInv DEF PortStep

LEMMA PortStepKeepsTypes ==
    ASSUME CliInv, PortInv, PortTypeOK, PortStep
    PROVE  PortTypeOK'
<1>. USE DEF PortTypeOK
<1>1. CASE ReadChunk
  <2>. DEFINE c == Head(chunks)
  <2>1. /\ portPc = "parsing" /\ chunks # <<>> /\ c # Blank /\ ~Refused(c)
        /\ set' = set \cup (Bounds(c).lo..Bounds(c).hi) /\ chunks' = Tail(chunks)
        /\ UNCHANGED <<portPc, walked, wanted, ports>>
    BY <1>1 DEF ReadChunk
  <2>2. IsList(chunks)
    BY <2>1 DEF PortInv, ParseInv
  <2>3. c \in Range(chunks) /\ Range(Tail(chunks)) \subseteq Range(chunks)
    BY <2>1, <2>2, RangeTail
  <2>4. Bounds(c).lo..Bounds(c).hi \subseteq 1..MaxPort
    BY <2>1, <2>3, ChunkRead
  <2>. QED  BY <2>1, <2>3, <2>4
<1>2. CASE SkipBlank
  <2>1. /\ portPc = "parsing" /\ chunks # <<>> /\ chunks' = Tail(chunks)
        /\ UNCHANGED <<portPc, set, walked, wanted, ports>>
    BY <1>2 DEF SkipBlank
  <2>2. IsList(chunks)
    BY <2>1 DEF PortInv, ParseInv
  <2>3. Range(Tail(chunks)) \subseteq Range(chunks)
    BY <2>1, <2>2, RangeTail
  <2>. QED  BY <2>1, <2>3
<1>3. CASE RefuseChunk \/ TableEnds
  BY <1>3 DEF RefuseChunk, TableEnds
<1>4. CASE AllChunksRead
  <2>1. ports' = Ascending(set) /\ UNCHANGED <<chunks, set, walked, wanted>>
        /\ portPc' \in {"ok", "error"}
    BY <1>4 DEF AllChunksRead
  <2>2. Ascending(set) \in Seq(1..MaxPort)
    <3>1. Ascending(set) \in Seq(set)
      BY PortListAssumption, AscendingLists
    <3>. QED  BY <3>1, SeqMonotonic
  <2>. QED  BY <2>1, <2>2
<1>5. CASE Walk
  <2>. DEFINE p == TopTable[walked + 1]
  <2>1. /\ walked < Len(TopTable) /\ walked' = walked + 1
        /\ UNCHANGED <<chunks, set, wanted>>
        /\ ports' = ports \/ ports' = Append(ports, p)
        /\ portPc' \in {"walking", "ok"}
    BY <1>5 DEF Walk
  <2>2. walked' \in 0..Len(TopTable) /\ p \in 1..MaxPort
    BY <2>1, TableIsFinite
  <2>3. ports' \in Seq(1..MaxPort)
    <3>. HIDE DEF p
    <3>1. Append(ports, p) \in Seq(1..MaxPort)
      BY <2>2, AppendProperties
    <3>. QED  BY <2>1, <3>1
  <2>. QED  BY <2>1, <2>2, <2>3
<1>. QED  BY <1>1, <1>2, <1>3, <1>4, <1>5 DEF PortStep

-----------------------------------------------------------------------------
(* The list of targets.                                                    *)

(* An expansion is a list of addresses.                                    *)
LEMMA ExpansionIsList ==
    ASSUME NEW arg, NEW resolve \in BOOLEAN, IsTarget(arg), ~Unusable(arg, resolve)
    PROVE  Expansion(arg) \in Seq(Address)
<1>1. CASE arg = Empty
  <2>1. Expansion(Empty) = <<>>
    BY BlankLists
  <2>. QED  BY <1>1, <2>1, EmptySeq
<1>2. CASE arg # Empty
  <2>0. Lists(arg, resolve)
    BY <1>2, ExpansionLists
  <2>1. PICK a \in Address, lo \in Int, hi \in Int :
          /\ lo <= hi
          /\ AddressesOf(arg, resolve) = Span(a, lo, hi)
          /\ Expansion(arg) = From(a, lo, hi)
    BY <2>0 DEF Lists
  <2>2. AddressesOf(arg, resolve) \subseteq Address
    BY TargetKinds, AddressesAreAddresses
  <2>3. \A x \in lo..hi : [a EXCEPT !.n = x] \in Address
    BY <2>1, <2>2, Zenon DEF Span
  <2>4. \A i \in 1..(hi - lo + 1) : lo + i - 1 \in lo..hi
    OBVIOUS
  <2>5. \A i \in 1..(hi - lo + 1) : [a EXCEPT !.n = lo + i - 1] \in Address
    BY <2>3, <2>4, Zenon
  <2>6. From(a, lo, hi) \in [1..(hi - lo + 1) -> Address]
    BY <2>5, Zenon DEF From
  <2>7. hi - lo + 1 \in Nat
    BY <2>1
  <2>. QED  BY <2>1, <2>6, <2>7, SeqDef
<1>. QED  BY <1>1, <1>2

(* The arguments are those of `targets`, and are arguments.                *)
LEMMA ArgsTyped ==
    ASSUME CliInv
    PROVE  /\ Args \in Seq(Range(Args)) /\ Len(Args) = Len(targets) /\ Len(Args) \in Nat
           /\ DOMAIN Args = 1..Len(Args) /\ DOMAIN targets = 1..Len(Args)
           /\ \A i \in 1..Len(Args) : IsTarget(Args[i])
           /\ Resolved \in BOOLEAN
<1>1. /\ Len(targets) \in Nat /\ DOMAIN targets = 1..Len(targets)
      /\ \A i \in 1..Len(targets) : IsText(targets[i])
  BY ListDomain DEF CliInv
<1>2. \A i \in 1..Len(targets) : IsTarget(targets[i].target)
  BY <1>1 DEF IsText
<1>3. /\ DOMAIN Args = 1..Len(targets)
      /\ \A i \in 1..Len(targets) : Args[i] = targets[i].target
      /\ Args \in [1..Len(targets) -> Range(Args)]
  BY <1>1 DEF Args, Range
<1>4. Args \in Seq(Range(Args)) /\ Len(Args) = Len(targets)
  BY <1>1, <1>3, SeqDef, LenProperties
<1>5. Resolved \in BOOLEAN
  BY DEF Resolved
<1>. QED  BY <1>1, <1>2, <1>3, <1>4, <1>5

(* The listing of an argument that can be used is its expansion.           *)
LEMMA ListingIs ==
    ASSUME CliInv, NEW i \in 1..Len(Args), ~Unusable(Args[i], Resolved)
    PROVE  /\ Listing[i] = Expansion(Args[i]) /\ Listing[i] \in Seq(Address)
           /\ Listing[i] = <<>> => Args[i] = Empty
           /\ Args[i] # Empty => AddressesOf(Args[i], Resolved) # {}
<1>1. IsTarget(Args[i]) /\ Resolved \in BOOLEAN /\ i \in DOMAIN Args
  BY ArgsTyped
<1>2. Listing[i] = InOrder(AddressesOf(Args[i], Resolved))
  BY <1>1 DEF Listing
<1>3. Expansion(Args[i]) \in Seq(Address)
  BY <1>1, ExpansionIsList
<1>. HIDE DEF Args, Resolved
<1>4. CASE Args[i] = Empty
  BY <1>2, <1>3, <1>4, BlankLists
<1>5. CASE Args[i] # Empty
  BY <1>1, <1>2, <1>3, <1>5, ExpansionLists
<1>. QED  BY <1>4, <1>5

(* The four steps of the targets, and steps that leave them alone.         *)
LEMMA TargetsUntouched ==
    ASSUME TargetInv, UNCHANGED <<targetVars, options, targets>>
    PROVE  TargetInv'
<1>1. UNCHANGED <<targetPc, inputs, addrs, options, targets>>
  BY DEF targetVars
<1>2. UNCHANGED <<Args, Resolved, Listing>>
  BY <1>1 DEF Args, Resolved, Listing, IsGiven
<1>3. \A m : Expanded(m)' <=> Expanded(m)
  BY <1>1, <1>2 DEF Expanded
<1>4. TargetsDenoted' <=> TargetsDenoted
  BY <1>1 DEF TargetsDenoted, IsGiven
<1>. QED  BY <1>1, <1>2, <1>3, <1>4 DEF TargetInv

LEMMA ResolveKeepsInv ==
    ASSUME CliInv, TargetInv, ResolveTargets
    PROVE  TargetInv'
<1>1. /\ targetPc = "idle" /\ targetPc' = "expanding" /\ inputs' = Args
      /\ targets # <<>> /\ UNCHANGED <<addrs, options, targets>>
      /\ addrs = <<>>
  BY DEF ResolveTargets, ParseTargets, TargetInv, cliVars, Args
<1>2. UNCHANGED <<Args, Resolved, Listing>>
  BY <1>1 DEF Args, Resolved, Listing, IsGiven
<1>3. FlattenSeq(FirstOfAll(Listing, 0)) = <<>>
  BY FlattenNone
<1>4. Expanded(0)'
  BY <1>1, <1>2, <1>3, ArgsTyped DEF Expanded
<1>5. 0 \in 0..Len(Args')
  BY <1>2, ArgsTyped
<1>6. TargetsDenoted'
  BY <1>1 DEF TargetsDenoted
<1>. QED  BY <1>1, <1>2, <1>4, <1>5, <1>6 DEF TargetInv

LEMMA ExpandOneKeepsInv ==
    ASSUME CliInv, TargetInv, ExpandOne(Resolved), UNCHANGED <<options, targets>>
    PROVE  TargetInv'
<1>1. /\ targetPc = "expanding" /\ targetPc' = "expanding"
      /\ inputs # <<>> /\ ~Unusable(Head(inputs), Resolved)
      /\ addrs' = addrs \o Expansion(Head(inputs))
      /\ inputs' = Tail(inputs)
      /\ UNCHANGED <<options, targets>>
  BY DEF ExpandOne
<1>2. UNCHANGED <<Args, Resolved, Listing>>
  BY <1>1 DEF Args, Resolved, Listing, IsGiven
<1>3. PICK m \in 0..Len(Args) : Expanded(m)
  BY <1>1 DEF TargetInv
<1>4. Len(Args) \in Nat /\ m \in Nat
  BY ArgsTyped
<1>5. /\ inputs \in Seq(Range(Args)) /\ Len(inputs) = Len(Args) - m /\ Len(inputs) # 0
      /\ inputs[1] = Args[m + 1] /\ Head(inputs) = inputs[1]
      /\ Tail(inputs) \in Seq(Range(Args)) /\ Len(Tail(inputs)) = Len(inputs) - 1
      /\ \A i \in 1..Len(Tail(inputs)) : Tail(inputs)[i] = inputs[i + 1]
  <2>1. inputs \in Seq(Range(Args)) /\ Len(inputs) = Len(Args) - m
    BY <1>3 DEF Expanded
  <2>2. Len(inputs) # 0 /\ Len(inputs) \in Nat
    BY <1>1, <2>1, EmptySeq, LenProperties
  <2>3. 1 \in 1..Len(inputs)
    BY <2>2
  <2>4. inputs[1] = Args[m + 1]
    BY <1>3, <2>3 DEF Expanded
  <2>. QED  BY <1>1, <2>1, <2>2, <2>4, HeadTailProperties
<1>6. m + 1 \in 1..Len(Args)
  BY <1>4, <1>5
<1>. DEFINE arg == Args[m + 1]
<1>7. ~Unusable(arg, Resolved) /\ addrs' = addrs \o Listing[m + 1]
      /\ Listing[m + 1] \in Seq(Address) /\ (Listing[m + 1] = <<>> => arg = Empty)
  BY <1>1, <1>5, <1>6, ListingIs
<1>8. ASSUME NEW i \in 1..(m + 1)
      PROVE  ~Unusable(Args[i], Resolved) /\ Listing[i] \in Seq(Address)
  <2>1. i \in 1..Len(Args)
    BY <1>4, <1>6
  <2>2. ~Unusable(Args[i], Resolved)
    <3>1. CASE i = m + 1
      BY <1>7, <3>1
    <3>2. CASE i # m + 1
      <4>1. i \in 1..m
        BY <1>4, <3>2
      <4>. QED  BY <1>3, <4>1 DEF Expanded
    <3>. QED  BY <3>1, <3>2
  <2>. QED  BY <2>1, <2>2, ListingIs
<1>9. addrs' = FlattenSeq(FirstOfAll(Listing, m + 1))
  <2>1. addrs = FlattenSeq(FirstOfAll(Listing, m))
    BY <1>3 DEF Expanded
  <2>2. FlattenSeq(FirstOfAll(Listing, m + 1)) = FlattenSeq(FirstOfAll(Listing, m)) \o Listing[m + 1]
    BY <1>4, <1>8, FlattenOneMore
  <2>. QED  BY <1>7, <2>1, <2>2, Zenon
<1>10. addrs \in Seq(Address)
  BY DEF TargetInv
<1>11. addrs' \in Seq(Address) /\ (addrs' = <<>> => addrs = <<>> /\ Listing[m + 1] = <<>>)
  <2>1. addrs' \in Seq(Address) /\ Len(addrs') = Len(addrs) + Len(Listing[m + 1])
        /\ Len(addrs) \in Nat /\ Len(Listing[m + 1]) \in Nat
    BY <1>7, <1>10, ConcatProperties, LenProperties
  <2>2. addrs' = <<>> => Len(addrs') = 0
    BY EmptySeq
  <2>3. addrs' = <<>> => Len(addrs) = 0 /\ Len(Listing[m + 1]) = 0
    BY <2>1, <2>2
  <2>. QED  BY <1>7, <1>10, <2>1, <2>3, EmptySeq
<1>12. addrs' = <<>> => \A i \in 1..(m + 1) : Args[i] = Empty
  <2>. SUFFICES ASSUME addrs' = <<>>, NEW i \in 1..(m + 1)  PROVE Args[i] = Empty
    OBVIOUS
  <2>1. CASE i = m + 1
    BY <1>7, <1>11, <2>1
  <2>2. CASE i # m + 1
    <3>1. i \in 1..m
      BY <1>4, <2>2
    <3>. QED  BY <1>3, <1>11, <3>1 DEF Expanded
  <2>. QED  BY <2>1, <2>2
<1>13. /\ inputs' \in Seq(Range(Args)) /\ Len(inputs') = Len(Args) - (m + 1)
       /\ \A i \in 1..Len(inputs') : inputs'[i] = Args[(m + 1) + i]
  <2>1. Len(inputs') = Len(Args) - (m + 1) /\ inputs' \in Seq(Range(Args))
    BY <1>1, <1>4, <1>5
  <2>2. ASSUME NEW i \in 1..Len(inputs')
        PROVE  inputs'[i] = Args[(m + 1) + i]
    <3>1. i + 1 \in 1..Len(inputs) /\ m + (i + 1) = (m + 1) + i
      BY <1>4, <1>5, <2>1
    <3>2. inputs'[i] = inputs[i + 1]
      BY <1>1, <1>5
    <3>3. inputs[i + 1] = Args[m + (i + 1)]
      BY <1>3, <3>1 DEF Expanded
    <3>. QED  BY <3>1, <3>2, <3>3, Zenon
  <2>. QED  BY <2>1, <2>2
<1>14. Expanded(m + 1)'
  BY <1>2, <1>8, <1>9, <1>12, <1>13 DEF Expanded
<1>15. m + 1 \in 0..Len(Args') /\ targets' # <<>>
  BY <1>1, <1>2, <1>4, <1>6 DEF TargetInv
<1>16. TargetsDenoted'
  BY <1>1 DEF TargetsDenoted
<1>. QED  BY <1>1, <1>11, <1>14, <1>15, <1>16 DEF TargetInv

(* TargetsDenoted in terms of the arguments and their listing.             *)
DenotedInTurn ==
    /\ targetPc = "ok" =>
          /\ \A arg \in Range(Args) : arg # Empty => AddressesOf(arg, Resolved) # {}
          /\ addrs = FlattenSeq(Listing)
    /\ targetPc = "error" =>
          \/ \E arg \in Range(Args) : arg # Empty /\ AddressesOf(arg, Resolved) = {}
          \/ Range(Args) = {Empty}

LEMMA DenotedInTurnIs ==
    /\ TargetsDenoted <=> DenotedInTurn
    /\ TargetsDenoted' <=> DenotedInTurn'
<1>1. TargetsDenoted <=> DenotedInTurn
  BY DEF TargetsDenoted, DenotedInTurn, Args, Resolved, Listing, InOrder
<1>2. TargetsDenoted' <=> DenotedInTurn'
  BY DEF TargetsDenoted, DenotedInTurn, Args, Resolved, Listing, InOrder
<1>. QED  BY <1>1, <1>2

LEMMA RefuseOneKeepsInv ==
    ASSUME CliInv, TargetInv, RefuseOne(Resolved), UNCHANGED <<options, targets>>
    PROVE  TargetInv'
<1>1. /\ targetPc = "expanding" /\ targetPc' = "error"
      /\ inputs # <<>> /\ Unusable(Head(inputs), Resolved)
      /\ UNCHANGED <<addrs, options, targets>>
  BY DEF RefuseOne
<1>2. UNCHANGED <<Args, Resolved, Listing>>
  BY <1>1 DEF Args, Resolved, Listing, IsGiven
<1>3. PICK m \in 0..Len(Args) : Expanded(m)
  BY <1>1 DEF TargetInv
<1>4. Head(inputs) \in Range(Args)
  BY <1>1, <1>3, HeadTailProperties DEF Expanded
<1>5. PICK i \in 1..Len(Args) : Head(inputs) = Args[i]
  BY <1>4, ArgsTyped DEF Range
<1>6. Head(inputs) # Empty /\ AddressesOf(Head(inputs), Resolved) = {}
  <2>1. IsTarget(Head(inputs)) /\ Resolved \in BOOLEAN
    BY <1>5, ArgsTyped
  <2>. QED  BY <1>1, <2>1, UnusableMeansNothing
<1>7. TargetsDenoted'
  <2>1. /\ targetPc' # "ok"
        /\ \E arg \in Range(Args') : arg # Empty /\ AddressesOf(arg, Resolved') = {}
    BY <1>1, <1>2, <1>4, <1>6
  <2>2. DenotedInTurn'
    BY <2>1 DEF DenotedInTurn
  <2>. QED  BY <2>2, DenotedInTurnIs
<1>. QED  BY <1>1, <1>7 DEF TargetInv

LEMMA AllExpandedKeepsInv ==
    ASSUME CliInv, TargetInv, AllExpanded, UNCHANGED <<options, targets>>
    PROVE  TargetInv'
<1>1. /\ targetPc = "expanding" /\ inputs = <<>>
      /\ targetPc' = IF addrs = <<>> THEN "error" ELSE "ok"
      /\ UNCHANGED <<addrs, options, targets>>
  BY DEF AllExpanded
<1>2. UNCHANGED <<Args, Resolved, Listing>>
  BY <1>1 DEF Args, Resolved, Listing, IsGiven
<1>3. PICK m \in 0..Len(Args) : Expanded(m)
  BY <1>1 DEF TargetInv
<1>4. m = Len(Args)
  <2>1. Len(inputs) = 0 /\ Len(inputs) = Len(Args) - m
    BY <1>1, <1>3 DEF Expanded
  <2>. QED  BY <2>1, ArgsTyped
<1>5. FirstOfAll(Listing, m) = Listing
  BY <1>4, ArgsTyped DEF FirstOfAll, Listing
<1>6. addrs = FlattenSeq(Listing)
  BY <1>3, <1>5 DEF Expanded
<1>7. \A i \in 1..Len(Args) : ~Unusable(Args[i], Resolved)
  BY <1>3, <1>4 DEF Expanded
<1>8. \A arg \in Range(Args) : arg # Empty => AddressesOf(arg, Resolved) # {}
  <2>1. \A i \in 1..Len(Args) : Args[i] # Empty => AddressesOf(Args[i], Resolved) # {}
    BY <1>7, ListingIs
  <2>2. \A arg \in Range(Args) : \E i \in 1..Len(Args) : arg = Args[i]
    BY ArgsTyped DEF Range
  <2>. QED  BY <2>1, <2>2
<1>9. CASE addrs = <<>>
  <2>1. \A i \in 1..Len(Args) : Args[i] = Empty
    BY <1>3, <1>4, <1>9 DEF Expanded
  <2>2. 1 \in 1..Len(Args)
    <3>1. targets # <<>>
      BY <1>1 DEF TargetInv
    <3>2. Len(targets) # 0
      BY <3>1, EmptySeq DEF CliInv, IsList
    <3>. QED  BY <3>2, ArgsTyped
  <2>3. Range(Args) = {Empty}
    BY <2>1, <2>2, ArgsTyped DEF Range
  <2>4. targetPc' = "error"
    BY <1>1, <1>9
  <2>5. TargetsDenoted'
    <3>1. DenotedInTurn'
      BY <1>2, <2>3, <2>4 DEF DenotedInTurn
    <3>. QED  BY <3>1, DenotedInTurnIs
  <2>. QED  BY <1>1, <2>4, <2>5 DEF TargetInv
<1>10. CASE addrs # <<>>
  <2>1. targetPc' = "ok"
    BY <1>1, <1>10
  <2>2. TargetsDenoted'
    <3>1. DenotedInTurn'
      BY <1>1, <1>2, <1>6, <1>8, <2>1 DEF DenotedInTurn
    <3>. QED  BY <3>1, DenotedInTurnIs
  <2>. QED  BY <1>1, <1>10, <2>1, <2>2 DEF TargetInv
<1>. QED  BY <1>9, <1>10

-----------------------------------------------------------------------------
(* main().                                                                 *)

(* A timing has numbers in all its fields.                                *)
LEMMA TemplatesTyped == \A level \in Nat : Template(level) \in TimingType
<1>1. \A i \in 1..6 : Templates[i] \in TimingType
  BY DEF Templates, Times, TimingType
<1>2. \A level \in Nat : (IF level > 4 THEN 6 ELSE level + 1) \in 1..6
  OBVIOUS
<1>. QED  BY <1>1, <1>2 DEF Template

LEMMA WithOverrides ==
    ASSUME NEW t \in TimingType, NEW c \in Nat, NEW r \in Nat, NEW h \in Nat
    PROVE  LET o == [t EXCEPT !.parallel = c, !.retries = r, !.host = h]
           IN /\ o \in TimingType
              /\ o.parallel = c /\ o.retries = r /\ o.connect = t.connect /\ o.read = t.read
BY DEF TimingType

(* What options put over a template are numbers again.                     *)
LEMMA OverriddenTyped ==
    ASSUME CliInv, NEW t \in TimingType
    PROVE  Overridden(t) \in TimingType
<1>1. {"c", "max-retries", "host-timeout"} \subseteq Numeric
  BY DEF Numeric
<1>2. \A n \in Nat : NumberGiven("c", n) \in Nat /\ NumberGiven("max-retries", n) \in Nat
  BY <1>1 DEF CliInv, NumberGiven, IsGiven
<1>3. IsGiven("host-timeout") => 1000 * options["host-timeout"].number \in Nat
  BY <1>1 DEF CliInv, IsGiven
<1>. DEFINE c == NumberGiven("c", t.parallel)
            r == NumberGiven("max-retries", t.retries)
            h == IF IsGiven("host-timeout") THEN 1000 * options["host-timeout"].number ELSE t.host
<1>4. t.parallel \in Nat /\ t.retries \in Nat /\ t.host \in Nat
  BY DEF TimingType
<1>5. c \in Nat /\ r \in Nat /\ h \in Nat
  BY <1>2, <1>3, <1>4
<1>6. Overridden(t) = [t EXCEPT !.parallel = c, !.retries = r, !.host = h]
  BY DEF Overridden
<1>. HIDE DEF c, r, h
<1>7. [t EXCEPT !.parallel = c, !.retries = r, !.host = h] \in TimingType
  BY <1>5, WithOverrides
<1>. QED  BY <1>6, <1>7

LEMMA BuildTimingTyped ==
    ASSUME CliInv, BuildTiming
    PROVE  timing' \in TimingType
<1>1. NumberGiven("T", 3) \in Nat
  BY DEF CliInv, NumberGiven, IsGiven, Numeric
<1>. QED  BY <1>1, TemplatesTyped, OverriddenTyped DEF BuildTiming

LEMMA TimingFields ==
    ASSUME timing \in TimingType
    PROVE  DOMAIN timing = DOMAIN Template(3) /\ \A f \in DOMAIN timing : timing[f] \in Nat
<1>1. DOMAIN timing = {"parallel", "connect", "read", "retries", "host"}
  BY DEF TimingType
<1>2. Template(3) \in TimingType
  BY TemplatesTyped
<1>3. DOMAIN Template(3) = {"parallel", "connect", "read", "retries", "host"}
  BY <1>2 DEF TimingType
<1>. QED  BY <1>1, <1>3 DEF TimingType

-----------------------------------------------------------------------------
(* Products, quotients and the durations made of them.                     *)
LEMMA ProductsGrow ==
    ASSUME NEW a \in Nat, NEW b \in Nat, a <= b, NEW c \in Nat, NEW d \in Nat, c <= d
    PROVE  a * c <= b * d /\ a * c \in Nat /\ b * d \in Nat
<1>. DEFINE x == b - a
            y == d - c
<1>1. x \in Nat /\ y \in Nat /\ b = a + x /\ d = c + y
  OBVIOUS
<1>. HIDE DEF x, y
<1>2. (a + x) * (c + y) = a * c + (a * y + x * c + x * y)
  BY <1>1
<1>3. a * y \in Nat /\ x * c \in Nat /\ x * y \in Nat /\ a * c \in Nat
  BY <1>1
<1>. QED  BY <1>1, <1>2, <1>3

(* More at a time take no more rounds.                                     *)
LEMMA RoundsShrink ==
    ASSUME NEW n \in Nat, NEW p \in Nat \ {0}, NEW q \in Nat \ {0}, p <= q
    PROVE  Rounds(n, q) <= Rounds(n, p) /\ Rounds(n, q) \in Nat /\ Rounds(n, p) \in Nat
<1>. DEFINE a == n + p - 1
            b == n + q - 1
            s == a \div p
            t == b \div q
            u == s * p
            v == s * q
            w == t * q
<1>1. a \in Nat /\ b \in Nat
  OBVIOUS
<1>2. s \in Nat /\ u <= a /\ a < u + p /\ u \in Nat
  <2>. HIDE DEF a
  <2>. QED  BY <1>1
<1>3. t \in Nat /\ w <= b /\ b < w + q /\ w \in Nat
  <2>. HIDE DEF b
  <2>. QED  BY <1>1
<1>4. u <= v /\ v \in Nat
  <2>. HIDE DEF s
  <2>. QED  BY <1>2, ProductsGrow
<1>5. w < v + q
  <2>. HIDE DEF u, v, w, s, t
  <2>. QED  BY <1>2, <1>3, <1>4
<1>6. t <= s
  <2>. SUFFICES ASSUME s + 1 <= t  PROVE FALSE
    BY <1>2, <1>3
  <2>. HIDE DEF s, t
  <2>1. (s + 1) * q <= t * q
    BY <1>2, <1>3, ProductsGrow
  <2>2. (s + 1) * q = s * q + q
    BY <1>2
  <2>3. v + q <= w
    BY <2>1, <2>2
  <2>. HIDE DEF u, v, w
  <2>. QED  BY <1>3, <1>4, <1>5, <2>3
<1>. QED  BY <1>2, <1>3, <1>6 DEF Rounds

LEMMA SleepsGrow ==
    ASSUME NEW s \in Nat, NEW a \in Nat, NEW b \in Nat, a <= b
    PROVE  AllSleeps(s, a) <= AllSleeps(s, b) /\ AllSleeps(s, a) \in Nat /\ AllSleeps(s, b) \in Nat
<1>1. s * a <= s * b /\ s * a \in Nat /\ s * b \in Nat
  BY ProductsGrow
<1>. DEFINE x == s * a
            y == s * b
            v == x * (a + 1)
            w == y * (b + 1)
<1>2. v <= w /\ v \in Nat /\ w \in Nat
  <2>1. a + 1 \in Nat /\ b + 1 \in Nat /\ a + 1 <= b + 1
    OBVIOUS
  <2>. HIDE DEF x, y
  <2>. QED  BY <1>1, <2>1, ProductsGrow DEF x, y
<1>3. AllSleeps(s, a) = v \div 2 /\ AllSleeps(s, b) = w \div 2
  BY DEF AllSleeps
<1>. HIDE DEF v, w
<1>. QED  BY <1>2, <1>3

LEMMA ProbesGrow ==
    ASSUME NEW s \in Nat, NEW c \in Nat, NEW d \in Nat, c <= d, NEW a \in Nat, NEW b \in Nat, a <= b
    PROVE  /\ LongestProbe(c, s, a) <= LongestProbe(d, s, b)
           /\ LongestProbe(c, s, a) \in Nat /\ LongestProbe(d, s, b) \in Nat
<1>. DEFINE x == (a + 1) * c
            y == (b + 1) * d
<1>1. x <= y /\ x \in Nat /\ y \in Nat
  <2>1. a + 1 \in Nat /\ b + 1 \in Nat /\ a + 1 <= b + 1
    OBVIOUS
  <2>. QED  BY <2>1, ProductsGrow
<1>2. LongestProbe(c, s, a) = x + AllSleeps(s, a) /\ LongestProbe(d, s, b) = y + AllSleeps(s, b)
  BY DEF LongestProbe
<1>3. AllSleeps(s, a) <= AllSleeps(s, b) /\ AllSleeps(s, a) \in Nat /\ AllSleeps(s, b) \in Nat
  BY SleepsGrow
<1>. HIDE DEF x, y
<1>. QED  BY <1>1, <1>2, <1>3

LEMMA DetectsGrow ==
    ASSUME NEW c \in Nat, NEW d \in Nat, c <= d, NEW r \in Nat, NEW s \in Nat, r <= s, NEW l \in Nat
    PROVE  /\ LongestDetect(c, r, l) <= LongestDetect(d, s, l)
           /\ LongestDetect(c, r, l) \in Nat /\ LongestDetect(d, s, l) \in Nat
<1>1. Max({r, l}) = (IF r >= l THEN r ELSE l) /\ Max({s, l}) = (IF s >= l THEN s ELSE l)
  BY MaxOfTwo
<1>. QED  BY <1>1 DEF LongestDetect

(* What makes a timing no slower than another.                             *)
NoSlower(t, u) ==
    t.parallel >= u.parallel /\ t.connect <= u.connect /\ t.read <= u.read /\ t.retries <= u.retries

LEMMA BudgetShrinks ==
    ASSUME NEW t \in TimingType, NEW u \in TimingType, NoSlower(t, u),
           NEW n \in Nat, NEW open \in Nat
    PROVE  Budget(t, n, open) <= Budget(u, n, open)
<1>1. /\ t.parallel \in Nat /\ t.connect \in Nat /\ t.read \in Nat /\ t.retries \in Nat
      /\ u.parallel \in Nat /\ u.connect \in Nat /\ u.read \in Nat /\ u.retries \in Nat
  BY DEF TimingType
<1>. DEFINE p == PermitsOf(t)
            q == PermitsOf(u)
            a == Rounds(n, p)
            b == Rounds(n, q)
            x == LongestProbe(t.connect, 50, t.retries)
            y == LongestProbe(u.connect, 50, u.retries)
            v == LongestDetect(t.connect, t.read, 150)
            w == LongestDetect(u.connect, u.read, 150)
<1>2. p \in Nat \ {0} /\ q \in Nat \ {0} /\ q <= p
  <2>1. p = (IF t.parallel >= 1 THEN t.parallel ELSE 1) /\ q = (IF u.parallel >= 1 THEN u.parallel ELSE 1)
    BY <1>1, MaxOfTwo DEF PermitsOf
  <2>. HIDE DEF p, q
  <2>. QED  BY <1>1, <2>1 DEF NoSlower
<1>3. a <= b /\ a \in Nat /\ b \in Nat
  <2>. HIDE DEF p, q
  <2>. QED  BY <1>2, RoundsShrink
<1>4. x <= y /\ x \in Nat /\ y \in Nat
  BY <1>1, ProbesGrow DEF NoSlower
<1>5. v <= w /\ v \in Nat /\ w \in Nat
  <2>1. t.connect <= u.connect /\ t.read <= u.read /\ 150 \in Nat
    BY DEF NoSlower
  <2>2. ASSUME NEW l \in Nat
        PROVE  /\ LongestDetect(t.connect, t.read, l) <= LongestDetect(u.connect, u.read, l)
               /\ LongestDetect(t.connect, t.read, l) \in Nat
               /\ LongestDetect(u.connect, u.read, l) \in Nat
    BY <1>1, <2>1, DetectsGrow
  <2>. QED  BY <2>1, <2>2
<1>6. Budget(t, n, open) = a * x + open * v /\ Budget(u, n, open) = b * y + open * w
  BY DEF Budget
<1>. HIDE DEF a, b, x, y, v, w
<1>7. a * x <= b * y /\ a * x \in Nat /\ b * y \in Nat
  BY <1>3, <1>4, ProductsGrow
<1>8. open * v <= open * w /\ open * v \in Nat /\ open * w \in Nat
  BY <1>5, ProductsGrow
<1>. QED  BY <1>6, <1>7, <1>8

(* The templates themselves: each is no slower than those below it.        *)
LEMMA TemplatesFaster ==
    ASSUME NEW high \in Nat, NEW low \in Levels, low <= high
    PROVE  NoSlower(Template(high), Template(low))
<1>. DEFINE i == IF high > 4 THEN 6 ELSE high + 1
            j == IF low > 4 THEN 6 ELSE low + 1
<1>1. i \in 1..6 /\ j \in 1..6 /\ j <= i
  BY DEF Levels
<1>2. \A k, l \in 1..6 : l <= k => NoSlower(Templates[k], Templates[l])
  <2>1. \A k \in 1..5 : NoSlower(Templates[k + 1], Templates[k])
    <3>1. /\ NoSlower(Templates[2], Templates[1]) /\ NoSlower(Templates[3], Templates[2])
          /\ NoSlower(Templates[4], Templates[3]) /\ NoSlower(Templates[5], Templates[4])
          /\ NoSlower(Templates[6], Templates[5])
      BY DEF NoSlower, Templates, Times
    <3>2. \A k \in 1..5 : k = 1 \/ k = 2 \/ k = 3 \/ k = 4 \/ k = 5
      OBVIOUS
    <3>. QED  BY <3>1, <3>2
  <2>2. \A k \in 1..6 : /\ Templates[k].parallel \in Nat /\ Templates[k].connect \in Nat
                        /\ Templates[k].read \in Nat /\ Templates[k].retries \in Nat
    BY DEF Templates, Times
  <2>3. \A k \in 1..6 : k = 1 \/ k = 2 \/ k = 3 \/ k = 4 \/ k = 5 \/ k = 6
    OBVIOUS
  <2>. QED  BY <2>1, <2>2, <2>3 DEF NoSlower
<1>. QED  BY <1>1, <1>2 DEF Template

(* With the same options over them too.                                    *)
LEMMA OverriddenFaster ==
    ASSUME CliInv, NEW t \in TimingType, NEW u \in TimingType, NoSlower(t, u)
    PROVE  NoSlower(Overridden(t), Overridden(u))
<1>1. \A s \in TimingType :
          /\ Overridden(s).parallel = NumberGiven("c", s.parallel)
          /\ Overridden(s).retries = NumberGiven("max-retries", s.retries)
          /\ Overridden(s).connect = s.connect /\ Overridden(s).read = s.read
  BY DEF Overridden, TimingType
<1>2. \A n \in Nat : NumberGiven("c", n) \in Nat /\ NumberGiven("max-retries", n) \in Nat
  BY DEF CliInv, NumberGiven, IsGiven, Numeric
<1>3. \A n, m \in Nat : n >= m => NumberGiven("c", n) >= NumberGiven("c", m)
  BY <1>2 DEF NumberGiven
<1>4. \A n, m \in Nat : n <= m => NumberGiven("max-retries", n) <= NumberGiven("max-retries", m)
  BY <1>2 DEF NumberGiven
<1>5. \A s \in TimingType : s.parallel \in Nat /\ s.retries \in Nat
  BY DEF TimingType
<1>6. NumberGiven("c", t.parallel) >= NumberGiven("c", u.parallel)
  BY <1>3, <1>5 DEF NoSlower
<1>7. NumberGiven("max-retries", t.retries) <= NumberGiven("max-retries", u.retries)
  BY <1>4, <1>5 DEF NoSlower
<1>. QED  BY <1>1, <1>6, <1>7 DEF NoSlower

LEMMA BuiltIsFaster ==
    ASSUME CliInv, PortTypeOK, TimingBuilt
    PROVE  HigherIsFaster
<1>. DEFINE level == NumberGiven("T", 3)
<1>1. level \in Nat
  BY DEF CliInv, NumberGiven, IsGiven, Numeric
<1>2. Len(ports) \in Nat
  BY LenProperties DEF PortTypeOK
<1>. HIDE DEF level
<1>3. ASSUME NEW low \in Levels, low <= level, NEW open \in {0, Len(ports)}, pc = "scanning"
      PROVE  Budget(timing, Len(ports), open) <= Budget(Overridden(Template(low)), Len(ports), open)
  <2>1. Template(level) \in TimingType /\ Template(low) \in TimingType
    BY <1>1, TemplatesTyped DEF Levels
  <2>2. NoSlower(Template(level), Template(low))
    BY <1>1, <1>3, TemplatesFaster
  <2>3. NoSlower(Overridden(Template(level)), Overridden(Template(low)))
    BY <2>1, <2>2, OverriddenFaster
  <2>4. Overridden(Template(level)) \in TimingType /\ Overridden(Template(low)) \in TimingType
    BY <2>1, OverriddenTyped
  <2>5. timing = Overridden(Template(level))
    BY <1>3 DEF TimingBuilt, level
  <2>6. open \in Nat
    BY <1>2
  <2>. QED  BY <1>2, <2>3, <2>4, <2>5, <2>6, BudgetShrinks
<1>. QED  BY <1>3 DEF HigherIsFaster, level

-----------------------------------------------------------------------------
(* What is typed where: the pieces of the arguments, and what clap makes of *)
(* them.                                                                   *)
Splits(n) == {i \in 1..n : IsSplit(i)}

(* An argument has one piece or two.                                       *)
LEMMA PiecesGrow ==
    /\ Pieces(0) = 0
    /\ \A n \in Nat : /\ Pieces(n) \in Nat
                      /\ Pieces(n + 1) = Pieces(n) + IF IsSplit(n + 1) THEN 2 ELSE 1
    /\ \A m, n \in Nat : m < n => Pieces(m) < Pieces(n)
<1>1. \A n \in Nat : IsFiniteSet(Splits(n)) /\ Cardinality(Splits(n)) \in Nat
                     /\ Pieces(n) = n + Cardinality(Splits(n))
  <2>. SUFFICES ASSUME NEW n \in Nat
                PROVE  IsFiniteSet(Splits(n)) /\ Cardinality(Splits(n)) \in Nat
                       /\ Pieces(n) = n + Cardinality(Splits(n))
    OBVIOUS
  <2>1. IsFiniteSet(1..n) /\ Splits(n) \in SUBSET (1..n)
    BY FS_Interval DEF Splits
  <2>2. IsFiniteSet(Splits(n))
    BY <2>1, FS_Subset
  <2>. QED  BY <2>2, FS_CardinalityType DEF Pieces, Splits
<1>2. Pieces(0) = 0
  <2>1. Splits(0) = {}
    BY DEF Splits
  <2>2. Cardinality(Splits(0)) = 0
    BY <2>1, FS_EmptySet
  <2>. QED  BY <1>1, <2>2
<1>3. ASSUME NEW n \in Nat
      PROVE  /\ Pieces(n + 1) = Pieces(n) + IF IsSplit(n + 1) THEN 2 ELSE 1
  <2>1. CASE IsSplit(n + 1)
    <3>1. Splits(n + 1) = Splits(n) \cup {n + 1} /\ n + 1 \notin Splits(n)
      BY <2>1 DEF Splits
    <3>2. Cardinality(Splits(n + 1)) = Cardinality(Splits(n)) + 1
      BY <1>1, <3>1, FS_AddElement
    <3>. QED  BY <1>1, <2>1, <3>2
  <2>2. CASE ~IsSplit(n + 1)
    <3>1. Splits(n + 1) = Splits(n)
      BY <2>2 DEF Splits
    <3>. QED  BY <1>1, <2>2, <3>1
  <2>. QED  BY <2>1, <2>2
<1>4. ASSUME NEW m \in Nat, NEW n \in Nat, m < n
      PROVE  Pieces(m) < Pieces(n)
  <2>1. Splits(m) \in SUBSET Splits(n)
    BY <1>4 DEF Splits
  <2>2. Cardinality(Splits(m)) <= Cardinality(Splits(n))
    BY <1>1, <2>1, FS_Subset
  <2>. QED  BY <1>1, <1>4, <2>2
<1>5. \A n \in Nat : Pieces(n) \in Nat
  BY <1>1
<1>. QED  BY <1>2, <1>3, <1>4, <1>5

(* clap is at the first piece of the argument after those it has dealt     *)
(* with.                                                                   *)
LEMMA AtFirstPiece ==
    ASSUME CliInv, RewrittenTo(Len(argv)), ClapHasMore,
           NEW j \in 0..Len(argv), read = Pieces(j)
    PROVE  /\ j + 1 \in 1..Len(argv) /\ argv[j + 1] # CutChar
           /\ ClapAt = FirstPiece(j + 1)
           /\ IsSplit(j + 1) => rewritten[read + 2] = Word(argv[j + 1].text)
           /\ Pieces(j + 1) = read + IF IsSplit(j + 1) THEN 2 ELSE 1
           /\ read + 1 <= Len(rewritten)
<1>1. Len(argv) \in Nat /\ Len(rewritten) \in Nat /\ read \in Nat
  BY ListDomain DEF CliInv
<1>2. j # Len(argv)
  BY <1>1 DEF RewrittenTo, ClapHasMore
<1>3. j + 1 \in 1..Len(argv) /\ j + 1 - 1 = j /\ j \in Nat
  BY <1>1, <1>2
<1>4. Pieces(j + 1) = read + IF IsSplit(j + 1) THEN 2 ELSE 1
  BY <1>3, PiecesGrow
<1>5. /\ argv[j + 1] # CutChar
      /\ rewritten[Pieces(j + 1 - 1) + 1] = FirstPiece(j + 1)
      /\ IsSplit(j + 1) => rewritten[Pieces(j + 1 - 1) + 2] = Word(argv[j + 1].text)
  BY <1>3 DEF RewrittenTo
<1>6. /\ rewritten[read + 1] = FirstPiece(j + 1)
      /\ IsSplit(j + 1) => rewritten[read + 2] = Word(argv[j + 1].text)
  BY <1>3, <1>5, Zenon
<1>7. read + 1 <= Len(rewritten)
  BY <1>1 DEF ClapHasMore
<1>. QED  BY <1>3, <1>4, <1>5, <1>6, <1>7 DEF ClapAt

(* Or at the text that was split off the last of them.                     *)
LEMMA AtSplitText ==
    ASSUME CliInv, RewrittenTo(Len(argv)), ClapHasMore,
           NEW j \in 1..Len(argv), read = Pieces(j - 1) + 1, IsSplit(j)
    PROVE  ClapAt = Word(argv[j].text) /\ Pieces(j) = read + 1
<1>1. j - 1 \in Nat /\ j - 1 + 1 = j /\ Pieces(j - 1) \in Nat
  BY PiecesGrow
<1>2. Pieces(j) = Pieces(j - 1) + 2
  BY <1>1, PiecesGrow
<1>. QED  BY <1>1, <1>2 DEF RewrittenTo, ClapAt

(* Words give no options.                                                  *)
LEMMA WordsGiveNothing ==
    ASSUME NEW j \in Nat, Taken(j), argv[j + 1].form = "word", UNCHANGED <<argv, options>>
    PROVE  Taken(j + 1)'
<1>1. FlagsTyped(j + 1)' = FlagsTyped(j)
  BY DEF FlagsTyped
<1>2. \A i \in 1..(j + 1) : i \in 1..j \/ i = j + 1
  OBVIOUS
<1>. QED  BY <1>1, <1>2 DEF Taken, TypedValue

(* An option that was not given before is given with its value.            *)
LEMMA OneMoreTaken ==
    ASSUME NEW j \in Nat, Taken(j), UNCHANGED argv,
           NEW flag, flag = argv[j + 1].flag, argv[j + 1].form # "word",
           NEW text, Given(flag, text), flag \notin DOMAIN options,
           flag \in Valued => text = TypedValue(j + 1)
    PROVE  Taken(j + 1)'
<1>1. FlagsTyped(j + 1)' = FlagsTyped(j) \cup {flag}
  <2>1. {k \in 1..(j + 1) : argv[k].form # "word"} = {k \in 1..j : argv[k].form # "word"} \cup {j + 1}
    OBVIOUS
  <2>. QED  BY <2>1 DEF FlagsTyped
<1>2. options' = [f \in DOMAIN options \cup {flag} |-> IF f = flag THEN text ELSE options[f]]
  BY DEF Given
<1>3. DOMAIN options' = FlagsTyped(j + 1)'
  BY <1>1, <1>2 DEF Taken
<1>4. ASSUME NEW i \in 1..(j + 1), argv[i].form # "word", argv[i].flag \in Valued
      PROVE  options'[argv[i].flag] = TypedValue(i)
  <2>1. CASE i = j + 1
    BY <1>2, <1>4, <2>1
  <2>2. CASE i \in 1..j
    <3>1. argv[i].flag \in DOMAIN options /\ options[argv[i].flag] = TypedValue(i)
      BY <1>4, <2>2 DEF Taken, FlagsTyped
    <3>. QED  BY <1>2, <3>1
  <2>. QED  BY <2>1, <2>2
<1>5. \A i \in 1..(j + 1) : TypedValue(i)' = TypedValue(i)
  BY DEF TypedValue
<1>. QED  BY <1>3, <1>4, <1>5 DEF Taken

(* The texts of strays stand in order.                                     *)
LEMMA OneMoreStray ==
    ASSUME NEW j \in Nat, UNCHANGED argv, targets = TextsAt(Strays(j))
    PROVE  /\ Stray(j + 1) /\ targets' = Append(targets, argv[j + 1].text)
                  => targets' = TextsAt(Strays(j + 1))'
           /\ ~Stray(j + 1) /\ UNCHANGED targets => targets' = TextsAt(Strays(j + 1))'
<1>. DEFINE S == Strays(j)
            A == Ascending(S)
            t == argv[j + 1].text
<1>1. S \in SUBSET (1..j)
  BY DEF Strays
<1>2. /\ A \in Seq(S) /\ DOMAIN A = 1..Cardinality(S) /\ Cardinality(S) \in Nat
      /\ \A k \in 1..Cardinality(S) : A[k] \in S
  BY <1>1, AscendingLists
<1>3. TextsAt(Strays(j + 1))' = TextsAt(Strays(j + 1))
  BY DEF TextsAt, Strays, Stray, IsValueAt
<1>4. CASE ~Stray(j + 1)
  <2>1. Strays(j + 1) = Strays(j)
    BY <1>4 DEF Strays
  <2>. QED  BY <1>3, <1>4, <2>1
<1>5. CASE Stray(j + 1)
  <2>1. Strays(j + 1) = S \cup {j + 1}
    BY <1>5 DEF Strays
  <2>. HIDE DEF S, A
  <2>2. Ascending(S \cup {j + 1}) = Append(A, j + 1)
    BY <1>1, AscendingLast DEF A
  <2>3. TextsAt(S \cup {j + 1}) = Append(TextsAt(S), t)
    <3>. DEFINE B == Append(A, j + 1)
                X == [k \in DOMAIN A |-> argv[A[k]].text]
                Y == [k \in DOMAIN B |-> argv[B[k]].text]
                V == {argv[k].text : k \in 1..(j + 1)}
                Z == Append(X, t)
    <3>1. TextsAt(S) = X
      BY DEF TextsAt, A
    <3>2. TextsAt(S \cup {j + 1}) = Y
      BY <2>2 DEF TextsAt
    <3>3. Len(A) = Cardinality(S)
      BY <1>2, LenProperties
    <3>. DEFINE c == Cardinality(S)
    <3>4. /\ B \in Seq(1..(j + 1)) /\ DOMAIN B = 1..(c + 1)
          /\ B[c + 1] = j + 1 /\ \A k \in 1..c : B[k] = A[k]
      <4>1. A \in Seq(1..(j + 1)) /\ j + 1 \in 1..(j + 1)
        <5>1. S \subseteq 1..(j + 1)
          BY <1>1
        <5>2. j + 1 \in 1..(j + 1)
          OBVIOUS
        <5>. QED  BY <1>2, <5>1, <5>2, SeqMonotonic, Zenon
      <4>2. /\ B \in Seq(1..(j + 1)) /\ Len(B) = c + 1
            /\ B[c + 1] = j + 1 /\ \A k \in 1..c : B[k] = A[k]
        BY <3>3, <4>1, AppendProperties
      <4>. HIDE DEF B
      <4>. QED  BY <4>2, LenProperties
    <3>. HIDE DEF B, c
    <3>5. X \in Seq(V) /\ Len(X) = c
      <4>1. X \in [1..c -> V]
        <5>1. \A k \in DOMAIN A : A[k] \in 1..(j + 1)
          <6>1. S \subseteq 1..(j + 1)
            BY <1>1
          <6>. QED  BY <1>2, <6>1
        <5>2. \A k \in DOMAIN A : argv[A[k]].text \in V
          BY <5>1
        <5>. HIDE DEF V
        <5>. QED  BY <1>2, <5>2 DEF c
      <4>2. X \in Seq(V) /\ DOMAIN X = 1..c /\ c \in Nat
        <5>1. DOMAIN X = 1..c /\ c \in Nat
          BY <1>2 DEF c
        <5>. HIDE DEF X, c
        <5>. QED  BY <4>1, <5>1, SeqDef
      <4>. HIDE DEF X
      <4>. QED  BY <4>2, LenProperties
    <3>6. /\ Z \in Seq(V) /\ Len(Z) = c + 1 /\ Z[c + 1] = t
          /\ \A k \in 1..c : Z[k] = X[k]
      <4>1. t \in V
        OBVIOUS
      <4>. HIDE DEF X, V, t
      <4>. QED  BY <3>5, <4>1, AppendProperties
    <3>7. Y \in Seq(V) /\ Len(Y) = c + 1
      <4>1. \A k \in 1..(c + 1) : B[k] \in 1..(j + 1)
        BY <3>4, ElementOfSeq, LenProperties
      <4>2. Y \in [1..(c + 1) -> V]
        BY <3>4, <4>1
      <4>3. Y \in Seq(V) /\ DOMAIN Y = 1..(c + 1) /\ c + 1 \in Nat
        <5>1. DOMAIN Y = 1..(c + 1) /\ c + 1 \in Nat
          BY <1>2, <3>4 DEF c
        <5>. HIDE DEF Y, c
        <5>. QED  BY <4>2, <5>1, SeqDef
      <4>. HIDE DEF Y
      <4>. QED  BY <4>3, LenProperties
    <3>8. ASSUME NEW k \in 1..(c + 1)
          PROVE  Y[k] = Z[k]
      <4>1. Y[k] = argv[B[k]].text
        BY <3>4
      <4>2. CASE k = c + 1
        BY <3>4, <3>6, <4>1, <4>2
      <4>3. CASE k \in 1..c
        <5>1. X[k] = argv[A[k]].text
          BY <1>2, <4>3 DEF c
        <5>. HIDE DEF X, Y, Z
        <5>. QED  BY <3>4, <3>6, <4>1, <4>3, <5>1
      <4>. QED  BY <1>2, <4>2, <4>3 DEF c
    <3>. HIDE DEF X, Y, Z, V
    <3>9. Y = Z
      BY <3>6, <3>7, <3>8, SeqEqual
    <3>. QED  BY <3>1, <3>2, <3>9 DEF Z
  <2>. QED  BY <1>3, <1>5, <2>1, <2>3 DEF S
<1>. QED  BY <1>4, <1>5

(* What the first piece of an argument tells of it.                        *)
LEMMA PieceTells ==
    ASSUME NEW i, NEW piece, piece = FirstPiece(i)
    PROVE  /\ piece.form = "word" => argv[i] = piece /\ ~IsSplit(i)
           /\ piece.form # "word" => argv[i].form # "word" /\ argv[i].flag = piece.flag
           /\ IsSplit(i) => /\ piece.text = NoText /\ argv[i].text # NoText
                            /\ argv[i].form \in {"short", "long"}
           /\ ~IsSplit(i) => argv[i].text = piece.text
           /\ piece.form \in {"short", "long"} => argv[i].form \in {"short", "long"}
<1>1. CASE IsCompound(argv[i])
  <2>. DEFINE long == Long(argv[i].flag, NoText)
  <2>1. long.form = "long" /\ long.flag = argv[i].flag /\ long.text = NoText
    BY DEF Long
  <2>2. piece = long
    BY <1>1 DEF FirstPiece
  <2>3. argv[i].form = "short"
    BY <1>1 DEF IsCompound
  <2>. HIDE DEF long
  <2>. QED  BY <1>1, <2>1, <2>2, <2>3 DEF IsSplit
<1>2. CASE ~IsCompound(argv[i])
  BY <1>2 DEF FirstPiece, IsSplit
<1>. QED  BY <1>1, <1>2

LEMMA OneIsPieces ==
    ASSUME NEW i, NEW S, FirstPiece(i) \in S, IsSplit(i) => Word(argv[i].text) \in S
    PROVE  LET one == RewriteOne(argv[i])
           IN /\ one \in Seq(S)
              /\ Len(one) = IF IsSplit(i) THEN 2 ELSE 1
              /\ one[1] = FirstPiece(i)
              /\ IsSplit(i) => one[2] = Word(argv[i].text)
<1>. DEFINE first == FirstPiece(i)
            word == Word(argv[i].text)
<1>1. IsSplit(i) => RewriteOne(argv[i]) = <<first, word>>
  BY DEF IsSplit, RewriteOne, FirstPiece
<1>2. ~IsSplit(i) => RewriteOne(argv[i]) = <<first>>
  BY DEF IsSplit, RewriteOne, FirstPiece
<1>. HIDE DEF first, word
<1>0. first \in S /\ (IsSplit(i) => word \in S)
  BY DEF first, word
<1>3. CASE IsSplit(i)
  <2>1. /\ RewriteOne(argv[i]) \in Seq(S) /\ Len(RewriteOne(argv[i])) = 2
        /\ RewriteOne(argv[i])[1] = first /\ RewriteOne(argv[i])[2] = word
    <3>1. RewriteOne(argv[i]) = <<first, word>> /\ first \in S /\ word \in S
      BY <1>0, <1>1, <1>3
    <3>. QED  BY <3>1
  <2>. QED  BY <1>3, <2>1, Zenon DEF first, word
<1>4. CASE ~IsSplit(i)
  <2>1. /\ RewriteOne(argv[i]) \in Seq(S) /\ Len(RewriteOne(argv[i])) = 1
        /\ RewriteOne(argv[i])[1] = first
    <3>1. RewriteOne(argv[i]) = <<first>> /\ first \in S
      BY <1>0, <1>2, <1>4
    <3>. QED  BY <3>1
  <2>. QED  BY <1>4, <2>1 DEF first
<1>. QED  BY <1>3, <1>4

LEMMA RewriteKeepsPieces ==
    ASSUME CliInv, NEW n \in Nat, read = n, RewrittenTo(n), Rewrite
    PROVE  RewrittenTo(n + 1)'
<1>. DEFINE one == RewriteOne(argv[n + 1])
            S == Range(rewritten) \cup {FirstPiece(n + 1), Word(argv[n + 1].text)}
<1>1. /\ n \in Nat /\ n < Len(argv) /\ argv[n + 1] # CutChar
      /\ rewritten' = rewritten \o one /\ UNCHANGED argv /\ read' = n + 1
  BY DEF Rewrite, CliInv
<1>2. /\ one \in Seq(S) /\ Len(one) = IF IsSplit(n + 1) THEN 2 ELSE 1
      /\ one[1] = FirstPiece(n + 1)
      /\ IsSplit(n + 1) => one[2] = Word(argv[n + 1].text)
  <2>1. FirstPiece(n + 1) \in S /\ Word(argv[n + 1].text) \in S
    OBVIOUS
  <2>. HIDE DEF S
  <2>. QED  BY <2>1, OneIsPieces
<1>3. rewritten \in Seq(S) /\ Len(rewritten) = Pieces(n)
  <2>1. rewritten \in Seq(Range(rewritten)) /\ Range(rewritten) \subseteq S
    BY DEF CliInv, IsList
  <2>2. Len(rewritten) = Pieces(n)
    BY DEF RewrittenTo
  <2>. HIDE DEF S
  <2>. QED  BY <2>1, <2>2, SeqMonotonic
<1>4. Pieces(n) \in Nat /\ Pieces(n + 1) = Pieces(n) + IF IsSplit(n + 1) THEN 2 ELSE 1
  BY <1>1, PiecesGrow
<1>. HIDE DEF S, one
<1>5. /\ Len(rewritten') = Pieces(n + 1)
      /\ \A k \in 1..Pieces(n) : rewritten'[k] = rewritten[k]
      /\ rewritten'[Pieces(n) + 1] = FirstPiece(n + 1)
      /\ IsSplit(n + 1) => rewritten'[Pieces(n) + 2] = Word(argv[n + 1].text)
  <2>1. /\ Len(rewritten \o one) = Len(rewritten) + Len(one)
        /\ \A k \in 1..(Len(rewritten) + Len(one)) :
              (rewritten \o one)[k] = IF k <= Len(rewritten) THEN rewritten[k]
                                                            ELSE one[k - Len(rewritten)]
    BY <1>2, <1>3, ConcatProperties
  <2>. DEFINE p == Pieces(n)
              both == rewritten \o one
              l == Len(one)
  <2>2. /\ Len(both) = p + l /\ p \in Nat /\ l = IF IsSplit(n + 1) THEN 2 ELSE 1
        /\ \A k \in 1..(p + l) : both[k] = IF k <= p THEN rewritten[k] ELSE one[k - p]
    BY <1>2, <1>3, <1>4, <2>1
  <2>3. rewritten' = both
    BY <1>1
  <2>4. Pieces(n + 1) = p + l
    BY <1>4, <2>2
  <2>. HIDE DEF p, both, l
  <2>5. \A k \in 1..p : both[k] = rewritten[k]
    BY <2>2
  <2>6. p + 1 - p = 1 /\ p + 2 - p = 2
    BY <2>2
  <2>7. both[p + 1] = one[1]
    BY <2>2, <2>6
  <2>8. IsSplit(n + 1) => both[p + 2] = one[2]
    BY <2>2, <2>6
  <2>. QED  BY <1>2, <2>2, <2>3, <2>4, <2>5, <2>7, <2>8 DEF p
<1>6. ASSUME NEW i \in 1..(n + 1)
      PROVE  /\ argv[i] # CutChar
             /\ rewritten'[Pieces(i - 1) + 1] = FirstPiece(i)
             /\ IsSplit(i) => rewritten'[Pieces(i - 1) + 2] = Word(argv[i].text)
  <2>1. CASE i = n + 1
    <3>1. i - 1 = n
      BY <2>1
    <3>. QED  BY <1>1, <1>5, <2>1, <3>1, Zenon
  <2>2. CASE i \in 1..n
    <3>1. /\ argv[i] # CutChar
          /\ rewritten[Pieces(i - 1) + 1] = FirstPiece(i)
          /\ IsSplit(i) => rewritten[Pieces(i - 1) + 2] = Word(argv[i].text)
      BY <2>2 DEF RewrittenTo
    <3>2. Pieces(i) <= Pieces(n)
      <4>1. i = n \/ i < n
        BY <1>1, <2>2
      <4>2. Pieces(i) \in Nat /\ (i < n => Pieces(i) < Pieces(n))
        BY <2>2, PiecesGrow
      <4>. QED  BY <1>4, <4>1, <4>2
    <3>3. /\ i - 1 \in Nat /\ i - 1 + 1 = i /\ Pieces(i - 1) \in Nat
      BY <2>2, PiecesGrow
    <3>4. Pieces(i) = Pieces(i - 1) + IF IsSplit(i) THEN 2 ELSE 1
      BY <3>3, PiecesGrow
    <3>5. Pieces(i - 1) + 1 \in 1..Pieces(n)
          /\ (IsSplit(i) => Pieces(i - 1) + 2 \in 1..Pieces(n))
      BY <1>4, <3>2, <3>3, <3>4
    <3>. QED  BY <1>5, <3>1, <3>5
  <2>3. i = n + 1 \/ i \in 1..n
    OBVIOUS
  <2>. QED  BY <2>1, <2>2, <2>3, Zenon
<1>7. /\ Pieces(n + 1)' = Pieces(n + 1)
      /\ \A i \in 1..(n + 1) : /\ Pieces(i - 1)' = Pieces(i - 1) /\ IsSplit(i)' = IsSplit(i)
                               /\ FirstPiece(i)' = FirstPiece(i)
  BY <1>1 DEF Pieces, IsSplit, FirstPiece
<1>. QED  BY <1>1, <1>5, <1>6, <1>7 DEF RewrittenTo

(* From the beginning of an argument.                                      *)
LEMMA FromBetween ==
    ASSUME CliInv, RewrittenTo(Len(argv)), NEW j \in 0..Len(argv), Between(j),
           TakesPositional \/ TakesSwitch \/ TakesAttached \/ TakesNext
    PROVE  Onward'
<1>. DEFINE i == j + 1
            piece == ClapAt
<1>1. /\ ClapHasMore /\ UNCHANGED <<argv, rewritten>>
      /\ Len(argv) \in Nat /\ read \in Nat /\ j \in Nat /\ i \in Nat
      /\ read = Pieces(j) /\ Taken(j) /\ targets = TextsAt(Strays(j)) /\ (j > 0 => ~Awaits(j))
  BY ListDomain DEF CliInv, Between, TakesPositional, TakesSwitch, TakesAttached, TakesNext
<1>2. /\ i \in 1..Len(argv) /\ argv[i] # CutChar /\ piece = FirstPiece(i)
      /\ IsSplit(i) => rewritten[read + 2] = Word(argv[i].text)
      /\ Pieces(i) = read + IF IsSplit(i) THEN 2 ELSE 1
  BY <1>1, AtFirstPiece
<1>3. /\ piece.form = "word" => argv[i] = piece /\ ~IsSplit(i)
      /\ piece.form # "word" => argv[i].form # "word" /\ argv[i].flag = piece.flag
      /\ IsSplit(i) => /\ piece.text = NoText /\ argv[i].text # NoText
                       /\ argv[i].form \in {"short", "long"}
      /\ ~IsSplit(i) => argv[i].text = piece.text
      /\ piece.form \in {"short", "long"} => argv[i].form \in {"short", "long"}
  <2>. HIDE DEF i, piece
  <2>. QED  BY <1>2, PieceTells
<1>. HIDE DEF piece
<1>4. \A k \in Nat : /\ Pieces(k)' = Pieces(k) /\ (Awaits(k)' <=> Awaits(k))
                     /\ (IsSplit(k)' <=> IsSplit(k)) /\ Strays(k)' = Strays(k)
                     /\ TextsAt(Strays(k))' = TextsAt(Strays(k))
  BY <1>1 DEF Pieces, IsSplit, Awaits, Strays, Stray, IsValueAt, TextsAt
<1>5. /\ Switches \cap Valued = {}
  BY DEF Switches, Valued, Numeric
<1>6. ASSUME read' = Pieces(i), Taken(i)', targets' = TextsAt(Strays(i))', ~Awaits(i)
      PROVE  Onward'
  <2>1. Between(i)'
    BY <1>1, <1>4, <1>6 DEF Between
  <2>. QED  BY <1>1, <1>2, <2>1 DEF Onward
<1>7. CASE TakesPositional
  <2>1. /\ piece.form = "word" /\ targets' = Append(targets, piece.text)
        /\ read' = read + 1 /\ UNCHANGED options
    BY <1>7 DEF TakesPositional, piece
  <2>2. argv[i] = piece /\ argv[i].form = "word" /\ ~Awaits(i)
    BY <1>3, <2>1 DEF Awaits
  <2>3. ~IsValueAt(i) /\ Stray(i)
    <3>1. i - 1 = j
      OBVIOUS
    <3>2. i > 1 => ~Awaits(i - 1)
      BY <1>1, <3>1
    <3>. QED  BY <2>2, <3>2 DEF IsValueAt, Awaits, Stray
  <2>4. Taken(i)'
    BY <1>1, <2>1, <2>2, WordsGiveNothing
  <2>5. targets' = TextsAt(Strays(i))'
    BY <1>1, <2>1, <2>2, <2>3, OneMoreStray
  <2>. QED  BY <1>2, <1>3, <1>6, <2>1, <2>2, <2>4, <2>5
<1>8. CASE TakesSwitch
  <2>1. /\ piece.form # "word" /\ piece.flag \in Switches \ DOMAIN options /\ piece.text = NoText
        /\ Given(piece.flag, NoText) /\ read' = read + 1 /\ UNCHANGED targets
    BY <1>8 DEF TakesSwitch, IsSwitch, IsNewFlag, piece
  <2>2. argv[i].form # "word" /\ argv[i].flag = piece.flag /\ piece.flag \notin Valued /\ ~Awaits(i)
    BY <1>3, <1>5, <2>1 DEF Awaits
  <2>3. Taken(i)'
    BY <1>1, <2>1, <2>2, OneMoreTaken
  <2>4. CASE IsSplit(i)
    <3>1. i - 1 = j
      OBVIOUS
    <3>2. Midway(i)'
      BY <1>1, <1>2, <1>4, <2>1, <2>2, <2>3, <2>4, <3>1 DEF Midway
    <3>. QED  BY <1>1, <1>2, <3>2 DEF Onward
  <2>5. CASE ~IsSplit(i)
    <3>1. ~Stray(i)
      BY <1>3, <2>1, <2>2, <2>5 DEF Stray
    <3>2. targets' = TextsAt(Strays(i))'
      BY <1>1, <2>1, <3>1, OneMoreStray
    <3>. QED  BY <1>2, <1>6, <2>1, <2>2, <2>3, <2>5, <3>2
  <2>. QED  BY <2>4, <2>5
<1>9. CASE TakesAttached
  <2>1. /\ piece.form # "word" /\ piece.flag \in Valued \ DOMAIN options /\ piece.text # NoText
        /\ Given(piece.flag, piece.text) /\ read' = read + 1 /\ UNCHANGED targets
    BY <1>9 DEF TakesAttached, AttachedValue, IsNewFlag, piece
  <2>2. /\ argv[i].form # "word" /\ argv[i].flag = piece.flag /\ piece.flag \notin Switches
        /\ ~IsSplit(i) /\ argv[i].text = piece.text /\ ~Awaits(i) /\ ~Stray(i)
    BY <1>3, <1>5, <2>1 DEF Awaits, Stray
  <2>3. piece.text = TypedValue(i)
    BY <2>1, <2>2 DEF TypedValue
  <2>4. Taken(i)'
    BY <1>1, <2>1, <2>2, <2>3, OneMoreTaken
  <2>5. targets' = TextsAt(Strays(i))'
    BY <1>1, <2>1, <2>2, OneMoreStray
  <2>. QED  BY <1>2, <1>6, <2>1, <2>2, <2>4, <2>5
<1>10. CASE TakesNext
  <2>. DEFINE next == rewritten[read + 2]
  <2>1. /\ piece.form # "word" /\ piece.flag \in Valued \ DOMAIN options /\ piece.text = NoText
        /\ piece.form \in {"short", "long"}
        /\ read + 2 <= Len(rewritten) /\ next.form = "word"
        /\ Given(piece.flag, next.text) /\ read' = read + 2 /\ UNCHANGED targets
    BY <1>10 DEF TakesNext, NextValue, IsNewFlag, piece
  <2>. HIDE DEF next
  <2>2. /\ argv[i].form \in {"short", "long"} /\ argv[i].flag = piece.flag
        /\ piece.flag \notin Switches /\ ~Stray(i)
    BY <1>3, <1>5, <2>1 DEF Stray
  <2>3. CASE IsSplit(i)
    <3>1. next.text = TypedValue(i) /\ ~Awaits(i)
      BY <1>2, <1>3, <2>3 DEF TypedValue, Word, next, Awaits
    <3>2. Taken(i)'
      BY <1>1, <2>1, <2>2, <3>1, OneMoreTaken
    <3>3. targets' = TextsAt(Strays(i))'
      BY <1>1, <2>1, <2>2, OneMoreStray
    <3>. QED  BY <1>2, <1>6, <2>1, <2>3, <3>1, <3>2, <3>3
  <2>4. CASE ~IsSplit(i)
    <3>. DEFINE n == i + 1
    <3>1. i # Len(argv)
      BY <1>1, <1>2, <2>1, <2>4 DEF RewrittenTo
    <3>2. n \in 1..Len(argv) /\ n - 1 = i
      BY <1>1, <1>2, <3>1
    <3>3. /\ next = FirstPiece(n) /\ Pieces(n) = Pieces(i) + IF IsSplit(n) THEN 2 ELSE 1
      <4>1. rewritten[Pieces(n - 1) + 1] = FirstPiece(n)
        BY <3>2 DEF RewrittenTo
      <4>2. Pieces(n - 1) + 1 = read + 2
        BY <1>1, <1>2, <2>4, <3>2
      <4>. QED  BY <1>1, <3>2, <4>1, <4>2, PiecesGrow DEF next
    <3>4. argv[n] = next /\ ~IsSplit(n)
      BY <2>1, <3>3, PieceTells
    <3>5. argv[i].text = NoText /\ next.text = TypedValue(i)
      BY <1>3, <2>1, <2>4, <3>4 DEF TypedValue
    <3>6. IsValueAt(n) /\ ~Stray(n) /\ ~Awaits(n)
      BY <1>1, <2>1, <2>2, <3>2, <3>4, <3>5 DEF IsValueAt, Stray, Awaits
    <3>7. Taken(n)'
      <4>1. DOMAIN options' = FlagsTyped(i)' /\ Taken(i)'
        BY <1>1, <2>1, <2>2, <3>5, OneMoreTaken DEF Taken
      <4>2. FlagsTyped(n)' = FlagsTyped(i)'
        BY <1>1, <2>1, <3>4 DEF FlagsTyped
      <4>3. \A k \in 1..n : k \in 1..i \/ k = n
        BY <1>1
      <4>. QED  BY <1>1, <2>1, <3>4, <4>1, <4>2, <4>3 DEF Taken
    <3>8. targets' = TextsAt(Strays(n))'
      <4>1. targets' = TextsAt(Strays(i))'
        BY <1>1, <2>1, <2>2, OneMoreStray
      <4>2. targets = TextsAt(Strays(i))
        BY <1>1, <1>4, <2>1, <4>1
      <4>. QED  BY <1>1, <2>1, <3>6, <4>2, OneMoreStray
    <3>9. Between(n)'
      BY <1>1, <1>2, <1>4, <2>1, <2>4, <3>2, <3>3, <3>4, <3>6, <3>7, <3>8 DEF Between
    <3>. QED  BY <1>1, <3>2, <3>9 DEF Onward
  <2>. QED  BY <2>3, <2>4
<1>. QED  BY <1>7, <1>8, <1>9, <1>10

(* From the middle of an argument: the text split off a switch.            *)
LEMMA FromMidway ==
    ASSUME CliInv, RewrittenTo(Len(argv)), NEW j \in 1..Len(argv), Midway(j),
           TakesPositional \/ TakesSwitch \/ TakesAttached \/ TakesNext
    PROVE  Onward'
<1>1. /\ ClapHasMore /\ UNCHANGED <<argv, rewritten>> /\ Len(argv) \in Nat
      /\ read = Pieces(j - 1) + 1 /\ IsSplit(j) /\ argv[j].flag \in Switches
      /\ Taken(j) /\ targets = TextsAt(Strays(j - 1)) /\ j - 1 \in Nat /\ j - 1 + 1 = j
  BY ListDomain DEF CliInv, Midway, TakesPositional, TakesSwitch, TakesAttached, TakesNext
<1>2. ClapAt = Word(argv[j].text) /\ Pieces(j) = read + 1
  BY <1>1, AtSplitText
<1>3. ClapAt.form = "word" /\ ClapAt.text = argv[j].text
  BY <1>2 DEF Word
<1>4. TakesPositional
  BY <1>3 DEF TakesSwitch, TakesAttached, TakesNext, IsSwitch, AttachedValue, NextValue, IsNewFlag
<1>5. targets' = Append(targets, argv[j].text) /\ read' = read + 1 /\ UNCHANGED options
  BY <1>3, <1>4 DEF TakesPositional
<1>6. Stray(j) /\ ~Awaits(j)
  BY <1>1 DEF Stray, Awaits, IsSplit, IsCompound
<1>7. targets' = TextsAt(Strays(j))'
  BY <1>1, <1>5, <1>6, OneMoreStray
<1>8. Between(j)'
  BY <1>1, <1>2, <1>5, <1>6, <1>7 DEF Between, Taken, FlagsTyped, TypedValue, Awaits, Pieces, IsSplit
<1>. QED  BY <1>1, <1>8 DEF Onward

(* clap reads on.                                                          *)
LEMMA ClapReadsOn ==
    ASSUME CliInv, RewrittenTo(Len(argv)), Onward,
           TakesPositional \/ TakesSwitch \/ TakesAttached \/ TakesNext
    PROVE  RewrittenTo(Len(argv))' /\ Onward' /\ cliPc' = "clap"
<1>1. cliPc = "clap" /\ UNCHANGED <<cliPc, argv, rewritten>>
  BY DEF ClapHasMore, TakesPositional, TakesSwitch, TakesAttached, TakesNext
<1>2. RewrittenTo(Len(argv))'
  BY <1>1 DEF RewrittenTo, Pieces, IsSplit, FirstPiece
<1>3. CASE \E j \in 0..Len(argv) : Between(j)
  BY <1>1, <1>2, <1>3, FromBetween
<1>4. CASE \E j \in 1..Len(argv) : Midway(j)
  BY <1>1, <1>2, <1>4, FromMidway
<1>. QED  BY <1>1, <1>2, <1>3, <1>4 DEF Onward

(* When nothing is left all arguments have been dealt with.                *)
LEMMA AllAreDealtWith ==
    ASSUME CliInv, RewrittenTo(Len(argv)), Onward, read = Len(rewritten)
    PROVE  Between(Len(argv))
<1>1. Len(argv) \in Nat /\ read = Pieces(Len(argv))
  BY ListDomain DEF CliInv, RewrittenTo
<1>2. ASSUME NEW j \in 0..Len(argv), Between(j)
      PROVE  j = Len(argv)
  <2>1. j < Len(argv) => Pieces(j) < Pieces(Len(argv))
    BY <1>1, PiecesGrow
  <2>2. Pieces(j) = Pieces(Len(argv)) /\ Pieces(j) \in Nat
    BY <1>1, <1>2, PiecesGrow DEF Between
  <2>. QED  BY <1>1, <2>1, <2>2
<1>3. ASSUME NEW j \in 1..Len(argv), Midway(j)
      PROVE  FALSE
  <2>1. /\ read = Pieces(j - 1) + 1 /\ IsSplit(j)
        /\ j - 1 \in Nat /\ j - 1 + 1 = j /\ j \in Nat
    BY <1>3 DEF Midway
  <2>2. Pieces(j) = read + 1 /\ read \in Nat /\ Pieces(j) \in Nat
    <3>1. Pieces(j - 1) \in Nat
      BY <2>1, PiecesGrow
    <3>2. Pieces(j) = Pieces(j - 1) + 2
      BY <2>1, PiecesGrow
    <3>. QED  BY <2>1, <3>1, <3>2
  <2>3. j < Len(argv) => Pieces(j) < Pieces(Len(argv))
    BY <1>1, <2>1, PiecesGrow
  <2>4. j = Len(argv) \/ j < Len(argv)
    BY <1>1
  <2>. QED  BY <1>1, <2>2, <2>3, <2>4
<1>. QED  BY <1>2, <1>3 DEF Onward

LEMMA NoStrays ==
    TextsAt({}) = <<>>
<1>1. Cardinality({}) = 0
  BY FS_EmptySet
<1>2. DOMAIN Ascending({}) = {}
  BY <1>1 DEF Ascending
<1>3. TextsAt({}) = [k \in {} |-> argv[Ascending({})[k]].text]
  BY <1>2 DEF TextsAt
<1>4. TextsAt({}) \in Seq({}) /\ DOMAIN TextsAt({}) = 1..0
  <2>1. 1..0 = {}
    OBVIOUS
  <2>2. TextsAt({}) \in [{} -> {}] /\ DOMAIN TextsAt({}) = {}
    BY <1>3
  <2>. QED  BY <2>1, <2>2, SeqDef
<1>5. Len(TextsAt({})) = 0
  BY <1>4, LenProperties
<1>. QED  BY <1>4, <1>5, EmptySeq

LEMMA ClapInvStarts ==
    ASSUME CliInv, cliPc = "rewrite", read = 0, rewritten = <<>>, DOMAIN options = {},
           targets = <<>>
    PROVE  ClapInv
<1>1. RewrittenTo(0)
  <2>1. Len(rewritten) = 0
    BY EmptySeq
  <2>. QED  BY <2>1, PiecesGrow DEF RewrittenTo
<1>. QED  BY <1>1 DEF ClapInv, AsTaken

LEMMA CliStepKeepsClapInv ==
    ASSUME CliInv, ClapInv, CliStep
    PROVE  ClapInv'
<1>1. CASE Rewrite
  <2>1. /\ cliPc = "rewrite" /\ cliPc' = "rewrite" /\ read \in Nat /\ read' = read + 1
        /\ UNCHANGED <<options, targets>>
    BY <1>1 DEF Rewrite, CliInv
  <2>2. \A n \in Nat : read = n => RewrittenTo(n + 1)'
    BY <1>1, <2>1, RewriteKeepsPieces DEF ClapInv
  <2>3. \A n \in Nat : read' = n + 1 /\ RewrittenTo(n + 1)' => RewrittenTo(read)'
    BY DEF RewrittenTo
  <2>4. RewrittenTo(read)'
    BY <2>1, <2>2, <2>3
  <2>. QED  BY <2>1, <2>4 DEF ClapInv, AsTaken
<1>2. CASE RewritePanics \/ Refuses
  BY <1>2 DEF RewritePanics, Refuses, ClapInv, AsTaken
<1>3. CASE AllRewritten
  <2>1. /\ cliPc = "rewrite" /\ cliPc' = "clap" /\ read = Len(argv) /\ read' = 0
        /\ UNCHANGED <<argv, rewritten, options, targets>>
    BY <1>3 DEF AllRewritten
  <2>2. RewrittenTo(Len(argv)) /\ DOMAIN options = {} /\ targets = <<>>
    BY <2>1 DEF ClapInv
  <2>3. RewrittenTo(Len(argv))'
    BY <2>1, <2>2 DEF RewrittenTo, Pieces, IsSplit, FirstPiece
  <2>4. Between(0)'
    <3>1. Taken(0)'
      BY <2>1, <2>2 DEF Taken, FlagsTyped
    <3>2. Strays(0)' = {} /\ TextsAt({})' = TextsAt({})
      BY <2>1 DEF Strays, TextsAt
    <3>3. targets' = TextsAt(Strays(0))'
      <4>1. TextsAt(Strays(0))' = TextsAt({})'
        BY <3>2 DEF TextsAt
      <4>. QED  BY <2>1, <2>2, <3>2, <4>1, NoStrays
    <3>4. Pieces(0)' = 0
      BY <2>1, PiecesGrow DEF Pieces, IsSplit
    <3>. QED  BY <2>1, <3>1, <3>3, <3>4 DEF Between
  <2>5. 0 \in 0..Len(argv)
    BY ListDomain DEF CliInv
  <2>. QED  BY <2>1, <2>3, <2>4, <2>5 DEF ClapInv, Onward, AsTaken
<1>4. CASE TakesPositional \/ TakesSwitch \/ TakesAttached \/ TakesNext
  <2>1. cliPc = "clap"
    BY <1>4 DEF ClapHasMore, TakesPositional, TakesSwitch, TakesAttached, TakesNext
  <2>2. RewrittenTo(Len(argv))' /\ Onward' /\ cliPc' = "clap"
    BY <1>4, <2>1, ClapReadsOn DEF ClapInv
  <2>. QED  BY <2>2 DEF ClapInv, AsTaken
<1>5. CASE AllTaken
  <2>1. /\ cliPc = "clap" /\ cliPc' = "parsed" /\ read = Len(rewritten)
        /\ UNCHANGED <<argv, options, targets>>
    BY <1>5 DEF AllTaken
  <2>2. Between(Len(argv))
    BY <2>1, AllAreDealtWith DEF ClapInv
  <2>3. Taken(Len(argv))' /\ targets' = TextsAt(Strays(Len(argv)))'
    <3>1. Taken(Len(argv)) /\ targets = TextsAt(Strays(Len(argv)))
      BY <2>2 DEF Between
    <3>. QED  BY <2>1, <3>1 DEF Taken, FlagsTyped, TypedValue, TextsAt, Strays, Stray, IsValueAt
  <2>. QED  BY <2>1, <2>3 DEF ClapInv, AsTaken
<1>. QED  BY <1>1, <1>2, <1>3, <1>4, <1>5 DEF CliStep

LEMMA ClapUntouched ==
    ASSUME ClapInv, UNCHANGED cliVars
    PROVE  ClapInv'
<1>1. UNCHANGED <<cliPc, argv, read, rewritten, options, targets>>
  BY DEF cliVars
<1>2. AsTaken'
  BY <1>1 DEF ClapInv, AsTaken, Taken, FlagsTyped, TypedValue, TextsAt, Strays, Stray, IsValueAt
<1>3. /\ RewrittenTo(read)' <=> RewrittenTo(read)
      /\ RewrittenTo(Len(argv))' <=> RewrittenTo(Len(argv))
  BY <1>1 DEF RewrittenTo, Pieces, IsSplit, FirstPiece
<1>4. Onward' <=> Onward
  BY <1>1 DEF Onward, Between, Midway, Taken, FlagsTyped, TypedValue, TextsAt, Strays, Stray,
              IsValueAt, Awaits, Pieces, IsSplit
<1>. QED  BY <1>1, <1>2, <1>3, <1>4 DEF ClapInv

-----------------------------------------------------------------------------
LEMMA InitInv == Init => IInv
<1>. SUFFICES ASSUME Init  PROVE IInv
  OBVIOUS
<1>1. /\ argv \in CommandLines /\ read = 0 /\ rewritten = <<>> /\ options = <<>>
      /\ portPc = "idle" /\ set = {} /\ walked = 0 /\ ports = <<>>
      /\ pc = "command line" /\ targetPc = "idle" /\ addrs = <<>> /\ targets = <<>>
      /\ cliPc = "rewrite" /\ chunks = <<>> /\ wanted = 0 /\ permits = 0 /\ timing = Template(3)
  BY DEF Init, CliInit, PortInit, TargetInit
<1>2. IsList(argv) /\ \A arg \in Range(argv) : IsArgument(arg)
  BY <1>1, CommandLinesAssumption
<1>3. IsList(rewritten) /\ Range(rewritten) = {}
  <2>1. rewritten \in Seq({})
    BY <1>1, EmptySeq
  <2>. QED  BY <2>1, SeqIsList
<1>4. DOMAIN options = {}
  <2>1. options \in Seq({}) /\ Len(options) = 0
    BY <1>1, EmptySeq
  <2>2. DOMAIN options = 1..0
    BY <2>1, LenProperties
  <2>. QED  BY <2>2
<1>5. CliInv
  <2>1. targets \in Seq({})
    BY <1>1, EmptySeq
  <2>2. IsList(targets) /\ Range(targets) = {}
    BY <2>1, SeqIsList
  <2>. QED  BY <1>1, <1>2, <1>3, <1>4, <2>2 DEF CliInv
<1>6. PortInv
  <2>1. walked \in 0..Len(TopTable)
    <3>1. walked = 0 /\ Len(TopTable) \in Nat
      BY <1>1, TableIsFinite
    <3>. QED  BY <3>1
  <2>. QED  BY <1>1, <2>1 DEF PortInv, ListRead
<1>7. MainInv
  <2>1. Template(3) \in TimingType
    BY TemplatesTyped
  <2>2. permits \in 0..MaxPermits
    <3>1. 0 \in 0..MaxPermits
      BY StartupAssumption
    <3>. QED  BY <1>1, <3>1, Zenon
  <2>. QED  BY <1>1, <2>1, <2>2 DEF MainInv, TimingBuilt
<1>8. TargetInv
  BY <1>1, EmptySeq DEF TargetInv, TargetsDenoted
<1>9. PortTypeOK
  <2>1. walked \in 0..Len(TopTable)
    BY <1>6 DEF PortInv
  <2>2. ports \in Seq(1..MaxPort) /\ Range(chunks) = {}
    <3>1. chunks \in Seq({}) /\ ports \in Seq(1..MaxPort)
      BY <1>1, EmptySeq
    <3>2. Range(chunks) \subseteq {}
      BY <3>1, SeqIsList
    <3>. QED  BY <3>1, <3>2
  <2>. QED  BY <1>1, <2>1, <2>2 DEF PortTypeOK
<1>10. CliTyped
  <2>1. Range(targets) = {} /\ Range(options) = {}
    <3>1. targets \in Seq({})
      BY <1>1, EmptySeq
    <3>2. Range(targets) = {}
      BY <3>1, SeqIsList
    <3>. QED  BY <1>4, <3>2 DEF Range
  <2>2. Len(argv) \in Nat /\ Len(rewritten) \in Nat
    BY <1>2, <1>3, ListDomain
  <2>3. read \in 0..Max({Len(argv), Len(rewritten)}) /\ read <= Len(argv)
    <3>1. read = 0
      BY <1>1, Zenon
    <3>2. Max({Len(argv), Len(rewritten)}) \in Nat
      BY <2>2, MaxOfTwo
    <3>. QED  BY <2>2, <3>1, <3>2
  <2>. QED  BY <1>1, <1>3, <1>4, <2>1, <2>3 DEF CliTyped, CliTypeOK
<1>11. ClapInv
  BY <1>1, <1>4, <1>5, ClapInvStarts
<1>. QED  BY <1>5, <1>6, <1>7, <1>8, <1>9, <1>10, <1>11 DEF IInv

(* What the options leave alone keeps the invariant of the command line.   *)
LEMMA CliUntouched ==
    ASSUME CliInv, UNCHANGED cliVars
    PROVE  CliInv' /\ UNCHANGED <<options, targets>> /\ (CliTyped => CliTyped') /\ (ClapInv => ClapInv')
BY ClapUntouched DEF CliInv, CliTyped, CliTypeOK, TypedTexts, cliVars

(* What the options ask of the timing stays, and a scan begins with it.    *)
LEMMA TimingKept ==
    ASSUME TimingBuilt, UNCHANGED <<timing, options>>,
           pc' = pc \/ pc = "timing"
    PROVE  TimingBuilt'
BY DEF TimingBuilt, Overridden, NumberGiven, IsGiven

LEMMA PortTypesUntouched ==
    ASSUME PortTypeOK, UNCHANGED portVars
    PROVE  PortTypeOK'
BY DEF PortTypeOK, portVars

(* A list of ports or the top of the table is begun with.                  *)
LEMMA PickPortsKeepsInv ==
    ASSUME IInv, PickPorts
    PROVE  PortInv'
<1>1. /\ pc = "targets" /\ portPc = "idle" /\ UNCHANGED cliVars
      /\ CliInv /\ PortInv /\ UNCHANGED options
  BY CliUntouched DEF PickPorts, IInv, MainInv
<1>2. set = {} /\ walked = 0 /\ ports = <<>> /\ walked \in 0..Len(TopTable)
  BY <1>1 DEF PortInv
<1>3. CASE IsGiven("p")
  <2>1. /\ portPc' = "parsing" /\ chunks' = Typed
        /\ UNCHANGED <<set, walked, wanted, ports>>
    BY <1>3 DEF PickPorts, ParsePorts, Typed
  <2>2. "p" \in DOMAIN options \cap Valued
    BY <1>3 DEF IsGiven, Valued
  <2>3. IsText(options["p"])
    BY <1>1, <2>2 DEF CliInv
  <2>4. IsList(Typed) /\ \A c \in Range(Typed) : IsChunk(c)
    BY <2>3 DEF IsText, Typed
  <2>5. ParseInv'
    BY <1>1, <1>2, <1>3, <2>1, <2>4 DEF ParseInv, IsGiven, Typed, Meant, AllSound
  <2>. QED  BY <1>2, <2>1, <2>5 DEF PortInv, ListRead
<1>4. CASE ~IsGiven("p")
  <2>1. /\ portPc' = "walking" /\ wanted' = Most
        /\ UNCHANGED <<chunks, set, walked, ports>>
    BY <1>4 DEF PickPorts, TopPorts, Most
  <2>2. SeenOfTable(0) = {}
    BY DEF SeenOfTable
  <2>3. ports' \in Seq(1..MaxPort) /\ IsInjective(ports') /\ Range(ports') = {}
    BY <1>2, <2>1 DEF IsInjective, Range
  <2>4. Most' = Most /\ ~IsGiven("p")'
    BY <1>1, <1>4 DEF Most, NumberGiven, IsGiven
  <2>5. WalkInv'
    BY <1>2, <2>1, <2>2, <2>3, <2>4 DEF WalkInv
  <2>. QED  BY <1>2, <2>1, <2>5 DEF PortInv, ListRead
<1>. QED  BY <1>3, <1>4

LEMMA PickPortsKeepsTypes ==
    ASSUME CliInv, PortTypeOK, PickPorts
    PROVE  PortTypeOK'
<1>1. CASE IsGiven("p")
  <2>1. /\ portPc' = "parsing" /\ chunks' = Typed
        /\ UNCHANGED <<set, walked, wanted, ports>>
    BY <1>1 DEF PickPorts, ParsePorts, Typed
  <2>2. "p" \in DOMAIN options \cap Valued
    BY <1>1 DEF IsGiven, Valued
  <2>3. \A c \in Range(Typed) : IsChunk(c)
    BY <2>2 DEF CliInv, IsText, Typed
  <2>. QED  BY <2>1, <2>3 DEF PortTypeOK
<1>2. CASE ~IsGiven("p")
  <2>1. /\ portPc' = "walking" /\ wanted' = Most /\ UNCHANGED <<chunks, set, walked, ports>>
    BY <1>2 DEF PickPorts, TopPorts, Most
  <2>2. Most \in Nat
    BY DEF Most, NumberGiven, IsGiven, CliInv, Numeric
  <2>. QED  BY <2>1, <2>2 DEF PortTypeOK
<1>. QED  BY <1>1, <1>2

LEMMA NextKeepsInv == IInv /\ [Next]_vars => IInv'
<1>. SUFFICES ASSUME IInv, [Next]_vars  PROVE IInv'
  OBVIOUS
<1>. USE DEF IInv
<1>1. CASE ReadCommandLine
  <2>1. pc = "command line" /\ UNCHANGED <<targetVars, portVars, pc, timing, permits>> /\ CliInv' /\ CliTyped' /\ ClapInv'
    BY <1>1, CliStepKeepsInv, CliStepKeepsTypes, CliStepKeepsClapInv DEF ReadCommandLine
  <2>2. portPc = "idle" /\ UNCHANGED <<portPc, set, walked, ports>>
    BY <2>1 DEF MainInv, portVars
  <2>3. PortInv' /\ PortTypeOK'
    BY <2>1, <2>2, PortTypesUntouched DEF PortInv, ListRead
  <2>4. TargetInv'
    <3>1. UNCHANGED <<targetPc, addrs>> /\ targetPc = "idle"
      BY <2>1 DEF MainInv, targetVars
    <3>. QED  BY <3>1 DEF TargetInv, TargetsDenoted
  <2>. QED  BY <2>1, <2>2, <2>3, <2>4 DEF MainInv, TimingBuilt, targetVars
<1>2. CASE CommandLineFails \/ NoTargets \/ TargetsFail \/ PortsFail \/ SemaphorePanics
  <2>1. /\ UNCHANGED <<cliVars, targetVars, portVars, timing, permits>>
        /\ pc' \in {"usage", "panicked", "error"}
    BY <1>2 DEF CommandLineFails, NoTargets, TargetsFail, PortsFail, SemaphorePanics
  <2>2. CliInv' /\ CliTyped' /\ ClapInv' /\ TargetInv' /\ PortInv' /\ PortTypeOK'
    BY <2>1, CliUntouched, TargetsUntouched, PortsUntouched, PortTypesUntouched
  <2>. QED  BY <2>1, <2>2 DEF MainInv, TimingBuilt, targetVars, portVars, Ends
<1>3. CASE ResolveTargets
  <2>1. /\ UNCHANGED <<cliVars, portVars, timing, permits, addrs>>
        /\ pc = "command line" /\ pc' = "targets" /\ targetPc' = "expanding"
    BY <1>3 DEF ResolveTargets, ParseTargets
  <2>2. CliInv' /\ CliTyped' /\ ClapInv' /\ TargetInv' /\ PortInv' /\ PortTypeOK'
    BY <1>3, <2>1, CliUntouched, ResolveKeepsInv, PortsUntouched, PortTypesUntouched
  <2>. QED  BY <2>1, <2>2 DEF MainInv, TimingBuilt, portVars
<1>4. CASE ExpandTargets
  <2>1. /\ UNCHANGED <<cliVars, portVars, pc, timing, permits>>
        /\ pc = "targets" /\ TargetStep(~IsGiven("n"))
    BY <1>4 DEF ExpandTargets
  <2>2. CliInv' /\ CliTyped' /\ ClapInv' /\ PortInv' /\ PortTypeOK'
    BY <2>1, CliUntouched, PortsUntouched, PortTypesUntouched
  <2>3. TargetInv'
    <3>1. TargetStep(Resolved) /\ UNCHANGED <<options, targets>>
      BY <2>1, CliUntouched DEF Resolved
    <3>. QED  BY <3>1, ExpandOneKeepsInv, RefuseOneKeepsInv, AllExpandedKeepsInv DEF TargetStep
  <2>. QED  BY <2>1, <2>2, <2>3 DEF MainInv, TimingBuilt, portVars
<1>5. CASE PickPorts
  <2>1. /\ UNCHANGED <<cliVars, targetVars, timing, permits>>
        /\ targetPc = "ok" /\ pc' = "ports"
    BY <1>5 DEF PickPorts
  <2>2. CliInv' /\ CliTyped' /\ ClapInv' /\ TargetInv' /\ PortInv' /\ PortTypeOK'
    BY <1>5, <2>1, CliUntouched, TargetsUntouched, PickPortsKeepsInv, PickPortsKeepsTypes
  <2>. QED  BY <2>1, <2>2 DEF MainInv, TimingBuilt, targetVars
<1>6. CASE ListPorts
  <2>1. /\ UNCHANGED <<cliVars, targetVars, pc, timing, permits>>
        /\ pc = "ports" /\ PortStep
    BY <1>6 DEF ListPorts
  <2>2. CliInv' /\ CliTyped' /\ ClapInv' /\ TargetInv' /\ PortInv' /\ PortTypeOK'
    BY <2>1, CliUntouched, TargetsUntouched, PortStepKeepsInv, PortStepKeepsTypes
  <2>. QED  BY <2>1, <2>2 DEF MainInv, TimingBuilt, targetVars
<1>7. CASE BuildTiming
  <2>1. /\ UNCHANGED <<cliVars, targetVars, portVars, permits>>
        /\ pc = "ports" /\ portPc = "ok" /\ pc' = "timing"
    BY <1>7 DEF BuildTiming
  <2>2. CliInv' /\ CliTyped' /\ ClapInv' /\ TargetInv' /\ PortInv' /\ PortTypeOK' /\ timing' \in TimingType
    BY <1>7, <2>1, CliUntouched, TargetsUntouched, PortsUntouched, PortTypesUntouched, BuildTimingTyped
  <2>3. TimingBuilt'
    BY <1>7, <2>1, CliUntouched DEF BuildTiming, TimingBuilt, Overridden, NumberGiven, IsGiven
  <2>. QED  BY <2>1, <2>2, <2>3 DEF MainInv, targetVars, portVars
<1>8. CASE BeginScan
  <2>1. /\ UNCHANGED <<cliVars, targetVars, portVars, timing>>
        /\ pc = "timing" /\ pc' = "scanning" /\ permits' = Max({timing.parallel, 1})
    BY <1>8 DEF BeginScan, PermitsOf
  <2>2. CliInv' /\ CliTyped' /\ ClapInv' /\ TargetInv' /\ PortInv' /\ PortTypeOK'
    BY <2>1, CliUntouched, TargetsUntouched, PortsUntouched, PortTypesUntouched
  <2>3. timing.parallel \in Nat
    BY DEF MainInv, TimingType
  <2>4. permits' >= 1 /\ permits' \in 0..MaxPermits
    <3>1. permits' <= MaxPermits
      BY <1>8 DEF BeginScan, PermitsOf
    <3>. QED  BY <2>1, <2>3, <3>1, MaxOfTwo, StartupAssumption
  <2>5. TimingBuilt'
    BY <2>1, CliUntouched, TimingKept DEF MainInv
  <2>. QED  BY <2>1, <2>2, <2>4, <2>5 DEF MainInv, targetVars, portVars, Ends
<1>9. CASE Ended \/ UNCHANGED vars
  <2>1. UNCHANGED <<cliVars, targetVars, portVars, pc, timing, permits>>
    BY <1>9 DEF Ended, vars
  <2>2. CliInv' /\ CliTyped' /\ ClapInv' /\ TargetInv' /\ PortInv' /\ PortTypeOK'
    BY <2>1, CliUntouched, TargetsUntouched, PortsUntouched, PortTypesUntouched
  <2>3. TimingBuilt'
    BY <2>1, CliUntouched, TimingKept DEF MainInv
  <2>. QED  BY <2>1, <2>2, <2>3 DEF MainInv, targetVars, portVars
<1>. QED  BY <1>1, <1>2, <1>3, <1>4, <1>5, <1>6, <1>7, <1>8, <1>9 DEF Next

(* The inductive invariant: values of options are typed, a list is read    *)
(* chunk by chunk without losing its meaning, and each part of main() ends *)
(* before the next begins.                                                 *)
THEOREM StartupInvariant == Spec => []IInv
<1>. QED  BY InitInv, NextKeepsInv, PTL DEF Spec

(* The state of startup keeps its type.                                    *)
THEOREM TypeCorrect == Spec => []TypeOK
<1>1. IInv => TypeOK
  BY TimingFields DEF IInv, CliTyped, TargetInv, TargetTypeOK, MainInv, TypeOK
<1>. QED  BY <1>1, StartupInvariant, PTL

(* A scan that begins has what ScanEngine assumes: targets, distinct ports *)
(* and a permit, whatever was typed.                                       *)
THEOREM ScanMayBegin == Spec => []EngineAssumptionsMet
<1>1. IInv => EngineAssumptionsMet
  BY DEF IInv, TargetInv, PortInv, MainInv, EngineAssumptionsMet
<1>. QED  BY <1>1, StartupInvariant, PTL

(* What was read is what the list means: n >= 1 ports of --top-ports n,    *)
(* if the table has as many.                                               *)
LEMMA ListsDenoted ==
    ASSUME CliInv, ListRead
    PROVE  PortsDenoted
<1>1. Most \in Nat
  BY DEF Most, NumberGiven, IsGiven, CliInv, Numeric
<1>2. Most >= 1 => Max({Most, 1}) = Most
  BY <1>1, MaxOfTwo
<1>3. (portPc = "ok" /\ ~IsGiven("p")) =>
          /\ Most >= 1 => Len(ports) = Min({Most, Known})
          /\ \E k \in DOMAIN TopTable : Range(ports) = Range(SubSeq(TopTable, 1, k))
  BY <1>2, Zenon DEF ListRead
<1>4. /\ (portPc = "ok" /\ IsGiven("p")) =>
             /\ AllSound(Typed)
             /\ Range(ports) = Meant
             /\ \A i, j \in DOMAIN ports : i < j => ports[i] < ports[j]
      /\ (portPc = "error") => ~AllSound(Typed) \/ Meant = {}
  BY Zenon DEF ListRead
<1>. QED  BY <1>3, <1>4, Zenon DEF PortsDenoted, AllSound, Typed, Meant, Most, Known

(* A list of ports is read as what it means, all 65535 of them or any      *)
(* other number, and the walk of the table gives the top n for every n but *)
(* 0.                                                                      *)
THEOREM PortsAreDenoted == Spec => []PortsDenoted
<1>1. IInv => PortsDenoted
  BY ListsDenoted DEF IInv, PortInv
<1>. QED  BY <1>1, StartupInvariant, PTL

(* The targets are the addresses the arguments stand for, in order, for    *)
(* blocks, ranges, literals and names alike and addresses of any length.   *)
THEOREM TargetsAreDenoted == Spec => []TargetsDenoted
<1>1. IInv => TargetsDenoted
  BY DEF IInv, TargetInv
<1>. QED  BY <1>1, StartupInvariant, PTL

(* Where nothing follows a switch, a target is what stands on its own.     *)
LEMMA TargetsStandAlone ==
    ASSUME NothingAfterSwitches
    PROVE  TextsAt(Strays(Len(argv))) = TargetsTypedOut \/ DOMAIN argv # 1..Len(argv)
<1>. SUFFICES ASSUME DOMAIN argv = 1..Len(argv)
     PROVE  TextsAt(Strays(Len(argv))) = TargetsTypedOut
  OBVIOUS
<1>. DEFINE A == Strays(Len(argv))
            B == {i \in DOMAIN argv : argv[i].form = "word" /\ ~IsValueAt(i)}
<1>1. \A i \in DOMAIN argv : Stray(i) <=> argv[i].form = "word" /\ ~IsValueAt(i)
  BY DEF NothingAfterSwitches, Stray
<1>2. A = B
  BY <1>1 DEF Strays
<1>3. TextsAt(B) = TargetsTypedOut
  BY DEF TextsAt, TargetsTypedOut
<1>. HIDE DEF A, B
<1>. QED  BY <1>2, <1>3 DEF A

LEMMA TakenAsTyped ==
    ASSUME CliInv, AsTaken
    PROVE  AsTyped
<1>. SUFFICES ASSUME cliPc = "parsed"  PROVE AsTyped
  BY DEF AsTyped
<1>1. DOMAIN argv = 1..Len(argv)
  BY ListDomain DEF CliInv
<1>2. targets = TextsAt(Strays(Len(argv)))
  BY DEF AsTaken
<1>3. NothingAfterSwitches => targets = TargetsTypedOut
  BY <1>1, <1>2, TargetsStandAlone
<1>. QED  BY <1>1, <1>3 DEF AsTaken, Taken, FlagsTyped, AsTyped

(* The value of an option is the one typed after it, no option is given    *)
(* that was not typed, and what stands on its own is a target, for any     *)
(* command line without letters after a switch.                            *)
THEOREM ArgumentsAreAsTyped == Spec => []AsTyped
<1>1. IInv => AsTyped
  BY TakenAsTyped DEF IInv, ClapInv
<1>. QED  BY <1>1, StartupInvariant, PTL

(* A higher timing level costs a host no more time than a lower one, with  *)
(* any -c and --max-retries put over both, for any number of ports.        *)
THEOREM HigherLevelsAreFaster == Spec => []HigherIsFaster
<1>1. IInv => HigherIsFaster
  BY BuiltIsFaster DEF IInv, MainInv
<1>. QED  BY <1>1, StartupInvariant, PTL
=============================================================================
