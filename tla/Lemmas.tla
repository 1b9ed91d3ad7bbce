------------------------------- MODULE Lemmas -------------------------------
(***************************************************************************)
(* What several of the proof modules rest on: sets of numbers, folds of    *)
(* sequences, and the flattening of sequences of sequences.                *)
(***************************************************************************)
EXTENDS Integers, Sequences, SequencesExt, SequenceTheorems, NaturalsInduction,
    WellFoundedInduction, TLAPS

(* Every set of natural numbers that is not empty has a least one.         *)
LEMMA LeastNumber ==
    ASSUME NEW T \in SUBSET Nat, T # {}
    PROVE  \E x \in T : \A y \in T : x <= y
<1>1. IsWellFoundedOn(OpToRel(<, Nat), Nat)
  BY NatLessThanWellFounded
<1>2. PICK x \in T : \A y \in T : ~ (<<y, x>> \in OpToRel(<, Nat))
  BY <1>1, WFMin
<1>3. \A y \in T : ~(y < x)
  BY <1>2 DEF OpToRel
<1>. QED  BY <1>3

(* Induction, for a set of numbers in place of a predicate.                *)
LEMMA AllNumbers ==
    ASSUME NEW T, 0 \in T, \A n \in Nat : n \in T => n + 1 \in T
    PROVE  Nat \subseteq T
<1>. SUFFICES ASSUME Nat \ T # {}  PROVE FALSE
  OBVIOUS
<1>1. PICK x \in Nat \ T : \A y \in Nat \ T : x <= y
  BY LeastNumber
<1>2. x # 0 /\ x - 1 \in Nat /\ x - 1 \in T
  BY <1>1
<1>3. x - 1 + 1 \in T /\ x - 1 + 1 = x
  BY <1>2
<1>. QED  BY <1>3

-----------------------------------------------------------------------------
(* Folds.                                                                  *)

LEMMA Greatest ==
    ASSUME NEW n \in Nat, NEW s \in SUBSET (1..n), s # {}
    PROVE  Max(s) \in s /\ \A y \in s : Max(s) >= y
<1>. DEFINE T == {n - y : y \in s}
<1>0. \A y \in s : y \in Nat /\ n - y \in Nat
  OBVIOUS
<1>1. T \in SUBSET Nat /\ T # {}
  BY <1>0, Zenon
<1>2. PICK t \in T : \A y \in T : t <= y
  <2>. HIDE DEF T
  <2>. QED  BY <1>1, LeastNumber
<1>3. PICK x \in s : t = n - x
  BY <1>2
<1>4. \A y \in s : x >= y
  <2>1. \A y \in s : n - x <= n - y
    BY <1>2, <1>3, Zenon
  <2>2. ASSUME NEW y \in Nat, n - x <= n - y
        PROVE  x >= y
    <3>1. x \in Nat
      BY <1>0
    <3>. QED  BY <2>2, <3>1
  <2>. QED  BY <1>0, <2>1, <2>2
<1>. QED  BY <1>4, Zenon DEF Max

(* The recursion of FoldLeft: it folds the elements at any set of places,  *)
(* the last of them last.                                                  *)
FoldsUp(g, step, base, n) ==
    g = [s \in SUBSET (1..n) |-> IF s = {} THEN base ELSE step[Max(s)][g[s \ {Max(s)}]]]

LEMMA FoldExists ==
    ASSUME NEW V, NEW base \in V, NEW n \in Nat, NEW step, \A i \in 1..n : step[i] \in [V -> V]
    PROVE  \E g \in [SUBSET (1..n) -> V] : FoldsUp(g, step, base, n)
<1>. DEFINE T == {m \in Nat : m <= n => \E g \in [SUBSET (1..m) -> V] : FoldsUp(g, step, base, m)}
<1>1. 0 \in T
  <2>. DEFINE g == [s \in SUBSET (1..0) |-> base]
  <2>1. \A s \in SUBSET (1..0) : s = {}
    OBVIOUS
  <2>2. g \in [SUBSET (1..0) -> V]
    OBVIOUS
  <2>3. g = [s \in SUBSET (1..0) |-> IF s = {} THEN base ELSE step[Max(s)][g[s \ {Max(s)}]]]
    BY <2>1, Zenon
  <2>4. FoldsUp(g, step, base, 0)
    BY <2>3, Zenon DEF FoldsUp
  <2>. QED  BY <2>2, <2>4
<1>2. ASSUME NEW m \in Nat, m \in T
      PROVE  m + 1 \in T
  <2>. SUFFICES ASSUME m + 1 <= n
                PROVE  \E h \in [SUBSET (1..(m + 1)) -> V] : FoldsUp(h, step, base, m + 1)
    <3>1. m + 1 \in Nat
      OBVIOUS
    <3>. QED  BY <3>1, Zenon
  <2>1. PICK g \in [SUBSET (1..m) -> V] : FoldsUp(g, step, base, m)
    <3>1. m <= n
      OBVIOUS
    <3>. QED  BY <1>2, <3>1, Zenon
  <2>. DEFINE h == [s \in SUBSET (1..(m + 1)) |->
                       IF m + 1 \in s THEN step[m + 1][g[s \ {m + 1}]] ELSE g[s]]
              body(s) == IF s = {} THEN base ELSE step[Max(s)][h[s \ {Max(s)}]]
  <2>2. \A s \in SUBSET (1..(m + 1)) :
            /\ s \ {m + 1} \in SUBSET (1..m)
            /\ m + 1 \notin s => s \in SUBSET (1..m)
    OBVIOUS
  <2>3. \A s \in SUBSET (1..m) :
            /\ s \in SUBSET (1..(m + 1)) /\ m + 1 \notin s
            /\ g[s] = IF s = {} THEN base ELSE step[Max(s)][g[s \ {Max(s)}]]
    <3>1. \A s \in SUBSET (1..m) : s \in SUBSET (1..(m + 1)) /\ m + 1 \notin s
      OBVIOUS
    <3>2. \A s \in SUBSET (1..m) : g[s] = IF s = {} THEN base ELSE step[Max(s)][g[s \ {Max(s)}]]
      BY <2>1, Zenon DEF FoldsUp
    <3>. QED  BY <3>1, <3>2
  <2>4. \A s \in SUBSET (1..m) : h[s] = g[s]
    BY <2>3
  <2>5. ASSUME NEW s \in SUBSET (1..(m + 1))
        PROVE  h[s] = body(s) /\ h[s] \in V
    <3>1. CASE m + 1 \in s
      <4>1. Max(s) = m + 1
        <5>1. m + 1 \in Nat /\ s # {}
          BY <3>1
        <5>2. Max(s) \in s /\ \A y \in s : Max(s) >= y
          BY <5>1, Greatest
        <5>3. Max(s) \in 1..(m + 1) /\ Max(s) >= m + 1
          BY <3>1, <5>2
        <5>. QED  BY <5>3
      <4>2. h[s] = step[m + 1][g[s \ {m + 1}]]
        BY <3>1
      <4>3. g[s \ {m + 1}] = h[s \ {m + 1}] /\ g[s \ {m + 1}] \in V
        BY <2>1, <2>2, <2>4
      <4>4. step[m + 1] \in [V -> V]
        OBVIOUS
      <4>. HIDE DEF h
      <4>. QED  BY <3>1, <4>1, <4>2, <4>3, <4>4
    <3>2. CASE m + 1 \notin s
      <4>1. s \in SUBSET (1..m)
        BY <2>2, <3>2
      <4>2. h[s] = g[s] /\ g[s] \in V
        BY <2>1, <2>4, <4>1
      <4>3. CASE s = {}
        BY <2>3, <4>1, <4>2, <4>3
      <4>4. CASE s # {}
        <5>1. g[s] = step[Max(s)][g[s \ {Max(s)}]]
          BY <2>3, <4>1, <4>4
        <5>2. s \ {Max(s)} \in SUBSET (1..m)
          BY <4>1
        <5>3. h[s \ {Max(s)}] = g[s \ {Max(s)}]
          BY <2>4, <5>2
        <5>. HIDE DEF h
        <5>. QED  BY <4>2, <4>4, <5>1, <5>3
      <4>. QED  BY <4>3, <4>4
    <3>. QED  BY <3>1, <3>2
  <2>6. h = [s \in SUBSET (1..(m + 1)) |-> h[s]]
    OBVIOUS
  <2>7. h = [s \in SUBSET (1..(m + 1)) |-> body(s)]
    <3>1. [s \in SUBSET (1..(m + 1)) |-> h[s]] = [s \in SUBSET (1..(m + 1)) |-> body(s)]
      BY <2>5, Zenon
    <3>. QED  BY <2>6, <3>1, Zenon
  <2>8. h \in [SUBSET (1..(m + 1)) -> V]
    BY <2>5
  <2>. QED  BY <2>7, <2>8 DEF FoldsUp
<1>. HIDE DEF T
<1>3. n \in T
  BY <1>1, <1>2, AllNumbers
<1>4. n <= n
  OBVIOUS
<1>. QED  BY <1>3, <1>4, Zenon DEF T

(* The first k places: the fold takes one element after the other.         *)
LEMMA FirstPlaces ==
    ASSUME NEW n \in Nat
    PROVE  /\ 1..0 = {} /\ 1..0 \in SUBSET (1..n)
           /\ \A k \in 1..n : /\ 1..k \in SUBSET (1..n) /\ 1..k # {}
                              /\ Max(1..k) = k /\ (1..k) \ {k} = 1..(k - 1)
<1>1. ASSUME NEW k \in 1..n
      PROVE  /\ 1..k \in SUBSET (1..n) /\ 1..k # {}
             /\ Max(1..k) = k /\ (1..k) \ {k} = 1..(k - 1)
  <2>1. 1..k \in SUBSET (1..n) /\ k \in 1..k /\ (1..k) \ {k} = 1..(k - 1)
    OBVIOUS
  <2>. DEFINE s == 1..k
  <2>2. s \in SUBSET (1..n) /\ s # {} /\ k \in s /\ \A y \in s : y <= k /\ y \in Int
    BY <2>1
  <2>. HIDE DEF s
  <2>3. Max(s) \in s /\ \A y \in s : Max(s) >= y
    BY <2>2, Greatest
  <2>4. Max(s) = k
    <3>1. Max(s) \in Int /\ Max(s) <= k /\ Max(s) >= k
      BY <2>2, <2>3
    <3>. QED  BY <3>1
  <2>. QED  BY <2>1, <2>4 DEF s
<1>. QED  BY <1>1

(* The sum of a sequence of numbers.                                       *)
Sum(seq) == FoldLeft(LAMBDA sum, x : sum + x, 0, seq)

LEMMA SumIs ==
    ASSUME NEW n \in Nat, NEW seq \in [1..n -> Nat]
    PROVE  \E sums \in [0..n -> Nat] :
               /\ sums[0] = 0
               /\ \A k \in 1..n : sums[k] = sums[k - 1] + seq[k]
               /\ Sum(seq) = sums[n]
<1>. DEFINE step == [i \in 1..n |-> [v \in Nat |-> v + seq[i]]]
            good(g) == g = [s \in SUBSET DOMAIN seq |->
                               IF s = {} THEN 0 ELSE g[s \ {Max(s)}] + seq[Max(s)]]
            iter == CHOOSE g : good(g)
<1>1. \A i \in 1..n : step[i] \in [Nat -> Nat] /\ \A v \in Nat : step[i][v] = v + seq[i]
  OBVIOUS
<1>2. PICK g \in [SUBSET (1..n) -> Nat] : FoldsUp(g, step, 0, n)
  <2>. HIDE DEF step
  <2>. QED  BY <1>1, FoldExists
<1>. HIDE DEF step
<1>3. good(g)
  <2>1. g = [s \in SUBSET (1..n) |-> IF s = {} THEN 0 ELSE step[Max(s)][g[s \ {Max(s)}]]]
    BY <1>2 DEF FoldsUp
  <2>2. ASSUME NEW s \in SUBSET (1..n), s # {}
        PROVE  step[Max(s)][g[s \ {Max(s)}]] = g[s \ {Max(s)}] + seq[Max(s)]
    <3>1. Max(s) \in 1..n
      BY <2>2, Greatest
    <3>2. g[s \ {Max(s)}] \in Nat
      BY <1>2
    <3>. QED  BY <1>1, <3>1, <3>2
  <2>3. [s \in SUBSET (1..n) |-> IF s = {} THEN 0 ELSE step[Max(s)][g[s \ {Max(s)}]]]
        = [s \in SUBSET (1..n) |-> IF s = {} THEN 0 ELSE g[s \ {Max(s)}] + seq[Max(s)]]
    BY <2>2, Zenon
  <2>4. DOMAIN seq = 1..n
    OBVIOUS
  <2>. QED  BY <2>1, <2>3, <2>4, Zenon
<1>4. good(iter)
  BY <1>3, Zenon
<1>5. Sum(seq) = iter[DOMAIN seq]
  BY DEF Sum, FoldLeft, MapThenFoldSet
<1>. HIDE DEF iter
<1>6. \A s \in SUBSET (1..n) : iter[s] = IF s = {} THEN 0 ELSE iter[s \ {Max(s)}] + seq[Max(s)]
  <2>1. DOMAIN seq = 1..n
    OBVIOUS
  <2>. QED  BY <1>4, <2>1, Zenon
<1>. DEFINE sums == [k \in 0..n |-> iter[1..k]]
<1>7. sums[0] = 0
  <2>1. 0 \in 0..n
    OBVIOUS
  <2>. QED  BY <1>6, <2>1, FirstPlaces, Zenon
<1>8. ASSUME NEW k \in 1..n
      PROVE  sums[k] = sums[k - 1] + seq[k]
  <2>1. k \in 0..n /\ k - 1 \in 0..n
    OBVIOUS
  <2>2. iter[1..k] = iter[1..(k - 1)] + seq[k]
    BY <1>6, FirstPlaces, Zenon
  <2>. QED  BY <2>1, <2>2, Zenon
<1>9. Sum(seq) = sums[n]
  <2>1. n \in 0..n /\ DOMAIN seq = 1..n
    OBVIOUS
  <2>. QED  BY <1>5, <2>1, Zenon
<1>10. sums \in [0..n -> Nat]
  <2>. DEFINE T == {k \in Nat : k <= n => sums[k] \in Nat}
  <2>1. 0 \in T
    BY <1>7
  <2>2. ASSUME NEW k \in Nat, k \in T
        PROVE  k + 1 \in T
    <3>. SUFFICES ASSUME k + 1 <= n  PROVE sums[k + 1] \in Nat
      OBVIOUS
    <3>1. k + 1 \in 1..n /\ k + 1 - 1 = k /\ k <= n
      OBVIOUS
    <3>2. sums[k + 1] = sums[k] + seq[k + 1]
      <4>. HIDE DEF sums
      <4>1. sums[k + 1] = sums[k + 1 - 1] + seq[k + 1]
        BY <1>8, <3>1
      <4>. QED  BY <3>1, <4>1
    <3>. HIDE DEF sums
    <3>. QED  BY <2>2, <3>1, <3>2
  <2>. HIDE DEF T
  <2>3. Nat \subseteq T
    BY <2>1, <2>2, AllNumbers
  <2>4. \A k \in 0..n : sums[k] \in Nat
    <3>1. \A k \in 0..n : k \in Nat /\ k <= n
      OBVIOUS
    <3>. QED  BY <2>3, <3>1, Zenon DEF T
  <2>. QED  BY <2>4
<1>. HIDE DEF sums
<1>. QED  BY <1>7, <1>8, <1>9, <1>10

-----------------------------------------------------------------------------
(* FlattenSeq, one sequence after the other.                               *)

(* The first n values of f, as a sequence.                                 *)
FirstOfAll(f, n) == [i \in 1..n |-> f[i]]

(* The recursion of FlattenSeq over the first n sequences of f.            *)
Flattens(g, f, n) ==
    g = [i \in 1..n |-> IF i = 1 THEN f[i] ELSE g[i - 1] \o f[i]]

LEMMA FlattenUnique ==
    ASSUME NEW f, NEW n \in Nat, NEW g, NEW h, Flattens(g, f, n), Flattens(h, f, n)
    PROVE  g = h
<1>. DEFINE T == {i \in 1..n : g[i] # h[i]}
<1>1. /\ DOMAIN g = 1..n /\ DOMAIN h = 1..n
      /\ \A i \in 1..n : g[i] = IF i = 1 THEN f[i] ELSE g[i - 1] \o f[i]
      /\ \A i \in 1..n : h[i] = IF i = 1 THEN f[i] ELSE h[i - 1] \o f[i]
  BY DEF Flattens
<1>2. T = {}
  <2>. SUFFICES ASSUME T # {}  PROVE FALSE
    OBVIOUS
  <2>1. T \in SUBSET Nat
    OBVIOUS
  <2>2. PICK i \in T : \A j \in T : i <= j
    <3>. HIDE DEF T
    <3>. QED  BY <2>1, LeastNumber
  <2>3. i \in 1..n /\ i # 1
    BY <1>1
  <2>4. i - 1 \in 1..n /\ i - 1 \notin T
    BY <2>2, <2>3
  <2>5. g[i - 1] = h[i - 1]
    BY <2>4
  <2>. QED  BY <1>1, <2>3, <2>5
<1>3. \A i \in 1..n : g[i] = h[i]
  BY <1>2
<1>4. g = [i \in 1..n |-> g[i]] /\ h = [i \in 1..n |-> h[i]]
  BY DEF Flattens
<1>. QED  BY <1>3, <1>4

LEMMA FlattenGrows ==
    ASSUME NEW f, NEW n \in Nat, NEW g, Flattens(g, f, n)
    PROVE  Flattens([i \in 1..(n + 1) |-> IF i <= n THEN g[i]
                                          ELSE IF i = 1 THEN f[i] ELSE g[i - 1] \o f[i]],
                    f, n + 1)
<1>. DEFINE h == [i \in 1..(n + 1) |-> IF i <= n THEN g[i]
                                       ELSE IF i = 1 THEN f[i] ELSE g[i - 1] \o f[i]]
            body(i) == IF i = 1 THEN f[i] ELSE h[i - 1] \o f[i]
<1>1. \A i \in 1..n : g[i] = IF i = 1 THEN f[i] ELSE g[i - 1] \o f[i]
  BY DEF Flattens
<1>2. \A i \in 1..n : h[i] = g[i]
  OBVIOUS
<1>3. ASSUME NEW i \in 1..(n + 1)
      PROVE  h[i] = body(i)
  <2>1. CASE i <= n
    <3>1. i = 1 \/ i - 1 \in 1..n
      BY <2>1
    <3>. QED  BY <1>1, <1>2, <2>1, <3>1
  <2>2. CASE i = n + 1
    <3>1. i = 1 \/ i - 1 \in 1..n
      BY <2>2
    <3>2. h[i] = IF i = 1 THEN f[i] ELSE g[i - 1] \o f[i]
      BY <2>2
    <3>. QED  BY <1>2, <3>1, <3>2
  <2>. QED  BY <2>1, <2>2
<1>4. h = [i \in 1..(n + 1) |-> h[i]]
  OBVIOUS
<1>5. h = [i \in 1..(n + 1) |-> body(i)]
  BY <1>3, <1>4
<1>. QED  BY <1>5 DEF Flattens

LEMMA FlattenExists ==
    ASSUME NEW f, NEW n \in Nat
    PROVE  \E g : Flattens(g, f, n)
<1>. DEFINE T == {m \in Nat : \E g : Flattens(g, f, m)}
<1>1. 0 \in T
  <2>1. Flattens([i \in 1..0 |-> i], f, 0)
    BY DEF Flattens
  <2>. QED  BY <2>1
<1>2. ASSUME NEW m \in Nat, m \in T
      PROVE  m + 1 \in T
  <2>1. PICK g : Flattens(g, f, m)
    BY <1>2
  <2>2. \E h : Flattens(h, f, m + 1)
    BY <2>1, FlattenGrows
  <2>. QED  BY <2>2
<1>. HIDE DEF T
<1>3. n \in T
  BY <1>1, <1>2, AllNumbers
<1>. QED  BY <1>3 DEF T

LEMMA FlattenIs ==
    ASSUME NEW f, NEW n \in Nat \ {0}, NEW g, Flattens(g, f, n)
    PROVE  FlattenSeq(FirstOfAll(f, n)) = g[n]
<1>. DEFINE s == FirstOfAll(f, n)
            good(h) == h = [i \in 1..Len(s) |-> IF i = 1 THEN s[i] ELSE h[i - 1] \o s[i]]
            flat == CHOOSE h : good(h)
<1>1. Len(s) = n /\ \A i \in 1..n : s[i] = f[i]
  BY DEF FirstOfAll
<1>2. \A h : good(h) <=> Flattens(h, f, n)
  <2>. HIDE DEF s
  <2>. QED  BY <1>1 DEF Flattens
<1>3. FlattenSeq(s) = flat[Len(s)]
  BY <1>1 DEF FlattenSeq
<1>4. good(flat)
  BY <1>2
<1>5. flat = g
  BY <1>2, <1>4, FlattenUnique
<1>. QED  BY <1>1, <1>3, <1>5

LEMMA FlattenNone ==
    ASSUME NEW f
    PROVE  FirstOfAll(f, 0) = <<>> /\ FlattenSeq(FirstOfAll(f, 0)) = <<>>
<1>1. FirstOfAll(f, 0) = <<>>
  BY DEF FirstOfAll
<1>2. Len(FirstOfAll(f, 0)) = 0
  BY <1>1
<1>. QED  BY <1>1, <1>2 DEF FlattenSeq

(* One sequence more is appended to what the others flatten to.            *)
LEMMA FlattenOneMore ==
    ASSUME NEW f, NEW n \in Nat, NEW X, \A i \in 1..(n + 1) : f[i] \in Seq(X)
    PROVE  FlattenSeq(FirstOfAll(f, n + 1)) = FlattenSeq(FirstOfAll(f, n)) \o f[n + 1]
<1>1. FirstOfAll(f, 0) = <<>> /\ FlattenSeq(FirstOfAll(f, 0)) = <<>>
  BY FlattenNone
<1>2. PICK g : Flattens(g, f, n)
  BY FlattenExists
<1>. DEFINE h == [i \in 1..(n + 1) |-> IF i <= n THEN g[i]
                                          ELSE IF i = 1 THEN f[i] ELSE g[i - 1] \o f[i]]
<1>3. Flattens(h, f, n + 1)
  BY <1>2, FlattenGrows
<1>4. n + 1 \in Nat \ {0} /\ f[n + 1] \in Seq(X)
  OBVIOUS
<1>5. FlattenSeq(FirstOfAll(f, n + 1)) = h[n + 1]
  <2>. HIDE DEF h
  <2>. QED  BY <1>3, <1>4, FlattenIs
<1>6. CASE n = 0
  <2>1. h[n + 1] = f[n + 1]
    BY <1>6
  <2>2. <<>> \o f[n + 1] = f[n + 1]
    BY <1>4
  <2>. QED  BY <1>1, <1>5, <1>6, <2>1, <2>2
<1>7. CASE n # 0
  <2>1. h[n + 1] = g[n] \o f[n + 1]
    <3>1. ASSUME NEW k \in 1..(n + 1), k = n + 1
          PROVE  h[k] = g[n] \o f[k]
      <4>1. ~(k <= n) /\ ~(k = 1) /\ k - 1 = n
        BY <1>7, <3>1
      <4>2. h[k] = g[k - 1] \o f[k]
        BY <4>1, Zenon
      <4>. QED  BY <4>1, <4>2, Zenon
    <3>2. n + 1 \in 1..(n + 1)
      OBVIOUS
    <3>. QED  BY <3>1, <3>2, Zenon
  <2>2. FlattenSeq(FirstOfAll(f, n)) = g[n]
    BY <1>2, <1>7, FlattenIs
  <2>. QED  BY <1>1, <1>5, <2>1, <2>2, Zenon
<1>. QED  BY <1>1, <1>6, <1>7

=============================================================================
