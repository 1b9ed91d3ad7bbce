--------------------------- MODULE HostTime_proofs ---------------------------
(***************************************************************************)
(* Proofs about HostTime: a probe ends within its budget and not in a      *)
(* hurry, and a host within that of its ports, for any number of ports,    *)
(* permits and blocking threads and for any timeouts.                      *)
(*                                                                         *)
(* Permits and threads are the same problem, jobs that `c` workers take in *)
(* order: the first section counts the slots that the workers have left    *)
(* before a date, the second applies it to the pool of tokio's blocking    *)
(* threads and to the semaphore of main.rs.                                *)
(***************************************************************************)
EXTENDS HostTime, FiniteSetTheorems, TLAPS

-----------------------------------------------------------------------------
(* c workers take jobs that last `len` at most.  The busy ones are named   *)
(* by their jobs, natural numbers, and are free again at free[job]; the    *)
(* idle ones are named by negative numbers.  A slot is a worker and a      *)
(* number of jobs, at most k, after which it can still take one by `due`.  *)
Workers(busy, c) == busy \cup ((Cardinality(busy) - c)..-1)

Ready(busy, free, t, w) == IF w \in busy THEN free[w] ELSE t

Slots(busy, c, free, t, len, due, k) ==
    {s \in Workers(busy, c) \X (0..k) : Ready(busy, free, t, s[1]) + s[2] * len <= due}

LEMMA IntervalSize ==
    ASSUME NEW a \in Int, NEW b \in Int, a <= b + 1
    PROVE  IsFiniteSet(a..b) /\ Cardinality(a..b) = b - a + 1
<1>1. a > b => b - a + 1 = 0
  OBVIOUS
<1>. QED  BY <1>1, FS_Interval

LEMMA SlotsFinite ==
    ASSUME NEW busy, IsFiniteSet(busy), NEW c \in Nat, NEW k \in Nat,
           NEW free, NEW t, NEW len, NEW due
    PROVE  /\ IsFiniteSet(Slots(busy, c, free, t, len, due, k))
           /\ Cardinality(Slots(busy, c, free, t, len, due, k)) \in Nat
<1>. DEFINE ids == (Cardinality(busy) - c)..-1
<1>1. Cardinality(busy) \in Nat
  BY FS_CardinalityType
<1>2. IsFiniteSet(ids) /\ IsFiniteSet(0..k)
  BY <1>1, FS_Interval
<1>3. IsFiniteSet(busy \cup ids)
  BY <1>2, FS_Union
<1>4. IsFiniteSet((busy \cup ids) \X (0..k))
  BY <1>2, <1>3, FS_Product
<1>5. Slots(busy, c, free, t, len, due, k) \in SUBSET ((busy \cup ids) \X (0..k))
  BY DEF Slots, Workers
<1>. QED  BY <1>4, <1>5, FS_Subset, FS_CardinalityType

(* A worker that is done, early or on time, loses no slot.                 *)
LEMMA WorkerIsDone ==
    ASSUME NEW busy \in SUBSET Nat, IsFiniteSet(busy), NEW c \in Nat, Cardinality(busy) <= c,
           NEW p \in busy, NEW t \in Int, NEW len \in Nat, NEW due \in Int, NEW k \in Nat,
           NEW free, free[p] \in Int, t <= free[p],
           NEW after, \A w \in busy \ {p} : after[w] = free[w]
    PROVE  Cardinality(Slots(busy, c, free, t, len, due, k))
               <= Cardinality(Slots(busy \ {p}, c, after, t, len, due, k))
<1>. DEFINE rest == busy \ {p}
            id == Cardinality(busy) - 1 - c
            S == Slots(busy, c, free, t, len, due, k)
            T == Slots(rest, c, after, t, len, due, k)
            f == [s \in S |-> IF s[1] = p THEN <<id, s[2]>> ELSE s]
<1>1. /\ IsFiniteSet(rest) /\ Cardinality(busy) \in Nat
      /\ Cardinality(rest) = Cardinality(busy) - 1
  BY FS_RemoveElement, FS_CardinalityType
<1>2. /\ id \in Int /\ id < 0
      /\ Workers(busy, c) = busy \cup ((id + 1)..-1)
      /\ Workers(rest, c) = rest \cup (id..-1)
  BY <1>1 DEF Workers
<1>3. ASSUME NEW s \in S
      PROVE  f[s] \in T
  <2>1. /\ s = <<s[1], s[2]>> /\ s[1] \in Workers(busy, c) /\ s[2] \in 0..k
        /\ Ready(busy, free, t, s[1]) + s[2] * len <= due
    BY DEF Slots
  <2>2. s[2] * len \in Int
    BY <2>1
  <2>3. CASE s[1] = p
    <3>1. f[s] = <<id, s[2]>> /\ id \in Workers(rest, c) /\ id \notin rest
      <4>1. f[s] = <<id, s[2]>>
        BY <2>3
      <4>2. id \in id..-1 /\ id \notin rest
        BY <1>2
      <4>. QED  BY <1>2, <4>1, <4>2
    <3>2. Ready(rest, after, t, id) = t /\ Ready(busy, free, t, s[1]) = free[p]
      BY <2>3, <3>1 DEF Ready
    <3>3. t + s[2] * len <= due
      BY <2>1, <2>2, <3>2
    <3>. QED  BY <2>1, <3>1, <3>2, <3>3 DEF Slots
  <2>4. CASE s[1] # p
    <3>1. f[s] = s /\ s[1] \in Workers(rest, c)
      <4>1. (id + 1)..-1 \subseteq id..-1
        BY <1>2
      <4>2. s[1] \in rest \cup (id..-1)
        BY <1>2, <2>1, <2>4, <4>1
      <4>3. f[s] = s
        BY <2>4
      <4>. QED  BY <1>2, <4>2, <4>3
    <3>2. Ready(rest, after, t, s[1]) = Ready(busy, free, t, s[1])
      BY <2>4 DEF Ready
    <3>. QED  BY <2>1, <3>1, <3>2 DEF Slots
  <2>. QED  BY <2>3, <2>4
<1>4. ASSUME NEW r \in S, NEW s \in S, f[r] = f[s]
      PROVE  r = s
  <2>1. /\ r = <<r[1], r[2]>> /\ r[1] \in Workers(busy, c)
        /\ s = <<s[1], s[2]>> /\ s[1] \in Workers(busy, c)
    BY DEF Slots
  <2>2. r[1] # id /\ s[1] # id
    BY <1>2, <2>1
  <2>3. f[r] = (IF r[1] = p THEN <<id, r[2]>> ELSE r) /\ f[s] = (IF s[1] = p THEN <<id, s[2]>> ELSE s)
    OBVIOUS
  <2>. QED  BY <1>4, <2>1, <2>2, <2>3
<1>5. f \in [S -> T]
  BY <1>3
<1>6. f \in Injection(S, T)
  BY <1>4, <1>5 DEF Injection, IsInjective
<1>7. IsFiniteSet(T)
  BY <1>1, SlotsFinite
<1>. HIDE DEF S, T, f
<1>8. Cardinality(S) <= Cardinality(T)
  BY <1>6, <1>7, FS_Injection
<1>. QED  BY <1>8 DEF S, T

(* A worker that takes a job of length `len` at most loses one slot.       *)
LEMMA WorkerStarts ==
    ASSUME NEW busy \in SUBSET Nat, IsFiniteSet(busy), NEW c \in Nat, Cardinality(busy) < c,
           NEW j \in Nat \ busy, NEW t \in Int, NEW len \in Nat, NEW due \in Int, NEW k \in Nat,
           NEW free, NEW after, \A w \in busy : after[w] = free[w],
           after[j] \in Int, after[j] <= t + len
    PROVE  Cardinality(Slots(busy, c, free, t, len, due, k)) - 1
               <= Cardinality(Slots(busy \cup {j}, c, after, t, len, due, k))
<1>. DEFINE more == busy \cup {j}
            id == Cardinality(busy) - c
            all == Slots(busy, c, free, t, len, due, k)
            S == all \ {<<id, 0>>}
            T == Slots(more, c, after, t, len, due, k)
            f == [s \in S |-> IF s[1] = id THEN <<j, s[2] - 1>> ELSE s]
<1>1. /\ IsFiniteSet(more) /\ Cardinality(busy) \in Nat
      /\ Cardinality(more) = Cardinality(busy) + 1
  BY FS_AddElement, FS_CardinalityType
<1>2. /\ id \in Int /\ id < 0
      /\ Workers(busy, c) = busy \cup (id..-1)
      /\ Workers(more, c) = more \cup ((id + 1)..-1)
  BY <1>1 DEF Workers
<1>3. ASSUME NEW s \in S
      PROVE  f[s] \in T
  <2>1. /\ s = <<s[1], s[2]>> /\ s[1] \in busy \cup (id..-1) /\ s[2] \in 0..k
        /\ Ready(busy, free, t, s[1]) + s[2] * len <= due
    BY <1>2 DEF Slots
  <2>2. s[2] * len \in Int /\ (s[2] - 1) * len \in Int
        /\ (s[2] - 1) * len + len = s[2] * len
    BY <2>1
  <2>3. CASE s[1] = id
    <3>1. s[2] - 1 \in 0..k
      BY <2>1, <2>3
    <3>2. f[s] = <<j, s[2] - 1>>
      BY <2>3
    <3>3. Ready(busy, free, t, s[1]) = t /\ Ready(more, after, t, j) = after[j]
      BY <1>2, <2>3 DEF Ready
    <3>4. after[j] + (s[2] - 1) * len <= due
      BY <2>1, <2>2, <3>3
    <3>5. <<j, s[2] - 1>> \in Workers(more, c) \X (0..k)
      BY <1>2, <3>1
    <3>. QED  BY <3>2, <3>3, <3>4, <3>5 DEF Slots
  <2>4. CASE s[1] # id
    <3>1. s[1] \in busy \/ s[1] \in (id + 1)..-1
      BY <1>2, <2>1, <2>4
    <3>2. s[1] \in Workers(more, c) /\ s[1] # j
      BY <1>2, <3>1
    <3>3. Ready(more, after, t, s[1]) = Ready(busy, free, t, s[1])
      BY <3>2 DEF Ready
    <3>4. f[s] = s
      BY <2>4
    <3>. QED  BY <2>1, <3>2, <3>3, <3>4 DEF Slots
  <2>. QED  BY <2>3, <2>4
<1>4. ASSUME NEW r \in S, NEW s \in S, f[r] = f[s]
      PROVE  r = s
  <2>1. /\ r = <<r[1], r[2]>> /\ r[1] \in busy \cup (id..-1) /\ r[2] \in 0..k
        /\ s = <<s[1], s[2]>> /\ s[1] \in busy \cup (id..-1) /\ s[2] \in 0..k
    BY <1>2 DEF Slots
  <2>2. r[1] # j /\ s[1] # j
    BY <1>2, <2>1
  <2>3. /\ f[r] = (IF r[1] = id THEN <<j, r[2] - 1>> ELSE r)
        /\ f[s] = (IF s[1] = id THEN <<j, s[2] - 1>> ELSE s)
    OBVIOUS
  <2>4. r[1] = id <=> s[1] = id
    BY <1>4, <2>1, <2>2, <2>3
  <2>5. r[1] = id => r[2] = s[2]
    BY <1>4, <2>1, <2>3, <2>4
  <2>. QED  BY <1>4, <2>1, <2>3, <2>4, <2>5
<1>5. f \in [S -> T]
  BY <1>3
<1>6. f \in Injection(S, T)
  BY <1>4, <1>5 DEF Injection, IsInjective
<1>7. IsFiniteSet(all) /\ IsFiniteSet(T)
  BY <1>1, SlotsFinite
<1>. HIDE DEF all, T, f
<1>8. Cardinality(S) <= Cardinality(T)
  BY <1>6, <1>7, FS_Injection
<1>9. /\ IsFiniteSet(S)
      /\ Cardinality(S) = IF <<id, 0>> \in all THEN Cardinality(all) - 1 ELSE Cardinality(all)
  BY <1>7, FS_RemoveElement, Zenon
<1>10. Cardinality(all) \in Nat /\ Cardinality(S) \in Nat /\ Cardinality(T) \in Nat
  <2>. HIDE DEF S
  <2>. QED  BY <1>7, <1>9, FS_CardinalityType
<1>. HIDE DEF S
<1>11. Cardinality(all) - 1 <= Cardinality(S)
  BY <1>9, <1>10
<1>12. Cardinality(all) - 1 <= Cardinality(T)
  BY <1>8, <1>10, <1>11
<1>. QED  BY <1>12 DEF all, T

(* The clock does not matter to workers that are all busy.                 *)
LEMMA AllBusy ==
    ASSUME NEW busy \in SUBSET Nat, IsFiniteSet(busy), NEW c \in Nat, Cardinality(busy) = c,
           NEW free, NEW t, NEW u, NEW len, NEW due, NEW k
    PROVE  Slots(busy, c, free, t, len, due, k) = Slots(busy, c, free, u, len, due, k)
<1>1. Workers(busy, c) = busy
  BY DEF Workers
<1>. QED  BY <1>1 DEF Slots, Ready

(* Where a slot is left, it is not too late yet.                           *)
LEMMA SlotLeft ==
    ASSUME NEW busy \in SUBSET Nat, IsFiniteSet(busy), NEW c \in Nat, Cardinality(busy) <= c,
           NEW free, \A w \in busy : free[w] \in Int,
           NEW t \in Int, NEW len \in Nat, NEW due \in Int, NEW k \in Nat,
           Cardinality(Slots(busy, c, free, t, len, due, k)) >= 1
    PROVE  \/ \E w \in busy : free[w] <= due
           \/ Cardinality(busy) < c /\ t <= due
<1>1. Slots(busy, c, free, t, len, due, k) # {}
  BY FS_EmptySet
<1>2. PICK s \in Workers(busy, c) \X (0..k) : Ready(busy, free, t, s[1]) + s[2] * len <= due
  BY <1>1 DEF Slots
<1>3. s[2] \in Nat /\ s[2] * len \in Nat
  BY <1>2
<1>4. CASE s[1] \in busy
  <2>1. free[s[1]] \in Int /\ free[s[1]] + s[2] * len <= due
    BY <1>2, <1>4 DEF Ready
  <2>2. free[s[1]] <= due
    BY <1>3, <2>1
  <2>. QED  BY <1>4, <2>2
<1>5. CASE s[1] \notin busy
  <2>1. s[1] \in (Cardinality(busy) - c)..-1
    BY <1>2, <1>5 DEF Workers
  <2>2. Cardinality(busy) \in Nat
    BY FS_CardinalityType
  <2>3. Cardinality(busy) < c
    BY <2>1, <2>2
  <2>4. t + s[2] * len <= due
    BY <1>2, <1>5 DEF Ready
  <2>. QED  BY <1>3, <2>3, <2>4
<1>. QED  BY <1>4, <1>5

(* When no job goes on for longer than `len`, every busy worker can still  *)
(* take k of them in a time of k * len, and every idle one k + 1.          *)
LEMMA ManySlots ==
    ASSUME NEW busy \in SUBSET Nat, IsFiniteSet(busy), NEW c \in Nat, Cardinality(busy) <= c,
           NEW t \in Int, NEW len \in Nat, NEW due \in Int, NEW k \in Nat,
           NEW free, \A w \in busy : free[w] \in Int /\ free[w] <= t + len,
           t + k * len <= due
    PROVE  Cardinality(Slots(busy, c, free, t, len, due, k)) >= c * k + c - Cardinality(busy)
<1>. DEFINE n == Cardinality(busy)
            ids == (n - c)..-1
            S == Slots(busy, c, free, t, len, due, k)
            A == busy \X (0..(k - 1))
            B == ids \X (0..k)
<1>1. n \in Nat
  BY FS_CardinalityType
<1>2. /\ IsFiniteSet(ids) /\ Cardinality(ids) = c - n
      /\ IsFiniteSet(0..(k - 1)) /\ Cardinality(0..(k - 1)) = k
      /\ IsFiniteSet(0..k) /\ Cardinality(0..k) = k + 1
  <2>1. IsFiniteSet(ids) /\ Cardinality(ids) = -1 - (n - c) + 1
    <3>1. n - c \in Int /\ -1 \in Int /\ n - c <= -1 + 1
      BY <1>1
    <3>. HIDE DEF n
    <3>. QED  BY <3>1, IntervalSize
  <2>2. IsFiniteSet(0..(k - 1)) /\ Cardinality(0..(k - 1)) = k - 1 - 0 + 1
    BY IntervalSize
  <2>3. IsFiniteSet(0..k) /\ Cardinality(0..k) = k - 0 + 1
    BY IntervalSize
  <2>4. -1 - (n - c) + 1 = c - n /\ k - 1 - 0 + 1 = k /\ k - 0 + 1 = k + 1
    BY <1>1
  <2>. QED  BY <2>1, <2>2, <2>3, <2>4
<1>3. /\ IsFiniteSet(A) /\ Cardinality(A) = n * k
      /\ IsFiniteSet(B) /\ Cardinality(B) = (c - n) * (k + 1)
  <2>. DEFINE low == 0..(k - 1)
              high == 0..k
  <2>1. /\ IsFiniteSet(busy) /\ Cardinality(busy) = n
        /\ IsFiniteSet(ids) /\ Cardinality(ids) = c - n
        /\ IsFiniteSet(low) /\ Cardinality(low) = k
        /\ IsFiniteSet(high) /\ Cardinality(high) = k + 1
    BY <1>2
  <2>. HIDE DEF n, ids, low, high
  <2>2. IsFiniteSet(busy \X low) /\ Cardinality(busy \X low) = Cardinality(busy) * Cardinality(low)
    BY <2>1, FS_Product
  <2>3. IsFiniteSet(ids \X high) /\ Cardinality(ids \X high) = Cardinality(ids) * Cardinality(high)
    BY <2>1, FS_Product
  <2>. QED  BY <2>1, <2>2, <2>3, Zenon DEF low, high
<1>4. A \cap B = {}
  BY <1>1
<1>5. IsFiniteSet(A \cup B) /\ Cardinality(A \cup B) = n * k + (c - n) * (k + 1)
  <2>1. Cardinality(A \cap B) = 0
    BY <1>4, FS_EmptySet
  <2>2. /\ IsFiniteSet(A \cup B)
        /\ Cardinality(A \cup B) = Cardinality(A) + Cardinality(B) - Cardinality(A \cap B)
    <3>. HIDE DEF A, B
    <3>. QED  BY <1>3, FS_Union
  <2>3. n * k + (c - n) * (k + 1) - 0 = n * k + (c - n) * (k + 1)
    BY <1>1
  <2>. QED  BY <1>3, <2>1, <2>2, <2>3
<1>6. A \cup B \subseteq S
  <2>1. ASSUME NEW s \in A
        PROVE  s \in S
    <3>1. s[1] \in busy /\ s[2] \in 0..k /\ s = <<s[1], s[2]>> /\ s[2] <= k - 1
      OBVIOUS
    <3>2. s[2] * len <= (k - 1) * len
      BY <3>1
    <3>3. (k - 1) * len + len = k * len
      OBVIOUS
    <3>4. free[s[1]] + s[2] * len <= due
      <4>1. free[s[1]] \in Int /\ free[s[1]] <= t + len
        BY <3>1
      <4>2. s[2] * len \in Int /\ (k - 1) * len \in Int /\ k * len \in Int
        BY <3>1
      <4>. QED  BY <3>2, <3>3, <4>1, <4>2
    <3>. QED  BY <3>1, <3>4 DEF Slots, Workers, Ready
  <2>2. ASSUME NEW s \in B
        PROVE  s \in S
    <3>1. s[1] \in ids /\ s[1] \notin busy /\ s[2] \in 0..k /\ s = <<s[1], s[2]>>
      BY <1>1
    <3>2. s[2] * len <= k * len
      BY <3>1
    <3>3. t + s[2] * len <= due
      BY <3>1, <3>2
    <3>. QED  BY <3>1, <3>3 DEF Slots, Workers, Ready
  <2>. QED  BY <2>1, <2>2
<1>7. IsFiniteSet(S)
  BY SlotsFinite
<1>. HIDE DEF S, A, B
<1>8. Cardinality(A \cup B) <= Cardinality(S)
  BY <1>6, <1>7, FS_Subset
<1>9. n * k + (c - n) * (k + 1) = c * k + c - n
  BY <1>1
<1>. QED  BY <1>5, <1>8, <1>9, <1>7, FS_CardinalityType DEF S

(* The slots are those of the busy workers.                                *)
LEMMA SameSlots ==
    ASSUME NEW busy, NEW c, NEW free, NEW after, \A w \in busy : after[w] = free[w],
           NEW t, NEW len, NEW due, NEW k
    PROVE  Slots(busy, c, free, t, len, due, k) = Slots(busy, c, after, t, len, due, k)
BY DEF Slots, Ready

-----------------------------------------------------------------------------
(* The durations.                                                          *)
Slept(k) == AllSleeps(SleepStep, k)

SynPart == IF syn THEN LongestTurn + LongestSyn ELSE 0

(* How often the threads of the pool change hands before a probe has one,  *)
(* and how often the permits do before port i has one.                     *)
Turns == (Limit - 1) \div Threads

Before(i) == (i - 1) \div Limit
Due(i) == Before(i) * LongestTask

LEMMA Constants ==
    /\ NumPorts \in Nat \ {0} /\ Limit \in Nat \ {0} /\ Threads \in Nat \ {0}
    /\ ConnectTimeout \in Nat \ {0} /\ ReadTimeout \in Nat \ {0} /\ SleepStep \in Nat \ {0}
    /\ MaxRetries \in Nat /\ Floor \in Nat /\ LongerWait \in Nat
BY HostTimeAssumption

(* A quotient, with and without the remainder.                             *)
LEMMA Quotient ==
    ASSUME NEW a \in Nat, NEW b \in Nat \ {0}
    PROVE  /\ a \div b \in Nat
           /\ (a \div b) * b <= a
           /\ a < (a \div b) * b + b
OBVIOUS

(* The sleeps of one more attempt.                                         *)
LEMMA SleptOnce ==
    ASSUME NEW k \in Nat
    PROVE  /\ Slept(0) = 0
           /\ Slept(k) \in Nat /\ Sleep(k) \in Nat
           /\ Slept(k + 1) = Slept(k) + Sleep(k)
<1>. DEFINE a == SleepStep * k * (k + 1)
            b == SleepStep * (k + 1)
<1>1. SleepStep \in Nat
  BY Constants
<1>2. a \in Nat /\ b \in Nat
  BY <1>1
<1>3. SleepStep * (k + 1) * (k + 1 + 1) = a + 2 * b
  BY <1>1
<1>. HIDE DEF a, b
<1>4. a \div 2 \in Nat /\ (a + 2 * b) \div 2 = a \div 2 + b
  BY <1>2
<1>5. SleepStep * 0 * (0 + 1) = 0 /\ 0 \div 2 = 0
  BY <1>1
<1>6. Slept(k) = a \div 2 /\ Sleep(k) = b
  BY DEF Slept, AllSleeps, Sleep, a, b
<1>7. Slept(k + 1) = (a + 2 * b) \div 2
  BY <1>3 DEF Slept, AllSleeps
<1>8. Slept(0) = 0
  BY <1>5 DEF Slept, AllSleeps
<1>. QED  BY <1>2, <1>4, <1>6, <1>7, <1>8

LEMMA SleptMonotone ==
    ASSUME NEW j \in Nat, NEW k \in Nat, j <= k
    PROVE  Slept(j) <= Slept(k)
<1>1. SleepStep \in Nat
  BY Constants
<1>2. j * (j + 1) <= k * (k + 1)
  OBVIOUS
<1>3. SleepStep * (j * (j + 1)) <= SleepStep * (k * (k + 1))
  BY <1>1, <1>2
<1>4. /\ SleepStep * j * (j + 1) = SleepStep * (j * (j + 1))
      /\ SleepStep * k * (k + 1) = SleepStep * (k * (k + 1))
  BY <1>1
<1>. DEFINE a == SleepStep * j * (j + 1)
            b == SleepStep * k * (k + 1)
<1>5. a \in Nat /\ b \in Nat /\ a <= b
  BY <1>1, <1>3, <1>4
<1>. HIDE DEF a, b
<1>6. a \div 2 <= b \div 2
  BY <1>5
<1>. QED  BY <1>6 DEF Slept, AllSleeps, a, b

(* What a task may take in all, and what it takes on its way there.        *)
LEMMA Durations ==
    ASSUME syn \in BOOLEAN
    PROVE  /\ LongestSyn \in Nat \ {0} /\ Turns \in Nat
           /\ LongestTurn \in Nat /\ LongestTurn = Turns * LongestSyn
           /\ SynPart \in Nat
           /\ LongestTask \in Nat \ {0}
           /\ syn => LongestTurn + LongestSyn <= LongestTask
           /\ \A k \in 0..MaxRetries :
                  SynPart + (k + 1) * ConnectTimeout + Slept(k) <= LongestTask
<1>1. /\ Threads \in Nat \ {0} /\ Limit - 1 \in Nat /\ MaxRetries \in Nat
      /\ ConnectTimeout \in Nat \ {0} /\ Floor \in Nat
  BY Constants
<1>2. Turns \in Nat /\ LongestTurn = Turns * LongestSyn
  BY <1>1, Quotient DEF Turns, LongestTurn
<1>3. LongestSyn \in Nat \ {0}
  BY <1>1 DEF LongestSyn
<1>4. LongestTurn \in Nat
  BY <1>2, <1>3
<1>5. SynPart \in Nat
  BY <1>3, <1>4 DEF SynPart
<1>6. Slept(MaxRetries) \in Nat
  BY <1>1, SleptOnce
<1>. DEFINE all == (MaxRetries + 1) * ConnectTimeout
<1>7. all \in Nat /\ ConnectTimeout <= all
  BY <1>1
<1>8. LongestTask = all + Slept(MaxRetries) + SynPart
  BY DEF LongestTask, LongestProbe, Slept, SynPart
<1>9. ASSUME NEW k \in 0..MaxRetries
      PROVE  SynPart + (k + 1) * ConnectTimeout + Slept(k) <= LongestTask
  <2>1. (k + 1) * ConnectTimeout <= all /\ (k + 1) * ConnectTimeout \in Nat
    BY <1>1
  <2>2. Slept(k) \in Nat /\ Slept(k) <= Slept(MaxRetries)
    <3>1. k \in Nat /\ MaxRetries \in Nat /\ k <= MaxRetries
      BY <1>1
    <3>. QED  BY <3>1, SleptOnce, SleptMonotone
  <2>. HIDE DEF all
  <2>. QED  BY <1>5, <1>6, <1>7, <1>8, <2>1, <2>2
<1>. HIDE DEF all
<1>10. LongestTask \in Nat \ {0}
  BY <1>1, <1>5, <1>6, <1>7, <1>8
<1>11. syn => LongestTurn + LongestSyn <= LongestTask
  BY <1>3, <1>4, <1>6, <1>7, <1>8 DEF SynPart
<1>. QED  BY <1>2, <1>3, <1>4, <1>5, <1>9, <1>10, <1>11

-----------------------------------------------------------------------------
(* The invariant.  Where a task stands tells how long it has been at it,   *)
(* at least and at most.                                                   *)
InTime(i) ==
    /\ task[i] \in {"idle", "waiting"} \/ ~syn => waited[i] = 0
    /\ task[i] \in {"waiting", "probing"} => syn
    /\ task[i] \in {"idle", "waiting", "probing"} => tries[i] = 0
    /\ waited[i] <= LongestTurn
    /\ task[i] \in Awake => started[i] + waited[i] <= now
    /\ task[i] = "probing" =>
          /\ timer[i] = started[i] + waited[i] + LongestSyn
          /\ now <= timer[i]
    /\ task[i] = "connecting" =>
          /\ started[i] + waited[i] + Slept(tries[i]) <= now
          /\ now <= timer[i]
          /\ timer[i] <= started[i] + SynPart + (tries[i] + 1) * ConnectTimeout + Slept(tries[i])
    /\ task[i] = "sleeping" =>
          /\ started[i] + waited[i] + Slept(tries[i]) <= timer[i]
          /\ now <= timer[i]
          /\ timer[i] <= started[i] + SynPart + tries[i] * ConnectTimeout + Slept(tries[i])
    /\ took[i] <= LongestTask
    /\ task[i] = "filtered" => took[i] >= waited[i] + Slept(MaxRetries)
    /\ task[i] = "no-response" => took[i] >= waited[i] + ConnectTimeout

AllInTime == \A i \in Tasks : InTime(i)

(* Ports are spawned in order, and no more than there are permits and      *)
(* threads for.                                                            *)
Order ==
    /\ \A i \in Idle : \A j \in Tasks \ Idle : j < i
    /\ Cardinality(Running) <= Limit
    /\ Cardinality(In("probing")) <= Threads
    /\ pc # "scan" => Idle \cup Running = {}
    /\ pc = "scan" => detected = 0

(* The threads have more slots left than there are probes before one that  *)
(* waits, so its turn comes in time.                                       *)
Ahead(i) == {j \in In("waiting") : j < i}

TurnSlots(i) ==
    Slots(In("probing"), Threads, timer, now, LongestSyn, started[i] + LongestTurn, Turns)

TurnsLeft ==
    \A i \in In("waiting") : Cardinality(Ahead(i)) + 1 <= Cardinality(TurnSlots(i))

(* The same of the permits and the ports not yet spawned.                  *)
Earlier(i) == {j \in Idle : j < i}

Over == [p \in Tasks |-> started[p] + LongestTask]

PermitSlots(i) == Slots(Running, Limit, Over, now, LongestTask, Due(i), Before(i))

PermitsLeft ==
    pc = "scan" => \A i \in Idle : Cardinality(Earlier(i)) + 1 <= Cardinality(PermitSlots(i))

Begun == \A i \in Running : started[i] <= Due(i)

ScanInTime == pc = "scan" => now <= Rounds(NumPorts, Limit) * LongestTask

IInv ==
    /\ TypeOK /\ AllInTime /\ Order /\ TurnsLeft
    /\ PermitsLeft /\ Begun /\ ScanInTime /\ HostBudget

-----------------------------------------------------------------------------
(* The tasks.                                                              *)
States == {"idle", "open", "closed", "filtered", "no-response"} \cup Awake

LEMMA TasksFinite ==
    /\ Tasks \in SUBSET (Nat \ {0})
    /\ IsFiniteSet(Tasks) /\ Cardinality(Tasks) = NumPorts
<1>1. NumPorts \in Nat \ {0} /\ 1 \in Int /\ NumPorts \in Int /\ 1 <= NumPorts + 1
  BY Constants
<1>2. IsFiniteSet(1..NumPorts) /\ Cardinality(1..NumPorts) = NumPorts - 1 + 1
  BY <1>1, IntervalSize
<1>. QED  BY <1>1, <1>2 DEF Tasks

LEMMA SomeTasks ==
    ASSUME NEW S \in SUBSET Tasks
    PROVE  /\ S \in SUBSET Nat /\ IsFiniteSet(S)
           /\ Cardinality(S) \in Nat /\ Cardinality(S) <= NumPorts
<1>1. /\ Tasks \in SUBSET (Nat \ {0}) /\ IsFiniteSet(Tasks) /\ Cardinality(Tasks) = NumPorts
  BY TasksFinite
<1>2. IsFiniteSet(S) /\ Cardinality(S) <= Cardinality(Tasks)
  BY <1>1, FS_Subset
<1>. QED  BY <1>1, <1>2, FS_CardinalityType

(* A task that goes from one state to another changes the sets it is in.   *)
LEMMA Moves ==
    ASSUME TypeOK, NEW i \in Tasks, NEW x \in States, task' = [task EXCEPT ![i] = x]
    PROVE  /\ task' \in [Tasks -> States] /\ task'[i] = x
           /\ \A j \in Tasks \ {i} : task'[j] = task[j]
           /\ \A state \in States :
                  In(state)' = IF state = x THEN In(state) \cup {i} ELSE In(state) \ {i}
           /\ Running' = IF x \in Awake THEN Running \cup {i} ELSE Running \ {i}
<1>1. task \in [Tasks -> States]
  BY DEF TypeOK, States
<1>2. task' \in [Tasks -> States] /\ task'[i] = x /\ \A j \in Tasks \ {i} : task'[j] = task[j]
  BY <1>1
<1>3. ASSUME NEW state \in States
      PROVE  In(state)' = IF state = x THEN In(state) \cup {i} ELSE In(state) \ {i}
  BY <1>2 DEF In
<1>4. Running' = IF x \in Awake THEN Running \cup {i} ELSE Running \ {i}
  BY <1>2 DEF Running
<1>. QED  BY <1>2, <1>3, <1>4

(* A task whose own state stays stays in time while the clock does.        *)
LEMMA StaysInTime ==
    ASSUME NEW j \in Tasks, InTime(j), UNCHANGED <<syn, now>>,
           UNCHANGED <<task[j], tries[j], timer[j], started[j], waited[j], took[j]>>
    PROVE  InTime(j)'
BY DEF InTime, SynPart, LongestTask

(* The sets that the invariant counts.                                     *)
LEMMA SetsOfTasks ==
    ASSUME TypeOK
    PROVE  /\ In("waiting") \in SUBSET Tasks /\ In("probing") \in SUBSET Tasks
           /\ Idle \in SUBSET Tasks /\ Running \in SUBSET Tasks
           /\ In("probing") \in SUBSET Running /\ In("waiting") \in SUBSET Running
           /\ In("waiting") \cap In("probing") = {} /\ Idle \cap Running = {}
           /\ Running = In("waiting") \cup In("probing") \cup In("connecting") \cup In("sleeping")
BY DEF In, Running, Idle, Awake

(* What leaves the pool alone.                                             *)
LEMMA PoolSame ==
    ASSUME TurnsLeft,
           UNCHANGED <<now, In("waiting"), In("probing")>>,
           \A j \in In("waiting") : started'[j] = started[j],
           \A j \in In("probing") : timer'[j] = timer[j]
    PROVE  TurnsLeft'
<1>. SUFFICES ASSUME NEW i \in In("waiting")
              PROVE  Cardinality(Ahead(i)') + 1 <= Cardinality(TurnSlots(i)')
  BY DEF TurnsLeft
<1>1. Ahead(i)' = Ahead(i)
  BY DEF Ahead
<1>2. TurnSlots(i)' = Slots(In("probing"), Threads, timer', now, LongestSyn,
                            started[i] + LongestTurn, Turns)
  BY DEF TurnSlots
<1>3. TurnSlots(i)' = TurnSlots(i)
  BY <1>2, SameSlots DEF TurnSlots
<1>. QED  BY <1>1, <1>3 DEF TurnsLeft

(* What leaves the permits alone.                                          *)
LEMMA PermitsSame ==
    ASSUME TypeOK, PermitsLeft, Begun, ScanInTime, HostBudget,
           UNCHANGED <<syn, pc, now, detected, Idle, Running>>,
           \A j \in Running : started'[j] = started[j]
    PROVE  PermitsLeft' /\ Begun' /\ ScanInTime' /\ HostBudget'
<1>1. LongestTask' = LongestTask
  BY DEF LongestTask
<1>2. \A j : Due(j)' = Due(j)
  BY <1>1 DEF Due
<1>3. Begun'
  BY <1>2 DEF Begun
<1>4. ScanInTime' /\ HostBudget'
  BY <1>1 DEF ScanInTime, HostBudget
<1>5. \A j \in Running : Over'[j] = Over[j]
  BY <1>1, SetsOfTasks DEF Over
<1>6. ASSUME NEW i \in Idle
      PROVE  Earlier(i)' = Earlier(i) /\ PermitSlots(i)' = PermitSlots(i)
  <2>1. PermitSlots(i)' = Slots(Running, Limit, Over', now, LongestTask, Due(i), Before(i))
    BY <1>1, <1>2 DEF PermitSlots
  <2>2. PermitSlots(i)' = PermitSlots(i)
    BY <1>5, <2>1, SameSlots DEF PermitSlots
  <2>. QED  BY <2>2 DEF Earlier
<1>7. PermitsLeft'
  BY <1>6 DEF PermitsLeft
<1>. QED  BY <1>3, <1>4, <1>7

(* A probe that is done, or turns into connect attempts, frees its thread. *)
LEMMA ThreadIsFree ==
    ASSUME TypeOK, AllInTime, Order, TurnsLeft, NEW i \in In("probing"),
           UNCHANGED <<now, In("waiting")>>,
           In("probing")' = In("probing") \ {i},
           \A j \in In("waiting") : started'[j] = started[j],
           \A j \in In("probing") \ {i} : timer'[j] = timer[j]
    PROVE  TurnsLeft' /\ Cardinality(In("probing"))' <= Threads
<1>1. /\ In("probing") \in SUBSET Nat /\ IsFiniteSet(In("probing"))
      /\ Cardinality(In("probing")) \in Nat /\ Cardinality(In("probing")) <= Threads
      /\ Threads \in Nat /\ now \in Int /\ LongestSyn \in Nat /\ LongestTurn \in Nat /\ Turns \in Nat
  BY SetsOfTasks, SomeTasks, Constants, Durations DEF Order, TypeOK
<1>2. i \in Tasks /\ timer[i] \in Int /\ now <= timer[i]
  BY SetsOfTasks DEF AllInTime, InTime, In, TypeOK
<1>3. ASSUME NEW j \in In("waiting")
      PROVE  Cardinality(Ahead(j)') + 1 <= Cardinality(TurnSlots(j)')
  <2>1. Ahead(j)' = Ahead(j) /\ Cardinality(Ahead(j)) + 1 <= Cardinality(TurnSlots(j))
    BY DEF Ahead, TurnsLeft
  <2>2. started[j] + LongestTurn \in Int
    BY <1>1, SetsOfTasks DEF TypeOK
  <2>3. TurnSlots(j)' = Slots(In("probing") \ {i}, Threads, timer', now, LongestSyn,
                              started[j] + LongestTurn, Turns)
    BY DEF TurnSlots
  <2>4. Cardinality(TurnSlots(j)) <= Cardinality(TurnSlots(j)')
    BY <1>1, <1>2, <2>2, <2>3, WorkerIsDone DEF TurnSlots
  <2>5. Ahead(j) \in SUBSET Tasks
    BY SetsOfTasks DEF Ahead
  <2>6. Cardinality(Ahead(j)) \in Nat
    BY <2>5, SomeTasks
  <2>7. Cardinality(TurnSlots(j)) \in Nat
    BY <1>1, SlotsFinite DEF TurnSlots
  <2>8. Cardinality(TurnSlots(j)') \in Nat
    <3>1. IsFiniteSet(In("probing") \ {i})
      BY <1>1, FS_RemoveElement
    <3>. QED  BY <1>1, <2>3, <3>1, SlotsFinite
  <2>. QED  BY <2>1, <2>4, <2>6, <2>7, <2>8
<1>4. Cardinality(In("probing") \ {i}) <= Threads
  <2>1. Cardinality(In("probing") \ {i}) = Cardinality(In("probing")) - 1
    BY <1>1, FS_RemoveElement
  <2>. QED  BY <1>1, <2>1
<1>. QED  BY <1>3, <1>4 DEF TurnsLeft

(* A task that returns frees its permit.                                   *)
LEMMA PermitIsFree ==
    ASSUME TypeOK, Order, PermitsLeft, Begun, ScanInTime, HostBudget, NEW i \in Running,
           UNCHANGED <<syn, pc, now, detected, Idle>>,
           Running' = Running \ {i},
           \A j \in Running \ {i} : started'[j] = started[j],
           now <= started[i] + LongestTask
    PROVE  /\ PermitsLeft' /\ Begun' /\ ScanInTime' /\ HostBudget'
           /\ Cardinality(Running)' <= Limit
<1>1. /\ Running \in SUBSET Nat /\ IsFiniteSet(Running)
      /\ Cardinality(Running) \in Nat /\ Cardinality(Running) <= Limit
      /\ Limit \in Nat \ {0} /\ now \in Int /\ LongestTask \in Nat
  BY SetsOfTasks, SomeTasks, Constants, Durations DEF Order, TypeOK
<1>2. LongestTask' = LongestTask
  BY DEF LongestTask
<1>3. \A j : Due(j)' = Due(j)
  BY <1>2 DEF Due
<1>4. Begun'
  BY <1>3 DEF Begun
<1>5. ScanInTime' /\ HostBudget'
  BY <1>2 DEF ScanInTime, HostBudget
<1>6. i \in Tasks /\ Over[i] \in Int /\ now <= Over[i]
  BY <1>1, SetsOfTasks DEF Over, TypeOK
<1>7. \A j \in Running \ {i} : Over'[j] = Over[j]
  BY <1>2, SetsOfTasks DEF Over
<1>8. ASSUME NEW j \in Idle, pc = "scan"
      PROVE  Cardinality(Earlier(j)') + 1 <= Cardinality(PermitSlots(j)')
  <2>1. Earlier(j)' = Earlier(j) /\ Cardinality(Earlier(j)) + 1 <= Cardinality(PermitSlots(j))
    BY <1>8 DEF Earlier, PermitsLeft
  <2>2. Before(j) \in Nat /\ Due(j) \in Int
    <3>1. j - 1 \in Nat
      <4>1. j \in Tasks
        BY DEF Idle, In
      <4>. QED  BY <4>1, TasksFinite
    <3>2. Before(j) \in Nat
      BY <1>1, <3>1, Quotient DEF Before
    <3>. QED  BY <1>1, <3>2 DEF Due
  <2>3. PermitSlots(j)' = Slots(Running \ {i}, Limit, Over', now, LongestTask, Due(j), Before(j))
    BY <1>2, <1>3 DEF PermitSlots
  <2>4. Cardinality(PermitSlots(j)) <= Cardinality(PermitSlots(j)')
    <3>1. Cardinality(Slots(Running, Limit, Over, now, LongestTask, Due(j), Before(j)))
              <= Cardinality(Slots(Running \ {i}, Limit, Over', now, LongestTask, Due(j), Before(j)))
      BY <1>1, <1>6, <1>7, <2>2, WorkerIsDone
    <3>. QED  BY <2>3, <3>1 DEF PermitSlots
  <2>5. Earlier(j) \in SUBSET Tasks
    BY SetsOfTasks DEF Earlier
  <2>6. Cardinality(Earlier(j)) \in Nat
    BY <2>5, SomeTasks
  <2>7. Cardinality(PermitSlots(j)) \in Nat
    BY <1>1, <2>2, SlotsFinite DEF PermitSlots
  <2>8. Cardinality(PermitSlots(j)') \in Nat
    <3>1. IsFiniteSet(Running \ {i})
      BY <1>1, FS_RemoveElement
    <3>. QED  BY <1>1, <2>2, <2>3, <3>1, SlotsFinite
  <2>. QED  BY <2>1, <2>4, <2>6, <2>7, <2>8
<1>9. Cardinality(Running \ {i}) <= Limit
  <2>1. Cardinality(Running \ {i}) = Cardinality(Running) - 1
    BY <1>1, FS_RemoveElement
  <2>. QED  BY <1>1, <2>1
<1>. QED  BY <1>4, <1>5, <1>8, <1>9 DEF PermitsLeft

LEMMA TaskReturns ==
    ASSUME IInv, NEW i \in Tasks, task[i] \in {"probing", "connecting"},
           NEW state \in {"open", "closed", "filtered", "no-response"}, Returns(i, state),
           now <= started[i] + LongestTask,
           state = "filtered" => now >= started[i] + waited[i] + Slept(MaxRetries),
           state = "no-response" => now >= started[i] + waited[i] + ConnectTimeout
    PROVE  IInv'
<1>. USE DEF IInv
<1>1. /\ task' = [task EXCEPT ![i] = state]
      /\ took' = [took EXCEPT ![i] = now - started[i]]
      /\ tries' = [tries EXCEPT ![i] = 0]
      /\ timer' = [timer EXCEPT ![i] = 0]
      /\ started' = [started EXCEPT ![i] = 0]
      /\ UNCHANGED <<syn, now, pc, waited, detected>>
  BY DEF Returns
<1>2. /\ state \in States /\ state \notin Awake /\ state \notin {"idle", "waiting", "probing"}
      /\ i \in Running
  BY DEF States, Awake, Running
<1>3. /\ task' \in [Tasks -> States] /\ task'[i] = state
      /\ \A j \in Tasks \ {i} : task'[j] = task[j]
      /\ In("idle")' = In("idle") \ {i}
      /\ In("waiting")' = In("waiting") \ {i}
      /\ In("probing")' = In("probing") \ {i}
      /\ Running' = Running \ {i}
  <2>1. {"idle", "waiting", "probing"} \subseteq States
    BY DEF States, Awake
  <2>. QED  BY <1>1, <1>2, <2>1, Moves
<1>4. In("idle")' = In("idle") /\ In("waiting")' = In("waiting") /\ Idle' = Idle
  BY <1>3 DEF In, Idle
<1>5. /\ started \in [Tasks -> Nat] /\ waited \in [Tasks -> Nat] /\ took \in [Tasks -> Nat]
      /\ tries \in [Tasks -> 0..MaxRetries] /\ timer \in [Tasks -> Nat] /\ now \in Nat
      /\ MaxRetries \in Nat
  BY Constants DEF TypeOK
<1>6. InTime(i) /\ started[i] + waited[i] <= now
  BY <1>2 DEF AllInTime, InTime, Running
<1>7. now - started[i] \in Nat
  BY <1>5, <1>6
<1>8. TypeOK'
  <2>1. /\ tries' \in [Tasks -> 0..MaxRetries] /\ timer' \in [Tasks -> Nat]
        /\ started' \in [Tasks -> Nat] /\ waited' \in [Tasks -> Nat]
        /\ took' \in [Tasks -> Nat]
    BY <1>1, <1>5, <1>7
  <2>. QED  BY <1>1, <1>3, <2>1 DEF TypeOK, States
<1>9. AllInTime'
  <2>1. ASSUME NEW j \in Tasks \ {i}
        PROVE  InTime(j)'
    BY <1>1, <1>3, <1>5, StaysInTime DEF AllInTime
  <2>2. InTime(i)'
    <3>1. /\ tries'[i] = 0 /\ waited'[i] = waited[i] /\ took'[i] = now - started[i]
          /\ task'[i] = state /\ syn' = syn
      BY <1>1, <1>3, <1>5
    <3>2. LongestTask' = LongestTask /\ LongestTask \in Nat
      BY <1>1, Durations DEF LongestTask, TypeOK
    <3>3. took'[i] <= LongestTask'
      BY <1>5, <3>1, <3>2
    <3>4. Slept(MaxRetries) \in Nat /\ ConnectTimeout \in Nat
      BY <1>5, SleptOnce, Constants
    <3>5. /\ state = "filtered" => took'[i] >= waited[i] + Slept(MaxRetries)
          /\ state = "no-response" => took'[i] >= waited[i] + ConnectTimeout
      BY <1>5, <3>1, <3>4
    <3>. QED  BY <1>2, <1>6, <3>1, <3>3, <3>5 DEF InTime, Awake
  <2>. QED  BY <2>1, <2>2 DEF AllInTime
<1>10. PermitsLeft' /\ Begun' /\ ScanInTime' /\ HostBudget' /\ Cardinality(Running)' <= Limit
  <2>1. \A j \in Running \ {i} : started'[j] = started[j]
    BY <1>1, <1>5, SetsOfTasks
  <2>. QED  BY <1>1, <1>2, <1>3, <1>4, <2>1, PermitIsFree
<1>11. TurnsLeft' /\ Cardinality(In("probing"))' <= Threads
  <2>1. \A j \in In("waiting") : started'[j] = started[j]
    BY <1>1, <1>4, <1>5 DEF In
  <2>2. \A j \in In("probing") \ {i} : timer'[j] = timer[j]
    BY <1>1, <1>5 DEF In
  <2>3. CASE i \in In("probing")
    BY <1>1, <1>3, <1>4, <2>1, <2>2, <2>3, ThreadIsFree
  <2>4. CASE i \notin In("probing")
    <3>1. In("probing")' = In("probing")
      BY <1>3, <2>4
    <3>. QED  BY <1>1, <1>4, <2>1, <2>2, <2>4, <3>1, PoolSame DEF Order
  <2>. QED  BY <2>3, <2>4
<1>12. Order'
  <2>1. \A a \in Idle : \A b \in Tasks \ Idle : b < a
    BY DEF Order
  <2>2. pc' # "scan" => Idle' \cup Running' = {}
    BY <1>1, <1>3, <1>4 DEF Order
  <2>. QED  BY <1>1, <1>4, <1>10, <1>11, <2>1, <2>2 DEF Order
<1>. QED  BY <1>8, <1>9, <1>10, <1>11, <1>12

(* An attempt begins or ends, and the task goes on under its permit.       *)
LEMMA TaskGoesOn ==
    ASSUME IInv, NEW i \in Tasks, task[i] \in {"probing", "connecting", "sleeping"},
           NEW x \in {"connecting", "sleeping"}, task' = [task EXCEPT ![i] = x],
           NEW n \in 0..MaxRetries, tries' = [tries EXCEPT ![i] = n],
           NEW u \in Nat, timer' = [timer EXCEPT ![i] = u],
           UNCHANGED <<syn, now, pc, started, waited, took, detected>>,
           InTime(i)'
    PROVE  IInv'
<1>. USE DEF IInv
<1>1. x \in States /\ x \in Awake /\ i \in Running
  BY DEF States, Awake, Running
<1>2. /\ task' \in [Tasks -> States] /\ task'[i] = x
      /\ \A j \in Tasks \ {i} : task'[j] = task[j]
      /\ In("idle")' = In("idle") \ {i}
      /\ In("waiting")' = In("waiting") \ {i}
      /\ In("probing")' = In("probing") \ {i}
      /\ Running' = Running \cup {i}
  <2>1. {"idle", "waiting", "probing"} \subseteq States /\ x \notin {"idle", "waiting", "probing"}
    BY DEF States, Awake
  <2>. QED  BY <1>1, <2>1, Moves
<1>3. Idle' = Idle /\ In("waiting")' = In("waiting") /\ Running' = Running
  BY <1>1, <1>2 DEF In, Idle
<1>4. tries \in [Tasks -> 0..MaxRetries] /\ timer \in [Tasks -> Nat]
  BY DEF TypeOK
<1>5. tries' \in [Tasks -> 0..MaxRetries] /\ timer' \in [Tasks -> Nat]
  BY <1>4
<1>6. TypeOK'
  BY <1>2, <1>5 DEF TypeOK, States
<1>7. AllInTime'
  <2>1. ASSUME NEW j \in Tasks \ {i}
        PROVE  InTime(j)'
    BY <1>2, <1>4, StaysInTime DEF AllInTime
  <2>. QED  BY <2>1 DEF AllInTime
<1>8. PermitsLeft' /\ Begun' /\ ScanInTime' /\ HostBudget'
  BY <1>3, PermitsSame
<1>9. \A j \in In("probing") \ {i} : timer'[j] = timer[j]
  BY <1>4 DEF In
<1>10. TurnsLeft' /\ Cardinality(In("probing"))' <= Threads
  <2>1. CASE i \in In("probing")
    BY <1>2, <1>3, <1>9, <2>1, ThreadIsFree
  <2>2. CASE i \notin In("probing")
    <3>1. In("probing")' = In("probing")
      BY <1>2, <2>2
    <3>. QED  BY <1>3, <1>9, <2>2, <3>1, PoolSame DEF Order
  <2>. QED  BY <2>1, <2>2
<1>11. Order'
  BY <1>3, <1>10 DEF Order
<1>. QED  BY <1>6, <1>7, <1>8, <1>10, <1>11

LEMMA SynFallsBackKeepsInv ==
    ASSUME IInv, NEW i \in Tasks, SynFallsBack(i)
    PROVE  IInv'
<1>1. /\ task[i] = "probing"
      /\ task' = [task EXCEPT ![i] = "connecting"]
      /\ timer' = [timer EXCEPT ![i] = now + ConnectTimeout]
      /\ UNCHANGED <<syn, now, pc, tries, started, waited, took, detected>>
  BY DEF SynFallsBack
<1>2. /\ InTime(i) /\ task \in [Tasks -> States] /\ syn \in BOOLEAN
      /\ tries \in [Tasks -> 0..MaxRetries] /\ timer \in [Tasks -> Nat]
      /\ started[i] \in Nat /\ waited[i] \in Nat /\ now \in Nat
      /\ ConnectTimeout \in Nat
  BY Constants DEF IInv, AllInTime, TypeOK, States
<1>3. /\ syn /\ tries[i] = 0 /\ started[i] + waited[i] <= now
      /\ now <= started[i] + waited[i] + LongestSyn /\ waited[i] <= LongestTurn
  BY <1>1, <1>2 DEF InTime, Awake
<1>4. SynPart = LongestTurn + LongestSyn /\ LongestTurn \in Nat /\ LongestSyn \in Nat
  BY <1>2, <1>3, Durations DEF SynPart
<1>5. SynPart' = SynPart /\ LongestTask' = LongestTask
  BY <1>1 DEF SynPart, LongestTask
<1>6. Slept(0) = 0 /\ (0 + 1) * ConnectTimeout = ConnectTimeout
  BY <1>2, SleptOnce
<1>. DEFINE u == now + ConnectTimeout
<1>7. /\ task'[i] = "connecting" /\ timer'[i] = u /\ tries'[i] = 0 /\ now' = now /\ syn' = syn
      /\ started'[i] = started[i] /\ waited'[i] = waited[i] /\ took'[i] = took[i]
  BY <1>1, <1>2, <1>3
<1>8. /\ started[i] + waited[i] + Slept(0) <= now /\ now <= u
      /\ u <= started[i] + SynPart + (0 + 1) * ConnectTimeout + Slept(0)
  BY <1>2, <1>3, <1>4, <1>6
<1>9. InTime(i)'
  BY <1>2, <1>3, <1>5, <1>7, <1>8 DEF InTime
<1>10. u \in Nat /\ tries[i] \in 0..MaxRetries /\ tries' = [tries EXCEPT ![i] = tries[i]]
  BY <1>1, <1>2
<1>. QED  BY <1>1, <1>9, <1>10, TaskGoesOn

LEMMA RetriesKeepsInv ==
    ASSUME IInv, NEW i \in Tasks, Retries(i)
    PROVE  IInv'
<1>. DEFINE n == tries[i] + 1
            u == now + Sleep(tries[i])
<1>1. /\ task[i] = "connecting" /\ tries[i] < MaxRetries
      /\ task' = [task EXCEPT ![i] = "sleeping"]
      /\ timer' = [timer EXCEPT ![i] = u]
      /\ tries' = [tries EXCEPT ![i] = n]
      /\ UNCHANGED <<syn, now, pc, started, waited, took, detected>>
  BY DEF Retries, RetriesLeft, IInv, TypeOK
<1>2. /\ InTime(i) /\ task \in [Tasks -> States] /\ syn \in BOOLEAN
      /\ tries \in [Tasks -> 0..MaxRetries] /\ timer \in [Tasks -> Nat]
      /\ started[i] \in Nat /\ waited[i] \in Nat /\ now \in Nat
      /\ ConnectTimeout \in Nat /\ MaxRetries \in Nat
  BY Constants DEF IInv, AllInTime, TypeOK, States
<1>3. tries[i] \in Nat /\ n \in 0..MaxRetries
  BY <1>1, <1>2
<1>4. /\ Slept(tries[i]) \in Nat /\ Sleep(tries[i]) \in Nat
      /\ Slept(n) = Slept(tries[i]) + Sleep(tries[i])
  BY <1>3, SleptOnce
<1>5. /\ started[i] + waited[i] + Slept(tries[i]) <= now
      /\ now <= started[i] + SynPart + n * ConnectTimeout + Slept(tries[i])
  <2>1. now <= timer[i] /\ timer[i] <= started[i] + SynPart + n * ConnectTimeout + Slept(tries[i])
    BY <1>1, <1>2 DEF InTime
  <2>2. n * ConnectTimeout \in Nat /\ SynPart \in Nat /\ timer[i] \in Nat
    BY <1>2, <1>3, Durations
  <2>. QED  BY <1>1, <1>2, <1>4, <2>1, <2>2 DEF InTime
<1>6. SynPart' = SynPart /\ LongestTask' = LongestTask
  BY <1>1 DEF SynPart, LongestTask
<1>7. /\ task'[i] = "sleeping" /\ timer'[i] = u /\ tries'[i] = n /\ now' = now /\ syn' = syn
      /\ started'[i] = started[i] /\ waited'[i] = waited[i] /\ took'[i] = took[i]
  BY <1>1, <1>2
<1>8. /\ started[i] + waited[i] + Slept(n) <= u /\ now <= u
      /\ u <= started[i] + SynPart + n * ConnectTimeout + Slept(n)
  <2>1. n * ConnectTimeout \in Nat /\ SynPart \in Nat
    BY <1>2, <1>3, Durations
  <2>. HIDE DEF n
  <2>. QED  BY <1>2, <1>4, <1>5, <2>1
<1>9. InTime(i)'
  <2>. HIDE DEF n, u
  <2>1. task[i] \in Awake /\ (~syn => waited[i] = 0) /\ waited[i] <= LongestTurn
        /\ started[i] + waited[i] <= now /\ took[i] <= LongestTask
    BY <1>1, <1>2 DEF InTime, Awake
  <2>. QED  BY <1>6, <1>7, <1>8, <2>1 DEF InTime
<1>10. u \in Nat
  BY <1>2, <1>4
<1>. QED  BY <1>1, <1>3, <1>9, <1>10, TaskGoesOn

LEMMA WakesUpKeepsInv ==
    ASSUME IInv, NEW i \in Tasks, WakesUp(i)
    PROVE  IInv'
<1>. DEFINE n == tries[i]
            u == now + ConnectTimeout
<1>1. /\ task[i] = "sleeping" /\ now = timer[i]
      /\ task' = [task EXCEPT ![i] = "connecting"]
      /\ timer' = [timer EXCEPT ![i] = u]
      /\ UNCHANGED <<syn, now, pc, tries, started, waited, took, detected>>
  BY DEF WakesUp
<1>2. /\ InTime(i) /\ task \in [Tasks -> States] /\ syn \in BOOLEAN
      /\ tries \in [Tasks -> 0..MaxRetries] /\ timer \in [Tasks -> Nat]
      /\ started[i] \in Nat /\ waited[i] \in Nat /\ now \in Nat
      /\ ConnectTimeout \in Nat /\ MaxRetries \in Nat
  BY Constants DEF IInv, AllInTime, TypeOK, States
<1>3. n \in Nat /\ n \in 0..MaxRetries
  BY <1>2
<1>4. Slept(n) \in Nat
  BY <1>3, SleptOnce
<1>5. /\ started[i] + waited[i] + Slept(n) <= now
      /\ now <= started[i] + SynPart + n * ConnectTimeout + Slept(n)
  BY <1>1, <1>2 DEF InTime
<1>6. SynPart' = SynPart /\ LongestTask' = LongestTask
  BY <1>1 DEF SynPart, LongestTask
<1>7. /\ task'[i] = "connecting" /\ timer'[i] = u /\ tries'[i] = n /\ now' = now /\ syn' = syn
      /\ started'[i] = started[i] /\ waited'[i] = waited[i] /\ took'[i] = took[i]
  BY <1>1, <1>2
<1>8. now <= u /\ u <= started[i] + SynPart + (n + 1) * ConnectTimeout + Slept(n)
  <2>1. n * ConnectTimeout \in Nat /\ SynPart \in Nat
        /\ (n + 1) * ConnectTimeout = n * ConnectTimeout + ConnectTimeout
    BY <1>2, <1>3, Durations
  <2>. HIDE DEF n
  <2>. QED  BY <1>2, <1>4, <1>5, <2>1
<1>9. InTime(i)'
  <2>. HIDE DEF n, u
  <2>1. task[i] \in Awake /\ (~syn => waited[i] = 0) /\ waited[i] <= LongestTurn
        /\ started[i] + waited[i] <= now /\ took[i] <= LongestTask
    BY <1>1, <1>2 DEF InTime, Awake
  <2>. QED  BY <1>5, <1>6, <1>7, <1>8, <2>1 DEF InTime
<1>10. u \in Nat /\ tries' = [tries EXCEPT ![i] = n]
  BY <1>1, <1>2
<1>. QED  BY <1>1, <1>3, <1>9, <1>10, TaskGoesOn

(* A probe that waits for a thread has not waited longer than its turn.    *)
LEMMA TurnComes ==
    ASSUME TypeOK, AllInTime, Order, TurnsLeft, NEW i \in In("waiting")
    PROVE  now <= started[i] + LongestTurn
<1>1. /\ In("probing") \in SUBSET Nat /\ IsFiniteSet(In("probing"))
      /\ Cardinality(In("probing")) <= Threads
      /\ Threads \in Nat /\ now \in Int /\ LongestSyn \in Nat /\ LongestTurn \in Nat /\ Turns \in Nat
  BY SetsOfTasks, SomeTasks, Constants, Durations DEF Order, TypeOK
<1>2. Cardinality(TurnSlots(i)) >= 1
  <2>1. Ahead(i) \in SUBSET Tasks
    BY SetsOfTasks DEF Ahead
  <2>2. Cardinality(Ahead(i)) \in Nat /\ Cardinality(TurnSlots(i)) \in Nat
    BY <1>1, <2>1, SomeTasks, SlotsFinite DEF TurnSlots
  <2>. QED  BY <2>2 DEF TurnsLeft
<1>3. \A w \in In("probing") : timer[w] \in Int /\ now <= timer[w]
  BY DEF In, AllInTime, InTime, TypeOK
<1>4. started[i] + LongestTurn \in Int
  BY <1>1, SetsOfTasks DEF TypeOK
<1>5. \/ \E w \in In("probing") : timer[w] <= started[i] + LongestTurn
      \/ now <= started[i] + LongestTurn
  BY <1>1, <1>2, <1>3, <1>4, SlotLeft DEF TurnSlots
<1>. QED  BY <1>1, <1>3, <1>4, <1>5

LEMMA TakesThreadKeepsInv ==
    ASSUME IInv, NEW i \in Tasks, TakesThread(i)
    PROVE  IInv'
<1>. USE DEF IInv
<1>. DEFINE busy == In("probing")
            u == now + ConnectTimeout + Floor
            w == now - started[i]
<1>1. /\ task[i] = "waiting" /\ Cardinality(busy) < Threads
      /\ \A j \in In("waiting") : i <= j
      /\ task' = [task EXCEPT ![i] = "probing"]
      /\ timer' = [timer EXCEPT ![i] = u]
      /\ waited' = [waited EXCEPT ![i] = w]
      /\ UNCHANGED <<syn, now, pc, tries, started, took, detected>>
  BY DEF TakesThread, HasThread, Deadline
<1>2. /\ InTime(i) /\ task \in [Tasks -> States] /\ syn \in BOOLEAN
      /\ timer \in [Tasks -> Nat] /\ started \in [Tasks -> Nat]
      /\ waited \in [Tasks -> Nat] /\ now \in Nat
      /\ ConnectTimeout \in Nat /\ Floor \in Nat /\ Threads \in Nat
  BY Constants DEF AllInTime, TypeOK, States
<1>3. /\ task' \in [Tasks -> States] /\ task'[i] = "probing"
      /\ \A j \in Tasks \ {i} : task'[j] = task[j]
      /\ In("idle")' = In("idle") \ {i}
      /\ In("waiting")' = In("waiting") \ {i}
      /\ busy' = busy \cup {i}
      /\ Running' = Running \cup {i}
  <2>1. {"idle", "waiting", "probing"} \subseteq States /\ "probing" \in Awake
    BY DEF States, Awake
  <2>. QED  BY <1>1, <2>1, Moves
<1>4. Idle' = Idle /\ Running' = Running /\ i \in In("waiting") /\ i \notin busy
  BY <1>1, <1>3 DEF In, Idle, Running, Awake
<1>5. /\ started[i] <= now /\ waited[i] = 0 /\ tries[i] = 0 /\ syn
  <2>1. task[i] \in Awake
    BY <1>1 DEF Awake
  <2>. QED  BY <1>1, <1>2, <2>1 DEF InTime
<1>6. u \in Nat /\ w \in Nat /\ u = now + LongestSyn
  BY <1>2, <1>5 DEF LongestSyn
<1>7. TypeOK'
  <2>1. timer' \in [Tasks -> Nat] /\ waited' \in [Tasks -> Nat]
    BY <1>1, <1>2, <1>6
  <2>. QED  BY <1>1, <1>3, <2>1 DEF TypeOK, States
<1>8. AllInTime'
  <2>1. ASSUME NEW j \in Tasks \ {i}
        PROVE  InTime(j)'
    BY <1>1, <1>2, <1>3, StaysInTime DEF AllInTime
  <2>2. InTime(i)'
    <3>1. w <= LongestTurn
      <4>1. now <= started[i] + LongestTurn
        BY <1>4, TurnComes
      <4>2. LongestTurn \in Nat /\ started[i] \in Nat
        BY <1>2, Durations
      <4>. QED  BY <1>2, <4>1, <4>2
    <3>2. /\ task'[i] = "probing" /\ timer'[i] = u /\ waited'[i] = w /\ tries'[i] = 0
          /\ started'[i] = started[i] /\ took'[i] = took[i] /\ now' = now /\ syn'
      BY <1>1, <1>2, <1>3, <1>5
    <3>3. started[i] + w = now /\ started[i] + w + LongestSyn = u /\ now <= u
      BY <1>2, <1>5, <1>6 DEF LongestSyn
    <3>4. LongestTask' = LongestTask /\ took[i] <= LongestTask
      BY <1>1, <1>2 DEF LongestTask, InTime
    <3>. HIDE DEF u, w
    <3>5. now <= now
      BY <1>2
    <3>. QED  BY <3>1, <3>2, <3>3, <3>4, <3>5 DEF InTime
  <2>. QED  BY <2>1, <2>2 DEF AllInTime
<1>9. PermitsLeft' /\ Begun' /\ ScanInTime' /\ HostBudget'
  BY <1>1, <1>4, PermitsSame
<1>10. /\ busy \in SUBSET Nat /\ IsFiniteSet(busy) /\ Cardinality(busy) \in Nat /\ i \in Nat
  BY SetsOfTasks, SomeTasks, TasksFinite
<1>11. Order'
  <2>1. Cardinality(busy \cup {i}) = Cardinality(busy) + 1
    BY <1>4, <1>10, FS_AddElement
  <2>2. Cardinality(busy') <= Threads
    <3>1. Cardinality(busy) + 1 <= Threads
      BY <1>1, <1>2, <1>10
    <3>. QED  BY <1>3, <2>1, <3>1
  <2>. QED  BY <1>1, <1>4, <2>2 DEF Order
<1>12. TurnsLeft'
  <2>. SUFFICES ASSUME NEW j \in In("waiting") \ {i}
                PROVE  Cardinality(Ahead(j)') + 1 <= Cardinality(TurnSlots(j)')
    BY <1>3 DEF TurnsLeft
  <2>1. /\ LongestSyn \in Nat /\ Turns \in Nat /\ started[j] + LongestTurn \in Int
    BY <1>2, Durations, SetsOfTasks
  <2>2. Cardinality(Ahead(j)') = Cardinality(Ahead(j)) - 1 /\ Cardinality(Ahead(j)) \in Nat
    <3>1. i < j
      <4>1. i <= j /\ i # j /\ j \in Tasks
        BY <1>1, SetsOfTasks
      <4>2. i \in Nat /\ j \in Nat
        BY <4>1, TasksFinite
      <4>. QED  BY <4>1, <4>2
    <3>2. Ahead(j)' = Ahead(j) \ {i} /\ i \in Ahead(j)
      BY <1>3, <1>4, <3>1 DEF Ahead
    <3>3. Ahead(j) \in SUBSET Tasks
      BY SetsOfTasks DEF Ahead
    <3>4. IsFiniteSet(Ahead(j)) /\ Cardinality(Ahead(j)) \in Nat
      BY <3>3, SomeTasks
    <3>. QED  BY <3>2, <3>4, FS_RemoveElement
  <2>3. TurnSlots(j)' = Slots(busy \cup {i}, Threads, timer', now, LongestSyn,
                              started[j] + LongestTurn, Turns)
    BY <1>1, <1>3 DEF TurnSlots
  <2>4. /\ \A v \in busy : timer'[v] = timer[v]
        /\ timer'[i] \in Int /\ timer'[i] <= now + LongestSyn
    BY <1>1, <1>2, <1>4, <1>6 DEF In
  <2>5. Cardinality(Slots(busy, Threads, timer, now, LongestSyn, started[j] + LongestTurn, Turns)) - 1
          <= Cardinality(Slots(busy \cup {i}, Threads, timer', now, LongestSyn,
                               started[j] + LongestTurn, Turns))
    <3>. DEFINE due == started[j] + LongestTurn
    <3>1. /\ busy \in SUBSET Nat /\ IsFiniteSet(busy) /\ Cardinality(busy) < Threads
          /\ i \in Nat \ busy /\ Threads \in Nat /\ now \in Int /\ LongestSyn \in Nat
          /\ due \in Int /\ Turns \in Nat
      BY <1>1, <1>2, <1>4, <1>10, <2>1
    <3>. HIDE DEF busy, due
    <3>2. Cardinality(Slots(busy, Threads, timer, now, LongestSyn, due, Turns)) - 1
            <= Cardinality(Slots(busy \cup {i}, Threads, timer', now, LongestSyn, due, Turns))
      BY <2>4, <3>1, WorkerStarts
    <3>. QED  BY <3>2 DEF due
  <2>6. Cardinality(TurnSlots(j)) \in Nat /\ Cardinality(TurnSlots(j)') \in Nat
    <3>1. IsFiniteSet(busy \cup {i})
      BY <1>10, FS_AddElement
    <3>. QED  BY <1>2, <1>10, <2>1, <2>3, <3>1, SlotsFinite DEF TurnSlots
  <2>7. Cardinality(Ahead(j)) + 1 <= Cardinality(TurnSlots(j))
    BY DEF TurnsLeft
  <2>8. Cardinality(TurnSlots(j)) - 1 <= Cardinality(TurnSlots(j)')
    BY <2>3, <2>5 DEF TurnSlots
  <2>. QED  BY <2>2, <2>6, <2>7, <2>8
<1>. QED  BY <1>7, <1>8, <1>9, <1>11, <1>12

(* Where a task stands bounds its life: at a moment t that is not past its *)
(* timer, or its turn for a thread, it has not outlived its budget.        *)
LEMMA WithinBudget ==
    ASSUME TypeOK, AllInTime, NEW i \in Running, NEW t \in Nat,
           task[i] = "waiting" => t <= started[i] + LongestTurn,
           task[i] # "waiting" => t <= timer[i]
    PROVE  t <= started[i] + LongestTask
<1>1. /\ i \in Tasks /\ InTime(i) /\ syn \in BOOLEAN
      /\ started[i] \in Nat /\ waited[i] \in Nat /\ timer[i] \in Nat
      /\ tries[i] \in 0..MaxRetries /\ tries[i] \in Nat
      /\ task[i] \in {"waiting", "probing", "connecting", "sleeping"}
      /\ ConnectTimeout \in Nat
  BY Constants DEF Running, AllInTime, TypeOK, Awake
<1>2. /\ LongestSyn \in Nat /\ LongestTurn \in Nat /\ SynPart \in Nat /\ LongestTask \in Nat
      /\ syn => LongestTurn + LongestSyn <= LongestTask
      /\ SynPart + (tries[i] + 1) * ConnectTimeout + Slept(tries[i]) <= LongestTask
  BY <1>1, Durations
<1>3. /\ Slept(tries[i]) \in Nat
      /\ tries[i] * ConnectTimeout \in Nat
      /\ (tries[i] + 1) * ConnectTimeout = tries[i] * ConnectTimeout + ConnectTimeout
  <2>1. Slept(tries[i]) \in Nat
    BY <1>1, SleptOnce
  <2>2. \A n \in Nat : /\ n * ConnectTimeout \in Nat
                       /\ (n + 1) * ConnectTimeout = n * ConnectTimeout + ConnectTimeout
    BY <1>1
  <2>. QED  BY <1>1, <2>1, <2>2
<1>4. CASE task[i] = "waiting"
  BY <1>1, <1>2, <1>4 DEF InTime
<1>5. CASE task[i] = "probing"
  <2>1. syn /\ timer[i] = started[i] + waited[i] + LongestSyn /\ waited[i] <= LongestTurn
    BY <1>1, <1>5 DEF InTime
  <2>. QED  BY <1>1, <1>2, <1>5, <2>1
<1>6. CASE task[i] = "connecting"
  <2>1. timer[i] <= started[i] + SynPart + (tries[i] + 1) * ConnectTimeout + Slept(tries[i])
    BY <1>1, <1>6 DEF InTime
  <2>2. (tries[i] + 1) * ConnectTimeout \in Nat
    BY <1>1, <1>3
  <2>. QED  BY <1>1, <1>2, <1>3, <1>6, <2>1, <2>2
<1>7. CASE task[i] = "sleeping"
  <2>1. timer[i] <= started[i] + SynPart + tries[i] * ConnectTimeout + Slept(tries[i])
    BY <1>1, <1>7 DEF InTime
  <2>. QED  BY <1>1, <1>2, <1>3, <1>7, <2>1
<1>. QED  BY <1>1, <1>4, <1>5, <1>6, <1>7

LEMMA RunningInTime ==
    ASSUME TypeOK, AllInTime, Order, TurnsLeft, NEW i \in Running
    PROVE  now <= started[i] + LongestTask
<1>1. task[i] = "waiting" => now <= started[i] + LongestTurn
  BY TurnComes DEF Running, In
<1>2. task[i] # "waiting" => now <= timer[i]
  <2>1. InTime(i) /\ timer[i] \in Nat /\ now \in Nat /\ task[i] \in Awake
    BY DEF Running, AllInTime, TypeOK
  <2>. QED  BY <2>1 DEF InTime, Awake
<1>3. now \in Nat
  BY DEF TypeOK
<1>. QED  BY <1>1, <1>2, <1>3, WithinBudget

(* What the invariant says of the permits and the ports behind i.          *)
LEMMA PermitComes ==
    ASSUME TypeOK, AllInTime, Order, TurnsLeft, PermitsLeft, pc = "scan", NEW i \in Idle
    PROVE  /\ i \in Tasks /\ Before(i) \in Nat /\ Due(i) \in Nat
           /\ Earlier(i) \in SUBSET Tasks /\ Cardinality(Earlier(i)) \in Nat
           /\ Cardinality(PermitSlots(i)) \in Nat
           /\ now <= Due(i)
<1>1. /\ Running \in SUBSET Nat /\ IsFiniteSet(Running) /\ Cardinality(Running) <= Limit
      /\ Limit \in Nat \ {0} /\ now \in Int /\ LongestTask \in Nat
  BY SetsOfTasks, SomeTasks, Constants, Durations DEF Order, TypeOK
<1>2. i \in Tasks
  BY DEF Idle, In
<1>3. i - 1 \in Nat
  BY <1>2, TasksFinite
<1>4. Before(i) \in Nat
  BY <1>1, <1>3, Quotient DEF Before
<1>5. Due(i) \in Nat
  BY <1>1, <1>4 DEF Due
<1>6. Earlier(i) \in SUBSET Tasks
  BY SetsOfTasks DEF Earlier
<1>7. Cardinality(Earlier(i)) \in Nat
  BY <1>6, SomeTasks
<1>8. Cardinality(PermitSlots(i)) \in Nat
  BY <1>1, <1>4, SlotsFinite DEF PermitSlots
<1>9. \A w \in Running : Over[w] \in Int /\ now <= Over[w]
  <2>. SUFFICES ASSUME NEW w \in Running
                PROVE  Over[w] \in Int /\ now <= Over[w]
    OBVIOUS
  <2>1. w \in Tasks /\ started[w] \in Nat
    BY DEF Running, TypeOK
  <2>2. now <= started[w] + LongestTask
    BY RunningInTime
  <2>. QED  BY <1>1, <2>1, <2>2 DEF Over
<1>10. Cardinality(PermitSlots(i)) >= 1
  BY <1>7, <1>8 DEF PermitsLeft
<1>11. \/ \E w \in Running : Over[w] <= Due(i)
       \/ now <= Due(i)
  <2>1. Cardinality(Slots(Running, Limit, Over, now, LongestTask, Due(i), Before(i))) >= 1
    BY <1>10 DEF PermitSlots
  <2>. QED  BY <1>1, <1>4, <1>5, <1>9, <2>1, SlotLeft
<1>12. now <= Due(i)
  BY <1>1, <1>5, <1>9, <1>11
<1>. QED  BY <1>2, <1>4, <1>5, <1>6, <1>7, <1>8, <1>12

(* A task is spawned: the ports behind it lose one that is before them,    *)
(* and the permits one slot.                                               *)
LEMMA SpawnTakesPermit ==
    ASSUME IInv, NEW i \in Idle, pc = "scan", Cardinality(Running) < Limit,
           \A j \in Idle : i <= j,
           UNCHANGED <<syn, pc, now, detected>>,
           Idle' = Idle \ {i}, Running' = Running \cup {i},
           started' = [started EXCEPT ![i] = now]
    PROVE  PermitsLeft' /\ Begun' /\ ScanInTime' /\ HostBudget'
<1>. USE DEF IInv
<1>1. /\ Running \in SUBSET Nat /\ IsFiniteSet(Running) /\ Cardinality(Running) \in Nat
      /\ Limit \in Nat \ {0} /\ now \in Int /\ LongestTask \in Nat
      /\ started \in [Tasks -> Nat] /\ i \in Tasks /\ i \in Nat /\ i \notin Running
  <2>1. i \in Tasks
    BY DEF Idle, In
  <2>2. i \in Nat
    BY <2>1, TasksFinite
  <2>3. Running \in SUBSET Tasks /\ i \notin Running
    BY SetsOfTasks
  <2>4. Running \in SUBSET Nat /\ IsFiniteSet(Running) /\ Cardinality(Running) \in Nat
    BY <2>3, SomeTasks
  <2>5. Limit \in Nat \ {0} /\ now \in Int /\ LongestTask \in Nat /\ started \in [Tasks -> Nat]
    BY Constants, Durations DEF TypeOK
  <2>. QED  BY <2>1, <2>2, <2>3, <2>4, <2>5
<1>2. LongestTask' = LongestTask
  BY DEF LongestTask
<1>3. \A j : Due(j)' = Due(j)
  BY <1>2 DEF Due
<1>4. ScanInTime' /\ HostBudget'
  BY <1>2 DEF ScanInTime, HostBudget
<1>5. Begun'
  <2>1. ASSUME NEW j \in Running
        PROVE  started'[j] <= Due(j)'
    <3>1. j # i /\ j \in Tasks
      BY <1>1, SetsOfTasks
    <3>2. started'[j] = started[j]
      BY <1>1, <3>1
    <3>. QED  BY <1>3, <3>2 DEF Begun
  <2>2. started'[i] <= Due(i)'
    <3>1. started'[i] = now
      BY <1>1
    <3>2. now <= Due(i)
      BY PermitComes
    <3>. QED  BY <1>3, <3>1, <3>2
  <2>. QED  BY <2>1, <2>2 DEF Begun
<1>6. ASSUME NEW j \in Idle \ {i}
      PROVE  Cardinality(Earlier(j)') + 1 <= Cardinality(PermitSlots(j)')
  <2>1. /\ j \in Tasks /\ Before(j) \in Nat /\ Due(j) \in Int
        /\ Earlier(j) \in SUBSET Tasks /\ Cardinality(Earlier(j)) \in Nat
        /\ Cardinality(PermitSlots(j)) \in Nat
        /\ Cardinality(Earlier(j)) + 1 <= Cardinality(PermitSlots(j))
    BY PermitComes DEF PermitsLeft
  <2>2. Cardinality(Earlier(j)') = Cardinality(Earlier(j)) - 1
    <3>1. i < j
      <4>1. i <= j /\ i # j /\ j \in Nat
        BY <2>1, TasksFinite
      <4>. QED  BY <1>1, <4>1
    <3>2. Earlier(j)' = Earlier(j) \ {i} /\ i \in Earlier(j)
      BY <3>1 DEF Earlier
    <3>3. IsFiniteSet(Earlier(j))
      BY <2>1, SomeTasks
    <3>. QED  BY <2>1, <3>2, <3>3, FS_RemoveElement
  <2>3. PermitSlots(j)' = Slots(Running \cup {i}, Limit, Over', now, LongestTask, Due(j), Before(j))
    BY <1>2, <1>3 DEF PermitSlots
  <2>4. \A v \in Running : Over'[v] = Over[v]
    <3>. SUFFICES ASSUME NEW v \in Running
                  PROVE  Over'[v] = Over[v]
      OBVIOUS
    <3>1. v # i /\ v \in Tasks
      BY <1>1, SetsOfTasks
    <3>2. started'[v] = started[v]
      BY <1>1, <3>1
    <3>. QED  BY <1>2, <3>1, <3>2 DEF Over
  <2>5. Over'[i] \in Int /\ Over'[i] <= now + LongestTask
    <3>1. Over'[i] = now + LongestTask
      BY <1>1, <1>2 DEF Over
    <3>. QED  BY <1>1, <3>1
  <2>6. Cardinality(Slots(Running, Limit, Over, now, LongestTask, Due(j), Before(j))) - 1
          <= Cardinality(Slots(Running \cup {i}, Limit, Over', now, LongestTask, Due(j), Before(j)))
    <3>1. i \in Nat \ Running /\ Limit \in Nat
      BY <1>1
    <3>. QED  BY <1>1, <2>1, <2>4, <2>5, <3>1, WorkerStarts
  <2>7. Cardinality(PermitSlots(j)') \in Nat
    <3>1. IsFiniteSet(Running \cup {i})
      BY <1>1, FS_AddElement
    <3>. QED  BY <1>1, <2>1, <2>3, <3>1, SlotsFinite
  <2>8. Cardinality(PermitSlots(j)) - 1 <= Cardinality(PermitSlots(j)')
    BY <2>3, <2>6 DEF PermitSlots
  <2>. QED  BY <2>1, <2>2, <2>7, <2>8
<1>. QED  BY <1>4, <1>5, <1>6 DEF PermitsLeft

(* Spawned for a SYN scan, it finds threads enough: those before it hold   *)
(* permits.                                                                *)
LEMMA SpawnJoinsQueue ==
    ASSUME IInv, NEW i \in Idle, Cardinality(Running) < Limit, now' = now,
           In("waiting")' = In("waiting") \cup {i}, In("probing")' = In("probing"),
           \A j \in In("probing") : timer'[j] = timer[j],
           started' = [started EXCEPT ![i] = now]
    PROVE  TurnsLeft'
<1>. USE DEF IInv
<1>. DEFINE busy == In("probing")
<1>1. /\ busy \in SUBSET Nat /\ IsFiniteSet(busy) /\ Cardinality(busy) \in Nat
      /\ Cardinality(busy) <= Threads /\ Threads \in Nat \ {0} /\ Limit \in Nat \ {0}
      /\ now \in Int /\ LongestSyn \in Nat /\ Turns \in Nat
      /\ LongestTurn \in Nat /\ LongestTurn = Turns * LongestSyn
      /\ started \in [Tasks -> Nat] /\ i \in Tasks /\ i \notin Running
      /\ IsFiniteSet(In("waiting")) /\ Cardinality(In("waiting")) \in Nat
  BY SetsOfTasks, SomeTasks, Constants, Durations DEF TypeOK, Order
<1>2. \A j \in In("waiting") : j < i
  BY SetsOfTasks DEF Order
<1>3. ASSUME NEW j \in In("waiting")
      PROVE  Cardinality(Ahead(j)') + 1 <= Cardinality(TurnSlots(j)')
  <2>1. ~(i < j)
    <3>1. j < i /\ j \in Nat /\ i \in Nat
      BY <1>1, <1>2, SetsOfTasks, TasksFinite
    <3>. QED  BY <3>1
  <2>2. Ahead(j)' = Ahead(j)
    BY <2>1 DEF Ahead
  <2>3. started'[j] = started[j]
    <3>1. j \in Tasks /\ j # i
      BY <1>1, SetsOfTasks
    <3>. QED  BY <1>1, <3>1
  <2>4. TurnSlots(j)' = Slots(busy, Threads, timer', now, LongestSyn, started[j] + LongestTurn, Turns)
    BY <2>3 DEF TurnSlots
  <2>5. TurnSlots(j)' = TurnSlots(j)
    BY <2>4, SameSlots DEF TurnSlots
  <2>. QED  BY <2>2, <2>5 DEF TurnsLeft
<1>4. Cardinality(Ahead(i)') + 1 <= Cardinality(TurnSlots(i)')
  <2>1. Ahead(i)' = In("waiting")
    <3>1. ~(i < i)
      BY <1>1, TasksFinite
    <3>. QED  BY <1>2, <3>1 DEF Ahead
  <2>2. started'[i] = now
    BY <1>1
  <2>. DEFINE due == now + LongestTurn
  <2>3. TurnSlots(i)' = Slots(busy, Threads, timer', now, LongestSyn, due, Turns)
    BY <2>2 DEF TurnSlots
  <2>4. \A w \in busy : timer'[w] \in Int /\ timer'[w] <= now + LongestSyn
    <3>. SUFFICES ASSUME NEW w \in busy
                  PROVE  timer'[w] \in Int /\ timer'[w] <= now + LongestSyn
      OBVIOUS
    <3>1. /\ w \in Tasks /\ InTime(w) /\ task[w] = "probing" /\ timer[w] \in Nat
          /\ started[w] \in Nat /\ waited[w] \in Nat
      BY DEF In, AllInTime, TypeOK
    <3>2. timer[w] = started[w] + waited[w] + LongestSyn /\ started[w] + waited[w] <= now
      BY <3>1 DEF InTime, Awake
    <3>. QED  BY <1>1, <3>1, <3>2
  <2>5. due \in Int /\ now + Turns * LongestSyn <= due
    BY <1>1
  <2>. HIDE DEF busy, due
  <2>6. Cardinality(Slots(busy, Threads, timer', now, LongestSyn, due, Turns))
          >= Threads * Turns + Threads - Cardinality(busy)
    BY <1>1, <2>4, <2>5, ManySlots
  <2>7. Limit - 1 < Threads * Turns + Threads
    <3>1. Limit - 1 \in Nat
      BY <1>1
    <3>2. Limit - 1 < Turns * Threads + Threads
      BY <1>1, <3>1, Quotient DEF Turns
    <3>3. Turns * Threads = Threads * Turns
      BY <1>1
    <3>. QED  BY <3>2, <3>3
  <2>8. Cardinality(In("waiting")) + Cardinality(busy) <= Limit - 1
    <3>1. IsFiniteSet(In("waiting") \cup busy)
          /\ Cardinality(In("waiting") \cup busy) = Cardinality(In("waiting")) + Cardinality(busy) - 0
      <4>1. In("waiting") \cap busy = {}
        BY SetsOfTasks DEF busy
      <4>2. Cardinality(In("waiting") \cap busy) = 0
        BY <4>1, FS_EmptySet
      <4>. QED  BY <1>1, <4>2, FS_Union
    <3>2. In("waiting") \cup busy \in SUBSET Running /\ IsFiniteSet(Running)
          /\ Cardinality(Running) \in Nat
      BY SetsOfTasks, SomeTasks DEF busy
    <3>3. Cardinality(In("waiting") \cup busy) <= Cardinality(Running)
      BY <3>2, FS_Subset
    <3>. QED  BY <1>1, <3>1, <3>2, <3>3
  <2>9. Cardinality(Slots(busy, Threads, timer', now, LongestSyn, due, Turns)) \in Nat
    BY <1>1, SlotsFinite
  <2>10. Threads * Turns \in Nat
    BY <1>1
  <2>. QED  BY <1>1, <2>1, <2>3, <2>6, <2>7, <2>8, <2>9, <2>10
<1>. QED  BY <1>3, <1>4 DEF TurnsLeft

LEMMA SpawnKeepsInv ==
    ASSUME IInv, NEW i \in Tasks, Spawn(i)
    PROVE  IInv'
<1>. USE DEF IInv
<1>. DEFINE x == IF syn THEN "waiting" ELSE "connecting"
            u == IF syn THEN timer[i] ELSE now + ConnectTimeout
<1>1. /\ pc = "scan" /\ Cardinality(Running) < Limit
      /\ i \in Idle /\ \A j \in Idle : i <= j
      /\ task' = [task EXCEPT ![i] = x]
      /\ timer' = [timer EXCEPT ![i] = u]
      /\ started' = [started EXCEPT ![i] = now]
      /\ UNCHANGED <<syn, now, pc, tries, waited, took, detected>>
  BY DEF Spawn, HasPermit, TypeOK
<1>2. /\ InTime(i) /\ task \in [Tasks -> States] /\ syn \in BOOLEAN
      /\ tries \in [Tasks -> 0..MaxRetries] /\ timer \in [Tasks -> Nat]
      /\ started \in [Tasks -> Nat] /\ waited \in [Tasks -> Nat]
      /\ now \in Nat /\ ConnectTimeout \in Nat /\ MaxRetries \in Nat
  BY Constants DEF AllInTime, TypeOK, States
<1>3. /\ task[i] = "idle" /\ tries[i] = 0 /\ waited[i] = 0
  BY <1>1, <1>2 DEF InTime, Idle, In
<1>4. x \in States /\ x \in Awake /\ x # "idle" /\ x # "probing" /\ u \in Nat
  BY <1>2 DEF States, Awake
<1>5. /\ task' \in [Tasks -> States] /\ task'[i] = x
      /\ \A j \in Tasks \ {i} : task'[j] = task[j]
      /\ In("idle")' = In("idle") \ {i}
      /\ In("probing")' = In("probing") \ {i}
      /\ In("waiting")' = IF syn THEN In("waiting") \cup {i} ELSE In("waiting") \ {i}
      /\ Running' = Running \cup {i}
  <2>1. {"idle", "waiting", "probing"} \subseteq States /\ (x = "waiting" <=> syn)
    BY <1>2 DEF States, Awake
  <2>. HIDE DEF x
  <2>. QED  BY <1>1, <1>4, <2>1, Moves
<1>6. /\ i \notin In("probing") /\ i \notin In("waiting") /\ i \notin Running
      /\ Idle' = Idle \ {i} /\ In("probing")' = In("probing")
  BY <1>3, <1>5 DEF In, Idle, Running, Awake
<1>7. TypeOK'
  <2>1. timer' \in [Tasks -> Nat] /\ started' \in [Tasks -> Nat]
    BY <1>1, <1>2, <1>4
  <2>. QED  BY <1>1, <1>5, <2>1 DEF TypeOK, States
<1>8. AllInTime'
  <2>1. ASSUME NEW j \in Tasks \ {i}
        PROVE  InTime(j)'
    BY <1>1, <1>2, <1>5, StaysInTime DEF AllInTime
  <2>2. InTime(i)'
    <3>1. /\ task'[i] = x /\ timer'[i] = u /\ waited'[i] = 0 /\ tries'[i] = 0
          /\ started'[i] = now /\ took'[i] = took[i] /\ now' = now /\ syn' = syn
      BY <1>1, <1>2, <1>3, <1>5
    <3>2. LongestTask' = LongestTask /\ SynPart' = SynPart /\ took[i] <= LongestTask
      BY <1>1, <1>2 DEF LongestTask, SynPart, InTime
    <3>3. /\ SynPart \in Nat /\ LongestTurn \in Nat /\ Slept(0) = 0
          /\ (0 + 1) * ConnectTimeout = ConnectTimeout
      BY <1>2, Durations, SleptOnce
    <3>4. ~syn => /\ now + 0 + Slept(0) <= now /\ now <= u
                  /\ u <= now + SynPart + (0 + 1) * ConnectTimeout + Slept(0)
      BY <1>2, <3>3
    <3>5. (syn => x = "waiting") /\ (~syn => x = "connecting")
      BY <1>2
    <3>6. now + 0 <= now
      BY <1>2
    <3>. HIDE DEF x, u
    <3>. QED  BY <1>2, <3>1, <3>2, <3>3, <3>4, <3>5, <3>6 DEF InTime
  <2>. QED  BY <2>1, <2>2 DEF AllInTime
<1>9. PermitsLeft' /\ Begun' /\ ScanInTime' /\ HostBudget'
  BY <1>1, <1>5, <1>6, SpawnTakesPermit
<1>10. \A j \in In("probing") : timer'[j] = timer[j]
  BY <1>1, <1>2, <1>6 DEF In
<1>11. TurnsLeft'
  <2>1. CASE syn
    BY <1>1, <1>5, <1>6, <1>10, <2>1, SpawnJoinsQueue
  <2>2. CASE ~syn
    <3>1. In("waiting")' = In("waiting")
      BY <1>5, <1>6, <2>2
    <3>2. \A j \in In("waiting") : started'[j] = started[j]
      BY <1>1, <1>2, <1>6 DEF In
    <3>. QED  BY <1>1, <1>6, <1>10, <3>1, <3>2, PoolSame
  <2>. QED  BY <1>2, <2>1, <2>2
<1>12. Order'
  <2>1. \A a \in Idle' : \A b \in Tasks \ Idle' : b < a
    <3>. SUFFICES ASSUME NEW a \in Idle \ {i}, NEW b \in Tasks \ (Idle \ {i})
                  PROVE  b < a
      BY <1>6
    <3>1. CASE b = i
      <4>1. i <= a /\ i # a /\ a \in Tasks
        BY <1>1, SetsOfTasks
      <4>2. i \in Nat /\ a \in Nat
        BY <4>1, TasksFinite
      <4>. QED  BY <3>1, <4>1, <4>2
    <3>2. CASE b # i
      BY <3>2 DEF Order
    <3>. QED  BY <3>1, <3>2
  <2>2. Cardinality(Running') <= Limit
    <3>1. IsFiniteSet(Running) /\ Cardinality(Running) \in Nat /\ Limit \in Nat
      BY SetsOfTasks, SomeTasks, Constants
    <3>2. Cardinality(Running \cup {i}) = Cardinality(Running) + 1
      BY <1>6, <3>1, FS_AddElement
    <3>. QED  BY <1>1, <1>5, <3>1, <3>2
  <2>3. Cardinality(In("probing")') <= Threads
    BY <1>6 DEF Order
  <2>. QED  BY <1>1, <2>1, <2>2, <2>3 DEF Order
<1>. QED  BY <1>7, <1>8, <1>9, <1>11, <1>12

(* The last permit is given out before the last round.                     *)
LEMMA LastRound ==
    ASSUME syn \in BOOLEAN, NEW i \in Tasks
    PROVE  /\ Rounds(NumPorts, Limit) \in Nat
           /\ Rounds(NumPorts, Limit) * LongestTask \in Nat
           /\ Due(i) \in Nat
           /\ Due(i) + LongestTask <= Rounds(NumPorts, Limit) * LongestTask
<1>. DEFINE r == Rounds(NumPorts, Limit)
            b == Before(i)
<1>1. /\ NumPorts \in Nat \ {0} /\ Limit \in Nat \ {0} /\ LongestTask \in Nat
      /\ i \in Nat /\ 1 <= i /\ i <= NumPorts
  BY Constants, Durations, TasksFinite DEF Tasks
<1>2. r = (NumPorts + Limit - 1) \div Limit /\ NumPorts + Limit - 1 \in Nat
  BY <1>1 DEF Rounds
<1>3. b = (i - 1) \div Limit /\ i - 1 \in Nat
  BY <1>1 DEF Before
<1>4. r \in Nat /\ NumPorts + Limit - 1 < r * Limit + Limit
  BY <1>1, <1>2, Quotient
<1>5. b \in Nat /\ b * Limit <= i - 1
  BY <1>1, <1>3, Quotient
<1>. HIDE DEF r, b
<1>6. b + 1 <= r
  <2>1. b * Limit + Limit < r * Limit + Limit
    BY <1>1, <1>4, <1>5
  <2>2. b < r
    BY <1>1, <1>4, <1>5, <2>1
  <2>. QED  BY <1>4, <1>5, <2>2
<1>7. (b + 1) * LongestTask <= r * LongestTask
  BY <1>1, <1>4, <1>5, <1>6
<1>8. (b + 1) * LongestTask = b * LongestTask + LongestTask
  BY <1>1, <1>5
<1>9. r * LongestTask \in Nat /\ b * LongestTask \in Nat
  BY <1>1, <1>4, <1>5
<1>. QED  BY <1>4, <1>7, <1>8, <1>9 DEF Due, r, b

LEMMA DetectionLasts == LongestDetection \in Nat
<1>. DEFINE two == {ReadTimeout, LongerWait}
<1>1. ConnectTimeout \in Nat /\ ReadTimeout \in Nat /\ LongerWait \in Nat
  BY Constants
<1>2. \E x \in two : \A y \in two : x >= y
  BY <1>1
<1>3. Max(two) \in two
  BY <1>2, Zenon DEF Max
<1>4. Max(two) \in Nat
  BY <1>1, <1>3
<1>5. LongestDetection = ConnectTimeout + ReadTimeout + Max(two) + ReadTimeout
  BY DEF LongestDetection, LongestDetect
<1>. HIDE DEF two
<1>. QED  BY <1>1, <1>4, <1>5

(* Time goes on only while every probe that waits finds all threads busy,  *)
(* every port that waits finds all permits taken, and no timer is due.     *)
LEMMA TickKeepsInv ==
    ASSUME IInv, Tick
    PROVE  IInv'
<1>. USE DEF IInv
<1>. DEFINE busy == In("probing")
<1>1. /\ pc = "scan" /\ now' = now + 1
      /\ UNCHANGED <<syn, pc, task, tries, timer, started, waited, took, detected>>
  BY DEF Tick
<1>2. /\ syn \in BOOLEAN /\ now \in Nat /\ detected = 0
      /\ tries \in [Tasks -> 0..MaxRetries] /\ timer \in [Tasks -> Nat]
      /\ started \in [Tasks -> Nat] /\ waited \in [Tasks -> Nat] /\ took \in [Tasks -> Nat]
      /\ Threads \in Nat \ {0} /\ Limit \in Nat \ {0} /\ MaxRetries \in Nat
      /\ LongestSyn \in Nat /\ LongestTurn \in Nat /\ Turns \in Nat /\ LongestTask \in Nat
  BY <1>1, Constants, Durations DEF TypeOK, Order
<1>3. /\ busy \in SUBSET Nat /\ IsFiniteSet(busy) /\ Cardinality(busy) \in Nat
      /\ Running \in SUBSET Nat /\ IsFiniteSet(Running) /\ Cardinality(Running) \in Nat
      /\ Running \in SUBSET Tasks /\ Idle \in SUBSET Tasks
  BY SetsOfTasks, SomeTasks
<1>4. /\ \A i \in Running \ In("waiting") : now + 1 <= timer[i]
      /\ In("waiting") # {} => Cardinality(busy) = Threads
      /\ Idle # {} => Cardinality(Running) = Limit
      /\ Idle \cup Running # {}
  <2>1. /\ \A i \in Running \ In("waiting") : ~(timer[i] <= now)
        /\ In("waiting") # {} => ~(Cardinality(busy) < Threads)
        /\ Idle # {} => ~(Cardinality(Running) < Limit)
        /\ Idle \cup Running # {}
    BY DEF Tick, Urgent, HasThread, HasPermit
  <2>2. Cardinality(busy) <= Threads /\ Cardinality(Running) <= Limit
    BY DEF Order
  <2>3. ASSUME NEW i \in Running \ In("waiting")
        PROVE  now + 1 <= timer[i]
    <3>1. timer[i] \in Nat
      BY <1>2, <1>3
    <3>. QED  BY <1>2, <2>1, <3>1
  <2>4. (In("waiting") # {} => Cardinality(busy) = Threads) /\ (Idle # {} => Cardinality(Running) = Limit)
    BY <1>2, <1>3, <2>1, <2>2
  <2>. QED  BY <2>1, <2>3, <2>4
<1>5. /\ LongestTask' = LongestTask /\ SynPart' = SynPart
      /\ In("waiting")' = In("waiting") /\ busy' = busy
      /\ Idle' = Idle /\ Running' = Running /\ Over' = Over
      /\ \A i : Due(i)' = Due(i) /\ Ahead(i)' = Ahead(i) /\ Earlier(i)' = Earlier(i)
  BY <1>1 DEF LongestTask, SynPart, In, Idle, Running, Over, Due, Ahead, Earlier
<1>6. TypeOK'
  BY <1>1, <1>2 DEF TypeOK
<1>7. AllInTime'
  <2>. SUFFICES ASSUME NEW i \in Tasks
                PROVE  InTime(i)'
    BY DEF AllInTime
  <2>1. /\ InTime(i) /\ started[i] \in Nat /\ waited[i] \in Nat /\ timer[i] \in Nat
        /\ tries[i] \in Nat
    BY <1>2 DEF AllInTime
  <2>2. Slept(tries[i]) \in Nat
    BY <2>1, SleptOnce
  <2>3. task[i] \in {"probing", "connecting", "sleeping"} => now + 1 <= timer[i]
    BY <1>4 DEF Running, In, Awake
  <2>4. /\ task[i] \in Awake => started[i] + waited[i] <= now + 1
        /\ task[i] = "connecting" => started[i] + waited[i] + Slept(tries[i]) <= now + 1
    BY <1>2, <2>1, <2>2 DEF InTime
  <2>. QED  BY <1>1, <1>5, <2>1, <2>3, <2>4 DEF InTime
<1>8. Order'
  BY <1>1, <1>5 DEF Order
<1>9. TurnsLeft'
  <2>. SUFFICES ASSUME NEW i \in In("waiting")
                PROVE  Cardinality(Ahead(i)') + 1 <= Cardinality(TurnSlots(i)')
    BY <1>5 DEF TurnsLeft
  <2>1. TurnSlots(i)' = Slots(busy, Threads, timer, now', LongestSyn, started[i] + LongestTurn, Turns)
    BY <1>1, <1>5 DEF TurnSlots
  <2>2. Cardinality(busy) = Threads
    BY <1>4
  <2>3. TurnSlots(i)' = TurnSlots(i)
    BY <1>2, <1>3, <2>1, <2>2, AllBusy DEF TurnSlots
  <2>. QED  BY <1>5, <2>3 DEF TurnsLeft
<1>10. PermitsLeft'
  <2>. SUFFICES ASSUME NEW i \in Idle
                PROVE  Cardinality(Earlier(i)') + 1 <= Cardinality(PermitSlots(i)')
    BY <1>1, <1>5 DEF PermitsLeft
  <2>1. PermitSlots(i)' = Slots(Running, Limit, Over, now', LongestTask, Due(i), Before(i))
    BY <1>1, <1>5 DEF PermitSlots
  <2>2. Cardinality(Running) = Limit
    BY <1>4
  <2>3. PermitSlots(i)' = PermitSlots(i)
    BY <1>2, <1>3, <2>1, <2>2, AllBusy DEF PermitSlots
  <2>. QED  BY <1>1, <1>5, <2>3 DEF PermitsLeft
<1>11. Begun'
  BY <1>1, <1>5 DEF Begun
<1>12. now + 1 <= Rounds(NumPorts, Limit) * LongestTask
  <2>1. PICK p \in Running : TRUE
    <3>1. Cardinality({}) = 0
      BY FS_EmptySet
    <3>. QED  BY <1>2, <1>4, <3>1
  <2>2. p \in Tasks /\ started[p] \in Nat /\ started[p] <= Due(p)
    BY <1>2, <1>3 DEF Begun
  <2>3. task[p] = "waiting" => now + 1 <= started[p] + LongestTurn
    <3>. SUFFICES ASSUME p \in In("waiting")
                  PROVE  now + 1 <= started[p] + LongestTurn
      BY <2>2 DEF In
    <3>1. Cardinality(TurnSlots(p)) >= 1
      <4>1. Ahead(p) \in SUBSET Tasks
        BY SetsOfTasks DEF Ahead
      <4>2. Cardinality(Ahead(p)) \in Nat /\ Cardinality(TurnSlots(p)) \in Nat
        BY <1>2, <1>3, <4>1, SomeTasks, SlotsFinite DEF TurnSlots
      <4>. QED  BY <4>2 DEF TurnsLeft
    <3>2. \A w \in busy : timer[w] \in Int /\ now + 1 <= timer[w]
      BY <1>2, <1>4, SetsOfTasks
    <3>3. started[p] + LongestTurn \in Int /\ now \in Int /\ Threads \in Nat
      BY <1>2, <2>2
    <3>4. \/ \E w \in busy : timer[w] <= started[p] + LongestTurn
          \/ Cardinality(busy) < Threads
      <4>1. Cardinality(busy) <= Threads
        BY DEF Order
      <4>2. Cardinality(Slots(busy, Threads, timer, now, LongestSyn, started[p] + LongestTurn, Turns)) >= 1
        BY <3>1 DEF TurnSlots
      <4>. HIDE DEF busy
      <4>. QED  BY <1>2, <1>3, <3>2, <3>3, <4>1, <4>2, SlotLeft
    <3>5. Cardinality(busy) = Threads
      BY <1>4
    <3>. QED  BY <1>2, <1>3, <3>2, <3>3, <3>4, <3>5
  <2>4. task[p] # "waiting" => now + 1 <= timer[p]
    BY <1>4 DEF In
  <2>5. now + 1 \in Nat
    BY <1>2
  <2>6. now + 1 <= started[p] + LongestTask
    BY <2>3, <2>4, <2>5, WithinBudget
  <2>7. /\ Rounds(NumPorts, Limit) * LongestTask \in Nat /\ Due(p) \in Nat
        /\ Due(p) + LongestTask <= Rounds(NumPorts, Limit) * LongestTask
    BY <1>2, <2>2, LastRound
  <2>. QED  BY <1>2, <2>2, <2>6, <2>7
<1>13. ScanInTime' /\ HostBudget'
  <2>1. Rounds(NumPorts, Limit) * LongestTask \in Nat
    BY <1>2, LastRound, TasksFinite, Constants DEF Tasks
  <2>2. 0 * LongestDetection = 0
    BY DetectionLasts
  <2>. QED  BY <1>1, <1>2, <1>5, <1>12, <2>1, <2>2 DEF ScanInTime, HostBudget
<1>. QED  BY <1>6, <1>7, <1>8, <1>9, <1>10, <1>11, <1>13

LEMMA SynReturnsKeepsInv ==
    ASSUME IInv, NEW i \in Tasks, SynAnswered(i) \/ SynTimesOut(i)
    PROVE  IInv'
<1>. USE DEF IInv
<1>1. task[i] = "probing" /\ i \in Running
  BY DEF SynAnswered, SynTimesOut, Running, Awake
<1>2. now <= started[i] + LongestTask
  BY <1>1, RunningInTime
<1>3. CASE SynAnswered(i)
  <2>1. PICK state \in {"open", "closed"} : Returns(i, state)
    BY <1>3 DEF SynAnswered
  <2>. QED  BY <1>1, <1>2, <2>1, TaskReturns
<1>4. CASE SynTimesOut(i)
  <2>1. now + Floor >= timer[i] /\ Returns(i, "no-response")
    BY <1>4 DEF SynTimesOut
  <2>2. /\ timer[i] = started[i] + waited[i] + (ConnectTimeout + Floor)
        /\ started[i] \in Nat /\ waited[i] \in Nat /\ now \in Nat
        /\ ConnectTimeout \in Nat /\ Floor \in Nat
    BY <1>1, Constants DEF AllInTime, InTime, LongestSyn, TypeOK
  <2>3. now >= started[i] + waited[i] + ConnectTimeout
    BY <2>1, <2>2
  <2>. QED  BY <1>1, <1>2, <2>1, <2>3, TaskReturns
<1>. QED  BY <1>3, <1>4

LEMMA ConnectReturnsKeepsInv ==
    ASSUME IInv, NEW i \in Tasks, Answered(i) \/ GivesUp(i)
    PROVE  IInv'
<1>. USE DEF IInv
<1>1. task[i] = "connecting" /\ i \in Running
  BY DEF Answered, GivesUp, Running, Awake
<1>2. now <= started[i] + LongestTask
  BY <1>1, RunningInTime
<1>3. CASE Answered(i)
  <2>1. PICK state \in {"open", "closed"} : Returns(i, state)
    BY <1>3 DEF Answered
  <2>. QED  BY <1>1, <1>2, <2>1, TaskReturns
<1>4. CASE GivesUp(i)
  <2>1. ~(tries[i] < MaxRetries) /\ Returns(i, "filtered")
    BY <1>4 DEF GivesUp, RetriesLeft
  <2>2. tries[i] = MaxRetries
    BY <2>1, Constants DEF TypeOK
  <2>3. now >= started[i] + waited[i] + Slept(MaxRetries)
    <3>1. /\ started[i] \in Nat /\ waited[i] \in Nat /\ now \in Nat /\ MaxRetries \in Nat
          /\ started[i] + waited[i] + Slept(tries[i]) <= now
      BY <1>1, Constants DEF AllInTime, InTime, TypeOK
    <3>2. Slept(MaxRetries) \in Nat
      BY <3>1, SleptOnce
    <3>. QED  BY <2>2, <3>1, <3>2
  <2>. QED  BY <1>1, <1>2, <2>1, <2>3, TaskReturns
<1>. QED  BY <1>3, <1>4

(* After the scan only the clock and the count of detections move.         *)
LEMMA AfterScan ==
    ASSUME IInv, Idle \cup Running = {},
           UNCHANGED <<syn, task, tries, timer, started, waited, took>>,
           pc' \in {"detect", "done"}, now' \in Nat, detected' \in 0..NumPorts,
           now' <= Rounds(NumPorts, Limit) * LongestTask + detected' * LongestDetection
    PROVE  IInv'
<1>. USE DEF IInv
<1>1. /\ LongestTask' = LongestTask /\ SynPart' = SynPart
      /\ In("waiting")' = {} /\ In("probing")' = In("probing")
      /\ Idle' = {} /\ Running' = {} /\ Running = {}
  BY SetsOfTasks DEF LongestTask, SynPart, In, Idle, Running
<1>2. TypeOK'
  BY DEF TypeOK
<1>3. AllInTime'
  <2>. SUFFICES ASSUME NEW i \in Tasks
                PROVE  InTime(i)'
    BY DEF AllInTime
  <2>1. InTime(i) /\ task[i] \notin Awake
    BY <1>1 DEF AllInTime, Running
  <2>. QED  BY <1>1, <2>1 DEF InTime, Awake
<1>4. Order'
  <2>1. Cardinality(Running') <= Limit
    BY <1>1 DEF Order
  <2>2. Cardinality(In("probing")') <= Threads
    BY <1>1 DEF Order
  <2>. QED  BY <1>1, <2>1, <2>2 DEF Order
<1>5. TurnsLeft' /\ PermitsLeft' /\ Begun' /\ ScanInTime'
  BY <1>1 DEF TurnsLeft, PermitsLeft, Begun, ScanInTime
<1>6. HostBudget'
  BY <1>1 DEF HostBudget
<1>. QED  BY <1>2, <1>3, <1>4, <1>5, <1>6

LEMMA EndKeepsInv ==
    ASSUME IInv, AllJoined \/ Detect \/ HostDone
    PROVE  IInv'
<1>. USE DEF IInv
<1>. DEFINE r == Rounds(NumPorts, Limit) * LongestTask
<1>1. /\ syn \in BOOLEAN /\ now \in Nat /\ detected \in 0..NumPorts
      /\ now <= r + detected * LongestDetection
      /\ r \in Nat /\ LongestDetection \in Nat /\ NumPorts \in Nat \ {0}
  <2>1. syn \in BOOLEAN /\ now \in Nat /\ detected \in 0..NumPorts
    BY DEF TypeOK
  <2>2. 1 \in Tasks /\ NumPorts \in Nat \ {0}
    BY Constants DEF Tasks
  <2>3. r \in Nat
    BY <2>1, <2>2, LastRound
  <2>. QED  BY <2>1, <2>2, <2>3, DetectionLasts DEF HostBudget
<1>. HIDE DEF r
<1>2. Idle \cup Running = {}
  BY DEF AllJoined, Detect, HostDone, Order
<1>3. CASE AllJoined \/ HostDone
  <2>1. /\ UNCHANGED <<syn, now, task, tries, timer, started, waited, took, detected>>
        /\ pc' \in {"detect", "done"}
    BY <1>3 DEF AllJoined, HostDone
  <2>. QED  BY <1>1, <1>2, <2>1, AfterScan DEF r
<1>4. CASE Detect
  <2>1. PICK d \in 0..LongestDetection : now' = now + d
    BY <1>4 DEF Detect
  <2>2. /\ pc' = "detect" /\ detected' = detected + 1 /\ detected < Cardinality(Open)
        /\ UNCHANGED <<syn, task, tries, timer, started, waited, took>>
    BY <1>4 DEF Detect
  <2>3. Cardinality(Open) \in Nat /\ Cardinality(Open) <= NumPorts
    <3>1. Open \in SUBSET Tasks
      BY DEF Open, In
    <3>. QED  BY <3>1, SomeTasks
  <2>4. detected' \in 0..NumPorts /\ now' \in Nat
    BY <1>1, <2>1, <2>2, <2>3
  <2>5. now' <= r + detected' * LongestDetection
    <3>1. (detected + 1) * LongestDetection = detected * LongestDetection + LongestDetection
      BY <1>1
    <3>2. detected * LongestDetection \in Nat
      BY <1>1
    <3>. QED  BY <1>1, <2>1, <2>2, <3>1, <3>2
  <2>. QED  BY <1>2, <2>2, <2>4, <2>5, AfterScan DEF r
<1>. QED  BY <1>3, <1>4

-----------------------------------------------------------------------------
(* At first all permits are free, and each is good for Before(i) + 1 of    *)
(* the ports up to i.                                                      *)
LEMMA InitInv == Init => IInv
<1>. SUFFICES ASSUME Init  PROVE IInv
  OBVIOUS
<1>1. /\ syn \in BOOLEAN /\ now = 0 /\ pc = "scan" /\ detected = 0
      /\ task = [i \in Tasks |-> "idle"] /\ tries = [i \in Tasks |-> 0]
      /\ timer = [i \in Tasks |-> 0] /\ started = [i \in Tasks |-> 0]
      /\ waited = [i \in Tasks |-> 0] /\ took = [i \in Tasks |-> 0]
  BY DEF Init
<1>2. /\ NumPorts \in Nat \ {0} /\ Limit \in Nat \ {0} /\ Threads \in Nat /\ MaxRetries \in Nat
      /\ LongestTask \in Nat /\ LongestTurn \in Nat
  BY <1>1, Constants, Durations
<1>3. /\ Idle = Tasks /\ Running = {} /\ In("waiting") = {} /\ In("probing") = {}
      /\ IsFiniteSet({}) /\ Cardinality({}) = 0
  BY <1>1, FS_EmptySet DEF Idle, Running, In, Awake
<1>4. TypeOK
  BY <1>1, <1>2 DEF TypeOK
<1>5. AllInTime
  <2>. SUFFICES ASSUME NEW i \in Tasks
                PROVE  InTime(i)
    BY DEF AllInTime
  <2>. QED  BY <1>1, <1>2 DEF InTime, Awake
<1>6. Order
  BY <1>1, <1>2, <1>3 DEF Order
<1>7. TurnsLeft /\ Begun
  BY <1>3 DEF TurnsLeft, Begun
<1>8. ASSUME NEW i \in Tasks
      PROVE  Cardinality(Earlier(i)) + 1 <= Cardinality(PermitSlots(i))
  <2>1. i \in Nat /\ i - 1 \in Nat /\ 1 <= i /\ i <= NumPorts
    BY <1>2, TasksFinite DEF Tasks
  <2>2. Cardinality(Earlier(i)) = i - 1
    <3>1. Earlier(i) = 1..(i - 1)
      BY <1>2, <1>3, <2>1 DEF Earlier, Tasks
    <3>2. Cardinality(1..(i - 1)) = i - 1 - 1 + 1
      <4>1. 1 \in Int /\ i - 1 \in Int /\ 1 <= i - 1 + 1
        BY <2>1
      <4>. QED  BY <4>1, IntervalSize
    <3>. QED  BY <2>1, <3>1, <3>2
  <2>3. Before(i) \in Nat /\ i - 1 < Before(i) * Limit + Limit
    BY <1>2, <2>1, Quotient DEF Before
  <2>4. Due(i) \in Int /\ 0 + Before(i) * LongestTask <= Due(i)
    BY <1>2, <2>3 DEF Due
  <2>. DEFINE k == Before(i)
              due == Due(i)
              none == {}
  <2>5. /\ none \in SUBSET Nat /\ IsFiniteSet(none) /\ Cardinality(none) = 0 /\ Limit \in Nat
        /\ Cardinality(none) <= Limit /\ k \in Nat /\ due \in Int
        /\ now + k * LongestTask <= due /\ now \in Int /\ LongestTask \in Nat
        /\ \A w \in none : Over[w] \in Int /\ Over[w] <= now + LongestTask
    BY <1>1, <1>2, <1>3, <2>3, <2>4
  <2>6. PermitSlots(i) = Slots(none, Limit, Over, now, LongestTask, due, k)
    BY <1>3 DEF PermitSlots
  <2>. HIDE DEF k, due, none
  <2>7. Cardinality(Slots(none, Limit, Over, now, LongestTask, due, k))
          >= Limit * k + Limit - Cardinality(none)
    BY <2>5, ManySlots
  <2>8. Cardinality(Slots(none, Limit, Over, now, LongestTask, due, k)) \in Nat
    BY <2>5, SlotsFinite
  <2>9. Limit * k = k * Limit /\ Limit * k \in Nat
    BY <1>2, <2>5
  <2>10. i - 1 < k * Limit + Limit
    BY <2>3 DEF k
  <2>11. i - 1 + 1 <= Limit * k + Limit - 0
    BY <1>2, <2>1, <2>9, <2>10
  <2>. QED  BY <1>2, <2>1, <2>2, <2>5, <2>6, <2>7, <2>8, <2>9, <2>11
<1>9. PermitsLeft
  BY <1>3, <1>8 DEF PermitsLeft
<1>10. ScanInTime /\ HostBudget
  <2>1. 1 \in Tasks
    BY <1>2 DEF Tasks
  <2>2. Rounds(NumPorts, Limit) * LongestTask \in Nat
    BY <1>1, <2>1, LastRound
  <2>3. 0 * LongestDetection = 0
    BY DetectionLasts
  <2>. QED  BY <1>1, <2>2, <2>3 DEF ScanInTime, HostBudget
<1>. QED  BY <1>4, <1>5, <1>6, <1>7, <1>9, <1>10 DEF IInv

LEMMA NextKeepsInv == IInv /\ [Next]_vars => IInv'
<1>. SUFFICES ASSUME IInv, [Next]_vars  PROVE IInv'
  OBVIOUS
<1>1. ASSUME NEW i \in Tasks, Spawn(i)  PROVE IInv'
  BY <1>1, SpawnKeepsInv
<1>2. ASSUME NEW i \in Tasks, TakesThread(i)  PROVE IInv'
  BY <1>2, TakesThreadKeepsInv
<1>3. ASSUME NEW i \in Tasks, SynAnswered(i) \/ SynTimesOut(i)  PROVE IInv'
  BY <1>3, SynReturnsKeepsInv
<1>4. ASSUME NEW i \in Tasks, SynFallsBack(i)  PROVE IInv'
  BY <1>4, SynFallsBackKeepsInv
<1>5. ASSUME NEW i \in Tasks, Answered(i) \/ GivesUp(i)  PROVE IInv'
  BY <1>5, ConnectReturnsKeepsInv
<1>6. ASSUME NEW i \in Tasks, Retries(i)  PROVE IInv'
  BY <1>6, RetriesKeepsInv
<1>7. ASSUME NEW i \in Tasks, WakesUp(i)  PROVE IInv'
  BY <1>7, WakesUpKeepsInv
<1>8. CASE AllJoined \/ Detect \/ HostDone
  BY <1>8, EndKeepsInv
<1>9. CASE Tick
  BY <1>9, TickKeepsInv
<1>10. CASE UNCHANGED vars
  <2>1. /\ In("waiting")' = In("waiting") /\ In("probing")' = In("probing")
        /\ Idle' = Idle /\ Running' = Running
    BY <1>10 DEF vars, In, Idle, Running
  <2>2. TypeOK' /\ Order'
    BY <1>10, <2>1 DEF vars, IInv, TypeOK, Order
  <2>3. AllInTime'
    BY <1>10, StaysInTime DEF vars, IInv, AllInTime
  <2>4. TurnsLeft'
    BY <1>10, <2>1, PoolSame DEF vars, IInv
  <2>5. PermitsLeft' /\ Begun' /\ ScanInTime' /\ HostBudget'
    BY <1>10, <2>1, PermitsSame DEF vars, IInv
  <2>. QED  BY <2>2, <2>3, <2>4, <2>5 DEF IInv
<1>. QED  BY <1>1, <1>2, <1>3, <1>4, <1>5, <1>6, <1>7, <1>8, <1>9, <1>10 DEF Next, Finished

(* The invariant holds in every behaviour.                                 *)
THEOREM Inductive == Spec => []IInv
<1>. QED  BY InitInv, NextKeepsInv, PTL DEF Spec

(* The state of HostTime keeps its type; no task has failed more often     *)
(* than max_retries lets it.                                               *)
THEOREM TypeCorrect == Spec => []TypeOK
<1>1. IInv => TypeOK
  BY DEF IInv
<1>. QED  BY <1>1, Inductive, PTL

(* A port takes its max_retries + 1 timeouts and the sleeps between them   *)
(* at most, and under a SYN scan its own probe and the turns of those      *)
(* before it in tokio's blocking pool, whatever the number of ports,       *)
(* permits and threads.                                                    *)
THEOREM ProbesInTime == Spec => []ProbeBudget
<1>1. IInv => ProbeBudget
  <2>. SUFFICES ASSUME IInv, NEW i \in Tasks
                PROVE  /\ i \in Running => now <= started[i] + LongestTask
                       /\ took[i] <= LongestTask
    BY DEF ProbeBudget
  <2>1. took[i] <= LongestTask
    BY DEF IInv, AllInTime, InTime
  <2>. QED  BY <2>1, RunningInTime DEF IInv
<1>. QED  BY <1>1, Inductive, PTL

(* A port is reported filtered only after all the sleeps of its attempts,  *)
(* and without a response only after a whole timeout in its own thread.    *)
THEOREM NobodyHurried == Spec => []NotHasty
<1>1. IInv => NotHasty
  BY DEF IInv, AllInTime, InTime, NotHasty, Slept
<1>. QED  BY <1>1, Inductive, PTL

(* A host of n ports is scanned in the time of ceil(n / max_parallel)      *)
(* probes, and the detections add the timeouts of one detect() each.       *)
THEOREM HostsInTime == Spec => []HostBudget
<1>1. IInv => HostBudget
  BY DEF IInv
<1>. QED  BY <1>1, Inductive, PTL
=============================================================================
