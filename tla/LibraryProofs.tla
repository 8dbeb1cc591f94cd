---------------------------- MODULE LibraryProofs ---------------------------
(***************************************************************************)
(* Proofs about Library, Commands and LibraryCalls: what the functions'    *)
(* loops leave, for every size of memory, length and number.               *)
(***************************************************************************)
EXTENDS LibraryCalls, TLAPS, SequenceTheorems, FiniteSetTheorems,
        NaturalsInduction, WellFoundedInduction

-----------------------------------------------------------------------------
(* Numbers, and functions defined from their beginning.                     *)

\* A set of natural numbers that is not empty has a minimum.
LEMMA MinFacts == ASSUME NEW S, S \subseteq Nat, S # {}
                  PROVE  Min(S) \in S /\ \A x \in S : Min(S) <= x
  <1> DEFINE less == {ss \in Nat \X Nat : ss[1] < ss[2]}
  <1>1. less = OpToRel(<, Nat)
    BY Zenon DEF OpToRel
  <1>2. IsWellFoundedOn(less, Nat)
    BY <1>1, NatLessThanWellFounded, Zenon
  <1>3. \E x \in S : \A y \in S : ~ (<<y, x>> \in less)
    <2> HIDE DEF less
    <2>1. QED
      BY <1>2, WFMin
  <1>4. \A x, y \in Nat : y < x => <<y, x>> \in less
    OBVIOUS
  <1> HIDE DEF less
  <1>5. \E x \in S : \A y \in S : x <= y
    <2>1. PICK x \in S : \A y \in S : ~ (<<y, x>> \in less)
      BY <1>3
    <2>2. \A y \in S : y \in Nat /\ ~ (y < x)
      BY <1>4, <2>1
    <2>3. QED
      BY <2>1, <2>2
  <1>6. QED
    BY <1>5 DEF Min

\* The minimum is the element that no other one is below.
LEMMA MinIs == ASSUME NEW S, S \subseteq Nat, NEW m \in S, \A x \in S : m <= x
               PROVE  Min(S) = m
  <1>1. Min(S) \in S /\ \A x \in S : Min(S) <= x
    BY MinFacts
  <1>2. Min(S) \in Nat /\ m \in Nat /\ Min(S) <= m /\ m <= Min(S)
    BY <1>1
  <1>3. QED
    BY <1>2

\* A set of natural numbers with 0 that with each number has the next is all of them.
LEMMA Induction == ASSUME NEW S, S \subseteq Nat, 0 \in S, \A n \in S : n + 1 \in S
                   PROVE  S = Nat
  <1> DEFINE rest == Nat \ S
  <1> SUFFICES ASSUME rest # {} PROVE FALSE
    OBVIOUS
  <1>1. Min(rest) \in rest /\ \A x \in rest : Min(rest) <= x
    <2>1. rest \subseteq Nat
      OBVIOUS
    <2> HIDE DEF rest
    <2>2. QED
      BY <2>1, MinFacts
  <1>2. PICK m \in Nat : m \notin S /\ \A x \in Nat : x \notin S => m <= x
    BY <1>1
  <1>3. m # 0 /\ m - 1 \in Nat
    BY <1>2
  <1>4. m - 1 \in S
    BY <1>2, <1>3
  <1>5. m - 1 + 1 \in S
    BY <1>4
  <1>6. QED
    BY <1>2, <1>3, <1>5

\* Two functions that begin with the same value and go on in the same way are the same.
LEMMA SameSteps == ASSUME NEW m \in Nat, NEW f, NEW g, f[0] = g[0],
                          \A i \in 1..m : f[i - 1] = g[i - 1] => f[i] = g[i]
                   PROVE  \A i \in 0..m : f[i] = g[i]
  <1> DEFINE S == {i \in Nat : i <= m => f[i] = g[i]}
  <1>1. 0 \in S
    OBVIOUS
  <1>2. ASSUME NEW i \in S PROVE i + 1 \in S
    <2>1. CASE i + 1 <= m
      <3>1. i + 1 \in 1..m /\ i + 1 - 1 = i /\ f[i] = g[i]
        BY <2>1
      <3>2. QED
        BY <3>1
    <2>2. CASE ~(i + 1 <= m)
      BY <2>2
    <2>3. QED
      BY <2>1, <2>2
  <1>3. S = Nat
    <2>1. S \subseteq Nat
      OBVIOUS
    <2> HIDE DEF S
    <2>2. QED
      BY <1>1, <1>2, <2>1, Induction
  <1>4. QED
    BY <1>3

\* The same, as a statement about two functions.
GoAlike(f, g, m) == f[0] = g[0] /\ \A i \in 1..m : f[i - 1] = g[i - 1] => f[i] = g[i]

Alike(f, g, m) == \A i \in 0..m : f[i] = g[i]

LEMMA GoingAlike == ASSUME NEW m \in Nat, NEW f, NEW g, GoAlike(f, g, m)
                    PROVE  Alike(f, g, m)
  <1>1. f[0] = g[0] /\ \A i \in 1..m : f[i - 1] = g[i - 1] => f[i] = g[i]
    BY DEF GoAlike
  <1>2. \A i \in 0..m : f[i] = g[i]
    BY <1>1, SameSteps, Zenon
  <1>3. QED
    BY <1>2 DEF Alike

\* The quotient and the remainder of a number.
LEMMA DivFacts ==
    ASSUME NEW d \in Nat \ {0}, NEW k \in Nat
    PROVE  /\ k \div d \in Nat /\ k % d \in 0..(d - 1) /\ k = d * (k \div d) + (k % d)
  OBVIOUS

-----------------------------------------------------------------------------
(* Memory.                                                                   *)

IsMemory(mem, bytes) == mem = [a \in 0..(bytes - 1) |-> mem[a]]

\* Memory after n bytes from s are at d.
Copied(mem, d, s, n) ==
    [a \in DOMAIN mem |-> IF a \in d..(d + n - 1) THEN mem[s + (a - d)] ELSE mem[a]]

\* Bytes are read before they are overwritten, if they are copied upwards.
Upwards(d, s, n) == d <= s \/ s + n <= d

\* Both blocks are in memory, and can be copied upwards.
Fits(size, d, s, n) == d + n <= size /\ s + n <= size /\ Upwards(d, s, n)

\* More of a copy.
LEMMA CopiedOn ==
    ASSUME NEW size \in Nat, NEW mem, DOMAIN mem = 0..(size - 1),
           NEW d \in Nat, NEW s \in Nat, NEW m \in Nat, NEW n \in Nat, NEW total \in Nat,
           m + n <= total, Fits(size, d, s, total)
    PROVE  Copied(Copied(mem, d, s, m), d + m, s + m, n) = Copied(mem, d, s, m + n)
  <1> DEFINE first == Copied(mem, d, s, m)
             both == Copied(first, d + m, s + m, n)
             all == Copied(mem, d, s, m + n)
  <1>1. DOMAIN first = 0..(size - 1) /\ DOMAIN both = 0..(size - 1) /\ DOMAIN all = 0..(size - 1)
    BY DEF Copied
  <1>2. ASSUME NEW a \in 0..(size - 1) PROVE both[a] = all[a]
    <2>1. both[a] = IF a \in (d + m)..(d + m + n - 1) THEN first[s + m + (a - (d + m))] ELSE first[a]
      BY <1>1 DEF Copied
    <2>2. \A x \in 0..(size - 1) :
             first[x] = IF x \in d..(d + m - 1) THEN mem[s + (x - d)] ELSE mem[x]
      BY DEF Copied
    <2>3. all[a] = IF a \in d..(d + (m + n) - 1) THEN mem[s + (a - d)] ELSE mem[a]
      BY DEF Copied
    <2> HIDE DEF first, both, all
    <2>4. CASE a \in (d + m)..(d + m + n - 1)
      <3>1. s + m + (a - (d + m)) = s + (a - d) /\ s + (a - d) \in 0..(size - 1)
        BY <2>4 DEF Fits
      <3>2. s + (a - d) \notin d..(d + m - 1)
        BY <2>4 DEF Fits, Upwards
      <3>3. QED
        BY <2>1, <2>2, <2>3, <2>4, <3>1, <3>2
    <2>5. CASE a \notin (d + m)..(d + m + n - 1)
      <3>1. a \in d..(d + (m + n) - 1) <=> a \in d..(d + m - 1)
        BY <2>5
      <3>2. QED
        BY <2>1, <2>2, <2>3, <2>5, <3>1
    <2>6. QED
      BY <2>4, <2>5
  <1>3. both = [a \in 0..(size - 1) |-> both[a]] /\ all = [a \in 0..(size - 1) |-> all[a]]
    BY <1>1 DEF Copied
  <1> HIDE DEF both, all
  <1>4. QED
    BY <1>2, <1>3 DEF both, all

LEMMA UnitFacts ==
    ASSUME NEW size \in Nat, NEW count \in Nat, NEW i \in 1..count
    PROVE  /\ size * (i - 1) \in Nat /\ size * count \in Nat /\ size * 0 = 0
           /\ size * (i - 1) + size = size * i
           /\ size * i <= size * count
  <1>1. size * (i - 1) + size = size * i
    OBVIOUS
  <1>2. count = i + (count - i) /\ count - i \in Nat
    OBVIOUS
  <1>3. size * count = size * i + size * (count - i)
    OBVIOUS
  <1>4. size * (count - i) \in Nat /\ size * i \in Nat
    BY <1>2
  <1>5. QED
    BY <1>1, <1>3, <1>4

\* rep movs copies upwards, whatever the size of its units.
LEMMA RepMovsCopies ==
    ASSUME NEW bytes \in Nat, NEW mem, IsMemory(mem, bytes),
           NEW d \in Nat, NEW s \in Nat, NEW size \in Nat, NEW count \in Nat,
           Fits(bytes, d, s, size * count)
    PROVE  RepMovs(mem, d, s, size, count) = Copied(mem, d, s, size * count)
  <1> DEFINE After(f, i) == IF i = 0 THEN mem
                            ELSE MoveUnit(f[i - 1], d + size * (i - 1), s + size * (i - 1), size)
             Follows(f) == f = [i \in 0..count |-> After(f, i)]
             copies == [i \in 0..count |-> Copied(mem, d, s, size * i)]
             after == CHOOSE f : Follows(f)
  <1>1. ASSUME NEW i \in 0..count PROVE copies[i] = After(copies, i)
    <2>1. CASE i = 0
      <3>1. size * 0 = 0
        OBVIOUS
      <3>2. Copied(mem, d, s, 0) = mem
        BY DEF Copied, IsMemory
      <3>3. QED
        BY <2>1, <3>1, <3>2
    <2>2. CASE i # 0
      <3> DEFINE m == size * (i - 1)
                 next == size * i
                 total == size * count
                 UpTo(n) == Copied(mem, d, s, n)
      <3>1. /\ i \in 1..count /\ i - 1 \in 0..count
            /\ m \in Nat /\ m + size = next /\ m + size <= total /\ total \in Nat
        <4>1. i \in 1..count
          BY <2>2
        <4>2. QED
          BY <4>1, UnitFacts
      <3>2. Fits(bytes, d, s, total)
        OBVIOUS
      <3>3. copies[i - 1] = UpTo(m) /\ copies[i] = UpTo(m + size)
        <4>1. copies[i - 1] = UpTo(m) /\ copies[i] = UpTo(next)
          <5> HIDE DEF UpTo
          <5>1. copies = [j \in 0..count |-> UpTo(size * j)]
            BY DEF UpTo
          <5> HIDE DEF copies
          <5>2. QED
            BY <3>1, <5>1
        <4> HIDE DEF UpTo, copies, total, m, next
        <4>2. QED
          BY <3>1, <4>1
      <3>4. DOMAIN mem = 0..(bytes - 1)
        BY Zenon DEF IsMemory
      <3> HIDE DEF m, next, total, copies
      <3>5. Copied(Copied(mem, d, s, m), d + m, s + m, size) = Copied(mem, d, s, m + size)
        BY <3>1, <3>2, <3>4, CopiedOn
      <3>6. MoveUnit(copies[i - 1], d + m, s + m, size) = Copied(copies[i - 1], d + m, s + m, size)
        BY DEF MoveUnit, Copied
      <3>7. QED
        BY <2>2, <3>3, <3>5, <3>6 DEF m
    <2>3. QED
      BY <2>1, <2>2
  <1>2. Follows(copies)
    BY <1>1
  <1>3. RepMovs(mem, d, s, size, count) = after[count]
    BY Zenon DEF RepMovs
  <1>4. Follows(after)
    <2> HIDE DEF copies, Follows
    <2>1. QED
      BY <1>2, Zenon
  <1>5. after[0] = copies[0]
    <2>1. 0 \in 0..count
      OBVIOUS
    <2> HIDE DEF after
    <2>2. after[0] = mem
      BY <1>4, <2>1
    <2> HIDE DEF copies
    <2>3. QED
      BY <1>1, <2>1, <2>2
  <1>6. ASSUME NEW i \in 1..count, after[i - 1] = copies[i - 1] PROVE after[i] = copies[i]
    <2>1. i \in 0..count /\ i # 0
      OBVIOUS
    <2>2. after[i] = MoveUnit(after[i - 1], d + size * (i - 1), s + size * (i - 1), size)
      BY <1>4, <2>1
    <2> HIDE DEF after
    <2>3. copies[i] = MoveUnit(copies[i - 1], d + size * (i - 1), s + size * (i - 1), size)
      BY <1>1, <2>1
    <2>4. QED
      BY <1>6, <2>2, <2>3
  <1> HIDE DEF after
  <1>7. after[count] = copies[count]
    <2> HIDE DEF copies
    <2>1. QED
      BY <1>5, <1>6, SameSteps
  <1>8. QED
    BY <1>3, <1>7

\* Memory after the last i of n bytes from s are at d.
LastCopied(mem, d, s, n, i) ==
    [a \in DOMAIN mem |-> IF a \in (d + n - i)..(d + n - 1) THEN mem[s + (a - d)] ELSE mem[a]]

LEMMA LastCopiedOn ==
    ASSUME NEW bytes \in Nat, NEW mem, DOMAIN mem = 0..(bytes - 1),
           NEW d \in Nat, NEW s \in Nat, NEW n \in Nat, NEW i \in 1..n,
           s < d, d + n <= bytes
    PROVE  MoveUnit(LastCopied(mem, d, s, n, i - 1), (d + n - 1) - (i - 1), (s + n - 1) - (i - 1), 1) =
             LastCopied(mem, d, s, n, i)
  <1> DEFINE before == LastCopied(mem, d, s, n, i - 1)
             moved == MoveUnit(before, (d + n - 1) - (i - 1), (s + n - 1) - (i - 1), 1)
             all == LastCopied(mem, d, s, n, i)
  <1>1. DOMAIN before = 0..(bytes - 1) /\ DOMAIN moved = 0..(bytes - 1) /\ DOMAIN all = 0..(bytes - 1)
    BY DEF LastCopied, MoveUnit
  <1>2. ASSUME NEW a \in 0..(bytes - 1) PROVE moved[a] = all[a]
    <2>1. moved[a] = IF a = d + n - i THEN before[s + (a - d)] ELSE before[a]
      <3>1. moved[a] = IF a \in ((d + n - 1) - (i - 1))..((d + n - 1) - (i - 1) + 1 - 1)
                         THEN before[(s + n - 1) - (i - 1) + (a - ((d + n - 1) - (i - 1)))] ELSE before[a]
        BY <1>1 DEF MoveUnit
      <3> HIDE DEF moved, before
      <3>2. a \in ((d + n - 1) - (i - 1))..((d + n - 1) - (i - 1) + 1 - 1) <=> a = d + n - i
        OBVIOUS
      <3>3. (s + n - 1) - (i - 1) + (a - ((d + n - 1) - (i - 1))) = s + (a - d)
        OBVIOUS
      <3>4. QED
        BY <3>1, <3>2, <3>3
    <2>2. \A x \in 0..(bytes - 1) :
             before[x] = IF x \in (d + n - (i - 1))..(d + n - 1) THEN mem[s + (x - d)] ELSE mem[x]
      BY DEF LastCopied
    <2>3. all[a] = IF a \in (d + n - i)..(d + n - 1) THEN mem[s + (a - d)] ELSE mem[a]
      BY DEF LastCopied
    <2> HIDE DEF before, moved, all
    <2>4. CASE a = d + n - i
      <3>1. s + (a - d) \in 0..(bytes - 1) /\ s + (a - d) < d + n - (i - 1) /\ a \in (d + n - i)..(d + n - 1)
        BY <2>4
      <3>2. before[s + (a - d)] = mem[s + (a - d)]
        BY <2>2, <3>1
      <3>3. QED
        BY <2>1, <2>3, <2>4, <3>1, <3>2
    <2>5. CASE a # d + n - i
      <3>1. a \in (d + n - (i - 1))..(d + n - 1) <=> a \in (d + n - i)..(d + n - 1)
        BY <2>5
      <3>2. QED
        BY <2>1, <2>2, <2>3, <2>5, <3>1
    <2>6. QED
      BY <2>4, <2>5
  <1>3. moved = [a \in 0..(bytes - 1) |-> moved[a]] /\ all = [a \in 0..(bytes - 1) |-> all[a]]
    BY <1>1 DEF MoveUnit, LastCopied
  <1> HIDE DEF moved, all
  <1>4. QED
    BY <1>2, <1>3 DEF moved, all, before

\* rep movsb copies downwards, when the source begins below the destination.
LEMMA RepMovsDownCopies ==
    ASSUME NEW bytes \in Nat, NEW mem, IsMemory(mem, bytes),
           NEW d \in Nat, NEW s \in Nat, NEW n \in Nat, s < d, d + n <= bytes
    PROVE  RepMovsDown(mem, d + n - 1, s + n - 1, n) = Copied(mem, d, s, n)
  <1> DEFINE After(f, i) ==
               IF i = 0 THEN mem
               ELSE MoveUnit(f[i - 1], (d + n - 1) - (i - 1), (s + n - 1) - (i - 1), 1)
             Follows(f) == f = [i \in 0..n |-> After(f, i)]
             copies == [i \in 0..n |-> LastCopied(mem, d, s, n, i)]
             after == CHOOSE f : Follows(f)
  <1>1. ASSUME NEW i \in 0..n PROVE copies[i] = After(copies, i)
    <2>1. CASE i = 0
      <3>1. LastCopied(mem, d, s, n, 0) = mem
        BY DEF LastCopied, IsMemory
      <3>2. QED
        BY <2>1, <3>1
    <2>2. CASE i # 0
      <3>1. i \in 1..n /\ i - 1 \in 0..n
        BY <2>2
      <3>2. DOMAIN mem = 0..(bytes - 1)
        BY Zenon DEF IsMemory
      <3>3. MoveUnit(LastCopied(mem, d, s, n, i - 1), (d + n - 1) - (i - 1), (s + n - 1) - (i - 1), 1) =
               LastCopied(mem, d, s, n, i)
        BY <3>1, <3>2, LastCopiedOn
      <3>4. QED
        BY <2>2, <3>1, <3>3
    <2>3. QED
      BY <2>1, <2>2
  <1>2. Follows(copies)
    <2>1. copies = [i \in 0..n |-> copies[i]]
      OBVIOUS
    <2> HIDE DEF copies
    <2>2. [i \in 0..n |-> copies[i]] = [i \in 0..n |-> After(copies, i)]
      BY <1>1
    <2>3. QED
      BY <2>1, <2>2
  <1>3. RepMovsDown(mem, d + n - 1, s + n - 1, n) = after[n]
    BY Zenon DEF RepMovsDown
  <1>4. Follows(after)
    <2> HIDE DEF copies, Follows
    <2>1. QED
      BY <1>2, Zenon
  <1>5. after[0] = copies[0]
    <2>1. 0 \in 0..n
      OBVIOUS
    <2> HIDE DEF after
    <2>2. after[0] = mem
      BY <1>4, <2>1
    <2> HIDE DEF copies
    <2>3. QED
      BY <1>1, <2>1, <2>2
  <1>6. ASSUME NEW i \in 1..n, after[i - 1] = copies[i - 1] PROVE after[i] = copies[i]
    <2>1. i \in 0..n /\ i # 0
      OBVIOUS
    <2>2. after[i] = MoveUnit(after[i - 1], (d + n - 1) - (i - 1), (s + n - 1) - (i - 1), 1)
      BY <1>4, <2>1
    <2> HIDE DEF after
    <2>3. copies[i] = MoveUnit(copies[i - 1], (d + n - 1) - (i - 1), (s + n - 1) - (i - 1), 1)
      BY <1>1, <2>1
    <2>4. QED
      BY <1>6, <2>2, <2>3
  <1> HIDE DEF after
  <1>7. after[n] = copies[n]
    <2> HIDE DEF copies
    <2>1. QED
      BY <1>5, <1>6, SameSteps
  <1>8. LastCopied(mem, d, s, n, n) = Copied(mem, d, s, n)
    BY DEF LastCopied, Copied
  <1>9. QED
    BY <1>3, <1>7, <1>8

LEMMA RepMovsOn ==
    ASSUME NEW bytes \in Nat, NEW mem, IsMemory(mem, bytes),
           NEW d \in Nat, NEW s \in Nat, NEW m \in Nat, NEW size \in Nat, NEW count \in Nat,
           NEW total \in Nat, m + size * count <= total, Fits(bytes, d, s, total)
    PROVE  RepMovs(Copied(mem, d, s, m), d + m, s + m, size, count) =
             Copied(mem, d, s, m + size * count)
  <1> DEFINE n == size * count
             first == Copied(mem, d, s, m)
  <1>1. n \in Nat /\ m + n <= total
    OBVIOUS
  <1>2. IsMemory(first, bytes) /\ DOMAIN mem = 0..(bytes - 1)
    <2>1. DOMAIN mem = 0..(bytes - 1)
      BY Zenon DEF IsMemory
    <2>2. QED
      BY <2>1 DEF Copied, IsMemory
  <1>3. Fits(bytes, d + m, s + m, size * count)
    <2>1. Fits(bytes, d + m, s + m, n)
      <3> HIDE DEF n
      <3>1. QED
        BY <1>1 DEF Fits, Upwards
    <2>2. QED
      BY <2>1
  <1>4. RepMovs(first, d + m, s + m, size, count) = Copied(first, d + m, s + m, size * count)
    <2> HIDE DEF first, n
    <2>1. d + m \in Nat /\ s + m \in Nat
      OBVIOUS
    <2>2. QED
      BY <1>2, <1>3, <2>1, RepMovsCopies
  <1>5. Copied(first, d + m, s + m, n) = Copied(mem, d, s, m + n)
    <2> HIDE DEF n
    <2>1. QED
      BY <1>1, <1>2, CopiedOn
  <1>6. QED
    BY <1>4, <1>5

LEMMA ToAlignedFacts == ASSUME NEW d \in Nat, NEW n \in Nat PROVE ToAligned(d, n) \in 0..n
  <1> DEFINE left == (LONG - (d % LONG)) % LONG
  <1>1. left \in Nat
    <2>1. d % LONG \in 0..(LONG - 1)
      BY WidthAssumption
    <2>2. LONG - (d % LONG) \in Nat
      BY <2>1, WidthAssumption
    <2>3. QED
      BY <2>2, WidthAssumption
  <1> HIDE DEF left
  <1>2. Min({n, left}) \in {n, left} /\ Min({n, left}) <= n
    BY <1>1, MinFacts
  <1>3. ToAligned(d, n) = Min({n, left})
    BY DEF ToAligned, left
  <1>4. QED
    BY <1>1, <1>2, <1>3

\* The bytes before the first aligned one, the long words and the bytes behind them.
LEMMA ThreeParts ==
    ASSUME NEW d \in Nat, NEW n \in Nat
    PROVE  LET head == ToAligned(d, n)
               longs == (n - head) \div LONG
               rest == (n - head) % LONG
           IN  /\ head \in Nat /\ longs \in Nat /\ rest \in Nat
               /\ LONG * longs \in Nat
               /\ head + LONG * longs + rest = n
  <1> DEFINE head == ToAligned(d, n)
  <1>1. head \in 0..n
    BY ToAlignedFacts
  <1> HIDE DEF head
  <1>2. n - head \in Nat /\ head \in Nat
    BY <1>1
  <1> DEFINE k == n - head
             longs == k \div LONG
             rest == k % LONG
  <1>3. longs \in Nat /\ rest \in Nat /\ k = LONG * longs + rest
    <2> HIDE DEF k
    <2>1. k \in Nat
      BY <1>2 DEF k
    <2>2. QED
      BY <2>1, DivFacts, WidthAssumption
  <1> HIDE DEF longs, rest
  <1>4. LONG * longs \in Nat
    BY <1>3, WidthAssumption
  <1> DEFINE bytes == LONG * longs
  <1>5. bytes \in Nat /\ k = bytes + rest
    BY <1>3, <1>4
  <1> HIDE DEF bytes
  <1>6. head + bytes + rest = n
    BY <1>2, <1>3, <1>5 DEF k
  <1>7. QED
    BY <1>2, <1>3, <1>4, <1>6 DEF head, longs, rest, bytes, k

\* memcpy copies a block that can be copied upwards.
LEMMA memcpyCopies ==
    ASSUME NEW bytes \in Nat, NEW mem, IsMemory(mem, bytes),
           NEW d \in Nat, NEW s \in Nat, NEW n \in Nat, Fits(bytes, d, s, n)
    PROVE  memcpy(mem, d, s, n) = Copied(mem, d, s, n)
  <1> DEFINE head == ToAligned(d, n)
             longs == (n - head) \div LONG
             rest == (n - head) % LONG
             done == head + LONG * longs
             aligned == RepMovs(mem, d, s, 1, head)
             body == RepMovs(aligned, d + head, s + head, LONG, longs)
  <1>1. memcpy(mem, d, s, n) = RepMovs(body, d + done, s + done, 1, rest)
    BY DEF memcpy
  <1>2. /\ head \in Nat /\ longs \in Nat /\ rest \in Nat
        /\ LONG * longs \in Nat /\ head + LONG * longs + rest = n
    BY ThreeParts
  <1> HIDE DEF head, longs, rest
  <1>3. aligned = Copied(mem, d, s, head)
    <2>1. 1 * head = head /\ head \in Nat
      BY <1>2
    <2>2. Fits(bytes, d, s, 1 * head)
      <3> DEFINE l == LONG * longs
      <3>1. l \in Nat /\ head + l + rest = n
        BY <1>2
      <3> HIDE DEF l
      <3>2. head <= n
        BY <1>2, <3>1
      <3>3. QED
        BY <2>1, <3>2 DEF Fits, Upwards
    <2>3. QED
      BY <2>1, <2>2, RepMovsCopies
  <1>4. body = Copied(mem, d, s, done)
    <2> HIDE DEF aligned
    <2>1. head + LONG * longs <= n
      <3> DEFINE l == LONG * longs
      <3>1. l \in Nat /\ head + l + rest = n
        BY <1>2
      <3> HIDE DEF l
      <3>2. head + l <= n
        BY <1>2, <3>1
      <3>3. QED
        BY <3>2 DEF l
    <2>2. LONG \in Nat
      BY WidthAssumption
    <2>3. RepMovs(Copied(mem, d, s, head), d + head, s + head, LONG, longs) =
             Copied(mem, d, s, head + LONG * longs)
      BY <1>2, <2>1, <2>2, RepMovsOn
    <2>4. QED
      BY <1>3, <2>3
  <1>5. done \in Nat /\ done + rest = n
    BY <1>2
  <1> HIDE DEF body, done
  <1>6. RepMovs(Copied(mem, d, s, done), d + done, s + done, 1, rest) = Copied(mem, d, s, done + rest)
    <2>1. rest \in Nat /\ 1 * rest = rest /\ done + 1 * rest <= n /\ 1 \in Nat
      BY <1>2, <1>5
    <2>2. RepMovs(Copied(mem, d, s, done), d + done, s + done, 1, rest) =
             Copied(mem, d, s, done + 1 * rest)
      <3>1. done \in Nat
        BY <1>5
      <3>2. QED
        BY <2>1, <3>1, RepMovsOn
    <2>3. QED
      BY <2>1, <2>2
  <1>7. QED
    BY <1>1, <1>4, <1>5, <1>6

\* memmove copies every block.
LEMMA memmoveCopies ==
    ASSUME NEW bytes \in Nat, NEW mem, IsMemory(mem, bytes),
           NEW d \in Nat, NEW s \in Nat, NEW n \in Nat, d + n <= bytes, s + n <= bytes
    PROVE  memmove(mem, d, s, n) = Copied(mem, d, s, n)
  <1>1. CASE s >= d
    <2>1. 1 * n = n
      OBVIOUS
    <2>2. Fits(bytes, d, s, 1 * n)
      BY <1>1, <2>1 DEF Fits, Upwards
    <2>3. RepMovs(mem, d, s, 1, n) = Copied(mem, d, s, 1 * n)
      BY <2>2, RepMovsCopies
    <2>4. QED
      BY <1>1, <2>1, <2>3 DEF memmove
  <1>2. CASE ~(s >= d)
    <2>1. s < d
      BY <1>2
    <2>2. QED
      BY <1>2, <2>1, RepMovsDownCopies DEF memmove
  <1>3. QED
    BY <1>1, <1>2

\* Memory with n bytes c from d.
Filled(mem, d, c, n) == [a \in DOMAIN mem |-> IF a \in d..(d + n - 1) THEN c ELSE mem[a]]

LEMMA FilledIsMemory ==
    ASSUME NEW bytes \in Nat, NEW mem, IsMemory(mem, bytes), NEW d \in Nat, NEW c, NEW n \in Nat
    PROVE  IsMemory(Filled(mem, d, c, n), bytes)
  <1>1. DOMAIN mem = 0..(bytes - 1)
    BY Zenon DEF IsMemory
  <1>2. QED
    BY <1>1 DEF IsMemory, Filled

LEMMA FilledOn ==
    ASSUME NEW bytes \in Nat, NEW mem, IsMemory(mem, bytes), NEW d \in Nat, NEW c, NEW m \in Nat, NEW n \in Nat
    PROVE  Filled(Filled(mem, d, c, m), d + m, c, n) = Filled(mem, d, c, m + n)
  <1>1. ASSUME NEW a \in DOMAIN mem
        PROVE  a \in d..(d + (m + n) - 1) <=> a \in d..(d + m - 1) \/ a \in (d + m)..(d + m + n - 1)
    OBVIOUS
  <1>2. DOMAIN mem = 0..(bytes - 1)
    BY Zenon DEF IsMemory
  <1>3. QED
    BY <1>1, <1>2 DEF Filled

\* A unit of rep stos: size bytes c.
Unit(c, size) == [i \in 1..size |-> c]

\* rep stos fills memory when every byte of its unit is the same.
LEMMA RepStosFills ==
    ASSUME NEW bytes \in Nat, NEW mem, IsMemory(mem, bytes), NEW d \in Nat, NEW c, NEW count \in Nat,
           NEW size \in Nat, size # 0
    PROVE  RepStos(mem, d, Unit(c, size), count) = Filled(mem, d, c, size * count)
  <1>1. ASSUME NEW a \in DOMAIN mem, a \in d..(d + size * count - 1)
        PROVE  Unit(c, size)[((a - d) % size) + 1] = c
    <2>1. a - d \in Nat
      <3>1. DOMAIN mem = 0..(bytes - 1)
        BY Zenon DEF IsMemory
      <3>2. a \in Nat /\ a >= d
        BY <1>1, <3>1
      <3>3. QED
        BY <3>2
    <2>2. (a - d) % size \in 0..(size - 1)
      BY <2>1, DivFacts
    <2> DEFINE r == (a - d) % size
    <2>3. r \in 0..(size - 1)
      BY <2>2
    <2> HIDE DEF r
    <2>4. r + 1 \in 1..size
      BY <2>3
    <2>5. QED
      BY <2>4 DEF r, Unit
  <1>2. Len(Unit(c, size)) = size
    BY DEF Unit
  <1>3. QED
    BY <1>1, <1>2 DEF RepStos, Filled

\* memset fills what it is asked to.
LEMMA memsetFills ==
    ASSUME NEW bytes \in Nat, NEW mem, IsMemory(mem, bytes), NEW d \in Nat, NEW c, NEW n \in Nat
    PROVE  memset(mem, d, c, n) = Filled(mem, d, c, n)
  <1> DEFINE head == ToAligned(d, n)
             longs == (n - head) \div LONG
             rest == (n - head) % LONG
             tail == d + head + LONG * longs
             long == [i \in 1..LONG |-> c]
             aligned == RepStos(mem, d, <<c>>, head)
             body == RepStos(aligned, d + head, long, longs)
             Fill(m) == Filled(mem, d, c, m)
  <1>1. memset(mem, d, c, n) = RepStos(body, tail, <<c>>, rest)
    BY DEF memset
  <1>2. /\ head \in Nat /\ longs \in Nat /\ rest \in Nat
        /\ LONG * longs \in Nat /\ head + LONG * longs + rest = n
    BY ThreeParts
  <1> HIDE DEF head, longs, rest
  <1>3. Unit(c, 1) = <<c>> /\ 1 \in Nat /\ 1 # 0
    BY DEF Unit
  <1>4. long = Unit(c, LONG) /\ LONG \in Nat /\ LONG # 0
    BY WidthAssumption DEF Unit
  <1> HIDE DEF long
  <1>5. \A m \in Nat : IsMemory(Fill(m), bytes)
    BY FilledIsMemory
  <1>6. aligned = Fill(head)
    <2>1. RepStos(mem, d, <<c>>, head) = Filled(mem, d, c, 1 * head)
      BY <1>2, <1>3, RepStosFills
    <2>2. 1 * head = head
      BY <1>2
    <2>3. QED
      BY <2>1, <2>2
  <1> DEFINE l == LONG * longs
  <1>7. l \in Nat /\ head + l + rest = n /\ tail = d + (head + l) /\ head \in Nat /\ rest \in Nat
    BY <1>2
  <1> HIDE DEF aligned, Fill
  <1>8. body = Fill(head + l)
    <2>1. d + head \in Nat /\ IsMemory(Fill(head), bytes) /\ longs \in Nat
      BY <1>2, <1>5
    <2>2. RepStos(Fill(head), d + head, long, longs) = Filled(Fill(head), d + head, c, LONG * longs)
      BY <1>4, <2>1, RepStosFills
    <2> HIDE DEF l
    <2>3. Filled(Fill(head), d + head, c, l) = Fill(head + l)
      BY <1>7, FilledOn DEF Fill
    <2>4. QED
      BY <1>6, <2>2, <2>3 DEF l
  <1> HIDE DEF l, tail, body
  <1>9. RepStos(body, tail, <<c>>, rest) = Fill(head + l + rest)
    <2>1. head + l \in Nat /\ tail \in Nat /\ IsMemory(Fill(head + l), bytes) /\ 1 * rest = rest
      BY <1>5, <1>7
    <2>2. RepStos(Fill(head + l), tail, <<c>>, rest) = Filled(Fill(head + l), tail, c, 1 * rest)
      BY <1>3, <1>7, <2>1, RepStosFills
    <2>3. Filled(Fill(head + l), d + (head + l), c, rest) = Fill(head + l + rest)
      BY <1>7, <2>1, FilledOn DEF Fill
    <2>4. QED
      BY <1>7, <1>8, <2>1, <2>2, <2>3
  <1>10. QED
    BY <1>1, <1>7, <1>9 DEF Fill

-----------------------------------------------------------------------------
(* Calls.                                                                    *)

\* A call keeps the arguments it was made with.
CallInv ==
    /\ call.op \in {"memcpy", "memmove", "memset", "memset_word"} => call.args \in Blocks
    /\ call.op \in {"strlen", "strcpy", "strrev"} => call.args \in Strings
    /\ call.op \in {"strncpy", "getargs"} => call.args \in Strings \X (0..SIZE)
    /\ call.op = "strncmp" => call.args \in Strings \X Strings \X (0..LENGTH)
    /\ call.op = "itoa" => call.args \in (0..(Modulus - 1)) \X {2, 8, 10, 16}
    /\ call.op = "printf" => call.args \in BoundedSeq(Pieces, Items)
    /\ call.op = "lookup" => call.args \in BoundedSeq(Letters, FILE_NAME_SIZE + 1)
    /\ call.op = "execute" => call.args \in BoundedSeq(Letters \cup {SPACE}, CommandLength)

LEMMA CallInvHolds == Spec => []CallInv
  <1>1. Init => CallInv
    <2> SUFFICES ASSUME Init PROVE CallInv
      OBVIOUS
    <2>1. CASE call \in MemoryCalls
      BY <2>1 DEF CallInv, MemoryCalls
    <2>2. CASE call \in StringCalls
      BY <2>2 DEF CallInv, StringCalls
    <2>3. CASE call \in SizedCalls
      BY <2>3 DEF CallInv, SizedCalls
    <2>4. CASE call \in StrncmpCalls
      BY <2>4 DEF CallInv, StrncmpCalls
    <2>5. CASE call \in ItoaCalls
      BY <2>5 DEF CallInv, ItoaCalls
    <2>6. CASE call \in PrintfCalls
      BY <2>6 DEF CallInv, PrintfCalls
    <2>7. CASE call \in ExecuteCalls
      BY <2>7 DEF CallInv, ExecuteCalls
    <2>8. CASE call \in LookupCalls
      BY <2>8 DEF CallInv, LookupCalls
    <2>9. QED
      BY <2>1, <2>2, <2>3, <2>4, <2>5, <2>6, <2>7, <2>8 DEF Init
  <1>2. CallInv /\ [Return]_vars => CallInv'
    BY DEF CallInv, Return, vars
  <1>3. QED
    BY <1>1, <1>2, PTL DEF Spec

\* What a call has returned was returned by this step, or was there before it.
LEMMA StepReturns ==
    ASSUME [Return]_vars
    PROVE  /\ call' = call
           /\ \/ result' = result
              \/ Return
  BY DEF Return, vars

\* Memory as the calls find it.
LEMMA MemoryFacts == /\ SIZE \in Nat /\ IsMemory(Memory, SIZE) /\ DOMAIN Memory = Addresses
                     /\ Addresses = 0..(SIZE - 1)
  BY BoundsAssumption DEF IsMemory, Memory, Addresses

LEMMA BlockFacts ==
    ASSUME NEW b \in Blocks
    PROVE  /\ b[1] \in Nat /\ b[2] \in Nat /\ b[3] \in Nat
           /\ b[1] + b[3] <= SIZE /\ b[2] + b[3] <= SIZE
  BY BoundsAssumption DEF Blocks, Addresses

\* Whatever a call of the memory functions returns is what was asked for.
LEMMA MemoryRoutinesStep == CallInv /\ MemoryRoutines /\ [Return]_vars => MemoryRoutines'
  <1> SUFFICES ASSUME CallInv, MemoryRoutines, [Return]_vars PROVE MemoryRoutines'
    OBVIOUS
  <1>1. CASE result' = result
    BY <1>1, StepReturns DEF MemoryRoutines, Returned
  <1>2. CASE Return
    <2> DEFINE d == call.args[1]
               s == call.args[2]
               n == call.args[3]
               After(Byte(_)) ==
                 [a \in Addresses |-> IF a \in d..(d + n - 1) THEN Byte(a - d) ELSE Memory[a]]
    <2>1. call' = call
      BY <1>2 DEF Return
    <2>2. Returned("memset")' => result'.val = After(LAMBDA i : BYTE)
      <3> SUFFICES ASSUME call.op = "memset" PROVE result'.val = After(LAMBDA i : BYTE)
        BY <2>1 DEF Returned
      <3>1. result'.val = memset(Memory, d, BYTE, n)
        BY <1>2 DEF Return, Returns
      <3>2. d \in Nat /\ n \in Nat
        BY BlockFacts DEF CallInv
      <3>3. memset(Memory, d, BYTE, n) = Filled(Memory, d, BYTE, n)
        <4> HIDE DEF d, n
        <4>1. QED
          BY <3>2, MemoryFacts, memsetFills
      <3>4. Filled(Memory, d, BYTE, n) = After(LAMBDA i : BYTE)
        <4> HIDE DEF d, n
        <4>1. QED
          BY MemoryFacts DEF Filled
      <3>5. QED
        BY <3>1, <3>3, <3>4
    <2>3. Returned("memmove")' => result'.val = After(LAMBDA i : Memory[s + i])
      <3> SUFFICES ASSUME call.op = "memmove" PROVE result'.val = After(LAMBDA i : Memory[s + i])
        BY <2>1 DEF Returned
      <3>1. result'.val = memmove(Memory, d, s, n)
        BY <1>2 DEF Return, Returns
      <3>2. d \in Nat /\ s \in Nat /\ n \in Nat /\ d + n <= SIZE /\ s + n <= SIZE
        BY BlockFacts DEF CallInv
      <3>3. memmove(Memory, d, s, n) = Copied(Memory, d, s, n)
        <4> HIDE DEF d, s, n
        <4>1. QED
          BY <3>2, MemoryFacts, memmoveCopies
      <3>4. Copied(Memory, d, s, n) = After(LAMBDA i : Memory[s + i])
        <4> HIDE DEF d, s, n
        <4>1. QED
          BY MemoryFacts DEF Copied
      <3>5. QED
        BY <3>1, <3>3, <3>4
    <2>4. Returned("memcpy")' /\ d \notin (s + 1)..(s + n - 1) =>
             result'.val = After(LAMBDA i : Memory[s + i])
      <3> SUFFICES ASSUME call.op = "memcpy", d \notin (s + 1)..(s + n - 1)
                   PROVE  result'.val = After(LAMBDA i : Memory[s + i])
        BY <2>1 DEF Returned
      <3>1. result'.val = memcpy(Memory, d, s, n)
        BY <1>2 DEF Return, Returns
      <3>2. d \in Nat /\ s \in Nat /\ n \in Nat /\ d + n <= SIZE /\ s + n <= SIZE
        BY BlockFacts DEF CallInv
      <3>3. Fits(SIZE, d, s, n)
        <4>1. d \notin (s + 1)..(s + n - 1)
          OBVIOUS
        <4> HIDE DEF d, s, n
        <4>2. QED
          BY <3>2, <4>1 DEF Fits, Upwards
      <3>4. memcpy(Memory, d, s, n) = Copied(Memory, d, s, n)
        <4> HIDE DEF d, s, n
        <4>1. QED
          BY <3>2, <3>3, MemoryFacts, memcpyCopies
      <3>5. Copied(Memory, d, s, n) = After(LAMBDA i : Memory[s + i])
        <4> HIDE DEF d, s, n
        <4>1. QED
          BY MemoryFacts DEF Copied
      <3>6. QED
        BY <3>1, <3>4, <3>5
    <2>5. Returned("memset_word")' /\ n % 2 = 0 => result'.val = After(LAMBDA i : BYTE + (i % 2))
      <3> SUFFICES ASSUME call.op = "memset_word", n % 2 = 0
                   PROVE  result'.val = After(LAMBDA i : BYTE + (i % 2))
        BY <2>1 DEF Returned
      <3>1. result'.val = RepStos(Memory, d, <<BYTE, BYTE + 1>>, n \div 2)
        BY <1>2 DEF Return, Returns, memset_units
      <3>2. d \in Nat /\ n \in Nat
        BY BlockFacts DEF CallInv
      <3>3. n % 2 = 0
        OBVIOUS
      <3> HIDE DEF d, n
      <3>4. Len(<<BYTE, BYTE + 1>>) * (n \div 2) = n
        BY <3>2, <3>3
      <3>5. ASSUME NEW a \in Addresses, a \in d..(d + n - 1)
            PROVE  <<BYTE, BYTE + 1>>[((a - d) % 2) + 1] = BYTE + ((a - d) % 2)
        <4>1. a - d \in Nat
          BY <3>2, <3>5
        <4>2. (a - d) % 2 = 0 \/ (a - d) % 2 = 1
          BY <4>1
        <4>3. BYTE = 5
          BY DEF BYTE
        <4>4. QED
          BY <4>2, <4>3
      <3>6. RepStos(Memory, d, <<BYTE, BYTE + 1>>, n \div 2) =
              [a \in Addresses |->
                 IF a \in d..(d + n - 1) THEN <<BYTE, BYTE + 1>>[((a - d) % 2) + 1] ELSE Memory[a]]
        BY <3>4, MemoryFacts DEF RepStos
      <3>7. QED
        BY <3>1, <3>5, <3>6
    <2>6. QED
      BY <2>1, <2>2, <2>3, <2>4, <2>5 DEF MemoryRoutines
  <1>3. QED
    BY <1>1, <1>2, StepReturns

\* memcpy, memmove and memset leave exactly what was asked for, at every
\* alignment, length and overlap, for a memory and long words of any size.
\* (lib.c: memcpy, memmove, memset)
THEOREM MemoryRoutinesCorrect == Spec => []MemoryRoutines
  <1>1. Init => MemoryRoutines
    BY DEF Init, MemoryRoutines, Returned, Running
  <1>2. QED
    BY <1>1, CallInvHolds, MemoryRoutinesStep, PTL DEF Spec

-----------------------------------------------------------------------------
(* Strings.                                                                  *)

\* A string of characters other than NUL.
IsString(s) == s \in Seq(Nat \ {NUL})

LEMMA BoundedFacts ==
    ASSUME NEW most \in Nat, NEW s \in BoundedSeq(Letters \cup {SPACE}, most)
    PROVE  IsString(s) /\ Len(s) \in 0..most
  <1>1. PICK m \in 0..most : s \in [1..m -> Letters \cup {SPACE}]
    BY DEF BoundedSeq, SeqOf
  <1>2. Letters \cup {SPACE} \subseteq Nat \ {NUL}
    BY BoundsAssumption DEF SPACE, NUL
  <1>3. s \in Seq(Nat \ {NUL}) /\ Len(s) = m
    <2>1. s \in [1..m -> Nat \ {NUL}] /\ m \in Nat
      <3>1. m \in Nat
        OBVIOUS
      <3> DEFINE T == Nat \ {NUL}
      <3> HIDE DEF T
      <3>2. s \in [1..m -> T]
        BY <1>1, <1>2 DEF T
      <3>3. QED
        BY <3>1, <3>2 DEF T
    <2>2. s \in Seq(Nat \ {NUL})
      BY <2>1, SeqDef, Zenon
    <2>3. QED
      BY <2>1, <2>2
  <1>4. QED
    BY <1>3 DEF IsString

LEMMA LettersFacts ==
    ASSUME NEW most \in Nat, NEW s \in BoundedSeq(Letters, most)
    PROVE  IsString(s) /\ Len(s) \in 0..most
  <1>1. \A m \in 0..most : [1..m -> Letters] \subseteq [1..m -> Letters \cup {SPACE}]
    OBVIOUS
  <1>2. s \in BoundedSeq(Letters \cup {SPACE}, most)
    BY <1>1 DEF BoundedSeq, SeqOf
  <1>3. QED
    BY <1>2, BoundedFacts

LEMMA StringFacts ==
    ASSUME NEW s \in Strings
    PROVE  IsString(s) /\ Len(s) \in 0..LENGTH /\ Len(s) < SIZE
  <1>1. IsString(s) /\ Len(s) \in 0..LENGTH
    BY LettersFacts, BoundsAssumption DEF Strings
  <1>2. QED
    BY <1>1, BoundsAssumption

\* A string in memory.
LEMMA CStringFacts ==
    ASSUME NEW s, IsString(s), NEW behind, NEW size \in Nat, Len(s) < size
    PROVE  LET c == CString(s, behind, size)
           IN  /\ Len(s) \in Nat /\ DOMAIN c = 0..(size - 1) /\ Len(s) \in DOMAIN c
               /\ \A i \in 0..(Len(s) - 1) : c[i] = s[i + 1] /\ c[i] \in Nat /\ c[i] # NUL
               /\ c[Len(s)] = NUL
  <1> DEFINE c == CString(s, behind, size)
  <1>1. Len(s) \in Nat /\ \A i \in 1..Len(s) : s[i] \in Nat /\ s[i] # NUL
    BY DEF IsString
  <1>2. DOMAIN c = 0..(size - 1) /\ Len(s) \in DOMAIN c
    BY <1>1 DEF CString
  <1>3. \A i \in 0..(size - 1) :
           c[i] = IF i < Len(s) THEN s[i + 1] ELSE IF i = Len(s) THEN NUL ELSE behind
    BY DEF CString
  <1> HIDE DEF c
  <1>4. ASSUME NEW i \in 0..(Len(s) - 1) PROVE c[i] = s[i + 1] /\ c[i] \in Nat /\ c[i] # NUL
    <2>1. i \in 0..(size - 1) /\ i < Len(s) /\ i + 1 \in 1..Len(s)
      BY <1>1
    <2>2. QED
      BY <1>1, <1>3, <2>1
  <1>5. c[Len(s)] = NUL
    BY <1>1, <1>2, <1>3
  <1>6. QED
    BY <1>1, <1>2, <1>4, <1>5 DEF c

\* strlen finds the NUL of a string, whatever stands behind it.
LEMMA strlenIs ==
    ASSUME NEW s, IsString(s), NEW behind, NEW size \in Nat, Len(s) < size
    PROVE  strlen(CString(s, behind, size)) = Len(s)
  <1> DEFINE c == CString(s, behind, size)
             nuls == {i \in DOMAIN c : c[i] = NUL}
  <1>1. /\ Len(s) \in Nat /\ DOMAIN c = 0..(size - 1) /\ Len(s) \in DOMAIN c
        /\ \A i \in 0..(Len(s) - 1) : c[i] # NUL
        /\ c[Len(s)] = NUL
    BY CStringFacts
  <1> HIDE DEF c
  <1>2. nuls \subseteq Nat /\ Len(s) \in nuls /\ \A i \in nuls : Len(s) <= i
    BY <1>1
  <1>3. Min(nuls) = Len(s)
    <2> HIDE DEF nuls
    <2>1. QED
      BY <1>2, MinIs
  <1>4. QED
    BY <1>3 DEF strlen, c

\* Cut leaves a beginning of a sequence.
LEMMA CutFacts ==
    ASSUME NEW S, NEW s \in Seq(S), NEW n \in Nat
    PROVE  /\ Cut(s, n) \in Seq(S)
           /\ Len(Cut(s, n)) = IF n <= Len(s) THEN n ELSE Len(s)
           /\ \A i \in 1..Len(Cut(s, n)) : Cut(s, n)[i] = s[i]
  <1> DEFINE m == IF n <= Len(s) THEN n ELSE Len(s)
  <1>1. Len(s) \in Nat
    OBVIOUS
  <1>2. Min({n, Len(s)}) = m
    <2>1. {n, Len(s)} \subseteq Nat /\ m \in {n, Len(s)} /\ \A x \in {n, Len(s)} : m <= x
      BY <1>1
    <2> DEFINE both == {n, Len(s)}
    <2> HIDE DEF m, both
    <2>2. Min(both) = m
      <3>1. both \subseteq Nat /\ m \in both /\ \A x \in both : m <= x
        BY <2>1 DEF both
      <3>2. QED
        BY <3>1, MinIs
    <2>3. QED
      BY <2>2 DEF both
  <1>3. m \in 0..Len(s)
    BY <1>1
  <1> HIDE DEF m
  <1>4. SubSeq(s, 1, m) \in Seq(S) /\ Len(SubSeq(s, 1, m)) = m
        /\ \A i \in 1..m : SubSeq(s, 1, m)[i] = s[i]
    BY <1>1, <1>3
  <1>5. QED
    BY <1>2, <1>4 DEF Cut, m

\* An array in which n bytes of dest have become the cut string and NULs behind it.
CutCopied(v, dest, s, size, n) ==
    /\ \A i \in 0..(size - 1) : i >= n => v[i] = dest[i]
    /\ [i \in 1..n |-> v[i - 1]] = Cut(s, n) \o [i \in 1..(n - Len(Cut(s, n))) |-> NUL]

\* strncpy leaves the cut string and NULs behind it.
LEMMA strncpyCopies ==
    ASSUME NEW s, IsString(s), NEW dest, NEW behind, NEW size \in Nat, Len(s) < size,
           DOMAIN dest = 0..(size - 1), NEW n \in 0..size
    PROVE  CutCopied(strncpy(dest, CString(s, behind, size), n), dest, s, size, n)
  <1> DEFINE c == CString(s, behind, size)
             v == strncpy(dest, c, n)
             cut == Cut(s, n)
             nuls == [i \in 1..(n - Len(cut)) |-> NUL]
             left == [i \in 1..n |-> v[i - 1]]
  <1>1. Len(s) \in Nat /\ DOMAIN c = 0..(size - 1) /\ \A i \in 0..(Len(s) - 1) : c[i] = s[i + 1]
    BY CStringFacts
  <1>2. strlen(c) = Len(s)
    BY strlenIs
  <1> HIDE DEF c
  <1>3. \A i \in 0..(size - 1) :
           v[i] = IF i >= n THEN dest[i] ELSE IF i < Len(s) THEN c[i] ELSE NUL
    BY <1>2 DEF strncpy
  <1> HIDE DEF v
  <1>4. /\ cut \in Seq(Nat \ {NUL})
        /\ Len(cut) = IF n <= Len(s) THEN n ELSE Len(s)
        /\ \A i \in 1..Len(cut) : cut[i] = s[i]
    BY CutFacts DEF IsString
  <1> HIDE DEF cut
  <1>5. n - Len(cut) \in Nat /\ Len(cut) \in Nat /\ n \in Nat /\ Len(cut) <= n
    BY <1>1, <1>4
  <1>6. nuls \in Seq({NUL}) /\ Len(nuls) = n - Len(cut) /\ \A i \in 1..(n - Len(cut)) : nuls[i] = NUL
    BY <1>5
  <1> HIDE DEF nuls
  <1>7. /\ cut \o nuls \in Seq(Nat) /\ Len(cut \o nuls) = n
        /\ \A i \in 1..n : (cut \o nuls)[i] = IF i <= Len(cut) THEN cut[i] ELSE nuls[i - Len(cut)]
    <2>1. cut \in Seq(Nat) /\ nuls \in Seq(Nat)
      BY <1>4, <1>6 DEF NUL
    <2>2. QED
      BY <1>5, <1>6, <2>1
  <1>8. ASSUME NEW i \in 1..n PROVE left[i] = (cut \o nuls)[i]
    <2>1. left[i] = v[i - 1] /\ i - 1 \in 0..(size - 1) /\ ~(i - 1 >= n)
      OBVIOUS
    <2>2. CASE i <= Len(cut)
      <3>1. i - 1 < Len(s) /\ i - 1 \in 0..(Len(s) - 1) /\ i \in 1..Len(cut)
        BY <1>1, <1>4, <1>5, <2>2
      <3>2. v[i - 1] = c[i - 1] /\ c[i - 1] = s[i - 1 + 1] /\ i - 1 + 1 = i
        BY <1>1, <1>3, <2>1, <3>1
      <3>3. QED
        BY <1>4, <1>7, <2>1, <2>2, <3>1, <3>2
    <2>3. CASE ~(i <= Len(cut))
      <3>1. ~(i - 1 < Len(s)) /\ i - Len(cut) \in 1..(n - Len(cut))
        BY <1>1, <1>4, <1>5, <2>3
      <3>2. v[i - 1] = NUL
        BY <1>3, <2>1, <3>1
      <3>3. QED
        BY <1>6, <1>7, <2>1, <2>3, <3>1, <3>2
    <2>4. QED
      BY <2>2, <2>3
  <1>9. cut \o nuls = [i \in 1..n |-> (cut \o nuls)[i]]
    <2> DEFINE both == cut \o nuls
    <2>1. both \in Seq(Nat) /\ Len(both) = n
      BY <1>7
    <2> HIDE DEF both
    <2>2. both = [i \in 1..n |-> both[i]]
      BY <2>1, LenProperties
    <2>3. QED
      BY <2>2 DEF both
  <1>10. left = cut \o nuls
    <2>1. left = [i \in 1..n |-> left[i]]
      OBVIOUS
    <2> HIDE DEF left
    <2>2. QED
      BY <1>8, <1>9, <2>1
  <1>11. \A i \in 0..(size - 1) : i >= n => v[i] = dest[i]
    BY <1>3
  <1>12. QED
    BY <1>10, <1>11 DEF CutCopied, v, c, cut, nuls

\* The sequence whose first and last n elements have been swapped.
Swapped(s, n) ==
    [j \in 1..Len(s) |-> IF j <= n \/ j > Len(s) - n THEN s[Len(s) + 1 - j] ELSE s[j]]

Swap(s, t, beg) == [t EXCEPT ![beg] = t[Len(s) + 1 - beg], ![Len(s) + 1 - beg] = t[beg]]

LEMMA SwappedOn ==
    ASSUME NEW s, Len(s) \in Nat, NEW n \in Nat, 2 * (n + 1) <= Len(s)
    PROVE  Swap(s, Swapped(s, n), n + 1) = Swapped(s, n + 1)
  <1> DEFINE l == Len(s)
             t == Swapped(s, n)
             u == Swapped(s, n + 1)
             m == n + 1
             e == l + 1 - m
  <1>1. /\ l \in Nat /\ m \in 1..l /\ e \in 1..l /\ m < e /\ e = l - n
    OBVIOUS
  <1>2. /\ DOMAIN t = 1..l /\ DOMAIN u = 1..l /\ u = [j \in 1..l |-> u[j]]
        /\ \A j \in 1..l : t[j] = IF j <= n \/ j > l - n THEN s[l + 1 - j] ELSE s[j]
        /\ \A j \in 1..l : u[j] = IF j <= n + 1 \/ j > l - (n + 1) THEN s[l + 1 - j] ELSE s[j]
    BY DEF Swapped
  <1>3. t[m] = s[m] /\ t[e] = s[e]
    <2>1. ~(m <= n) /\ ~(m > l - n) /\ ~(e <= n) /\ ~(e > l - n)
      BY <1>1
    <2> HIDE DEF m, e, t, l
    <2>2. QED
      BY <1>1, <1>2, <2>1
  <1>4. Swap(s, t, m) = [j \in 1..l |-> IF j = e THEN t[m] ELSE IF j = m THEN t[e] ELSE t[j]]
    <2> HIDE DEF t, m
    <2>1. Swap(s, t, m) = [t EXCEPT ![m] = t[e], ![e] = t[m]]
      BY DEF Swap
    <2> HIDE DEF e
    <2>2. QED
      BY <1>1, <1>2, <2>1
  <1>5. ASSUME NEW j \in 1..l
        PROVE  u[j] = IF j = e THEN t[m] ELSE IF j = m THEN t[e] ELSE t[j]
    <2>1. CASE j = e
      <3>1. l + 1 - j = m /\ j > l - (n + 1)
        BY <1>1, <2>1
      <3>2. QED
        BY <1>2, <1>3, <2>1, <3>1
    <2>2. CASE j = m
      <3>1. l + 1 - j = e /\ j <= n + 1 /\ j # e
        BY <1>1, <2>2
      <3>2. QED
        BY <1>2, <1>3, <2>2, <3>1
    <2>3. CASE j # e /\ j # m
      <3>1. (j <= n + 1 \/ j > l - (n + 1)) <=> (j <= n \/ j > l - n)
        BY <1>1, <2>3
      <3>2. QED
        BY <1>2, <2>3, <3>1
    <2>4. QED
      BY <2>1, <2>2, <2>3
  <1> HIDE DEF t, u, e, m
  <1>6. QED
    BY <1>2, <1>4, <1>5 DEF t, u, m

\* strrev reverses.
LEMMA strrevReverses ==
    ASSUME NEW S, NEW s \in Seq(S)
    PROVE  strrev(s) = Reverse(s)
  <1> DEFINE h == Len(s) \div 2
             After(f, beg) == IF beg = 0 THEN s ELSE Swap(s, f[beg - 1], beg)
             Follows(f) == f = [beg \in 0..h |-> After(f, beg)]
             swaps == [beg \in 0..h |-> Swapped(s, beg)]
             after == CHOOSE f : Follows(f)
  <1>1. /\ Len(s) \in Nat /\ h \in Nat
        /\ Len(s) = 2 * h \/ Len(s) = 2 * h + 1
        /\ s = [j \in 1..Len(s) |-> s[j]]
    <2>1. Len(s) \in Nat /\ s = [j \in 1..Len(s) |-> s[j]]
      BY LenProperties
    <2> DEFINE l == Len(s)
    <2>2. l \in Nat /\ h = l \div 2
      BY <2>1
    <2> HIDE DEF l, h
    <2>3. h \in Nat /\ (l = 2 * h \/ l = 2 * h + 1)
      BY <2>2
    <2>4. QED
      BY <2>1, <2>3 DEF l
  <1>2. strrev(s) = after[h]
    BY Zenon DEF strrev, Swap
  <1> HIDE DEF h
  <1>3. ASSUME NEW beg \in 0..h PROVE swaps[beg] = After(swaps, beg)
    <2>1. CASE beg = 0
      <3>1. Swapped(s, 0) = [j \in 1..Len(s) |-> s[j]]
        <4>1. \A j \in 1..Len(s) : ~(j <= 0 \/ j > Len(s) - 0)
          BY <1>1
        <4>2. QED
          BY <4>1 DEF Swapped
      <3>2. QED
        BY <1>1, <2>1, <3>1
    <2>2. CASE beg # 0
      <3> DEFINE n == beg - 1
      <3>1. n \in Nat /\ n \in 0..h /\ n + 1 = beg /\ 2 * (n + 1) <= Len(s)
        BY <1>1, <2>2
      <3>2. Swap(s, Swapped(s, n), n + 1) = Swapped(s, n + 1)
        <4> HIDE DEF n
        <4>1. QED
          BY <1>1, <3>1, SwappedOn
      <3>3. QED
        BY <2>2, <3>1, <3>2
    <2>3. QED
      BY <2>1, <2>2
  <1>4. Follows(swaps)
    <2>1. swaps = [beg \in 0..h |-> swaps[beg]]
      OBVIOUS
    <2> HIDE DEF swaps
    <2>2. [beg \in 0..h |-> swaps[beg]] = [beg \in 0..h |-> After(swaps, beg)]
      BY <1>3
    <2>3. QED
      BY <2>1, <2>2
  <1>5. Follows(after)
    <2> HIDE DEF swaps, Follows
    <2>1. QED
      BY <1>4, Zenon
  <1>6. after[0] = swaps[0]
    <2>1. 0 \in 0..h
      BY <1>1
    <2> HIDE DEF after
    <2>2. after[0] = s
      BY <1>5, <2>1
    <2> HIDE DEF swaps
    <2>3. QED
      BY <1>3, <2>1, <2>2
  <1>7. ASSUME NEW beg \in 1..h, after[beg - 1] = swaps[beg - 1] PROVE after[beg] = swaps[beg]
    <2>1. beg \in 0..h /\ beg # 0
      BY <1>1
    <2>2. after[beg] = Swap(s, after[beg - 1], beg)
      BY <1>5, <2>1
    <2> HIDE DEF after, swaps
    <2>3. swaps[beg] = Swap(s, swaps[beg - 1], beg)
      BY <1>3, <2>1
    <2>4. QED
      BY <1>7, <2>2, <2>3
  <1> HIDE DEF after
  <1>8. after[h] = Swapped(s, h)
    <2>1. after[h] = swaps[h]
      <3> HIDE DEF swaps
      <3>1. QED
        BY <1>1, <1>6, <1>7, SameSteps
    <2>2. h \in 0..h
      BY <1>1
    <2>3. QED
      BY <2>1, <2>2
  <1>9. Swapped(s, h) = Reverse(s)
    <2>1. ASSUME NEW j \in 1..Len(s)
          PROVE  (IF j <= h \/ j > Len(s) - h THEN s[Len(s) + 1 - j] ELSE s[j]) = s[(Len(s) - j) + 1]
      <3>1. (Len(s) - j) + 1 = Len(s) + 1 - j
        BY <1>1
      <3>2. CASE j <= h \/ j > Len(s) - h
        BY <3>1, <3>2
      <3>3. CASE ~(j <= h \/ j > Len(s) - h)
        <4>1. Len(s) + 1 - j = j
          BY <1>1, <3>3
        <4>2. QED
          BY <3>1, <3>3, <4>1
      <3>4. QED
        BY <3>2, <3>3
    <2>2. QED
      BY <2>1 DEF Swapped, Reverse
  <1>10. QED
    BY <1>2, <1>8, <1>9

-----------------------------------------------------------------------------
(* strncmp.                                                                  *)

\* The places among the first n where strncmp stops.
Stops(s1, s2, i, n) == {k \in i..(n - 1) : s1[k] # s2[k] \/ s1[k] = NUL}

\* What strncmp gives from place i on.
FirstDifference(s1, s2, i, n) ==
    IF Stops(s1, s2, i, n) = {} THEN 0
    ELSE s1[Min(Stops(s1, s2, i, n))] - s2[Min(Stops(s1, s2, i, n))]

LEMMA strncmpIs ==
    ASSUME NEW s1, NEW s2, NEW n \in Nat
    PROVE  strncmp(s1, s2, n) = FirstDifference(s1, s2, 0, n)
  <1> DEFINE After(f, i) ==
               IF i = n THEN 0
               ELSE IF s1[i] # s2[i] \/ s1[i] = NUL THEN s1[i] - s2[i] ELSE f[i + 1]
             Follows(f) == f = [i \in 0..n |-> After(f, i)]
             differs == [i \in 0..n |-> FirstDifference(s1, s2, i, n)]
             from == CHOOSE f : Follows(f)
  <1>1. strncmp(s1, s2, n) = from[0]
    BY Zenon DEF strncmp
  <1>2. ASSUME NEW i \in 0..n PROVE differs[i] = After(differs, i)
    <2> DEFINE S == Stops(s1, s2, i, n)
    <2>1. CASE i = n
      <3>1. S = {}
        BY <2>1 DEF Stops
      <3>2. QED
        BY <2>1, <3>1 DEF FirstDifference
    <2>2. CASE i # n /\ (s1[i] # s2[i] \/ s1[i] = NUL)
      <3>1. S \subseteq Nat /\ i \in S /\ \A x \in S : i <= x
        BY <2>2 DEF Stops
      <3>2. Min(S) = i
        <4> HIDE DEF S
        <4>1. QED
          BY <3>1, MinIs
      <3>3. QED
        BY <2>2, <3>1, <3>2 DEF FirstDifference
    <2>3. CASE i # n /\ ~(s1[i] # s2[i] \/ s1[i] = NUL)
      <3>1. S = Stops(s1, s2, i + 1, n) /\ i + 1 \in 0..n
        BY <2>3 DEF Stops
      <3>2. QED
        BY <2>3, <3>1 DEF FirstDifference
    <2>4. QED
      BY <2>1, <2>2, <2>3
  <1>3. Follows(differs)
    <2>1. differs = [i \in 0..n |-> differs[i]]
      OBVIOUS
    <2> HIDE DEF differs
    <2>2. [i \in 0..n |-> differs[i]] = [i \in 0..n |-> After(differs, i)]
      BY <1>2
    <2>3. QED
      BY <2>1, <2>2
  <1>4. Follows(from)
    <2> HIDE DEF differs, Follows
    <2>1. QED
      BY <1>3, Zenon
  <1> DEFINE f == [i \in 0..n |-> from[n - i]]
             g == [i \in 0..n |-> differs[n - i]]
  <1>5. \A i \in 0..n : from[i] = After(from, i) /\ differs[i] = After(differs, i)
    <2> HIDE DEF from, differs
    <2>1. QED
      BY <1>2, <1>4
  <1> HIDE DEF from, differs
  <1>6. f[0] = g[0]
    BY <1>5
  <1>7. ASSUME NEW i \in 1..n, f[i - 1] = g[i - 1] PROVE f[i] = g[i]
    <2>1. i \in 0..n /\ i - 1 \in 0..n /\ n - i \in 0..n /\ n - i # n /\ n - (i - 1) = n - i + 1
      OBVIOUS
    <2>2. from[n - i + 1] = differs[n - i + 1]
      BY <1>7, <2>1
    <2>3. QED
      BY <1>5, <2>1, <2>2
  <1>8. f[n] = g[n]
    <2> HIDE DEF f, g
    <2>1. QED
      BY <1>6, <1>7, SameSteps
  <1>9. from[0] = differs[0]
    BY <1>8
  <1>10. QED
    BY <1>1, <1>9 DEF differs

\* Two sequences cut to the same length are the same if their elements are.
LEMMA CutsSame ==
    ASSUME NEW S, NEW p \in Seq(S), NEW q \in Seq(S), NEW m \in Nat, m <= Len(p), m <= Len(q)
    PROVE  Cut(p, m) = Cut(q, m) <=> \A j \in 1..m : p[j] = q[j]
  <1> DEFINE cp == Cut(p, m)
             cq == Cut(q, m)
  <1>1. /\ cp \in Seq(S) /\ Len(cp) = m /\ \A j \in 1..m : cp[j] = p[j]
        /\ cq \in Seq(S) /\ Len(cq) = m /\ \A j \in 1..m : cq[j] = q[j]
    BY CutFacts
  <1> HIDE DEF cp, cq
  <1>2. (\A j \in 1..m : p[j] = q[j]) => cp = cq
    BY <1>1, SeqEqual
  <1>3. cp = cq => \A j \in 1..m : p[j] = q[j]
    BY <1>1
  <1>4. QED
    BY <1>2, <1>3 DEF cp, cq

LEMMA CutWhole == ASSUME NEW S, NEW p \in Seq(S), NEW m \in Nat, Len(p) <= m PROVE Cut(p, m) = p
  <1> DEFINE cp == Cut(p, m)
  <1>1. cp \in Seq(S) /\ Len(cp) = Len(p) /\ \A j \in 1..Len(p) : cp[j] = p[j]
    BY CutFacts
  <1> HIDE DEF cp
  <1>2. cp = p
    BY <1>1, SeqEqual
  <1>3. QED
    BY <1>2 DEF cp

\* Before, element by element.
LEMMA BeforeIs ==
    ASSUME NEW S, NEW p \in Seq(S), NEW q \in Seq(S)
    PROVE  Before(p, q) <=>
             \/ Len(p) < Len(q) /\ \A j \in 1..Len(p) : p[j] = q[j]
             \/ \E i \in 1..Len(p) :
                   i <= Len(q) /\ (\A j \in 1..(i - 1) : p[j] = q[j]) /\ p[i] < q[i]
  <1>1. Len(p) \in Nat /\ Len(q) \in Nat
    OBVIOUS
  <1> DEFINE lengths == {Len(p), Len(q)}
             least == Min(lengths)
  <1>2. least \in Nat /\ \A i \in Nat : i <= least <=> i <= Len(p) /\ i <= Len(q)
    <2>1. lengths \subseteq Nat /\ lengths # {}
      BY <1>1
    <2>2. least \in lengths /\ \A x \in lengths : least <= x
      <3> HIDE DEF lengths
      <3>1. QED
        BY <2>1, MinFacts
    <2> HIDE DEF least
    <2>3. QED
      BY <1>1, <2>2
  <1> HIDE DEF least
  <1>3. Len(p) < Len(q) => (p = Cut(q, Len(p)) <=> \A j \in 1..Len(p) : p[j] = q[j])
    <2>1. SUFFICES ASSUME Len(p) < Len(q)
                   PROVE  p = Cut(q, Len(p)) <=> \A j \in 1..Len(p) : p[j] = q[j]
      OBVIOUS
    <2>2. Cut(p, Len(p)) = p
      BY <1>1, CutWhole
    <2>3. Cut(p, Len(p)) = Cut(q, Len(p)) <=> \A j \in 1..Len(p) : p[j] = q[j]
      BY <1>1, <2>1, CutsSame
    <2>4. QED
      BY <2>2, <2>3
  <1>4. ASSUME NEW i \in 1..Len(p), i <= Len(q)
        PROVE  Cut(p, i - 1) = Cut(q, i - 1) <=> \A j \in 1..(i - 1) : p[j] = q[j]
    <2>1. i - 1 \in Nat /\ i - 1 <= Len(p) /\ i - 1 <= Len(q)
      BY <1>1, <1>4
    <2>2. QED
      BY <2>1, CutsSame
  <1>5. Before(p, q) <=>
          \/ Len(p) < Len(q) /\ p = Cut(q, Len(p))
          \/ \E i \in 1..least : Cut(p, i - 1) = Cut(q, i - 1) /\ p[i] < q[i]
    BY DEF Before, least
  <1>6. 1..least = {i \in 1..Len(p) : i <= Len(q)}
    BY <1>1, <1>2
  <1>7. (\E i \in 1..least : Cut(p, i - 1) = Cut(q, i - 1) /\ p[i] < q[i]) <=>
          \E i \in 1..Len(p) :
             i <= Len(q) /\ (\A j \in 1..(i - 1) : p[j] = q[j]) /\ p[i] < q[i]
    BY <1>4, <1>6
  <1>8. QED
    BY <1>3, <1>5, <1>7

\* A string can be read in memory, as far as its NUL or the first n characters.
Shows(c, s, n) ==
    \A k \in 0..(n - 1) : k <= Len(s) => c[k] = IF k < Len(s) THEN s[k + 1] ELSE NUL

\* strncmp orders what can be read.
LEMMA strncmpOrders ==
    ASSUME NEW s, IsString(s), NEW t, IsString(t), NEW n \in Nat,
           NEW s1, Shows(s1, s, n), NEW s2, Shows(s2, t, n)
    PROVE  LET v == strncmp(s1, s2, n)
           IN  /\ v < 0 <=> Before(Cut(s, n), Cut(t, n))
               /\ v > 0 <=> Before(Cut(t, n), Cut(s, n))
               /\ v = 0 <=> Cut(s, n) = Cut(t, n)
  <1> DEFINE v == strncmp(s1, s2, n)
             p == Cut(s, n)
             q == Cut(t, n)
             Chars == Nat \ {NUL}
             S == Stops(s1, s2, 0, n)
  <1>1. /\ Len(s) \in Nat /\ Len(t) \in Nat
        /\ \A j \in 1..Len(s) : s[j] \in Nat /\ s[j] # NUL
        /\ \A j \in 1..Len(t) : t[j] \in Nat /\ t[j] # NUL
    BY DEF IsString
  <1>2. /\ p \in Seq(Chars) /\ q \in Seq(Chars)
        /\ Len(p) = IF n <= Len(s) THEN n ELSE Len(s)
        /\ Len(q) = IF n <= Len(t) THEN n ELSE Len(t)
        /\ \A j \in 1..Len(p) : p[j] = s[j]
        /\ \A j \in 1..Len(q) : q[j] = t[j]
    BY CutFacts DEF IsString
  <1>3. v = FirstDifference(s1, s2, 0, n)
    BY strncmpIs
  <1> HIDE DEF v, p, q, Chars
  <1>4. /\ Len(p) \in 0..n /\ Len(q) \in 0..n
        /\ \A j \in 1..Len(p) : p[j] \in Nat /\ p[j] # NUL
        /\ \A j \in 1..Len(q) : q[j] \in Nat /\ q[j] # NUL
        /\ \A k \in 0..(n - 1) : k <= Len(p) => s1[k] = IF k < Len(p) THEN p[k + 1] ELSE NUL
        /\ \A k \in 0..(n - 1) : k <= Len(q) => s2[k] = IF k < Len(q) THEN q[k + 1] ELSE NUL
    <2>1. Len(p) \in 0..n /\ Len(q) \in 0..n
      BY <1>1, <1>2
    <2>2. \A j \in 1..Len(p) : j \in 1..Len(s) /\ p[j] = s[j]
      BY <1>1, <1>2
    <2>3. \A j \in 1..Len(q) : j \in 1..Len(t) /\ q[j] = t[j]
      BY <1>1, <1>2
    <2>4. ASSUME NEW k \in 0..(n - 1), k <= Len(p)
          PROVE  s1[k] = IF k < Len(p) THEN p[k + 1] ELSE NUL
      <3>1. k <= Len(s) /\ (k < Len(s) <=> k < Len(p))
        BY <1>1, <1>2, <2>4
      <3>2. k < Len(p) => p[k + 1] = s[k + 1]
        BY <2>1, <2>2
      <3>3. QED
        BY <3>1, <3>2 DEF Shows
    <2>5. ASSUME NEW k \in 0..(n - 1), k <= Len(q)
          PROVE  s2[k] = IF k < Len(q) THEN q[k + 1] ELSE NUL
      <3>1. k <= Len(t) /\ (k < Len(t) <=> k < Len(q))
        BY <1>1, <1>2, <2>5
      <3>2. k < Len(q) => q[k + 1] = t[k + 1]
        BY <2>1, <2>3
      <3>3. QED
        BY <3>1, <3>2 DEF Shows
    <2>6. QED
      BY <1>1, <2>1, <2>2, <2>3, <2>4, <2>5
  <1>5. /\ Before(p, q) <=>
             \/ Len(p) < Len(q) /\ \A j \in 1..Len(p) : p[j] = q[j]
             \/ \E i \in 1..Len(p) :
                   i <= Len(q) /\ (\A j \in 1..(i - 1) : p[j] = q[j]) /\ p[i] < q[i]
        /\ Before(q, p) <=>
             \/ Len(q) < Len(p) /\ \A j \in 1..Len(q) : q[j] = p[j]
             \/ \E i \in 1..Len(q) :
                   i <= Len(p) /\ (\A j \in 1..(i - 1) : q[j] = p[j]) /\ q[i] < p[i]
    BY <1>2, BeforeIs
  <1>6. p = q <=> Len(p) = Len(q) /\ \A j \in 1..Len(p) : p[j] = q[j]
    BY <1>2, SeqEqual
  <1>7. CASE S = {}
    <2>1. \A k \in 0..(n - 1) : s1[k] = s2[k] /\ s1[k] # NUL
      BY <1>7 DEF Stops
    <2>2. Len(p) = n
      <3>1. Len(p) \in 0..(n - 1) => s1[Len(p)] = NUL
        BY <1>4
      <3>2. QED
        BY <1>4, <2>1, <3>1
    <2>3. Len(q) = n
      <3>1. Len(q) \in 0..(n - 1) => s2[Len(q)] = NUL
        BY <1>4
      <3>2. QED
        BY <1>4, <2>1, <3>1
    <2>4. ASSUME NEW j \in 1..n PROVE p[j] = q[j]
      <3>1. j - 1 \in 0..(n - 1) /\ j - 1 + 1 = j /\ j - 1 < n
        OBVIOUS
      <3>2. s1[j - 1] = p[j] /\ s2[j - 1] = q[j]
        BY <1>4, <2>2, <2>3, <3>1
      <3>3. QED
        BY <2>1, <3>1, <3>2
    <2>5. v = 0
      BY <1>3, <1>7 DEF FirstDifference
    <2>6. QED
      BY <1>4, <1>5, <1>6, <2>2, <2>3, <2>4, <2>5 DEF v, p, q
  <1>8. CASE S # {}
    <2> DEFINE k == Min(S)
    <2>1. k \in S /\ \A x \in S : k <= x
      <3>1. S \subseteq Nat
        BY DEF Stops
      <3> HIDE DEF S
      <3>2. QED
        BY <1>8, <3>1, MinFacts
    <2>2. v = s1[k] - s2[k]
      BY <1>3, <1>8 DEF FirstDifference
    <2> HIDE DEF k
    <2>3. /\ k \in 0..(n - 1) /\ (s1[k] # s2[k] \/ s1[k] = NUL)
          /\ \A x \in 0..(k - 1) : s1[x] = s2[x] /\ s1[x] # NUL
      BY <2>1 DEF Stops
    <2>4. k <= Len(p)
      <3>1. Len(p) \in 0..(k - 1) => s1[Len(p)] = NUL
        BY <1>4, <2>3
      <3>2. QED
        BY <1>4, <2>3, <3>1
    <2>5. k <= Len(q)
      <3>1. Len(q) \in 0..(k - 1) => s2[Len(q)] = NUL
        BY <1>4, <2>3
      <3>2. QED
        BY <1>4, <2>3, <3>1
    <2>6. ASSUME NEW j \in 1..k PROVE p[j] = q[j]
      <3>1. j - 1 \in 0..(k - 1) /\ j - 1 \in 0..(n - 1) /\ j - 1 + 1 = j /\ j - 1 < k
        BY <2>3
      <3>2. j - 1 < Len(p) /\ j - 1 < Len(q)
        <4>1. Len(p) \in Nat /\ Len(q) \in Nat /\ k \in Nat
          BY <1>4, <2>3
        <4>2. QED
          BY <2>4, <2>5, <3>1, <4>1
      <3>3. s1[j - 1] = p[j]
        BY <1>4, <3>1, <3>2
      <3>4. s2[j - 1] = q[j]
        BY <1>4, <3>1, <3>2
      <3>5. QED
        BY <2>3, <3>1, <3>3, <3>4
    <2>7. /\ s1[k] = IF k < Len(p) THEN p[k + 1] ELSE NUL
          /\ s2[k] = IF k < Len(q) THEN q[k + 1] ELSE NUL
      BY <1>4, <2>3, <2>4, <2>5
    <2>8. /\ k \in Nat /\ Len(p) \in Nat /\ Len(q) \in Nat
          /\ k < Len(p) => k + 1 \in 1..Len(p) /\ p[k + 1] \in Nat /\ p[k + 1] # NUL
          /\ k < Len(q) => k + 1 \in 1..Len(q) /\ q[k + 1] \in Nat /\ q[k + 1] # NUL
      BY <1>4, <2>3
    <2> HIDE DEF S
    <2>9. ASSUME NEW j \in 1..k
             PROVE  p[j] = q[j] /\ q[j] = p[j] /\ ~(p[j] < q[j]) /\ ~(q[j] < p[j])
      <3>1. j \in 1..Len(p) /\ p[j] = q[j]
        BY <2>4, <2>6, <2>8
      <3>2. p[j] \in Nat
        BY <1>4, <3>1
      <3>3. QED
        BY <3>1, <3>2
    <2>10. CASE k = Len(p) /\ k = Len(q)
      <3>1. v = 0
        BY <2>2, <2>7, <2>10 DEF NUL
      <3>2. QED
        BY <1>5, <1>6, <2>8, <2>9, <2>10, <3>1 DEF v, p, q
    <2>11. CASE k = Len(p) /\ k < Len(q)
      <3>1. v < 0
        BY <2>2, <2>7, <2>8, <2>11 DEF NUL
      <3>2. Before(p, q)
        BY <1>5, <2>8, <2>9, <2>11
      <3>3. ~Before(q, p)
        <4>1. \A i \in 1..Len(q) : i <= Len(p) => ~(q[i] < p[i])
          BY <2>8, <2>9, <2>11
        <4>2. ~(Len(q) < Len(p))
          BY <2>8, <2>11
        <4>3. QED
          BY <1>5, <4>1, <4>2
      <3>4. p # q
        BY <1>6, <2>8, <2>11
      <3>5. v \in Int
        BY <2>2, <2>7, <2>8, <2>11 DEF NUL
      <3>6. QED
        BY <3>1, <3>2, <3>3, <3>4, <3>5 DEF v, p, q
    <2>12. CASE k < Len(p) /\ k = Len(q)
      <3>1. v > 0
        BY <2>2, <2>7, <2>8, <2>12 DEF NUL
      <3>2. Before(q, p)
        BY <1>5, <2>8, <2>9, <2>12
      <3>3. ~Before(p, q)
        <4>1. \A i \in 1..Len(p) : i <= Len(q) => ~(p[i] < q[i])
          BY <2>8, <2>9, <2>12
        <4>2. ~(Len(p) < Len(q))
          BY <2>8, <2>12
        <4>3. QED
          BY <1>5, <4>1, <4>2
      <3>4. p # q
        BY <1>6, <2>8, <2>12
      <3>5. v \in Int
        BY <2>2, <2>7, <2>8, <2>12 DEF NUL
      <3>6. QED
        BY <3>1, <3>2, <3>3, <3>4, <3>5 DEF v, p, q
    <2>13. CASE k < Len(p) /\ k < Len(q)
      <3> DEFINE x == p[k + 1]
                 y == q[k + 1]
      <3>1. x \in Nat /\ y \in Nat /\ x # y /\ v = x - y
        BY <2>2, <2>3, <2>7, <2>8, <2>13
      <3>2. CASE x < y
        <4>1. v < 0 /\ ~(v > 0) /\ ~(v = 0)
          BY <3>1, <3>2
        <4>2. Before(p, q)
          BY <1>5, <2>8, <2>13, <2>9, <3>1, <3>2
        <4>3. ~Before(q, p)
          <5>1. ~(Len(q) < Len(p) /\ \A j \in 1..Len(q) : q[j] = p[j])
            BY <2>8, <2>13, <3>1
          <5>2. ASSUME NEW i \in 1..Len(q), i <= Len(p), \A j \in 1..(i - 1) : q[j] = p[j]
                PROVE  ~(q[i] < p[i])
            <6>1. CASE i \in 1..k
              BY <2>9, <6>1
            <6>2. CASE i = k + 1
              BY <3>1, <3>2, <6>2
            <6>3. CASE i > k + 1
              <7>1. k + 1 \in 1..(i - 1)
                BY <2>8, <6>3
              <7>2. QED
                BY <3>1, <5>2, <7>1
            <6>4. QED
              BY <2>8, <6>1, <6>2, <6>3
          <5>3. QED
            BY <1>5, <5>1, <5>2
        <4>4. QED
          BY <1>6, <2>8, <2>13, <3>1, <4>1, <4>2, <4>3 DEF v, p, q
      <3>3. CASE y < x
        <4>1. v > 0 /\ ~(v < 0) /\ ~(v = 0)
          BY <3>1, <3>3
        <4>2. Before(q, p)
          BY <1>5, <2>8, <2>13, <2>9, <3>1, <3>3
        <4>3. ~Before(p, q)
          <5>1. ~(Len(p) < Len(q) /\ \A j \in 1..Len(p) : p[j] = q[j])
            BY <2>8, <2>13, <3>1
          <5>2. ASSUME NEW i \in 1..Len(p), i <= Len(q), \A j \in 1..(i - 1) : p[j] = q[j]
                PROVE  ~(p[i] < q[i])
            <6>1. CASE i \in 1..k
              BY <2>9, <6>1
            <6>2. CASE i = k + 1
              BY <3>1, <3>3, <6>2
            <6>3. CASE i > k + 1
              <7>1. k + 1 \in 1..(i - 1)
                BY <2>8, <6>3
              <7>2. QED
                BY <3>1, <5>2, <7>1
            <6>4. QED
              BY <2>8, <6>1, <6>2, <6>3
          <5>3. QED
            BY <1>5, <5>1, <5>2
        <4>4. QED
          BY <1>6, <2>8, <2>13, <3>1, <4>1, <4>2, <4>3 DEF v, p, q
      <3>4. QED
        BY <3>1, <3>2, <3>3
    <2>14. QED
      BY <2>4, <2>5, <2>8, <2>10, <2>11, <2>12, <2>13
  <1>9. QED
    BY <1>7, <1>8

-----------------------------------------------------------------------------
(* Numerals.                                                                 *)

Digits == ToSet(lookup)

LEMMA DigitFacts ==
    \A v \in 0..15 : lookup[v + 1] \in Digits /\ DigitValue(lookup[v + 1]) = v
  <1> SUFFICES ASSUME NEW v \in 0..15
               PROVE  lookup[v + 1] \in Digits /\ DigitValue(lookup[v + 1]) = v
    OBVIOUS
  <1>1. lookup[v + 1] \in Digits
    <2>1. DOMAIN lookup = 1..16 /\ v + 1 \in 1..16
      BY DEF lookup
    <2>2. QED
      BY <2>1 DEF Digits, ToSet
  <1>2. \A w \in 0..15 : lookup[w + 1] = lookup[v + 1] => w = v
    BY DEF lookup
  <1>3. QED
    BY <1>1, <1>2 DEF DigitValue

\* The value of a numeral with one more digit.
LEMMA ValueOfNone == ASSUME NEW radix PROVE ValueOf(<<>>, radix) = 0
  <1> DEFINE Follows(f) == f = [i \in 0..Len(<<>>) |->
                                  IF i = 0 THEN 0 ELSE f[i - 1] * radix + DigitValue(<<>>[i])]
             value == CHOOSE f : Follows(f)
  <1>1. ValueOf(<<>>, radix) = value[Len(<<>>)]
    BY Zenon DEF ValueOf
  <1>2. Len(<<>>) = 0 /\ 0..Len(<<>>) = {0}
    OBVIOUS
  <1>3. Follows([i \in {0} |-> 0])
    BY <1>2
  <1>4. Follows(value)
    <2> HIDE DEF Follows
    <2>1. QED
      BY <1>3, Zenon
  <1> HIDE DEF value
  <1>5. value[0] = 0
    BY <1>2, <1>4
  <1>6. QED
    BY <1>1, <1>2, <1>5

Valued(f, s, radix) ==
    f = [i \in 0..Len(s) |-> IF i = 0 THEN 0 ELSE f[i - 1] * radix + DigitValue(s[i])]

LEMMA ValueOfFollows ==
    ASSUME NEW s, Len(s) \in Nat, NEW radix
    PROVE  \E f : Valued(f, s, radix) /\ ValueOf(s, radix) = f[Len(s)]
  <1> DEFINE After(f, i) == IF i = 0 THEN 0 ELSE f[i - 1] * radix + DigitValue(s[i])
             Upto(f, m) == f = [i \in 0..m |-> After(f, i)]
             S == {m \in Nat : \E f : Upto(f, m)}
             value == CHOOSE f : Valued(f, s, radix)
  <1>1. 0 \in S
    <2> DEFINE f == [i \in 0..0 |-> 0]
    <2>1. Upto(f, 0)
      <3>1. \A i \in 0..0 : After(f, i) = 0
        OBVIOUS
      <3> HIDE DEF After
      <3>2. QED
        BY <3>1
    <2> HIDE DEF Upto
    <2>2. QED
      BY <2>1
  <1>2. ASSUME NEW m \in S PROVE m + 1 \in S
    <2>1. PICK f : Upto(f, m)
      BY <1>2
    <2> DEFINE g == [i \in 0..(m + 1) |-> IF i <= m THEN f[i] ELSE After(f, m + 1)]
    <2>2. ASSUME NEW i \in 0..(m + 1) PROVE g[i] = After(g, i)
      <3>1. CASE i <= m
        <4>1. i \in 0..m /\ g[i] = f[i] /\ (i # 0 => i - 1 \in 0..(m + 1) /\ i - 1 <= m)
          BY <3>1
        <4>2. f[i] = After(f, i)
          BY <2>1, <4>1
        <4>3. i # 0 => g[i - 1] = f[i - 1]
          BY <4>1
        <4> HIDE DEF g
        <4>4. QED
          BY <4>1, <4>2, <4>3
      <3>2. CASE i = m + 1
        <4>1. g[i] = After(f, m + 1) /\ g[m] = f[m] /\ i - 1 = m /\ m + 1 - 1 = m /\ i # 0
          BY <3>2
        <4> HIDE DEF g
        <4>2. QED
          BY <3>2, <4>1
      <3>3. QED
        BY <3>1, <3>2
    <2>3. Upto(g, m + 1)
      <3>1. g = [i \in 0..(m + 1) |-> g[i]]
        OBVIOUS
      <3> HIDE DEF g, After
      <3>2. QED
        BY <2>2, <3>1
    <2> HIDE DEF Upto, g
    <2>4. QED
      BY <2>3
  <1>3. S = Nat
    <2>1. S \subseteq Nat
      OBVIOUS
    <2> HIDE DEF S
    <2>2. QED
      BY <1>1, <1>2, <2>1, Induction
  <1>4. \E f : Valued(f, s, radix)
    BY <1>3 DEF Valued
  <1>5. Valued(value, s, radix)
    BY <1>4, Zenon
  <1>6. ValueOf(s, radix) = value[Len(s)]
    BY Zenon DEF ValueOf, Valued
  <1>7. QED
    BY <1>5, <1>6, Zenon

LEMMA ValueOfAppend ==
    ASSUME NEW S, NEW s \in Seq(S), NEW c \in S, NEW radix
    PROVE  ValueOf(Append(s, c), radix) = ValueOf(s, radix) * radix + DigitValue(c)
  <1> DEFINE t == Append(s, c)
             n == Len(s)
  <1>1. /\ n \in Nat /\ Len(t) = n + 1 /\ t[n + 1] = c
        /\ \A i \in 1..n : t[i] = s[i]
    BY AppendProperties
  <1>2. PICK f : Valued(f, s, radix) /\ ValueOf(s, radix) = f[n]
    BY <1>1, ValueOfFollows
  <1>3. PICK g : Valued(g, t, radix) /\ ValueOf(t, radix) = g[n + 1]
    <2> HIDE DEF t, n
    <2>1. QED
      BY <1>1, ValueOfFollows
  <1> HIDE DEF t
  <1>4. /\ f[0] = 0 /\ \A i \in 1..n : f[i] = f[i - 1] * radix + DigitValue(s[i])
    <2>1. f = [i \in 0..n |-> IF i = 0 THEN 0 ELSE f[i - 1] * radix + DigitValue(s[i])]
      BY <1>2 DEF Valued
    <2> HIDE DEF n
    <2>2. QED
      BY <1>1, <2>1
  <1>5. /\ g[0] = 0 /\ \A i \in 1..(n + 1) : g[i] = g[i - 1] * radix + DigitValue(t[i])
    <2>1. g = [i \in 0..(n + 1) |-> IF i = 0 THEN 0 ELSE g[i - 1] * radix + DigitValue(t[i])]
      BY <1>1, <1>3 DEF Valued
    <2> HIDE DEF n
    <2>2. QED
      BY <1>1, <2>1
  <1> HIDE DEF n
  <1>6. \A i \in 1..n : f[i - 1] = g[i - 1] => f[i] = g[i]
    BY <1>1, <1>4, <1>5
  <1>7. f[n] = g[n]
    <2>1. f[0] = g[0]
      BY <1>4, <1>5
    <2>2. n \in Nat
      BY <1>1
    <2>3. \A i \in 0..n : f[i] = g[i]
      BY <1>6, <2>1, <2>2, SameSteps, Zenon
    <2>4. QED
      BY <2>2, <2>3
  <1>8. g[n + 1] = g[n] * radix + DigitValue(c)
    <2>1. n + 1 \in 1..(n + 1) /\ n + 1 - 1 = n
      BY <1>1
    <2>2. QED
      BY <1>1, <1>5, <2>1
  <1>9. QED
    BY <1>2, <1>3, <1>7, <1>8 DEF t

LEMMA ReverseOfFirst ==
    ASSUME NEW S, NEW s \in Seq(S), NEW c \in S
    PROVE  Reverse(s) \in Seq(S) /\ Reverse(<<c>> \o s) = Append(Reverse(s), c)
  <1> DEFINE n == Len(s)
             t == <<c>> \o s
             r == Reverse(s)
             a == Append(r, c)
             b == Reverse(t)
  <1>1. n \in Nat /\ \A i \in 1..n : s[i] \in S
    OBVIOUS
  <1>2. /\ Len(t) = n + 1 /\ t[1] = c
        /\ \A i \in 2..(n + 1) : t[i] = s[i - 1]
    BY <1>1
  <1>3. r \in Seq(S) /\ Len(r) = n /\ \A i \in 1..n : r[i] = s[(n - i) + 1]
    <2>1. r = [i \in 1..n |-> s[(n - i) + 1]]
      BY DEF Reverse
    <2> HIDE DEF n, r
    <2>2. \A i \in 1..n : s[(n - i) + 1] \in S
      BY <1>1
    <2>3. r \in [1..n -> S]
      BY <2>1, <2>2
    <2>4. r \in Seq(S)
      BY <1>1, <2>3, SeqDef
    <2>5. QED
      BY <1>1, <2>1, <2>3, <2>4
  <1> HIDE DEF r
  <1>4. a = [i \in 1..(n + 1) |-> a[i]] /\ a[n + 1] = c /\ \A i \in 1..n : a[i] = r[i]
    <2>1. a \in Seq(S) /\ Len(a) = n + 1 /\ a[n + 1] = c /\ \A i \in 1..n : a[i] = r[i]
      BY <1>3, AppendProperties
    <2> HIDE DEF a, n
    <2>2. QED
      BY <2>1, LenProperties
  <1>5. b = [i \in 1..(n + 1) |-> t[(n + 1 - i) + 1]]
    BY <1>2 DEF Reverse
  <1> HIDE DEF a, b, n, t
  <1>6. ASSUME NEW i \in 1..(n + 1) PROVE a[i] = t[(n + 1 - i) + 1]
    <2>1. CASE i = n + 1
      <3>1. (n + 1 - i) + 1 = 1
        BY <1>1, <2>1
      <3>2. QED
        BY <1>2, <1>4, <2>1, <3>1
    <2>2. CASE i # n + 1
      <3>1. i \in 1..n /\ (n + 1 - i) + 1 \in 2..(n + 1) /\ (n + 1 - i) + 1 - 1 = (n - i) + 1
        BY <1>1, <2>2
      <3>2. a[i] = s[(n - i) + 1]
        BY <1>3, <1>4, <3>1
      <3>3. t[(n + 1 - i) + 1] = s[(n - i) + 1]
        <4> DEFINE x == (n + 1 - i) + 1
        <4>1. x \in 2..(n + 1) /\ x - 1 = (n - i) + 1
          BY <1>1, <3>1
        <4> HIDE DEF x
        <4>2. t[x] = s[(n - i) + 1]
          BY <1>2, <4>1
        <4>3. QED
          BY <4>2 DEF x
      <3>4. QED
        BY <3>2, <3>3
    <2>3. QED
      BY <2>1, <2>2
  <1>7. a = b
    BY <1>4, <1>5, <1>6
  <1>8. QED
    BY <1>3, <1>7 DEF a, b, t, r

\* A quotient is below its number.
LEMMA DivLess ==
    ASSUME NEW radix \in Nat, radix >= 2, NEW v \in Nat, v # 0
    PROVE  v \div radix \in Nat /\ v \div radix < v
  <1> DEFINE q == v \div radix
             r == v % radix
  <1>1. q \in Nat /\ r \in Nat /\ v = radix * q + r
    BY DivFacts
  <1> HIDE DEF q, r
  <1>2. CASE q = 0
    BY <1>2 DEF q
  <1>3. CASE q # 0
    <2> DEFINE rest == (radix - 2) * q
    <2>1. rest \in Nat
      BY <1>1
    <2>2. radix * q = 2 * q + rest
      BY <1>1
    <2> HIDE DEF rest
    <2>3. v = 2 * q + rest + r
      BY <1>1, <2>1, <2>2
    <2>4. q < v
      BY <1>1, <1>3, <2>1, <2>3
    <2>5. QED
      BY <1>1, <2>4 DEF q
  <1>4. QED
    BY <1>2, <1>3

DigitsOf(f, v, radix) ==
    IF v = 0 THEN <<>> ELSE <<lookup[(v % radix) + 1]>> \o f[v \div radix]

\* The function itoa's loop computes, as far as the number.
LEMMA LowestFirstFollows ==
    ASSUME NEW radix \in Nat, radix >= 2, NEW value \in Nat
    PROVE  \E f : /\ \A v \in 0..value : f[v] = DigitsOf(f, v, radix)
                  /\ LowestFirst(value, radix) = f[value]
  <1> DEFINE Upto(f, m) == f = [v \in 0..m |-> DigitsOf(f, v, radix)]
             S == {m \in Nat : \E f : Upto(f, m)}
             digits == CHOOSE f : Upto(f, value)
  <1>1. 0 \in S
    <2> DEFINE f == [v \in 0..0 |-> <<>>]
    <2>1. Upto(f, 0)
      <3>1. \A v \in 0..0 : DigitsOf(f, v, radix) = <<>>
        BY DEF DigitsOf
      <3>2. [v \in 0..0 |-> DigitsOf(f, v, radix)] = [v \in 0..0 |-> <<>>]
        BY <3>1
      <3>3. QED
        BY <3>2
    <2> HIDE DEF Upto
    <2>2. QED
      BY <2>1
  <1>2. ASSUME NEW m \in S PROVE m + 1 \in S
    <2>1. PICK f : Upto(f, m)
      BY <1>2
    <2> DEFINE g == [v \in 0..(m + 1) |-> IF v <= m THEN f[v] ELSE DigitsOf(f, m + 1, radix)]
    <2>2. ASSUME NEW v \in 0..(m + 1) PROVE g[v] = DigitsOf(g, v, radix)
      <3>1. v # 0 => v \div radix \in 0..m /\ v \div radix <= m
        <4>1. v # 0 => v \div radix \in Nat /\ v \div radix < v
          BY DivLess
        <4> DEFINE q == v \div radix
        <4>2. v # 0 => q \in Nat /\ q < v
          BY <4>1
        <4> HIDE DEF q
        <4>3. v # 0 => q \in 0..m /\ q <= m
          BY <4>2
        <4>4. QED
          BY <4>3 DEF q
      <3>2. v # 0 => g[v \div radix] = f[v \div radix]
        <4> DEFINE q == v \div radix
        <4>1. v # 0 => q \in 0..m /\ q <= m
          BY <3>1
        <4> HIDE DEF q
        <4>2. v # 0 => g[q] = f[q]
          BY <4>1
        <4>3. QED
          BY <4>2 DEF q
      <3>3. DigitsOf(g, v, radix) = DigitsOf(f, v, radix)
        <4> HIDE DEF g
        <4>1. QED
          BY <3>2 DEF DigitsOf
      <3>4. CASE v <= m
        <4>1. f[v] = DigitsOf(f, v, radix) /\ g[v] = f[v]
          <5>1. v \in 0..m
            BY <3>4
          <5>2. QED
            BY <2>1, <3>4, <5>1
        <4>2. QED
          BY <3>3, <4>1
      <3>5. CASE v = m + 1
        <4>1. ~(v <= m)
          BY <3>5
        <4>2. g[v] = DigitsOf(f, v, radix)
          BY <3>5, <4>1
        <4>3. QED
          BY <3>3, <4>2
      <3>6. QED
        BY <3>4, <3>5
    <2>3. Upto(g, m + 1)
      <3>1. g = [v \in 0..(m + 1) |-> g[v]]
        OBVIOUS
      <3> HIDE DEF g
      <3>2. QED
        BY <2>2, <3>1
    <2> HIDE DEF Upto, g
    <2>4. QED
      BY <2>3
  <1>3. S = Nat
    <2>1. S \subseteq Nat
      OBVIOUS
    <2> HIDE DEF S
    <2>2. QED
      BY <1>1, <1>2, <2>1, Induction
  <1>4. \E f : Upto(f, value)
    BY <1>3
  <1>5. Upto(digits, value)
    <2> HIDE DEF Upto
    <2>1. QED
      BY <1>4, Zenon
  <1>6. LowestFirst(value, radix) = digits[value]
    BY Zenon DEF LowestFirst, DigitsOf
  <1>7. \A v \in 0..value : digits[v] = DigitsOf(digits, v, radix)
    <2> HIDE DEF digits
    <2>1. QED
      BY <1>5
  <1>8. QED
    BY <1>6, <1>7, Zenon

\* The digits of a number, lowest first.
IsLowestFirst(s, v, radix) ==
    /\ s \in Seq(Digits)
    /\ \A i \in 1..Len(s) : DigitValue(s[i]) < radix
    /\ Reverse(s) \in Seq(Digits)
    /\ ValueOf(Reverse(s), radix) = v
    /\ IF v = 0 THEN s = <<>> ELSE Len(s) # 0 /\ s[Len(s)] # "0"

LEMMA NoDigits == ASSUME NEW radix PROVE IsLowestFirst(<<>>, 0, radix)
  <1>1. Reverse(<<>>) = <<>>
    BY DEF Reverse
  <1>2. <<>> \in Seq(Digits) /\ Len(<<>>) = 0
    OBVIOUS
  <1>3. \A i \in 1..Len(<<>>) : DigitValue(<<>>[i]) < radix
    BY <1>2
  <1>4. Reverse(<<>>) \in Seq(Digits) /\ ValueOf(Reverse(<<>>), radix) = 0
    BY <1>1, <1>2, ValueOfNone
  <1>5. QED
    BY <1>2, <1>3, <1>4 DEF IsLowestFirst

LEMMA MoreDigits ==
    ASSUME NEW radix \in 2..16, NEW v \in Nat, v # 0, NEW s,
           IsLowestFirst(s, v \div radix, radix)
    PROVE  IsLowestFirst(<<lookup[(v % radix) + 1]>> \o s, v, radix)
  <1> DEFINE q == v \div radix
             r == v % radix
             c == lookup[r + 1]
             t == <<c>> \o s
  <1>1. q \in Nat /\ r \in 0..(radix - 1) /\ v = radix * q + r
    <2>1. radix \in Nat \ {0}
      OBVIOUS
    <2>2. QED
      BY <2>1, DivFacts
  <1>2. IsLowestFirst(s, q, radix)
    OBVIOUS
  <1> HIDE DEF q, r
  <1>3. r \in 0..15
    BY <1>1
  <1>4. c \in Digits /\ DigitValue(c) = r
    BY <1>3, DigitFacts
  <1>5. c = "0" => r = 0
    BY <1>3 DEF lookup
  <1> HIDE DEF c
  <1>6. s \in Seq(Digits) /\ Len(s) \in Nat
    BY <1>2 DEF IsLowestFirst
  <1>7. /\ t \in Seq(Digits) /\ Len(t) = Len(s) + 1 /\ t[1] = c
        /\ \A i \in 2..Len(t) : t[i] = s[i - 1]
    BY <1>4, <1>6
  <1>8. Reverse(s) \in Seq(Digits) /\ Reverse(t) = Append(Reverse(s), c)
    BY <1>4, <1>6, ReverseOfFirst
  <1> HIDE DEF t
  <1>9. Reverse(t) \in Seq(Digits)
    BY <1>4, <1>8, AppendProperties
  <1>10. ValueOf(Reverse(t), radix) = v
    <2>1. ValueOf(Reverse(t), radix) = ValueOf(Reverse(s), radix) * radix + DigitValue(c)
      BY <1>4, <1>8, ValueOfAppend
    <2>2. ValueOf(Reverse(s), radix) = q
      BY <1>2 DEF IsLowestFirst
    <2>3. q * radix = radix * q
      BY <1>1
    <2>4. QED
      BY <1>1, <1>4, <2>1, <2>2, <2>3
  <1>11. ASSUME NEW i \in 1..Len(t) PROVE DigitValue(t[i]) < radix
    <2>1. CASE i = 1
      BY <1>1, <1>4, <1>7, <2>1
    <2>2. CASE i # 1
      <3>1. i \in 2..Len(t) /\ i - 1 \in 1..Len(s)
        BY <1>6, <1>7, <2>2
      <3>2. QED
        BY <1>2, <1>7, <3>1 DEF IsLowestFirst
    <2>3. QED
      BY <2>1, <2>2
  <1>12. t[Len(t)] # "0"
    <2>1. CASE q = 0
      <3>1. Len(s) = 0
        BY <1>2, <2>1 DEF IsLowestFirst
      <3>2. radix * 0 = 0
        OBVIOUS
      <3>3. r # 0
        BY <1>1, <2>1, <3>2
      <3>4. QED
        BY <1>5, <1>7, <3>1, <3>3
    <2>2. CASE q # 0
      <3>1. Len(s) # 0 /\ s[Len(s)] # "0"
        BY <1>2, <2>2 DEF IsLowestFirst
      <3>2. Len(t) \in 2..Len(t) /\ Len(t) - 1 = Len(s)
        BY <1>6, <1>7, <3>1
      <3>3. QED
        BY <1>7, <3>1, <3>2
    <2>3. QED
      BY <2>1, <2>2
  <1>13. QED
    BY <1>6, <1>7, <1>9, <1>10, <1>11, <1>12 DEF IsLowestFirst, t, c, r

LEMMA LowestFirstIs ==
    ASSUME NEW radix \in 2..16, NEW value \in Nat
    PROVE  IsLowestFirst(LowestFirst(value, radix), value, radix)
  <1>1. radix \in Nat /\ radix >= 2
    OBVIOUS
  <1>2. PICK f : /\ \A v \in 0..value : f[v] = DigitsOf(f, v, radix)
                 /\ LowestFirst(value, radix) = f[value]
    BY <1>1, LowestFirstFollows
  <1> DEFINE bad == {v \in 0..value : ~IsLowestFirst(f[v], v, radix)}
  <1>3. bad = {}
    <2> SUFFICES ASSUME bad # {} PROVE FALSE
      OBVIOUS
    <2> DEFINE m == Min(bad)
    <2>1. m \in bad /\ \A x \in bad : m <= x
      <3>1. bad \subseteq Nat
        OBVIOUS
      <3> HIDE DEF bad
      <3>2. QED
        BY <3>1, MinFacts
    <2> HIDE DEF m
    <2>2. m \in Nat /\ m \in 0..value /\ f[m] = DigitsOf(f, m, radix)
      BY <1>2, <2>1
    <2>3. CASE m = 0
      BY <2>1, <2>2, <2>3, NoDigits DEF DigitsOf
    <2>4. CASE m # 0
      <3> DEFINE q == m \div radix
      <3>1. q \in Nat /\ q < m
        BY <1>1, <2>2, <2>4, DivLess
      <3>2. IsLowestFirst(f[q], q, radix)
        <4> HIDE DEF q
        <4>1. q \in 0..value /\ q \notin bad
          BY <2>1, <2>2, <3>1
        <4>2. QED
          BY <4>1
      <3>3. IsLowestFirst(<<lookup[(m % radix) + 1]>> \o f[q], m, radix)
        BY <2>2, <2>4, <3>2, MoreDigits
      <3>4. f[m] = <<lookup[(m % radix) + 1]>> \o f[q]
        BY <2>2, <2>4 DEF DigitsOf
      <3>5. QED
        BY <2>1, <3>3, <3>4
    <2>5. QED
      BY <2>3, <2>4
  <1>4. value \in 0..value
    OBVIOUS
  <1>5. QED
    BY <1>2, <1>3, <1>4

\* itoa gives the numeral of every number.
LEMMA itoaIs ==
    ASSUME NEW radix \in 2..16, NEW value \in Nat
    PROVE  itoa(value, radix) \in Seq(Digits) /\ IsNumeral(itoa(value, radix), value, radix)
  <1>1. CASE value = 0
    <2>1. "0" \in Digits /\ DigitValue("0") = 0
      <3>1. lookup[0 + 1] = "0" /\ 0 \in 0..15
        BY DEF lookup
      <3>2. QED
        BY <3>1, DigitFacts
    <2>2. ValueOf(<<"0">>, radix) = 0
      <3>1. <<>> \in Seq(Digits) /\ Append(<<>>, "0") = <<"0">>
        BY <2>1
      <3>2. ValueOf(Append(<<>>, "0"), radix) = ValueOf(<<>>, radix) * radix + DigitValue("0")
        BY <2>1, <3>1, ValueOfAppend
      <3>3. 0 * radix + 0 = 0
        OBVIOUS
      <3>4. QED
        BY <2>1, <3>1, <3>2, <3>3, ValueOfNone
    <2>3. <<"0">> \in Seq(Digits) /\ <<"0">> # <<>> /\ Len(<<"0">>) = 1
          /\ DOMAIN <<"0">> = {1} /\ <<"0">>[1] = "0"
      BY <2>1
    <2>4. 0 < radix
      OBVIOUS
    <2>5. QED
      BY <1>1, <2>1, <2>2, <2>3, <2>4 DEF itoa, IsNumeral, Digits
  <1>2. CASE value # 0
    <2> DEFINE s == LowestFirst(value, radix)
               t == Reverse(s)
    <2>1. IsLowestFirst(s, value, radix)
      BY LowestFirstIs
    <2>2. itoa(value, radix) = t
      <3>1. s \in Seq(Digits)
        BY <2>1 DEF IsLowestFirst
      <3>2. QED
        BY <1>2, <3>1, strrevReverses DEF itoa
    <2> HIDE DEF s
    <2>3. /\ Len(s) \in Nat /\ Len(s) # 0 /\ s[Len(s)] # "0"
          /\ \A i \in 1..Len(s) : s[i] \in Digits /\ DigitValue(s[i]) < radix
          /\ t \in Seq(Digits) /\ ValueOf(t, radix) = value
      BY <1>2, <2>1 DEF IsLowestFirst
    <2>4. DOMAIN t = 1..Len(s) /\ Len(t) = Len(s) /\ \A i \in 1..Len(s) : t[i] = s[(Len(s) - i) + 1]
      BY <2>3 DEF Reverse
    <2> HIDE DEF t
    <2>5. ASSUME NEW i \in DOMAIN t PROVE t[i] \in Digits /\ DigitValue(t[i]) < radix
      <3>1. (Len(s) - i) + 1 \in 1..Len(s) /\ i \in 1..Len(s)
        BY <2>3, <2>4
      <3>2. QED
        BY <2>3, <2>4, <3>1
    <2>6. t[1] # "0"
      <3>1. 1 \in 1..Len(s) /\ (Len(s) - 1) + 1 = Len(s)
        BY <2>3
      <3>2. QED
        BY <2>3, <2>4, <3>1
    <2>7. t # <<>>
      BY <2>3, <2>4
    <2>8. QED
      BY <2>2, <2>3, <2>5, <2>6, <2>7 DEF IsNumeral, Digits
  <1>3. QED
    BY <1>1, <1>2

-----------------------------------------------------------------------------
(* The string functions of a call.                                           *)

LEMMA StringRoutinesStep == CallInv /\ StringRoutines /\ [Return]_vars => StringRoutines'
  <1> SUFFICES ASSUME CallInv, StringRoutines, [Return]_vars PROVE StringRoutines'
    OBVIOUS
  <1>1. CASE result' = result
    BY <1>1, StepReturns DEF StringRoutines, Returned
  <1>2. CASE Return
    <2> DEFINE a == call.args
               v == result'.val
    <2>1. call' = call
      BY <1>2 DEF Return
    <2>2. SIZE \in Nat /\ Addresses = 0..(SIZE - 1) /\ DOMAIN Memory = 0..(SIZE - 1)
      BY MemoryFacts
    <2>3. Returned("strlen")' => v = Len(a)
      <3> SUFFICES ASSUME call.op = "strlen" PROVE v = Len(a)
        BY <2>1 DEF Returned
      <3>1. v = strlen(InMemory(a)) /\ a \in Strings
        BY <1>2 DEF Return, Returns, CallInv
      <3>2. IsString(a) /\ Len(a) < SIZE
        BY <3>1, StringFacts
      <3>3. QED
        BY <2>2, <3>1, <3>2, strlenIs DEF InMemory
    <2>4. Returned("strcpy")' =>
             \A i \in Addresses : v[i] = IF i <= Len(a) THEN InMemory(a)[i] ELSE Memory[i]
      <3> SUFFICES ASSUME call.op = "strcpy", NEW i \in Addresses
                   PROVE  v[i] = IF i <= Len(a) THEN InMemory(a)[i] ELSE Memory[i]
        BY <2>1 DEF Returned
      <3>1. v = strcpy(Memory, InMemory(a)) /\ a \in Strings
        BY <1>2 DEF Return, Returns, CallInv
      <3>2. IsString(a) /\ Len(a) < SIZE
        BY <3>1, StringFacts
      <3>3. strlen(InMemory(a)) = Len(a)
        BY <2>2, <3>2, strlenIs DEF InMemory
      <3>4. QED
        BY <2>2, <3>1, <3>3 DEF strcpy
    <2>5. Returned("strncpy")' =>
             /\ \A i \in Addresses : i >= a[2] => v[i] = Memory[i]
             /\ [i \in 1..a[2] |-> v[i - 1]] =
                  Cut(a[1], a[2]) \o [i \in 1..(a[2] - Len(Cut(a[1], a[2]))) |-> NUL]
      <3> SUFFICES ASSUME call.op = "strncpy"
                   PROVE  /\ \A i \in Addresses : i >= a[2] => v[i] = Memory[i]
                          /\ [i \in 1..a[2] |-> v[i - 1]] =
                               Cut(a[1], a[2]) \o [i \in 1..(a[2] - Len(Cut(a[1], a[2]))) |-> NUL]
        BY <2>1 DEF Returned
      <3> DEFINE s == a[1]
                 n == a[2]
      <3>1. v = strncpy(Memory, CString(s, BYTE, SIZE), n) /\ s \in Strings /\ n \in 0..SIZE
        BY <1>2 DEF Return, Returns, CallInv, InMemory
      <3>2. IsString(s) /\ Len(s) < SIZE
        BY <3>1, StringFacts
      <3> HIDE DEF s, n, v
      <3>3. /\ \A i \in 0..(SIZE - 1) : i >= n => v[i] = Memory[i]
            /\ [i \in 1..n |-> v[i - 1]] = Cut(s, n) \o [i \in 1..(n - Len(Cut(s, n))) |-> NUL]
        <4>1. CutCopied(v, Memory, s, SIZE, n)
          BY <2>2, <3>1, <3>2, strncpyCopies
        <4>2. QED
          BY <4>1 DEF CutCopied
      <3>4. QED
        BY <2>2, <3>3 DEF s, n
    <2>6. Returned("strncmp")' =>
             /\ v < 0 <=> Before(Cut(a[1], a[3]), Cut(a[2], a[3]))
             /\ v > 0 <=> Before(Cut(a[2], a[3]), Cut(a[1], a[3]))
      <3> SUFFICES ASSUME call.op = "strncmp"
                   PROVE  /\ v < 0 <=> Before(Cut(a[1], a[3]), Cut(a[2], a[3]))
                          /\ v > 0 <=> Before(Cut(a[2], a[3]), Cut(a[1], a[3]))
        BY <2>1 DEF Returned
      <3> DEFINE s == a[1]
                 t == a[2]
                 n == a[3]
                 s1 == CString(s, BYTE, SIZE)
                 s2 == CString(t, BYTE + 1, SIZE)
      <3>1. v = strncmp(s1, s2, n) /\ s \in Strings /\ t \in Strings /\ n \in 0..LENGTH
        BY <1>2 DEF Return, Returns, CallInv, InMemory
      <3>2. IsString(s) /\ Len(s) < SIZE /\ IsString(t) /\ Len(t) < SIZE
        BY <3>1, StringFacts
      <3> HIDE DEF s, t, n, v
      <3>3. n \in Nat
        BY <3>1, BoundsAssumption
      <3>4. Shows(s1, s, n)
        <4>1. /\ Len(s) \in Nat /\ s1[Len(s)] = NUL
              /\ \A i \in 0..(Len(s) - 1) : s1[i] = s[i + 1]
          BY <2>2, <3>2, CStringFacts
        <4> HIDE DEF s1
        <4>2. QED
          BY <4>1 DEF Shows
      <3>5. Shows(s2, t, n)
        <4>1. /\ Len(t) \in Nat /\ s2[Len(t)] = NUL
              /\ \A i \in 0..(Len(t) - 1) : s2[i] = t[i + 1]
          BY <2>2, <3>2, CStringFacts
        <4> HIDE DEF s2
        <4>2. QED
          BY <4>1 DEF Shows
      <3> HIDE DEF s1, s2
      <3>6. /\ v < 0 <=> Before(Cut(s, n), Cut(t, n))
            /\ v > 0 <=> Before(Cut(t, n), Cut(s, n))
        BY <3>1, <3>2, <3>3, <3>4, <3>5, strncmpOrders
      <3>7. QED
        BY <3>6 DEF s, t, n
    <2>7. Returned("strrev")' => v = Reverse(a)
      <3> SUFFICES ASSUME call.op = "strrev" PROVE v = Reverse(a)
        BY <2>1 DEF Returned
      <3>1. v = strrev(a) /\ a \in Strings
        BY <1>2 DEF Return, Returns, CallInv
      <3>2. a \in Seq(Nat \ {NUL})
        BY <3>1, StringFacts DEF IsString
      <3>3. QED
        BY <3>1, <3>2, strrevReverses
    <2>8. Returned("itoa")' => IsNumeral(v, a[1], a[2])
      <3> SUFFICES ASSUME call.op = "itoa" PROVE IsNumeral(v, a[1], a[2])
        BY <2>1 DEF Returned
      <3>1. v = itoa(a[1], a[2])
        BY <1>2 DEF Return, Returns
      <3>2. a[1] \in 0..(Modulus - 1) /\ a[2] \in {2, 8, 10, 16}
        BY DEF CallInv
      <3>3. a[1] \in Nat /\ a[2] \in 2..16
        BY <3>2
      <3>4. QED
        BY <3>1, <3>3, itoaIs
    <2>9. QED
      BY <2>1, <2>3, <2>4, <2>5, <2>6, <2>7, <2>8 DEF StringRoutines
  <1>3. QED
    BY <1>1, <1>2, StepReturns

\* strncmp orders cut strings and looks at nothing behind their ends, a copied
\* string reads back as the original and nothing past its size changes, and itoa
\* gives the numeral of every number in every radix, for strings, memories and
\* numbers of any size.  (lib.c: strncmp, strcpy, strncpy, strlen, strrev, itoa)
THEOREM StringRoutinesCorrect == Spec => []StringRoutines
  <1>1. Init => StringRoutines
    BY DEF Init, StringRoutines, Returned, Running
  <1>2. QED
    BY <1>1, CallInvHolds, StringRoutinesStep, PTL DEF Spec

-----------------------------------------------------------------------------
(* The directory.                                                            *)

\* A string in memory can be read as far as memory goes.
LEMMA CStringShows ==
    ASSUME NEW s, IsString(s), NEW behind, NEW size \in Nat, NEW n \in Nat, n <= size
    PROVE  Shows(CString(s, behind, size), s, n)
  <1>1. Len(s) \in Nat
    BY DEF IsString
  <1>2. QED
    BY <1>1 DEF Shows, CString

\* A name finds the first entry it equals.
LEMMA DentryByNameIs ==
    ASSUME NEW s, IsString(s), NEW fname, Shows(fname, s, FILE_NAME_SIZE)
    PROVE  DentryByName(fname) = IF Named(s) = {} THEN -1 ELSE Min(Named(s))
  <1>1. FILE_NAME_SIZE \in Nat
    BY SizesAssumption
  <1>2. ASSUME NEW i \in DOMAIN dir_entries
        PROVE  strncmp(fname, FileName(dir_entries[i]), FILE_NAME_SIZE) = 0 <=>
                 dir_entries[i].name = Cut(s, FILE_NAME_SIZE)
    <2> DEFINE name == dir_entries[i].name
               s2 == FileName(dir_entries[i])
    <2>1. name \in Seq(Nat \ {NUL}) /\ Len(name) <= FILE_NAME_SIZE /\ Len(name) \in Nat
      BY DirectoryAssumption
    <2>2. s2 = [k \in 0..(FILE_NAME_SIZE - 1) |-> IF k < Len(name) THEN name[k + 1] ELSE NUL]
      BY DEF FileName
    <2> HIDE DEF name, s2
    <2>3. Shows(s2, name, FILE_NAME_SIZE)
      BY <1>1, <2>1, <2>2 DEF Shows
    <2>4. IsString(name)
      BY <2>1 DEF IsString
    <2>5. strncmp(fname, s2, FILE_NAME_SIZE) = 0 <=>
             Cut(s, FILE_NAME_SIZE) = Cut(name, FILE_NAME_SIZE)
      BY <1>1, <2>3, <2>4, strncmpOrders
    <2>6. Cut(name, FILE_NAME_SIZE) = name
      BY <1>1, <2>1, CutWhole
    <2>7. QED
      BY <2>5, <2>6 DEF name, s2
  <1>3. Matching(fname) = Named(s)
    BY <1>2 DEF Matching, Named
  <1>4. QED
    BY <1>3 DEF DentryByName

LEMMA NamedFacts ==
    ASSUME NEW s, Named(s) # {}
    PROVE  Min(Named(s)) \in Named(s) /\ Min(Named(s)) \in DOMAIN dir_entries /\ Min(Named(s)) \in Nat
  <1>1. Named(s) \subseteq Nat
    BY DirectoryAssumption DEF Named
  <1>2. Min(Named(s)) \in Named(s)
    BY <1>1, MinFacts
  <1>3. QED
    BY <1>1, <1>2 DEF Named

\* What getargs copies reads back as the argument.
LEMMA getargsCopies ==
    ASSUME NEW s, IsString(s), Len(s) < SIZE
    PROVE  LET buf == strcpy(Memory, InMemory(s))
           IN  strlen(buf) = Len(s) /\ \A i \in 1..Len(s) : buf[i - 1] = s[i]
  <1> DEFINE c == InMemory(s)
             buf == strcpy(Memory, c)
             nuls == {i \in DOMAIN buf : buf[i] = NUL}
  <1>1. SIZE \in Nat /\ DOMAIN Memory = 0..(SIZE - 1)
    BY MemoryFacts
  <1>2. /\ Len(s) \in Nat /\ Len(s) \in 0..(SIZE - 1) /\ c[Len(s)] = NUL
        /\ \A i \in 0..(Len(s) - 1) : c[i] = s[i + 1] /\ c[i] # NUL
    BY <1>1, CStringFacts DEF InMemory
  <1>3. strlen(c) = Len(s)
    BY <1>1, strlenIs DEF InMemory
  <1> HIDE DEF c
  <1>4. DOMAIN buf = 0..(SIZE - 1) /\ \A i \in 0..(SIZE - 1) : i <= Len(s) => buf[i] = c[i]
    BY <1>1, <1>3 DEF strcpy
  <1> HIDE DEF buf
  <1>5. nuls \subseteq Nat /\ Len(s) \in nuls
    BY <1>1, <1>2, <1>4
  <1>6. \A i \in nuls : Len(s) <= i
    BY <1>1, <1>2, <1>4
  <1>7. Min(nuls) = Len(s)
    <2> HIDE DEF nuls
    <2>1. QED
      BY <1>5, <1>6, MinIs
  <1>8. \A i \in 1..Len(s) : buf[i - 1] = s[i]
    <2> SUFFICES ASSUME NEW i \in 1..Len(s) PROVE buf[i - 1] = s[i]
      OBVIOUS
    <2>1. i - 1 \in 0..(SIZE - 1) /\ i - 1 \in 0..(Len(s) - 1) /\ i - 1 <= Len(s) /\ i - 1 + 1 = i
      BY <1>1, <1>2
    <2>2. QED
      BY <1>2, <1>4, <2>1
  <1>9. QED
    BY <1>7, <1>8 DEF strlen, buf, c

-----------------------------------------------------------------------------
(* The words of a command.                                                   *)

Blank(command, i, j) == \A k \in i..j : command[k] = SPACE

Solid(command, i, j) == \A k \in i..j : command[k] # SPACE

\* A word from b to e, behind which the command goes on.
Word(command, b, e) == b \in 1..e /\ Solid(command, b, e)

Chars == Nat \ {NUL}

Parts == {"before", "name", "between", "arg", "behind"}

Texts == Seq(Chars)

Bytes == SUBSET ({"name", "arg"} \X Nat)

ParseStates == [in : Parts, at : Nat, name : Texts, arg : Texts, stored : Bytes]

\* Every byte is stored inside the words and their NULs, and the argument is stored.
StoredInside(st) ==
    /\ \A byte \in st.stored : byte[2] <= IF byte[1] = "name" THEN Len(st.name) ELSE Len(st.arg)
    /\ \A k \in 0..(Len(st.arg) - 1) : <<"arg", k>> \in st.stored

\* The words execute's loop has found in the first i characters.
Found(st, command, i) ==
    \/ st.in = "before" /\ Blank(command, 1, i) /\ st.name = <<>> /\ st.arg = <<>> /\ st.at = 0
    \/ \E b \in 1..i :
          /\ st.in = "name" /\ Blank(command, 1, b - 1) /\ Word(command, b, i)
          /\ st.name = SubSeq(command, b, i) /\ st.arg = <<>> /\ st.at = Len(st.name)
    \/ \E b, e \in 1..i :
          /\ st.in = "between" /\ Blank(command, 1, b - 1) /\ Word(command, b, e)
          /\ e < i /\ Blank(command, e + 1, i)
          /\ st.name = SubSeq(command, b, e) /\ st.arg = <<>> /\ st.at = 0
    \/ \E b, e, c \in 1..i :
          /\ st.in = "arg" /\ Blank(command, 1, b - 1) /\ Word(command, b, e)
          /\ e + 1 < c /\ Blank(command, e + 1, c - 1) /\ Word(command, c, i)
          /\ st.name = SubSeq(command, b, e) /\ st.arg = SubSeq(command, c, i)
          /\ st.at = Len(st.arg)
    \/ \E b, e, c, f \in 1..i :
          /\ st.in = "behind" /\ Blank(command, 1, b - 1) /\ Word(command, b, e)
          /\ e + 1 < c /\ Blank(command, e + 1, c - 1) /\ Word(command, c, f)
          /\ f < i /\ command[f + 1] = SPACE
          /\ st.name = SubSeq(command, b, e) /\ st.arg = SubSeq(command, c, f)

LEMMA SubSeqOn ==
    ASSUME NEW S, NEW s \in Seq(S), NEW i \in 1..Len(s), NEW b \in 1..i
    PROVE  /\ SubSeq(s, b, i) \in Seq(S)
           /\ SubSeq(s, b, i) = Append(SubSeq(s, b, i - 1), s[i])
           /\ b = i => SubSeq(s, b, i) = Append(<<>>, s[i])
  <1> DEFINE t == SubSeq(s, b, i - 1)
             u == SubSeq(s, b, i)
             a == Append(t, s[i])
  <1>1. Len(s) \in Nat /\ \A j \in 1..Len(s) : s[j] \in S
    OBVIOUS
  <1>2. t \in Seq(S) /\ Len(t) = i - b /\ \A j \in 1..(i - b) : t[j] = s[b + j - 1]
    <2>1. b \in Int /\ i - 1 \in Int /\ \A j \in b..(i - 1) : s[j] \in S
      BY <1>1
    <2>2. /\ t \in Seq(S) /\ Len(t) = IF b <= i - 1 THEN i - 1 - b + 1 ELSE 0
          /\ \A j \in 1..(i - 1 - b + 1) : t[j] = s[b + j - 1]
      BY <2>1, SubSeqProperties
    <2> HIDE DEF t
    <2>3. QED
      BY <2>1, <2>2
  <1>3. u \in Seq(S) /\ Len(u) = i - b + 1 /\ \A j \in 1..(i - b + 1) : u[j] = s[b + j - 1]
    <2>1. b \in Int /\ i \in Int /\ b <= i /\ \A j \in b..i : s[j] \in S
      BY <1>1
    <2>2. QED
      BY <2>1, SubSeqProperties
  <1> HIDE DEF t, u
  <1>4. a \in Seq(S) /\ Len(a) = i - b + 1 /\ a[i - b + 1] = s[i] /\ \A j \in 1..(i - b) : a[j] = t[j]
    BY <1>1, <1>2, AppendProperties
  <1> HIDE DEF a
  <1>5. u = a
    <2>1. ASSUME NEW j \in 1..Len(u) PROVE u[j] = a[j]
      <3>1. CASE j = i - b + 1
        <4>1. b + j - 1 = i
          BY <3>1
        <4>2. QED
          BY <1>3, <1>4, <3>1, <4>1
      <3>2. CASE j # i - b + 1
        <4>1. j \in 1..(i - b) /\ j \in 1..(i - b + 1)
          BY <1>3, <3>2
        <4>2. QED
          BY <1>2, <1>3, <1>4, <4>1
      <3>3. QED
        BY <3>1, <3>2
    <2>2. QED
      BY <1>3, <1>4, <2>1, SeqEqual
  <1>6. b = i => t = <<>>
    BY <1>2
  <1>7. QED
    BY <1>3, <1>5, <1>6 DEF u, a, t

\* The steps of execute's loop.
LEMMA ParseOn ==
    ASSUME NEW command \in Seq(Chars), NEW i \in 1..Len(command), NEW st \in ParseStates,
           StoredInside(st), Found(st, command, i - 1)
    PROVE  LET next == ParseChar(st, command[i])
           IN  next \in ParseStates /\ StoredInside(next) /\ Found(next, command, i)
  <1> DEFINE x == command[i]
             next == ParseChar(st, x)
  <1>1. Len(command) \in Nat /\ x \in Chars /\ i \in Nat
    OBVIOUS
  <1>2. /\ st.in \in {"before", "name", "between", "arg", "behind"} /\ st.at \in Nat
        /\ st.name \in Seq(Chars) /\ st.arg \in Seq(Chars)
        /\ st.stored \in SUBSET ({"name", "arg"} \X Nat)
        /\ Len(st.name) \in Nat /\ Len(st.arg) \in Nat
    BY DEF ParseStates, Parts, Texts, Bytes
  <1>3. /\ Append(st.name, x) \in Seq(Chars) /\ Len(Append(st.name, x)) = Len(st.name) + 1
        /\ Append(st.arg, x) \in Seq(Chars) /\ Len(Append(st.arg, x)) = Len(st.arg) + 1
    BY <1>1, <1>2, AppendProperties
  <1> DEFINE named == NameChar(st, x)
             given == ArgChar(st, x)
  <1>4. /\ named \in ParseStates /\ named.in = "name" /\ named.at = st.at + 1
        /\ named.name = Append(st.name, x) /\ named.arg = st.arg
        /\ named.stored = st.stored \cup {<<"name", st.at>>}
    <2> HIDE DEF x
    <2>1. st.stored \cup {<<"name", st.at>>} \in Bytes
      BY <1>2 DEF Bytes
    <2>2. st.at + 1 \in Nat /\ "name" \in Parts /\ Append(st.name, x) \in Texts
      BY <1>2, <1>3 DEF Parts, Texts
    <2>3. QED
      BY <2>1, <2>2 DEF NameChar, ParseStates
  <1>5. /\ given \in ParseStates /\ given.in = "arg" /\ given.at = st.at + 1
        /\ given.name = st.name /\ given.arg = Append(st.arg, x)
        /\ given.stored = st.stored \cup {<<"arg", st.at>>}
    <2> HIDE DEF x
    <2>1. st.stored \cup {<<"arg", st.at>>} \in Bytes
      BY <1>2 DEF Bytes
    <2>2. st.at + 1 \in Nat /\ "arg" \in Parts /\ Append(st.arg, x) \in Texts
      BY <1>2, <1>3 DEF Parts, Texts
    <2>3. QED
      BY <2>1, <2>2 DEF ArgChar, ParseStates
  <1>6. ASSUME NEW in \in {"between", "behind"}, NEW array \in {"name", "arg"}
        PROVE  LET end == EndWord(st, in, array)
               IN  /\ end \in ParseStates /\ end.in = in /\ end.at = 0
                   /\ end.name = st.name /\ end.arg = st.arg
                   /\ end.stored = st.stored \cup {<<array, st.at>>}
    <2>1. st.stored \cup {<<array, st.at>>} \in Bytes
      BY <1>2 DEF Bytes
    <2>2. in \in Parts /\ 0 \in Nat
      BY DEF Parts
    <2>3. QED
      BY <2>1, <2>2 DEF EndWord, ParseStates
  <1> HIDE DEF x, named, given
  <1>7. st.at = Len(st.name) => StoredInside(named)
    BY <1>2, <1>3, <1>4 DEF StoredInside
  <1>8. st.at = Len(st.arg) => StoredInside(given)
    <2>1. ASSUME st.at = Len(st.arg), NEW k \in 0..(Len(given.arg) - 1)
          PROVE  <<"arg", k>> \in given.stored
      <3>1. k \in 0..(Len(st.arg) - 1) \/ k = st.at
        BY <1>2, <1>3, <1>5, <2>1
      <3>2. QED
        BY <1>5, <3>1 DEF StoredInside
    <2>2. QED
      BY <1>2, <1>3, <1>5, <2>1 DEF StoredInside
  <1>9. CASE st.in = "before"
    <2>1. Blank(command, 1, i - 1) /\ st.name = <<>> /\ st.arg = <<>> /\ st.at = 0
      BY <1>9 DEF Found
    <2>2. CASE x = SPACE
      <3>1. next = st
        BY <1>9, <2>2 DEF ParseChar
      <3>2. Blank(command, 1, i)
        BY <1>1, <2>1, <2>2 DEF Blank, x
      <3>3. QED
        BY <1>9, <2>1, <3>1, <3>2 DEF Found, x
    <2>3. CASE x # SPACE
      <3>1. next = named
        BY <1>9, <2>3 DEF ParseChar, named
      <3>2. Word(command, i, i)
        BY <1>1, <2>3 DEF Word, Solid, x
      <3>3. named.name = SubSeq(command, i, i) /\ st.at = Len(st.name) /\ named.at = Len(named.name)
        <4>1. SubSeq(command, i, i) = Append(<<>>, x)
          BY <1>1, SubSeqOn DEF x
        <4>2. QED
          BY <1>3, <1>4, <2>1, <4>1
      <3>4. Found(named, command, i)
        <4>1. i \in 1..i
          BY <1>1
        <4>2. QED
          BY <1>4, <2>1, <3>2, <3>3, <4>1 DEF Found
      <3>5. QED
        BY <1>4, <1>7, <3>1, <3>3, <3>4 DEF x
    <2>4. QED
      BY <2>2, <2>3
  <1>10. CASE st.in = "name"
    <2>1. PICK b \in 1..(i - 1) :
             /\ Blank(command, 1, b - 1) /\ Word(command, b, i - 1)
             /\ st.name = SubSeq(command, b, i - 1) /\ st.arg = <<>> /\ st.at = Len(st.name)
      BY <1>10 DEF Found
    <2>2. CASE x = SPACE
      <3> DEFINE end == EndWord(st, "between", "name")
      <3>1. next = end
        BY <1>10, <2>2 DEF ParseChar
      <3>2. /\ end \in ParseStates /\ end.in = "between" /\ end.at = 0
            /\ end.name = st.name /\ end.arg = st.arg
            /\ end.stored = st.stored \cup {<<"name", st.at>>}
        BY <1>6
      <3> HIDE DEF end
      <3>3. StoredInside(end)
        <4>0. \A k \in 0..(Len(end.arg) - 1) : <<"arg", k>> \in end.stored
          BY <3>2 DEF StoredInside
        <4> SUFFICES ASSUME NEW byte \in end.stored
                     PROVE  byte[2] <= IF byte[1] = "name" THEN Len(end.name) ELSE Len(end.arg)
          BY <4>0 DEF StoredInside
        <4>1. CASE byte \in st.stored
          BY <3>2, <4>1 DEF StoredInside
        <4>2. CASE byte \notin st.stored
          <5>1. byte[1] = "name" /\ byte[2] = st.at
            BY <3>2, <4>2
          <5>2. QED
            BY <1>2, <2>1, <3>2, <5>1
        <4>3. QED
          BY <4>1, <4>2
      <3>4. Blank(command, i - 1 + 1, i) /\ i - 1 < i /\ i - 1 \in 1..i /\ b \in 1..i
        BY <1>1, <2>2 DEF Blank, x
      <3>5. Found(end, command, i)
        BY <2>1, <3>2, <3>4 DEF Found
      <3>6. QED
        BY <3>1, <3>2, <3>3, <3>5 DEF x
    <2>3. CASE x # SPACE
      <3>1. next = named
        BY <1>10, <2>3 DEF ParseChar, named
      <3>2. Word(command, b, i) /\ b \in 1..i
        BY <1>1, <2>1, <2>3 DEF Word, Solid, x
      <3>3. named.name = SubSeq(command, b, i)
        BY <1>1, <1>4, <2>1, <3>2, SubSeqOn DEF x
      <3>4. Found(named, command, i)
        BY <1>3, <1>4, <2>1, <3>2, <3>3 DEF Found
      <3>5. QED
        BY <1>4, <1>7, <2>1, <3>1, <3>4 DEF x
    <2>4. QED
      BY <2>2, <2>3
  <1>11. CASE st.in = "between"
    <2>1. PICK b \in 1..(i - 1), e \in 1..(i - 1) :
             /\ Blank(command, 1, b - 1) /\ Word(command, b, e)
             /\ e < i - 1 /\ Blank(command, e + 1, i - 1)
             /\ st.name = SubSeq(command, b, e) /\ st.arg = <<>> /\ st.at = 0
      BY <1>11 DEF Found
    <2>2. b \in 1..i /\ e \in 1..i /\ e < i /\ e + 1 < i
      BY <1>1, <2>1
    <2>3. CASE x = SPACE
      <3>1. next = st
        BY <1>11, <2>3 DEF ParseChar
      <3>2. Blank(command, e + 1, i)
        BY <1>1, <2>1, <2>3 DEF Blank, x
      <3>3. Found(st, command, i)
        BY <1>11, <2>1, <2>2, <3>2 DEF Found
      <3>4. QED
        BY <3>1, <3>3 DEF x
    <2>4. CASE x # SPACE
      <3>1. next = given
        BY <1>11, <2>4 DEF ParseChar, given
      <3>2. Word(command, i, i) /\ i \in 1..i
        BY <1>1, <2>4 DEF Word, Solid, x
      <3>3. given.arg = SubSeq(command, i, i) /\ st.at = Len(st.arg) /\ given.at = Len(given.arg)
        <4>1. SubSeq(command, i, i) = Append(<<>>, x)
          BY <1>1, SubSeqOn DEF x
        <4>2. QED
          BY <1>3, <1>5, <2>1, <4>1
      <3>4. Found(given, command, i)
        <4>1. /\ given.in = "arg" /\ Blank(command, 1, b - 1) /\ Word(command, b, e)
              /\ e + 1 < i /\ Blank(command, e + 1, i - 1) /\ Word(command, i, i)
              /\ given.name = SubSeq(command, b, e) /\ given.arg = SubSeq(command, i, i)
              /\ given.at = Len(given.arg)
          BY <1>5, <2>1, <2>2, <3>2, <3>3
        <4>2. QED
          BY <2>2, <3>2, <4>1 DEF Found
      <3>5. QED
        BY <1>5, <1>8, <3>1, <3>3, <3>4 DEF x
    <2>5. QED
      BY <2>3, <2>4
  <1>12. CASE st.in = "arg"
    <2>1. PICK b \in 1..(i - 1), e \in 1..(i - 1), c \in 1..(i - 1) :
             /\ Blank(command, 1, b - 1) /\ Word(command, b, e)
             /\ e + 1 < c /\ Blank(command, e + 1, c - 1) /\ Word(command, c, i - 1)
             /\ st.name = SubSeq(command, b, e) /\ st.arg = SubSeq(command, c, i - 1)
             /\ st.at = Len(st.arg)
      BY <1>12 DEF Found
    <2>2. b \in 1..i /\ e \in 1..i /\ c \in 1..i /\ i - 1 \in 1..i /\ i - 1 < i /\ i - 1 + 1 = i
      BY <1>1, <2>1
    <2>3. CASE x = SPACE
      <3> DEFINE end == EndWord(st, "behind", "arg")
      <3>1. next = end
        BY <1>12, <2>3 DEF ParseChar
      <3>2. /\ end \in ParseStates /\ end.in = "behind"
            /\ end.name = st.name /\ end.arg = st.arg
            /\ end.stored = st.stored \cup {<<"arg", st.at>>}
        BY <1>6
      <3> HIDE DEF end
      <3>3. StoredInside(end)
        <4>0. \A k \in 0..(Len(end.arg) - 1) : <<"arg", k>> \in end.stored
          BY <3>2 DEF StoredInside
        <4> SUFFICES ASSUME NEW byte \in end.stored
                     PROVE  byte[2] <= IF byte[1] = "name" THEN Len(end.name) ELSE Len(end.arg)
          BY <4>0 DEF StoredInside
        <4>1. CASE byte \in st.stored
          BY <3>2, <4>1 DEF StoredInside
        <4>2. CASE byte \notin st.stored
          <5>1. byte[1] = "arg" /\ byte[2] = st.at
            BY <3>2, <4>2
          <5>2. QED
            BY <1>2, <2>1, <3>2, <5>1
        <4>3. QED
          BY <4>1, <4>2
      <3>4. command[i - 1 + 1] = SPACE
        BY <2>2, <2>3 DEF x
      <3>5. Found(end, command, i)
        BY <2>1, <2>2, <3>2, <3>4 DEF Found
      <3>6. QED
        BY <3>1, <3>2, <3>3, <3>5 DEF x
    <2>4. CASE x # SPACE
      <3>1. next = given
        BY <1>12, <2>4 DEF ParseChar, given
      <3>2. Word(command, c, i)
        BY <1>1, <2>1, <2>4 DEF Word, Solid, x
      <3>3. given.arg = SubSeq(command, c, i)
        BY <1>1, <1>5, <2>1, <2>2, SubSeqOn DEF x
      <3>4. Found(given, command, i)
        BY <1>3, <1>5, <2>1, <2>2, <3>2, <3>3 DEF Found
      <3>5. QED
        BY <1>5, <1>8, <2>1, <3>1, <3>4 DEF x
    <2>5. QED
      BY <2>3, <2>4
  <1>13. CASE st.in = "behind"
    <2>1. next = st
      BY <1>13 DEF ParseChar
    <2>2. Found(st, command, i)
      <3>1. PICK b \in 1..(i - 1), e \in 1..(i - 1), c \in 1..(i - 1), f \in 1..(i - 1) :
               /\ Blank(command, 1, b - 1) /\ Word(command, b, e)
               /\ e + 1 < c /\ Blank(command, e + 1, c - 1) /\ Word(command, c, f)
               /\ f < i - 1 /\ command[f + 1] = SPACE
               /\ st.name = SubSeq(command, b, e) /\ st.arg = SubSeq(command, c, f)
        BY <1>13 DEF Found
      <3>2. b \in 1..i /\ e \in 1..i /\ c \in 1..i /\ f \in 1..i /\ f < i
        BY <1>1, <3>1
      <3>3. QED
        BY <1>13, <3>1, <3>2 DEF Found
    <2>3. QED
      BY <2>1, <2>2 DEF x
  <1>14. QED
    BY <1>2, <1>9, <1>10, <1>11, <1>12, <1>13

\* The function execute's loop computes, character by character.
LEMMA ParseFollows ==
    ASSUME NEW command, Len(command) \in Nat
    PROVE  \E f : /\ f[0] = ParseStart
                  /\ \A i \in 1..Len(command) : f[i] = ParseChar(f[i - 1], command[i])
                  /\ Parse(command) = f[Len(command)]
  <1> DEFINE After(f, i) == IF i = 0 THEN ParseStart ELSE ParseChar(f[i - 1], command[i])
             Upto(f, m) == f = [i \in 0..m |-> After(f, i)]
             S == {m \in Nat : \E f : Upto(f, m)}
             n == Len(command)
             parsed == CHOOSE f : Upto(f, n)
  <1>1. 0 \in S
    <2> DEFINE f == [i \in 0..0 |-> ParseStart]
    <2>1. Upto(f, 0)
      <3>1. \A i \in 0..0 : After(f, i) = ParseStart
        OBVIOUS
      <3> HIDE DEF After
      <3>2. QED
        BY <3>1
    <2> HIDE DEF Upto
    <2>2. QED
      BY <2>1
  <1>2. ASSUME NEW m \in S PROVE m + 1 \in S
    <2>1. PICK f : Upto(f, m)
      BY <1>2
    <2> DEFINE g == [i \in 0..(m + 1) |-> IF i <= m THEN f[i] ELSE After(f, m + 1)]
    <2>2. ASSUME NEW i \in 0..(m + 1) PROVE g[i] = After(g, i)
      <3>1. CASE i <= m
        <4>1. i \in 0..m /\ g[i] = f[i] /\ (i # 0 => i - 1 \in 0..(m + 1) /\ i - 1 <= m)
          BY <3>1
        <4>2. f[i] = After(f, i)
          BY <2>1, <4>1
        <4>3. i # 0 => g[i - 1] = f[i - 1]
          BY <4>1
        <4> HIDE DEF g
        <4>4. QED
          BY <4>1, <4>2, <4>3
      <3>2. CASE i = m + 1
        <4>1. g[i] = After(f, m + 1) /\ g[m] = f[m] /\ i - 1 = m /\ m + 1 - 1 = m /\ i # 0
          BY <3>2
        <4> HIDE DEF g
        <4>2. QED
          BY <3>2, <4>1
      <3>3. QED
        BY <3>1, <3>2
    <2>3. Upto(g, m + 1)
      <3>1. g = [i \in 0..(m + 1) |-> g[i]]
        OBVIOUS
      <3> HIDE DEF g, After
      <3>2. QED
        BY <2>2, <3>1
    <2> HIDE DEF Upto, g
    <2>4. QED
      BY <2>3
  <1>3. S = Nat
    <2>1. S \subseteq Nat
      OBVIOUS
    <2> HIDE DEF S
    <2>2. QED
      BY <1>1, <1>2, <2>1, Induction
  <1>4. \E f : Upto(f, n)
    BY <1>3
  <1>5. Upto(parsed, n)
    <2> HIDE DEF Upto
    <2>1. QED
      BY <1>4, Zenon
  <1>6. Parse(command) = parsed[n]
    BY Zenon DEF Parse
  <1>7. parsed[0] = ParseStart /\ \A i \in 1..n : parsed[i] = ParseChar(parsed[i - 1], command[i])
    <2> HIDE DEF parsed
    <2>1. 0 \in 0..n /\ \A i \in 1..n : i \in 0..n /\ i # 0
      OBVIOUS
    <2> HIDE DEF n
    <2>2. QED
      BY <1>5, <2>1
  <1>8. QED
    BY <1>6, <1>7, Zenon

\* What execute's loop has found at the end of the command.
LEMMA ParseFound ==
    ASSUME NEW command \in Seq(Chars)
    PROVE  /\ Parse(command) \in ParseStates /\ StoredInside(Parse(command))
           /\ Found(Parse(command), command, Len(command))
  <1> DEFINE n == Len(command)
             Good(st, i) == st \in ParseStates /\ StoredInside(st) /\ Found(st, command, i)
  <1>1. n \in Nat
    OBVIOUS
  <1>2. PICK f : /\ f[0] = ParseStart
                 /\ \A i \in 1..n : f[i] = ParseChar(f[i - 1], command[i])
                 /\ Parse(command) = f[n]
    BY <1>1, ParseFollows
  <1> DEFINE S == {i \in Nat : i <= n => Good(f[i], i)}
  <1>3. 0 \in S
    <2>1. ParseStart \in ParseStates
      BY DEF ParseStart, ParseStates, Parts, Texts, Bytes
    <2>2. StoredInside(ParseStart)
      BY DEF ParseStart, StoredInside
    <2>3. Found(ParseStart, command, 0)
      BY DEF ParseStart, Found, Blank
    <2>4. QED
      BY <1>2, <2>1, <2>2, <2>3
  <1>4. ASSUME NEW i \in S PROVE i + 1 \in S
    <2>1. CASE i + 1 <= n
      <3>1. i + 1 \in 1..n /\ i + 1 - 1 = i /\ Good(f[i], i)
        BY <1>1, <1>4, <2>1
      <3>2. f[i + 1] = ParseChar(f[i], command[i + 1])
        BY <1>2, <3>1
      <3> DEFINE k == i + 1
      <3> HIDE DEF k
      <3>3. k \in 1..n /\ k - 1 = i
        BY <3>1 DEF k
      <3>4. Good(ParseChar(f[i], command[k]), k)
        BY <3>1, <3>3, ParseOn
      <3>5. QED
        BY <3>2, <3>4 DEF k
    <2>2. CASE ~(i + 1 <= n)
      BY <2>2
    <2>3. QED
      BY <2>1, <2>2
  <1>5. S = Nat
    <2>1. S \subseteq Nat
      OBVIOUS
    <2> HIDE DEF S
    <2>2. QED
      BY <1>3, <1>4, <2>1, Induction
  <1>6. Good(f[n], n)
    <2> HIDE DEF Good
    <2>1. QED
      BY <1>1, <1>5
  <1>7. QED
    BY <1>2, <1>6

\* Where the words of a command begin, and the word that begins there.
Starts(command) ==
    {i \in DOMAIN command : command[i] # SPACE /\ (i = 1 \/ command[i - 1] = SPACE)}

Extents(command, i) == {j \in i..Len(command) : \A k \in i..j : command[k] # SPACE}

WordFrom(command, i) == SubSeq(command, i, Max(Extents(command, i)))

Earlier(starts, i) == {j \in starts : j < i}

NthStart(starts, n) == CHOOSE i \in starts : Cardinality(Earlier(starts, i)) = n - 1

\* There is a word from b to e that goes no further.
WholeWord(command, b, e) ==
    /\ Len(command) \in Nat /\ b \in Nat /\ e \in 1..Len(command)
    /\ Word(command, b, e)
    /\ e = Len(command) \/ command[e + 1] = SPACE

LEMMA WordFromIs ==
    ASSUME NEW command, NEW b, NEW e, WholeWord(command, b, e)
    PROVE  WordFrom(command, b) = SubSeq(command, b, e)
  <1> DEFINE ends == Extents(command, b)
  <1>1. e \in ends /\ ends \subseteq Nat
    BY DEF Extents, Word, Solid, WholeWord
  <1>2. \A j \in ends : e >= j
    BY DEF Extents, Word, WholeWord
  <1> HIDE DEF ends
  <1>3. Max(ends) = e
    <2>1. Max(ends) \in ends /\ \A y \in ends : Max(ends) >= y
      BY <1>1, <1>2 DEF Max
    <2>2. Max(ends) \in Nat /\ e \in Nat /\ Max(ends) >= e /\ e >= Max(ends)
      BY <1>1, <1>2, <2>1 DEF WholeWord
    <2>3. QED
      BY <2>2
  <1>4. QED
    BY <1>3 DEF WordFrom, ends

LEMMA WordsAre ==
    ASSUME NEW command, Len(command) \in Nat, DOMAIN command = 1..Len(command)
    PROVE  LET starts == Starts(command)
           IN  /\ IsFiniteSet(starts) /\ Cardinality(starts) \in Nat
               /\ Len(Words(command)) = Cardinality(starts)
               /\ \A n \in 1..Cardinality(starts) :
                     Words(command)[n] = WordFrom(command, NthStart(starts, n))
  <1> DEFINE starts == Starts(command)
             count == Cardinality(starts)
             Nth(n) == WordFrom(command, NthStart(starts, n))
  <1>1. IsFiniteSet(starts) /\ count \in Nat
    <2>1. starts \subseteq 1..Len(command)
      BY DEF Starts
    <2> HIDE DEF starts
    <2>2. IsFiniteSet(1..Len(command))
      BY FS_Interval
    <2>3. IsFiniteSet(starts)
      BY <2>1, <2>2, FS_Subset
    <2>4. QED
      BY <2>3, FS_CardinalityType
  <1>2. Words(command) = [n \in 1..count |-> Nth(n)]
    BY Zenon DEF Words, Starts, WordFrom, Extents, NthStart, Earlier
  <1> HIDE DEF count, Nth
  <1>3. Len([n \in 1..count |-> Nth(n)]) = count
    BY <1>1
  <1>4. \A n \in 1..count : Words(command)[n] = Nth(n)
    BY <1>2
  <1>5. QED
    BY <1>1, <1>2, <1>3, <1>4 DEF count, Nth

\* The first two words.
LEMMA WordsNone ==
    ASSUME NEW command, Len(command) \in Nat, DOMAIN command = 1..Len(command),
           Starts(command) = {}
    PROVE  WordOrNone(Words(command), 1) = <<>> /\ WordOrNone(Words(command), 2) = <<>>
  <1>1. Len(Words(command)) = 0
    BY WordsAre, FS_EmptySet
  <1>2. QED
    BY <1>1 DEF WordOrNone

LEMMA WordsOne ==
    ASSUME NEW command, Len(command) \in Nat, DOMAIN command = 1..Len(command),
           NEW b, Starts(command) = {b}
    PROVE  WordOrNone(Words(command), 2) = <<>>
  <1>1. Len(Words(command)) = 1
    BY WordsAre, FS_Singleton
  <1>2. QED
    BY <1>1 DEF WordOrNone

LEMMA WordsFirst ==
    ASSUME NEW command, Len(command) \in Nat, DOMAIN command = 1..Len(command),
           NEW b \in Starts(command), \A i \in Starts(command) : b <= i
    PROVE  WordOrNone(Words(command), 1) = WordFrom(command, b)
  <1> DEFINE starts == Starts(command)
  <1>1. /\ IsFiniteSet(starts) /\ Cardinality(starts) \in Nat
        /\ Len(Words(command)) = Cardinality(starts)
        /\ \A n \in 1..Cardinality(starts) :
              Words(command)[n] = WordFrom(command, NthStart(starts, n))
    BY WordsAre
  <1>2. starts \subseteq Nat /\ b \in starts /\ \A i \in starts : b <= i
    BY DEF Starts
  <1> HIDE DEF starts
  <1>3. ASSUME NEW i \in starts
        PROVE  /\ IsFiniteSet(Earlier(starts, i)) /\ Cardinality(Earlier(starts, i)) \in Nat
               /\ Cardinality(Earlier(starts, i)) = 0 <=> i = b
    <2>1. Earlier(starts, i) \subseteq starts
      BY DEF Earlier
    <2>2. IsFiniteSet(Earlier(starts, i)) /\ Cardinality(Earlier(starts, i)) \in Nat
      BY <1>1, <2>1, FS_Subset, FS_CardinalityType
    <2>3. Earlier(starts, i) = {} <=> i = b
      <3>1. i \in Nat /\ b \in Nat /\ \A j \in starts : j \in Nat /\ b <= j
        BY <1>2
      <3>2. i = b => \A j \in starts : ~(j < i)
        BY <3>1
      <3>3. i # b => b < i
        BY <3>1
      <3>4. QED
        BY <1>2, <3>2, <3>3 DEF Earlier
    <2>4. QED
      BY <2>2, <2>3, FS_EmptySet
  <1>4. NthStart(starts, 1) = b
    BY <1>2, <1>3 DEF NthStart
  <1>5. Cardinality(starts) >= 1
    <2>1. Cardinality(starts) # 0
      BY <1>1, <1>2, FS_EmptySet
    <2>2. QED
      BY <1>1, <2>1
  <1>6. QED
    BY <1>1, <1>4, <1>5 DEF WordOrNone

LEMMA WordsSecond ==
    ASSUME NEW command, Len(command) \in Nat, DOMAIN command = 1..Len(command),
           NEW b \in Starts(command), NEW c \in Starts(command), b < c,
           \A i \in Starts(command) : i = b \/ c <= i
    PROVE  WordOrNone(Words(command), 2) = WordFrom(command, c)
  <1> DEFINE starts == Starts(command)
  <1>1. /\ IsFiniteSet(starts) /\ Cardinality(starts) \in Nat
        /\ Len(Words(command)) = Cardinality(starts)
        /\ \A n \in 1..Cardinality(starts) :
              Words(command)[n] = WordFrom(command, NthStart(starts, n))
    BY WordsAre
  <1>2. /\ starts \subseteq Nat /\ b \in starts /\ c \in starts /\ b < c
        /\ \A i \in starts : i = b \/ c <= i
    BY DEF Starts
  <1> HIDE DEF starts
  <1>3. IsFiniteSet({b, c}) /\ Cardinality({b, c}) = 2 /\ Cardinality({b}) = 1 /\ IsFiniteSet({b})
    <2>1. IsFiniteSet({b}) /\ Cardinality({b}) = 1
      BY FS_Singleton
    <2>2. {b} \cup {c} = {b, c} /\ c \notin {b}
      BY <1>2
    <2>3. IsFiniteSet({b} \cup {c}) /\ Cardinality({b} \cup {c}) = 1 + 1
      BY <2>1, <2>2, FS_AddElement
    <2>4. Cardinality({b, c}) = 2 /\ IsFiniteSet({b, c})
      <3>1. 1 + 1 = 2
        OBVIOUS
      <3>2. QED
        BY Zenon, <2>2, <2>3, <3>1
    <2>5. QED
      BY <2>1, <2>4
  <1>4. ASSUME NEW i \in starts PROVE Cardinality(Earlier(starts, i)) = 1 <=> i = c
    <2>1. Earlier(starts, i) \subseteq starts
      BY DEF Earlier
    <2>2. IsFiniteSet(Earlier(starts, i)) /\ Cardinality(Earlier(starts, i)) \in Nat
      BY <1>1, <2>1, FS_Subset, FS_CardinalityType
    <2>3. CASE i = b
      <3>1. Earlier(starts, i) = {}
        <4>1. \A j \in starts : ~(j < i)
          BY <1>2, <2>3
        <4>2. QED
          BY <4>1 DEF Earlier
      <3>2. QED
        BY <1>2, <2>3, <3>1, FS_EmptySet
    <2>4. CASE i = c
      <3>1. Earlier(starts, i) = {b}
        <4>1. \A j \in starts : j < i <=> j = b
          BY <1>2, <2>4
        <4>2. QED
          BY <1>2, <4>1 DEF Earlier
      <3>2. QED
        BY <1>3, <2>4, <3>1
    <2>5. CASE i # b /\ i # c
      <3>1. {b, c} \subseteq Earlier(starts, i)
        BY <1>2, <2>5 DEF Earlier
      <3>2. 2 <= Cardinality(Earlier(starts, i))
        BY <1>3, <2>2, <3>1, FS_Subset
      <3>3. QED
        BY <2>2, <2>5, <3>2
    <2>6. QED
      BY <2>3, <2>4, <2>5
  <1>5. NthStart(starts, 2) = c
    BY <1>2, <1>4 DEF NthStart
  <1>6. Cardinality(starts) >= 2
    <2>1. {b, c} \subseteq starts
      BY <1>2
    <2>2. QED
      BY <1>1, <1>3, <2>1, FS_Subset
  <1>7. QED
    BY <1>1, <1>5, <1>6 DEF WordOrNone

\* execute's loop finds the first two words of the command.
LEMMA ParseIs ==
    ASSUME NEW command \in Seq(Chars)
    PROVE  /\ Parse(command).name = WordOrNone(Words(command), 1)
           /\ Parse(command).arg = WordOrNone(Words(command), 2)
  <1> DEFINE n == Len(command)
             st == Parse(command)
             starts == Starts(command)
  <1>1. n \in Nat /\ DOMAIN command = 1..n
    OBVIOUS
  <1>2. Found(st, command, n)
    BY ParseFound
  <1>3. \A i : i \in starts <=>
                 i \in 1..n /\ command[i] # SPACE /\ (i = 1 \/ command[i - 1] = SPACE)
    BY <1>1 DEF Starts
  <1> HIDE DEF st, starts
  <1>4. CASE st.in = "before"
    <2>1. Blank(command, 1, n) /\ st.name = <<>> /\ st.arg = <<>>
      BY <1>2, <1>4 DEF Found
    <2>2. starts = {}
      BY <1>3, <2>1 DEF Blank
    <2>3. QED
      BY <1>1, <2>1, <2>2, WordsNone DEF st, starts
  <1>5. ASSUME NEW b \in 1..n, NEW e \in 1..n, Blank(command, 1, b - 1), Word(command, b, e),
               e = n \/ command[e + 1] = SPACE
        PROVE  /\ b \in starts /\ \A i \in starts : b <= i /\ (i = b \/ e < i)
               /\ WordOrNone(Words(command), 1) = SubSeq(command, b, e)
    <2>1. b \in starts
      <3>1. command[b] # SPACE
        BY <1>5 DEF Word, Solid
      <3>2. b = 1 \/ command[b - 1] = SPACE
        BY <1>5 DEF Blank
      <3>3. QED
        BY <1>3, <3>1, <3>2
    <2>2. ASSUME NEW i \in starts PROVE b <= i /\ (i = b \/ e < i)
      <3>1. i \in 1..n /\ command[i] # SPACE /\ (i = 1 \/ command[i - 1] = SPACE)
        BY <1>3
      <3>2. b <= i
        <4> SUFFICES ASSUME i < b PROVE FALSE
          BY <3>1
        <4>1. i \in 1..(b - 1)
          BY <3>1
        <4>2. QED
          BY <1>5, <3>1, <4>1 DEF Blank
      <3>3. i = b \/ e < i
        <4> SUFFICES ASSUME i # b, ~(e < i) PROVE FALSE
          OBVIOUS
        <4>1. i - 1 \in b..e /\ i # 1
          BY <3>1, <3>2
        <4>2. QED
          BY <1>5, <3>1, <4>1 DEF Word, Solid
      <3>4. QED
        BY <3>2, <3>3
    <2>3. WordOrNone(Words(command), 1) = WordFrom(command, b)
      BY <1>1, <2>1, <2>2, WordsFirst DEF starts
    <2>4. WordFrom(command, b) = SubSeq(command, b, e)
      <3>1. Len(command) \in Nat /\ b \in Nat /\ e \in 1..Len(command)
        BY <1>1
      <3>2. Word(command, b, e)
        BY <1>5
      <3>3. e = Len(command) \/ command[e + 1] = SPACE
        BY <1>5
      <3>4. WholeWord(command, b, e)
        BY <3>1, <3>2, <3>3, Zenon DEF WholeWord
      <3>5. QED
        BY <3>4, WordFromIs, Zenon
    <2>5. QED
      BY <2>1, <2>2, <2>3, <2>4
  <1>6. ASSUME NEW b \in starts, NEW e \in 1..n, NEW c \in 1..n, NEW f \in 1..n,
               \A i \in starts : i = b \/ e < i, b <= e, e + 1 < c, Blank(command, e + 1, c - 1),
               Word(command, c, f), f = n \/ command[f + 1] = SPACE
        PROVE  WordOrNone(Words(command), 2) = SubSeq(command, c, f)
    <2>1. b \in 1..n /\ b < c
      BY <1>3, <1>6
    <2>2. c \in starts
      <3>1. command[c] # SPACE
        BY <1>6 DEF Word, Solid
      <3>2. c - 1 \in (e + 1)..(c - 1)
        BY <1>6
      <3>3. command[c - 1] = SPACE
        BY <1>6, <3>2 DEF Blank
      <3>4. QED
        BY <1>3, <3>1, <3>3
    <2>3. ASSUME NEW i \in starts PROVE i = b \/ c <= i
      <3>1. i \in 1..n /\ command[i] # SPACE
        BY <1>3
      <3>2. i = b \/ e < i
        BY <1>6
      <3>3. e < i /\ i < c => i \in (e + 1)..(c - 1)
        BY <3>1
      <3>4. ~(e < i /\ i < c)
        BY <1>6, <3>1, <3>3 DEF Blank
      <3>5. QED
        BY <3>1, <3>2, <3>4
    <2>4. WordOrNone(Words(command), 2) = WordFrom(command, c)
      BY <1>1, <2>1, <2>2, <2>3, WordsSecond DEF starts
    <2>5. WordFrom(command, c) = SubSeq(command, c, f)
      <3>1. Len(command) \in Nat /\ c \in Nat /\ f \in 1..Len(command)
        BY <1>1
      <3>2. Word(command, c, f)
        BY <1>6
      <3>3. f = Len(command) \/ command[f + 1] = SPACE
        BY <1>6
      <3>4. WholeWord(command, c, f)
        BY <3>1, <3>2, <3>3, Zenon DEF WholeWord
      <3>5. QED
        BY <3>4, WordFromIs, Zenon
    <2>6. QED
      BY <2>4, <2>5
  <1>7. CASE st.in = "name"
    <2>1. PICK b \in 1..n : /\ Blank(command, 1, b - 1) /\ Word(command, b, n)
                            /\ st.name = SubSeq(command, b, n) /\ st.arg = <<>>
      BY <1>2, <1>7 DEF Found
    <2>2. n \in 1..n
      BY <1>1, <2>1
    <2>3. /\ b \in starts /\ \A i \in starts : b <= i /\ (i = b \/ n < i)
          /\ WordOrNone(Words(command), 1) = SubSeq(command, b, n)
      BY <1>5, <2>1, <2>2
    <2>4. starts = {b}
      BY <1>1, <1>3, <2>3
    <2>5. WordOrNone(Words(command), 2) = <<>>
      BY <1>1, <2>4, WordsOne DEF starts
    <2>6. QED
      BY <2>1, <2>3, <2>5 DEF st
  <1>8. CASE st.in = "between"
    <2>1. PICK b \in 1..n, e \in 1..n :
             /\ Blank(command, 1, b - 1) /\ Word(command, b, e)
             /\ e < n /\ Blank(command, e + 1, n)
             /\ st.name = SubSeq(command, b, e) /\ st.arg = <<>>
      BY <1>2, <1>8 DEF Found
    <2>2. command[e + 1] = SPACE
      BY <1>1, <2>1 DEF Blank
    <2>3. /\ b \in starts /\ \A i \in starts : b <= i /\ (i = b \/ e < i)
          /\ WordOrNone(Words(command), 1) = SubSeq(command, b, e)
      BY <1>5, <2>1, <2>2
    <2>4. starts = {b}
      <3>1. \A i \in starts : ~(e < i)
        BY <1>1, <1>3, <2>1 DEF Blank
      <3>2. QED
        BY <2>3, <3>1
    <2>5. WordOrNone(Words(command), 2) = <<>>
      BY <1>1, <2>4, WordsOne DEF starts
    <2>6. QED
      BY <2>1, <2>3, <2>5 DEF st
  <1>9. CASE st.in = "arg"
    <2>1. PICK b \in 1..n, e \in 1..n, c \in 1..n :
             /\ Blank(command, 1, b - 1) /\ Word(command, b, e)
             /\ e + 1 < c /\ Blank(command, e + 1, c - 1) /\ Word(command, c, n)
             /\ st.name = SubSeq(command, b, e) /\ st.arg = SubSeq(command, c, n)
      BY <1>2, <1>9 DEF Found
    <2>2. command[e + 1] = SPACE /\ n \in 1..n /\ b <= e
      BY <1>1, <2>1 DEF Blank, Word
    <2>3. /\ b \in starts /\ \A i \in starts : b <= i /\ (i = b \/ e < i)
          /\ WordOrNone(Words(command), 1) = SubSeq(command, b, e)
      BY <1>5, <2>1, <2>2
    <2>4. WordOrNone(Words(command), 2) = SubSeq(command, c, n)
      BY <1>6, <2>1, <2>2, <2>3
    <2>5. QED
      BY <2>1, <2>3, <2>4 DEF st
  <1>10. CASE st.in = "behind"
    <2>1. PICK b \in 1..n, e \in 1..n, c \in 1..n, f \in 1..n :
             /\ Blank(command, 1, b - 1) /\ Word(command, b, e)
             /\ e + 1 < c /\ Blank(command, e + 1, c - 1) /\ Word(command, c, f)
             /\ command[f + 1] = SPACE
             /\ st.name = SubSeq(command, b, e) /\ st.arg = SubSeq(command, c, f)
      BY <1>2, <1>10 DEF Found
    <2>2. command[e + 1] = SPACE /\ b <= e
      BY <1>1, <2>1 DEF Blank, Word
    <2>3. /\ b \in starts /\ \A i \in starts : b <= i /\ (i = b \/ e < i)
          /\ WordOrNone(Words(command), 1) = SubSeq(command, b, e)
      BY <1>5, <2>1, <2>2
    <2>4. WordOrNone(Words(command), 2) = SubSeq(command, c, f)
      BY <1>6, <2>1, <2>2, <2>3
    <2>5. QED
      BY <2>1, <2>3, <2>4 DEF st
  <1>11. QED
    BY <1>2, <1>4, <1>7, <1>8, <1>9, <1>10 DEF Found

\* What execute does with a command.
Obeyed(command, outcome) ==
    LET words == Words(command)
        name == WordOrNone(words, 1)
        arg == WordOrNone(words, 2)
    IN  /\ Len(name) >= MAX_NAME_SIZE \/ Len(arg) > MAX_ARG_SIZE => outcome.overrun
        /\ Len(name) < MAX_NAME_SIZE /\ Len(arg) < MAX_ARG_SIZE => ~outcome.overrun
        /\ outcome.started =>
              /\ outcome.entry = Min(Named(name))
              /\ outcome.arg = arg /\ Len(arg) < MAX_ARG_SIZE
              /\ dir_entries[outcome.entry].exe \/ dir_entries[outcome.entry].size < MIN_READ_ELF_SIZE
        /\ ~outcome.started /\ ~outcome.overrun =>
              \/ Named(name) = {}
              \/ ~dir_entries[Min(Named(name))].exe

LEMMA ExecuteObeys ==
    ASSUME NEW command \in Seq(Chars), NEW outcome \in ExecuteOutcomes(command)
    PROVE  Obeyed(command, outcome)
  <1> DEFINE words == Words(command)
             name == WordOrNone(words, 1)
             arg == WordOrNone(words, 2)
             st == Parse(command)
             entry == DentryByName(CString(st.name, NUL, FILE_NAME_SIZE + 1))
  <1>1. st.name = name /\ st.arg = arg
    BY ParseIs
  <1>2. /\ st \in ParseStates /\ StoredInside(st)
    BY ParseFound
  <1>3. IsString(name) /\ Len(name) \in Nat /\ Len(arg) \in Nat /\ st.stored \in Bytes
    BY <1>1, <1>2 DEF ParseStates, Texts, Chars, IsString
  <1> HIDE DEF name, arg, st
  <1>4. entry = IF Named(name) = {} THEN -1 ELSE Min(Named(name))
    <2> DEFINE fname == CString(name, NUL, FILE_NAME_SIZE + 1)
    <2>1. Shows(fname, name, FILE_NAME_SIZE)
      BY <1>3, SizesAssumption, CStringShows
    <2> HIDE DEF fname
    <2>2. DentryByName(fname) = IF Named(name) = {} THEN -1 ELSE Min(Named(name))
      BY <1>3, <2>1, DentryByNameIs
    <2>3. QED
      BY <1>1, <2>2 DEF fname
  <1>5. IF LeavesArrays(st) THEN outcome = Overrun
        ELSE outcome \in IF entry = -1 THEN {Refused}
                         ELSE {IF magic THEN StartOutcome(entry, st.arg)
                                        ELSE Refused : magic \in MagicOutcomes(dir_entries[entry])}
    BY DEF ExecuteOutcomes, st
  <1> HIDE DEF entry
  <1>6. /\ LeavesArrays(st) => ~(Len(name) < MAX_NAME_SIZE /\ Len(arg) < MAX_ARG_SIZE)
        /\ Len(name) >= MAX_NAME_SIZE \/ Len(arg) > MAX_ARG_SIZE => LeavesArrays(st)
    <2>1. \A byte \in st.stored :
             byte[2] \in Nat /\ byte[2] <= IF byte[1] = "name" THEN Len(name) ELSE Len(arg)
      BY <1>1, <1>2, <1>3 DEF StoredInside, Bytes
    <2>2. ASSUME Len(arg) > MAX_ARG_SIZE PROVE LeavesArrays(st)
      <3>1. MAX_ARG_SIZE \in 0..(Len(arg) - 1)
        BY <1>3, <2>2, SizesAssumption
      <3>2. <<"arg", MAX_ARG_SIZE>> \in st.stored
        BY <1>1, <1>2, <3>1 DEF StoredInside
      <3>3. <<"arg", MAX_ARG_SIZE>>[2] >= ArraySize(<<"arg", MAX_ARG_SIZE>>[1])
        BY SizesAssumption DEF ArraySize
      <3>4. QED
        BY <3>2, <3>3 DEF LeavesArrays
    <2>3. QED
      BY <1>1, <1>3, <2>1, <2>2, SizesAssumption DEF LeavesArrays, ArraySize
  <1>7. CASE LeavesArrays(st)
    <2>1. outcome.overrun /\ ~outcome.started
      BY <1>5, <1>7 DEF Overrun, Refused
    <2>2. QED
      BY <1>3, <1>6, <1>7, <2>1, SizesAssumption DEF Obeyed, name, arg
  <1>8. CASE ~LeavesArrays(st) /\ Named(name) = {}
    <2>1. outcome = Refused
      BY <1>4, <1>5, <1>8
    <2>2. ~outcome.started /\ ~outcome.overrun
      BY <2>1 DEF Refused
    <2>3. QED
      BY <1>3, <1>6, <1>8, <2>2, SizesAssumption DEF Obeyed, name, arg
  <1>9. CASE ~LeavesArrays(st) /\ Named(name) # {}
    <2>1. entry = Min(Named(name)) /\ entry \in DOMAIN dir_entries /\ entry \in Nat
      BY <1>4, <1>9, NamedFacts
    <2>2. entry # -1
      BY <2>1
    <2>3. PICK magic \in MagicOutcomes(dir_entries[entry]) :
             outcome = IF magic THEN StartOutcome(entry, arg) ELSE Refused
      BY <1>1, <1>5, <1>9, <2>2
    <2>4. /\ dir_entries[entry].exe \in BOOLEAN /\ dir_entries[entry].size \in Nat
          /\ dir_entries[entry].exe => dir_entries[entry].size >= MIN_READ_ELF_SIZE
      BY <2>1, DirectoryAssumption
    <2>5. /\ magic \in BOOLEAN
          /\ magic => dir_entries[entry].exe \/ dir_entries[entry].size < MIN_READ_ELF_SIZE
          /\ ~magic => ~dir_entries[entry].exe
      <3>1. CASE dir_entries[entry].size < MIN_READ_ELF_SIZE
        <4>1. MagicOutcomes(dir_entries[entry]) = BOOLEAN
          BY <3>1 DEF MagicOutcomes
        <4>2. ~dir_entries[entry].exe
          BY <2>4, <3>1 DEF MIN_READ_ELF_SIZE
        <4>3. QED
          BY <2>3, <3>1, <4>1, <4>2
      <3>2. CASE ~(dir_entries[entry].size < MIN_READ_ELF_SIZE)
        <4>1. magic = dir_entries[entry].exe
          BY <2>3, <3>2 DEF MagicOutcomes
        <4>2. QED
          BY <2>4, <4>1
      <3>3. QED
        BY <3>1, <3>2
    <2>6. CASE magic /\ Len(arg) < MAX_ARG_SIZE
      <3>1. /\ outcome.started /\ ~outcome.overrun
            /\ outcome.entry = Min(Named(name)) /\ outcome.arg = arg
        BY <1>3, <2>1, <2>3, <2>6, SizesAssumption DEF StartOutcome, Started
      <3>2. QED
        BY <1>3, <1>6, <1>9, <2>1, <2>5, <2>6, <3>1, SizesAssumption DEF Obeyed, name, arg
    <2>7. CASE magic /\ ~(Len(arg) < MAX_ARG_SIZE)
      <3>1. outcome.overrun /\ ~outcome.started
        BY <1>3, <2>3, <2>7, SizesAssumption DEF StartOutcome, Overrun, Refused
      <3>2. QED
        BY <2>7, <3>1 DEF Obeyed, name, arg
    <2>8. CASE ~magic
      <3>1. ~outcome.started /\ ~outcome.overrun
        BY <2>3, <2>8 DEF Refused
      <3>2. ~dir_entries[Min(Named(name))].exe
        BY <2>1, <2>5, <2>8
      <3>3. QED
        BY <1>3, <1>6, <1>9, <3>1, <3>2, SizesAssumption DEF Obeyed, name, arg
    <2>9. QED
      BY <2>6, <2>7, <2>8
  <1>10. QED
    BY <1>7, <1>8, <1>9

LEMMA CommandsObeyedStep == CallInv /\ CommandsObeyed /\ [Return]_vars => CommandsObeyed'
  <1> SUFFICES ASSUME CallInv, CommandsObeyed, [Return]_vars PROVE CommandsObeyed'
    OBVIOUS
  <1>1. CASE result' = result
    BY <1>1, StepReturns DEF CommandsObeyed, Returned
  <1>2. CASE Return
    <2> DEFINE a == call.args
               v == result'.val
    <2>1. call' = call
      BY <1>2 DEF Return
    <2>2. Returned("execute")' => Obeyed(a, v)
      <3> SUFFICES ASSUME call.op = "execute" PROVE Obeyed(a, v)
        BY <2>1 DEF Returned
      <3>1. v \in ExecuteOutcomes(a)
        BY <1>2 DEF Return, Returns
      <3>2. a \in Seq(Chars)
        <4>1. a \in BoundedSeq(Letters \cup {SPACE}, CommandLength) /\ CommandLength \in Nat
          BY BoundsAssumption DEF CallInv
        <4>2. QED
          BY <4>1, BoundedFacts DEF IsString, Chars
      <3>3. QED
        BY <3>1, <3>2, ExecuteObeys
    <2>3. Returned("lookup")' => v = IF Named(a) = {} THEN -1 ELSE Min(Named(a))
      <3> SUFFICES ASSUME call.op = "lookup"
                   PROVE  v = IF Named(a) = {} THEN -1 ELSE Min(Named(a))
        BY <2>1 DEF Returned
      <3>1. v = DentryByName(InMemory(a))
        BY <1>2 DEF Return, Returns
      <3>2. IsString(a)
        <4>1. a \in BoundedSeq(Letters, FILE_NAME_SIZE + 1) /\ FILE_NAME_SIZE + 1 \in Nat
          BY SizesAssumption DEF CallInv
        <4>2. QED
          BY <4>1, LettersFacts
      <3>3. Shows(InMemory(a), a, FILE_NAME_SIZE)
        <4>1. SIZE \in Nat /\ FILE_NAME_SIZE \in Nat /\ FILE_NAME_SIZE <= SIZE
          BY SizesAssumption, BoundsAssumption
        <4>2. QED
          BY <3>2, <4>1, CStringShows DEF InMemory
      <3>4. QED
        BY <3>1, <3>2, <3>3, DentryByNameIs
    <2>4. Returned("getargs")' =>
             IF a[2] < Len(a[1])
               THEN v = [val |-> -1, buf |-> Memory]
               ELSE v.val = 0 /\ strlen(v.buf) = Len(a[1])
                      /\ \A i \in DOMAIN a[1] : v.buf[i - 1] = a[1][i]
      <3> SUFFICES ASSUME call.op = "getargs"
                   PROVE  IF a[2] < Len(a[1])
                            THEN v = [val |-> -1, buf |-> Memory]
                            ELSE v.val = 0 /\ strlen(v.buf) = Len(a[1])
                                   /\ \A i \in DOMAIN a[1] : v.buf[i - 1] = a[1][i]
        BY <2>1 DEF Returned
      <3> DEFINE s == a[1]
                 n == a[2]
      <3>1. v = getargs(InMemory(s), Memory, n) /\ s \in Strings
        BY <1>2 DEF Return, Returns, CallInv
      <3>2. IsString(s) /\ Len(s) < SIZE
        BY <3>1, StringFacts
      <3> HIDE DEF s, n, v
      <3>3. strlen(InMemory(s)) = Len(s) /\ DOMAIN s = 1..Len(s)
        BY <3>2, MemoryFacts, strlenIs DEF InMemory, IsString
      <3>4. CASE n < Len(s)
        BY <3>1, <3>3, <3>4 DEF getargs, s, n
      <3>5. CASE ~(n < Len(s))
        <4>1. v.val = 0 /\ v.buf = strcpy(Memory, InMemory(s))
          BY <3>1, <3>3, <3>5 DEF getargs
        <4>2. strlen(v.buf) = Len(s) /\ \A i \in 1..Len(s) : v.buf[i - 1] = s[i]
          BY <3>2, <4>1, getargsCopies
        <4>3. QED
          BY <3>3, <3>5, <4>1, <4>2 DEF s, n
      <3>6. QED
        BY <3>4, <3>5
    <2>5. QED
      BY <2>1, <2>2, <2>3, <2>4 DEF CommandsObeyed, Obeyed
  <1>3. QED
    BY <1>1, <1>2, StepReturns

\* A command starts a program only if its first word is the name of an
\* executable file, with the second word as argument; execute touches the stack
\* behind its arrays for every command whose first word does not fit with its NUL or
\* whose second is longer than its array, and for none whose two words both fit; a
\* name finds the first entry it equals, and getargs gives a program its argument
\* whole or not at all: for commands, directories and arrays of any size.
\* (system_call.c: execute, getargs; file_sys_module.c: read_dentry_by_name)
THEOREM CommandsObeyedCorrect == Spec => []CommandsObeyed
  <1>1. Init => CommandsObeyed
    BY DEF Init, CommandsObeyed, Returned, Running
  <1>2. QED
    BY <1>1, CallInvHolds, CommandsObeyedStep, PTL DEF Spec

-----------------------------------------------------------------------------
(* printf.                                                                   *)

\* The powers of 16 up to the number of numbers.
Powers(f, m) == f = [i \in 0..m |-> IF i = 0 THEN 1 ELSE 16 * f[i - 1]]

LEMMA PowersFollow ==
    ASSUME NEW n \in Nat
    PROVE  \E f : Powers(f, n)
  <1> DEFINE After(f, i) == IF i = 0 THEN 1 ELSE 16 * f[i - 1]
             Upto(f, m) == f = [i \in 0..m |-> After(f, i)]
             S == {m \in Nat : \E f : Upto(f, m)}
  <1>1. 0 \in S
    <2> DEFINE f == [i \in 0..0 |-> 1]
    <2>1. Upto(f, 0)
      <3>1. \A i \in 0..0 : After(f, i) = 1
        OBVIOUS
      <3> HIDE DEF After
      <3>2. QED
        BY <3>1
    <2> HIDE DEF Upto
    <2>2. QED
      BY <2>1
  <1>2. ASSUME NEW m \in S PROVE m + 1 \in S
    <2>1. PICK f : Upto(f, m)
      BY <1>2
    <2> DEFINE g == [i \in 0..(m + 1) |-> IF i <= m THEN f[i] ELSE After(f, m + 1)]
    <2>2. ASSUME NEW i \in 0..(m + 1) PROVE g[i] = After(g, i)
      <3>1. CASE i <= m
        <4>1. i \in 0..m /\ g[i] = f[i] /\ (i # 0 => i - 1 \in 0..(m + 1) /\ i - 1 <= m)
          BY <3>1
        <4>2. f[i] = After(f, i)
          BY <2>1, <4>1
        <4>3. i # 0 => g[i - 1] = f[i - 1]
          BY <4>1
        <4> HIDE DEF g
        <4>4. QED
          BY <4>1, <4>2, <4>3
      <3>2. CASE i = m + 1
        <4>1. g[i] = After(f, m + 1) /\ g[m] = f[m] /\ i - 1 = m /\ m + 1 - 1 = m /\ i # 0
          BY <3>2
        <4> HIDE DEF g
        <4>2. QED
          BY <3>2, <4>1
      <3>3. QED
        BY <3>1, <3>2
    <2>3. Upto(g, m + 1)
      <3>1. g = [i \in 0..(m + 1) |-> g[i]]
        OBVIOUS
      <3> HIDE DEF g, After
      <3>2. QED
        BY <2>2, <3>1
    <2> HIDE DEF Upto, g
    <2>4. QED
      BY <2>3
  <1>3. S = Nat
    <2>1. S \subseteq Nat
      OBVIOUS
    <2> HIDE DEF S
    <2>2. QED
      BY <1>1, <1>2, <2>1, Induction
  <1>4. QED
    BY <1>3 DEF Powers

\* HexDigits digits stand for as many numbers as there are.
LEMMA ModulusIs ==
    /\ HexDigits \in Nat \ {0}
    /\ \E f : /\ f[0] = 1 /\ \A i \in 1..HexDigits : f[i] = 16 * f[i - 1]
              /\ \A i \in 0..HexDigits : f[i] \in Nat \ {0}
              /\ Modulus = f[HexDigits]
  <1> DEFINE n == HexDigits
             power == CHOOSE f : Powers(f, n)
  <1>1. n \in Nat \ {0}
    BY WidthAssumption DEF HexDigits
  <1> HIDE DEF n
  <1>2. \E f : Powers(f, n)
    BY <1>1, PowersFollow
  <1>3. Powers(power, n)
    BY <1>2, Zenon
  <1>4. Modulus = power[n]
    BY Zenon DEF Modulus, Powers, n
  <1> HIDE DEF power
  <1>5. power[0] = 1 /\ \A i \in 1..n : power[i] = 16 * power[i - 1]
    BY <1>1, <1>3 DEF Powers
  <1> DEFINE S == {i \in Nat : i <= n => power[i] \in Nat \ {0}}
  <1>6. 0 \in S
    BY <1>5
  <1>7. ASSUME NEW i \in S PROVE i + 1 \in S
    <2>1. CASE i + 1 <= n
      <3>1. i + 1 \in 1..n /\ i + 1 - 1 = i /\ power[i] \in Nat \ {0}
        BY <1>1, <2>1
      <3>2. power[i + 1] = 16 * power[i]
        BY <1>5, <3>1
      <3>3. QED
        BY <3>1, <3>2
    <2>2. CASE ~(i + 1 <= n)
      BY <2>2
    <2>3. QED
      BY <2>1, <2>2
  <1>8. S = Nat
    <2>1. S \subseteq Nat
      OBVIOUS
    <2> HIDE DEF S
    <2>2. QED
      BY <1>6, <1>7, <2>1, Induction
  <1>9. \A i \in 0..n : power[i] \in Nat \ {0}
    BY <1>1, <1>8
  <1>10. QED
    BY <1>1, <1>4, <1>5, <1>9 DEF n

\* A number below a power of 16 has no more digits than that power.
LEMMA FewDigits ==
    ASSUME NEW value \in 0..(Modulus - 1)
    PROVE  Len(LowestFirst(value, 16)) \in 0..HexDigits
  <1> DEFINE n == HexDigits
  <1>1. PICK p : /\ p[0] = 1 /\ \A i \in 1..n : p[i] = 16 * p[i - 1]
                 /\ \A i \in 0..n : p[i] \in Nat \ {0}
                 /\ Modulus = p[n]
    BY ModulusIs
  <1>2. n \in Nat
    BY ModulusIs
  <1> HIDE DEF n
  <1>3. value \in Nat /\ value < p[n]
    BY <1>1, <1>2
  <1>4. PICK f : /\ \A v \in 0..value : f[v] = DigitsOf(f, v, 16)
                 /\ LowestFirst(value, 16) = f[value]
    <2>1. 16 \in Nat /\ 16 >= 2
      OBVIOUS
    <2>2. QED
      BY <1>3, <2>1, LowestFirstFollows
  <1> DEFINE Few(i) == \A v \in 0..value : v < p[i] => f[v] \in Seq(Digits) /\ Len(f[v]) <= i
             S == {i \in Nat : i <= n => Few(i)}
  <1>5. 0 \in S
    <2>1. ASSUME NEW v \in 0..value, v < p[0] PROVE f[v] \in Seq(Digits) /\ Len(f[v]) <= 0
      <3>1. v = 0
        BY <1>1, <2>1
      <3>2. f[v] = <<>>
        BY <1>4, <3>1 DEF DigitsOf
      <3>3. QED
        BY <3>2
    <2>2. QED
      BY <2>1
  <1>6. ASSUME NEW i \in S PROVE i + 1 \in S
    <2> SUFFICES ASSUME i + 1 <= n PROVE Few(i + 1)
      OBVIOUS
    <2>1. i \in 0..n /\ i + 1 \in 1..n /\ (i + 1) - 1 = i /\ Few(i)
      BY <1>2
    <2>2. p[i + 1] = 16 * p[i] /\ p[i] \in Nat \ {0}
      BY <1>1, <2>1
    <2>3. ASSUME NEW v \in 0..value, v < p[i + 1]
          PROVE  f[v] \in Seq(Digits) /\ Len(f[v]) <= i + 1
      <3>1. CASE v = 0
        <4>1. f[v] = <<>>
          BY <1>4, <3>1 DEF DigitsOf
        <4>2. QED
          BY <2>1, <4>1
      <3>2. CASE v # 0
        <4> DEFINE q == v \div 16
                   d == lookup[(v % 16) + 1]
        <4>1. q \in 0..value /\ q < p[i] /\ v % 16 \in 0..15
          BY <2>2, <2>3, <3>2
        <4>2. f[v] = <<d>> \o f[q]
          BY <1>4, <3>2 DEF DigitsOf
        <4>3. d \in Digits
          BY <4>1, DigitFacts
        <4> HIDE DEF q, d
        <4>4. f[q] \in Seq(Digits) /\ Len(f[q]) <= i
          BY <2>1, <4>1
        <4>5. <<d>> \in Seq(Digits) /\ Len(<<d>>) = 1
          BY <4>3
        <4> DEFINE s == f[q]
                   h == <<d>>
        <4>6. s \in Seq(Digits) /\ Len(s) <= i /\ h \in Seq(Digits) /\ Len(h) = 1 /\ f[v] = h \o s
          BY <4>2, <4>4, <4>5
        <4> HIDE DEF s, h
        <4>7. h \o s \in Seq(Digits) /\ Len(h \o s) = Len(h) + Len(s) /\ Len(s) \in Nat
          BY <4>6, ConcatProperties
        <4>8. QED
          BY <2>1, <4>6, <4>7
      <3>3. QED
        BY <3>1, <3>2
    <2>4. QED
      BY <2>3
  <1>7. S = Nat
    <2>1. S \subseteq Nat
      OBVIOUS
    <2> HIDE DEF S
    <2>2. QED
      BY <1>5, <1>6, <2>1, Induction
  <1>8. Few(n)
    BY <1>2, <1>7
  <1>9. f[value] \in Seq(Digits) /\ Len(f[value]) <= n
    BY <1>3, <1>8
  <1>10. QED
    BY <1>2, <1>4, <1>9 DEF n

\* A number has no more hexadecimal digits than numbers are wide.
LEMMA HexFits ==
    ASSUME NEW value \in 0..(Modulus - 1)
    PROVE  Len(itoa(value, 16)) \in 0..HexDigits
  <1>1. CASE value = 0
    BY <1>1, ModulusIs DEF itoa
  <1>2. CASE value # 0
    <2> DEFINE s == LowestFirst(value, 16)
    <2>1. s \in Seq(Digits)
      <3>1. 16 \in 2..16 /\ value \in Nat
        BY ModulusIs
      <3>2. QED
        BY <3>1, LowestFirstIs DEF IsLowestFirst
    <2>2. Len(s) \in 0..HexDigits
      BY FewDigits
    <2>3. itoa(value, 16) = Reverse(s)
      BY <1>2, <2>1, strrevReverses DEF itoa
    <2> HIDE DEF s
    <2>4. Len(Reverse(s)) = Len(s)
      BY <2>1 DEF Reverse
    <2>5. QED
      BY <2>2, <2>3, <2>4
  <1>3. QED
    BY <1>1, <1>2

\* Zeros in front of a numeral.
Zeros(k) == [i \in 1..k |-> "0"]

LEMMA ZeroDigit == "0" \in Digits /\ DigitValue("0") = 0
  <1>1. lookup[0 + 1] = "0" /\ 0 \in 0..15
    BY DEF lookup
  <1>2. QED
    BY <1>1, DigitFacts

LEMMA ZerosJoined ==
    ASSUME NEW k \in Nat, NEW d \in Seq(Digits)
    PROVE  /\ Zeros(k) \o d \in Seq(Digits) /\ Len(Zeros(k) \o d) = k + Len(d)
           /\ \A i \in 1..k : (Zeros(k) \o d)[i] = "0"
           /\ \A i \in 1..Len(d) : (Zeros(k) \o d)[k + i] = d[i]
  <1> DEFINE z == Zeros(k)
  <1>1. z \in Seq(Digits) /\ Len(z) = k /\ \A i \in 1..k : z[i] = "0"
    BY ZeroDigit DEF Zeros
  <1> HIDE DEF z
  <1>2. z \o d \in Seq(Digits) /\ Len(z \o d) = k + Len(d)
    BY <1>1, ConcatProperties
  <1>3. \A i \in 1..k : (z \o d)[i] = "0"
    BY <1>1
  <1>4. \A i \in 1..Len(d) : (z \o d)[k + i] = d[i]
    BY <1>1
  <1>5. QED
    BY <1>2, <1>3, <1>4 DEF z

LEMMA ZerosValue ==
    ASSUME NEW k \in Nat, NEW d \in Seq(Digits), NEW radix \in Nat
    PROVE  ValueOf(Zeros(k) \o d, radix) = ValueOf(d, radix)
  <1> DEFINE t == Zeros(k) \o d
             n == Len(d)
  <1>1. /\ t \in Seq(Digits) /\ Len(t) = k + n /\ n \in Nat
        /\ \A i \in 1..k : t[i] = "0"
        /\ \A i \in 1..n : t[k + i] = d[i]
    <2>1. n \in Nat
      OBVIOUS
    <2>2. QED
      BY <2>1, ZerosJoined, Zenon
  <1> HIDE DEF t
  <1>2. PICK f : Valued(f, d, radix) /\ ValueOf(d, radix) = f[n]
    BY <1>1, ValueOfFollows
  <1> HIDE DEF n
  <1>3. PICK g : Valued(g, t, radix) /\ ValueOf(t, radix) = g[k + n]
    BY <1>1, ValueOfFollows
  <1>4. /\ f[0] = 0 /\ \A i \in 1..n : f[i] = f[i - 1] * radix + DigitValue(d[i])
    <2>1. f = [i \in 0..n |-> IF i = 0 THEN 0 ELSE f[i - 1] * radix + DigitValue(d[i])]
      BY <1>2 DEF Valued, n
    <2>2. QED
      BY <1>1, <2>1
  <1>5. /\ g[0] = 0 /\ \A i \in 1..(k + n) : g[i] = g[i - 1] * radix + DigitValue(t[i])
    <2>1. g = [i \in 0..(k + n) |-> IF i = 0 THEN 0 ELSE g[i - 1] * radix + DigitValue(t[i])]
      BY <1>1, <1>3 DEF Valued
    <2>2. QED
      BY <1>1, <2>1
  <1>6. g[k] = 0
    <2>1. PICK z : z = [i \in 0..k |-> 0]
      OBVIOUS
    <2>2. z[0] = 0 /\ z[k] = 0 /\ g[0] = z[0]
      BY <1>5, <2>1
    <2>3. \A i \in 1..k : g[i - 1] = z[i - 1] => g[i] = z[i]
      <3> SUFFICES ASSUME NEW i \in 1..k, g[i - 1] = z[i - 1] PROVE g[i] = z[i]
        OBVIOUS
      <3>1. i \in 1..(k + n) /\ t[i] = "0" /\ g[i - 1] = 0 /\ z[i] = 0
        BY <1>1, <2>1
      <3>2. 0 * radix + 0 = 0
        OBVIOUS
      <3>3. QED
        BY <1>5, <3>1, <3>2, ZeroDigit
    <2>4. GoAlike(g, z, k)
      BY <2>2, <2>3 DEF GoAlike
    <2>5. Alike(g, z, k)
      BY <2>4, GoingAlike
    <2>6. QED
      BY <2>2, <2>5 DEF Alike
  <1>7. g[k + n] = f[n]
    <2>1. PICK h : h = [i \in 0..n |-> g[k + i]]
      OBVIOUS
    <2>2. n \in Nat /\ h[0] = f[0] /\ h[n] = g[k + n]
      BY <1>1, <1>4, <1>6, <2>1
    <2>3. \A i \in 1..n : h[i - 1] = f[i - 1] => h[i] = f[i]
      <3> SUFFICES ASSUME NEW i \in 1..n, h[i - 1] = f[i - 1] PROVE h[i] = f[i]
        OBVIOUS
      <3>1. /\ k + i \in 1..(k + n) /\ t[k + i] = d[i] /\ h[i] = g[k + i]
            /\ h[i - 1] = g[k + (i - 1)] /\ (k + i) - 1 = k + (i - 1)
        BY <1>1, <2>1
      <3>2. g[k + i] = g[(k + i) - 1] * radix + DigitValue(t[k + i])
        BY <1>5, <3>1
      <3>3. f[i] = f[i - 1] * radix + DigitValue(d[i])
        BY <1>4
      <3>4. QED
        BY <3>1, <3>2, <3>3
    <2>4. GoAlike(h, f, n)
      BY <2>2, <2>3 DEF GoAlike
    <2>5. Alike(h, f, n)
      BY <2>2, <2>4, GoingAlike
    <2>6. QED
      BY <2>2, <2>5 DEF Alike
  <1>8. QED
    BY <1>2, <1>3, <1>7 DEF t

\* What %#x prints.
LEMMA PaddedIs ==
    ASSUME NEW value \in 0..(Modulus - 1)
    PROVE  /\ Padded(itoa(value, 16)) \in Seq(Digits)
           /\ Len(Padded(itoa(value, 16))) = HexDigits
           /\ ValueOf(Padded(itoa(value, 16)), 16) = value
  <1> DEFINE d == itoa(value, 16)
             k == HexDigits - Len(d)
  <1>1. value \in Nat /\ HexDigits \in Nat
    BY ModulusIs
  <1>2. Len(d) \in 0..HexDigits
    BY HexFits
  <1>3. d \in Seq(Digits) /\ ValueOf(d, 16) = value
    <2>1. 16 \in 2..16
      OBVIOUS
    <2>2. QED
      BY <1>1, <2>1, itoaIs DEF IsNumeral
  <1>4. Padded(d) = Zeros(k) \o d
    BY DEF Padded, Zeros
  <1> HIDE DEF d
  <1>5. k \in Nat /\ k + Len(d) = HexDigits
    BY <1>1, <1>2
  <1> HIDE DEF k
  <1>6. ValueOf(Zeros(k) \o d, 16) = ValueOf(d, 16)
    <2>1. 16 \in Nat
      OBVIOUS
    <2>2. QED
      BY <1>3, <1>5, <2>1, ZerosValue
  <1>7. Zeros(k) \o d \in Seq(Digits) /\ Len(Zeros(k) \o d) = k + Len(d)
    BY <1>3, <1>5, ZerosJoined
  <1>8. QED
    BY <1>3, <1>4, <1>5, <1>6, <1>7 DEF d

\* What %d prints of a number of half the numbers and above.
LEMMA SignedIs ==
    ASSUME NEW value \in 0..(Modulus - 1), ~(value < Modulus \div 2)
    PROVE  /\ SignedDigits(value) = <<"-">> \o itoa(Modulus - value, 10)
           /\ Modulus - value \in Nat
  <1>1. PICK p : /\ p[0] = 1 /\ \A i \in 1..HexDigits : p[i] = 16 * p[i - 1]
                 /\ \A i \in 0..HexDigits : p[i] \in Nat \ {0}
                 /\ Modulus = p[HexDigits]
    BY ModulusIs
  <1>2. HexDigits \in Nat \ {0}
    BY ModulusIs
  <1>3. HexDigits - 1 \in 0..HexDigits /\ HexDigits \in 1..HexDigits
    BY <1>2
  <1>4. PICK m \in Nat \ {0} : Modulus = 16 * m
    BY <1>1, <1>3
  <1>5. Modulus \div 2 = 8 * m
    BY <1>4
  <1>6. value > 0
    BY <1>4, <1>5
  <1>7. (Modulus - value) % Modulus = Modulus - value
    BY <1>4, <1>6
  <1>8. value >= Modulus \div 2
    BY <1>4, <1>5
  <1>9. QED
    BY <1>4, <1>7, <1>8 DEF SignedDigits

\* printf of one more character.
LEMMA PrintNone == ASSUME NEW args PROVE printf(<<>>, args) = PrintStart(args)
  <1> DEFINE Follows(f) == f = [i \in 0..Len(<<>>) |->
                                  IF i = 0 THEN PrintStart(args) ELSE PrintChar(f[i - 1], <<>>[i])]
             after == CHOOSE f : Follows(f)
  <1>1. printf(<<>>, args) = after[Len(<<>>)]
    BY Zenon DEF printf
  <1>2. Len(<<>>) = 0 /\ 0..Len(<<>>) = {0}
    OBVIOUS
  <1>3. Follows([i \in {0} |-> PrintStart(args)])
    BY <1>2
  <1>4. Follows(after)
    <2> HIDE DEF Follows
    <2>1. QED
      BY <1>3, Zenon
  <1> HIDE DEF after
  <1>5. after[0] = PrintStart(args)
    BY <1>2, <1>4
  <1>6. QED
    BY <1>1, <1>2, <1>5

Printed(f, s, args) ==
    f = [i \in 0..Len(s) |-> IF i = 0 THEN PrintStart(args) ELSE PrintChar(f[i - 1], s[i])]

LEMMA PrintFollows ==
    ASSUME NEW s, Len(s) \in Nat, NEW args
    PROVE  \E f : Printed(f, s, args) /\ printf(s, args) = f[Len(s)]
  <1> DEFINE After(f, i) == IF i = 0 THEN PrintStart(args) ELSE PrintChar(f[i - 1], s[i])
             Upto(f, m) == f = [i \in 0..m |-> After(f, i)]
             S == {m \in Nat : \E f : Upto(f, m)}
             after == CHOOSE f : Printed(f, s, args)
  <1>1. 0 \in S
    <2> DEFINE f == [i \in 0..0 |-> PrintStart(args)]
    <2>1. Upto(f, 0)
      <3>1. \A i \in 0..0 : After(f, i) = PrintStart(args)
        OBVIOUS
      <3> HIDE DEF After
      <3>2. QED
        BY <3>1
    <2> HIDE DEF Upto
    <2>2. QED
      BY <2>1
  <1>2. ASSUME NEW m \in S PROVE m + 1 \in S
    <2>1. PICK f : Upto(f, m)
      BY <1>2
    <2> DEFINE g == [i \in 0..(m + 1) |-> IF i <= m THEN f[i] ELSE After(f, m + 1)]
    <2>2. ASSUME NEW i \in 0..(m + 1) PROVE g[i] = After(g, i)
      <3>1. CASE i <= m
        <4>1. i \in 0..m /\ g[i] = f[i] /\ (i # 0 => i - 1 \in 0..(m + 1) /\ i - 1 <= m)
          BY <3>1
        <4>2. f[i] = After(f, i)
          BY <2>1, <4>1
        <4>3. i # 0 => g[i - 1] = f[i - 1]
          BY <4>1
        <4> HIDE DEF g
        <4>4. QED
          BY <4>1, <4>2, <4>3
      <3>2. CASE i = m + 1
        <4>1. g[i] = After(f, m + 1) /\ g[m] = f[m] /\ i - 1 = m /\ m + 1 - 1 = m /\ i # 0
          BY <3>2
        <4> HIDE DEF g
        <4>2. QED
          BY <3>2, <4>1
      <3>3. QED
        BY <3>1, <3>2
    <2>3. Upto(g, m + 1)
      <3>1. g = [i \in 0..(m + 1) |-> g[i]]
        OBVIOUS
      <3> HIDE DEF g, After
      <3>2. QED
        BY <2>2, <3>1
    <2> HIDE DEF Upto, g
    <2>4. QED
      BY <2>3
  <1>3. S = Nat
    <2>1. S \subseteq Nat
      OBVIOUS
    <2> HIDE DEF S
    <2>2. QED
      BY <1>1, <1>2, <2>1, Induction
  <1>4. \E f : Printed(f, s, args)
    BY <1>3 DEF Printed
  <1>5. Printed(after, s, args)
    BY <1>4, Zenon
  <1>6. printf(s, args) = after[Len(s)]
    BY Zenon DEF printf, Printed
  <1>7. QED
    BY <1>5, <1>6, Zenon

LEMMA PrintAppend ==
    ASSUME NEW S, NEW s \in Seq(S), NEW c \in S, NEW args
    PROVE  printf(Append(s, c), args) = PrintChar(printf(s, args), c)
  <1> DEFINE t == Append(s, c)
             n == Len(s)
  <1>1. /\ n \in Nat /\ Len(t) = n + 1 /\ t[n + 1] = c
        /\ \A i \in 1..n : t[i] = s[i]
    BY AppendProperties
  <1>2. PICK f : Printed(f, s, args) /\ printf(s, args) = f[n]
    BY <1>1, PrintFollows
  <1>3. PICK g : Printed(g, t, args) /\ printf(t, args) = g[n + 1]
    <2> HIDE DEF t, n
    <2>1. QED
      BY <1>1, PrintFollows
  <1> HIDE DEF t
  <1>4. /\ f[0] = PrintStart(args) /\ \A i \in 1..n : f[i] = PrintChar(f[i - 1], s[i])
    <2>1. f = [i \in 0..n |-> IF i = 0 THEN PrintStart(args) ELSE PrintChar(f[i - 1], s[i])]
      BY <1>2 DEF Printed
    <2> HIDE DEF n
    <2>2. QED
      BY <1>1, <2>1
  <1>5. /\ g[0] = PrintStart(args) /\ \A i \in 1..(n + 1) : g[i] = PrintChar(g[i - 1], t[i])
    <2>1. g = [i \in 0..(n + 1) |-> IF i = 0 THEN PrintStart(args) ELSE PrintChar(g[i - 1], t[i])]
      BY <1>1, <1>3 DEF Printed
    <2> HIDE DEF n
    <2>2. QED
      BY <1>1, <2>1
  <1> HIDE DEF n
  <1>6. \A i \in 1..n : f[i - 1] = g[i - 1] => f[i] = g[i]
    BY <1>1, <1>4, <1>5
  <1>7. f[n] = g[n]
    <2>1. f[0] = g[0]
      BY <1>4, <1>5
    <2>2. n \in Nat
      BY <1>1
    <2>3. \A i \in 0..n : f[i] = g[i]
      BY <1>6, <2>1, <2>2, SameSteps, Zenon
    <2>4. QED
      BY <2>2, <2>3
  <1>8. g[n + 1] = PrintChar(g[n], c)
    <2>1. n + 1 \in 1..(n + 1) /\ n + 1 - 1 = n
      BY <1>1
    <2>2. QED
      BY <1>1, <1>5, <2>1
  <1>9. QED
    BY <1>2, <1>3, <1>7, <1>8 DEF t

\* A list of sequences joined, as far as each of them.
Join(s, t) == s \o t

Joins(f, ss) == f[0] = <<>> /\ \A i \in 1..Len(ss) : f[i] = Join(f[i - 1], ss[i])

LEMMA JoinFacts ==
    ASSUME NEW S, NEW s \in Seq(S), NEW t \in Seq(S)
    PROVE  Join(s, t) \in Seq(S) /\ Join(<<>>, t) = t
  <1>1. s \o t \in Seq(S)
    BY ConcatProperties
  <1>2. <<>> \o t = t
    OBVIOUS
  <1>3. QED
    BY <1>1, <1>2 DEF Join

LEMMA FlattenFollows ==
    ASSUME NEW S, NEW ss \in Seq(Seq(S))
    PROVE  \E f : /\ Joins(f, ss) /\ FlattenSeq(ss) = f[Len(ss)]
                  /\ \A i \in 0..Len(ss) : f[i] \in Seq(S)
  <1> DEFINE n == Len(ss)
             After(f, i) == IF i = 1 THEN ss[i] ELSE Join(f[i - 1], ss[i])
             Upto(f, m) == f = [i \in 1..m |-> After(f, i)]
             A == {m \in Nat : \E f : Upto(f, m)}
             flatten == CHOOSE f : Upto(f, n)
             joined == [i \in 0..n |-> IF i = 0 THEN <<>> ELSE flatten[i]]
  <1>1. n \in Nat /\ \A i \in 1..n : ss[i] \in Seq(S)
    OBVIOUS
  <1>2. 0 \in A
    <2> DEFINE f == [i \in 1..0 |-> <<>>]
    <2>1. Upto(f, 0)
      <3>1. \A i \in 1..0 : After(f, i) = <<>>
        OBVIOUS
      <3> HIDE DEF After
      <3>2. QED
        BY <3>1
    <2> HIDE DEF Upto
    <2>2. QED
      BY <2>1
  <1>3. ASSUME NEW m \in A PROVE m + 1 \in A
    <2>1. PICK f : Upto(f, m)
      BY <1>3
    <2> DEFINE g == [i \in 1..(m + 1) |-> IF i <= m THEN f[i] ELSE After(f, m + 1)]
    <2>2. ASSUME NEW i \in 1..(m + 1) PROVE g[i] = After(g, i)
      <3>1. CASE i <= m
        <4>1. i \in 1..m /\ g[i] = f[i] /\ (i # 1 => i - 1 \in 1..(m + 1) /\ i - 1 <= m)
          BY <3>1
        <4>2. f[i] = After(f, i)
          BY <2>1, <4>1
        <4>3. i # 1 => g[i - 1] = f[i - 1]
          BY <4>1
        <4> HIDE DEF g
        <4>4. QED
          BY <4>1, <4>2, <4>3
      <3>2. CASE i = m + 1
        <4>1. /\ g[i] = After(f, m + 1) /\ i - 1 = m /\ m + 1 - 1 = m
              /\ m # 0 => g[m] = f[m]
          BY <3>2
        <4>2. i # 1 => m # 0
          BY <3>2
        <4> HIDE DEF g
        <4>3. QED
          BY <3>2, <4>1, <4>2
      <3>3. QED
        BY <3>1, <3>2
    <2>3. Upto(g, m + 1)
      <3>1. g = [i \in 1..(m + 1) |-> g[i]]
        OBVIOUS
      <3> HIDE DEF g, After
      <3>2. QED
        BY <2>2, <3>1
    <2> HIDE DEF Upto, g
    <2>4. QED
      BY <2>3
  <1>4. A = Nat
    <2>1. A \subseteq Nat
      OBVIOUS
    <2> HIDE DEF A
    <2>2. QED
      BY <1>2, <1>3, <2>1, Induction
  <1>5. \E f : Upto(f, n)
    BY <1>1, <1>4
  <1>6. Upto(flatten, n)
    <2> HIDE DEF Upto
    <2>1. QED
      BY <1>5, Zenon
  <1>7. FlattenSeq(ss) = IF n = 0 THEN ss ELSE flatten[n]
    BY Zenon DEF FlattenSeq, Join
  <1> HIDE DEF flatten
  <1>8. n # 0 => flatten[1] = ss[1]
    BY <1>1, <1>6
  <1>9. \A i \in 2..n : flatten[i] = Join(flatten[i - 1], ss[i])
    <2> HIDE DEF n
    <2>1. QED
      BY <1>1, <1>6
  <1>10. joined[0] = <<>> /\ \A i \in 1..n : joined[i] = flatten[i]
    BY <1>1
  <1> HIDE DEF joined
  <1>11. ASSUME NEW i \in 1..n PROVE joined[i] = Join(joined[i - 1], ss[i])
    <2>1. CASE i = 1
      <3>1. joined[1] = ss[1] /\ ss[1] \in Seq(S) /\ n # 0
        BY <1>1, <1>8, <1>10, <2>1
      <3>2. Join(<<>>, ss[1]) = ss[1]
        BY <3>1, JoinFacts
      <3>3. QED
        BY <1>10, <2>1, <3>1, <3>2
    <2>2. CASE i # 1
      <3>1. i \in 2..n /\ i - 1 \in 1..n
        BY <1>1, <2>2
      <3>2. QED
        BY <1>9, <1>10, <3>1
    <2>3. QED
      BY <2>1, <2>2
  <1>12. FlattenSeq(ss) = joined[n]
    <2>1. CASE n = 0
      <3>1. ss = <<>>
        BY <2>1
      <3>2. QED
        BY <1>7, <1>10, <2>1, <3>1
    <2>2. CASE n # 0
      <3>1. n \in 1..n
        BY <1>1, <2>2
      <3>2. QED
        BY <1>7, <1>10, <2>2, <3>1
    <2>3. QED
      BY <2>1, <2>2
  <1> DEFINE T == {i \in Nat : i <= n => joined[i] \in Seq(S)}
  <1>13. 0 \in T
    <2>1. <<>> \in Seq(S)
      OBVIOUS
    <2>2. joined[0] \in Seq(S)
      BY <1>10, <2>1, Zenon
    <2>3. QED
      BY <2>2
  <1>14. ASSUME NEW i \in T PROVE i + 1 \in T
    <2> SUFFICES ASSUME i + 1 <= n PROVE joined[i + 1] \in Seq(S)
      OBVIOUS
    <2>1. i + 1 \in 1..n /\ i + 1 - 1 = i /\ joined[i] \in Seq(S)
      BY <1>1
    <2>2. ss[i + 1] \in Seq(S) /\ joined[i + 1] = Join(joined[i], ss[i + 1])
      BY <1>1, <1>11, <2>1
    <2>3. QED
      BY <2>1, <2>2, JoinFacts
  <1>15. T = Nat
    <2>1. T \subseteq Nat
      OBVIOUS
    <2> HIDE DEF T
    <2>2. QED
      BY <1>13, <1>14, <2>1, Induction
  <1>16. \A i \in 0..n : joined[i] \in Seq(S)
    BY <1>1, <1>15
  <1>17. Joins(joined, ss)
    BY <1>10, <1>11 DEF Joins
  <1>18. QED
    BY <1>12, <1>16, <1>17

LEMMA FlattenAppend ==
    ASSUME NEW S, NEW ss \in Seq(Seq(S)), NEW s \in Seq(S)
    PROVE  /\ FlattenSeq(ss) \in Seq(S)
           /\ FlattenSeq(Append(ss, s)) = FlattenSeq(ss) \o s
  <1> DEFINE tt == Append(ss, s)
             n == Len(ss)
  <1>1. /\ n \in Nat /\ Len(tt) = n + 1 /\ tt[n + 1] = s
        /\ \A i \in 1..n : tt[i] = ss[i]
        /\ tt \in Seq(Seq(S))
    BY AppendProperties
  <1>2. PICK f : /\ Joins(f, ss) /\ FlattenSeq(ss) = f[n]
                 /\ \A i \in 0..n : f[i] \in Seq(S)
    BY FlattenFollows
  <1> HIDE DEF tt
  <1>3. PICK g : Joins(g, tt) /\ FlattenSeq(tt) = g[n + 1]
    <2> HIDE DEF n
    <2>1. QED
      BY <1>1, FlattenFollows
  <1>4. f[0] = <<>> /\ \A i \in 1..n : f[i] = Join(f[i - 1], ss[i])
    BY <1>2 DEF Joins
  <1> HIDE DEF n
  <1>5. g[0] = <<>> /\ \A i \in 1..(n + 1) : g[i] = Join(g[i - 1], tt[i])
    BY <1>1, <1>3 DEF Joins
  <1>6. \A i \in 1..n : f[i - 1] = g[i - 1] => f[i] = g[i]
    BY <1>1, <1>4, <1>5
  <1>7. f[n] = g[n]
    <2>1. f[0] = g[0]
      BY <1>4, <1>5
    <2>2. n \in Nat
      BY <1>1
    <2>3. \A i \in 0..n : f[i] = g[i]
      BY <1>6, <2>1, <2>2, SameSteps, Zenon
    <2>4. QED
      BY <2>2, <2>3
  <1>8. g[n + 1] = Join(g[n], s)
    <2>1. n + 1 \in 1..(n + 1) /\ n + 1 - 1 = n
      BY <1>1
    <2>2. QED
      BY <1>1, <1>5, <2>1
  <1>9. FlattenSeq(ss) \in Seq(S)
    <2>1. n \in 0..n
      BY <1>1
    <2>2. QED
      BY <1>2, <2>1
  <1>10. QED
    BY <1>2, <1>3, <1>7, <1>8, <1>9 DEF tt, Join

\* printf's state.
At(out, esp, at) == [out |-> out, esp |-> esp, at |-> at]

Marks == {"A", "%", "i", "c", "s", "x", "#", "u", "d"}

Shown == Digits \cup {"A", "%", "x", "-"}

Given == {"%", <<"%", "x">>} \cup Values

LEMMA CharPrints ==
    ASSUME NEW out, NEW esp
    PROVE  /\ PrintChar(At(out, esp, "text"), "A") = At(Append(out, "A"), esp, "text")
           /\ PrintChar(At(out, esp, "text"), "%") = At(out, esp, "percent")
           /\ PrintChar(At(out, esp, "percent"), "%") = At(Append(out, "%"), esp, "text")
           /\ PrintChar(At(out, esp, "percent"), "i") = At(out, esp, "text")
           /\ PrintChar(At(out, esp, "percent"), "#") = At(out, esp, "alternate")
  BY DEF PrintChar, At, Taking

LEMMA ConversionPrints ==
    ASSUME NEW out, NEW esp, NEW at \in {"percent", "alternate"}, NEW c \in Taking
    PROVE  PrintChar(At(out, esp, at), c)
             = At(Join(out, Converted(c, at = "alternate", Head(esp))), Tail(esp), "text")
  <1>1. c # "%" /\ c # "#" /\ at # "text"
    BY DEF Taking
  <1>2. At(out, esp, at).at = at /\ At(out, esp, at).out = out /\ At(out, esp, at).esp = esp
    BY DEF At
  <1>3. QED
    BY <1>1, <1>2, Zenon DEF PrintChar, At, Join

\* What a conversion puts on the screen.
LEMMA ConversionIs ==
    ASSUME NEW value \in 0..(Modulus - 1)
    PROVE  /\ Converted("x", FALSE, value) = itoa(value, 16)
           /\ Converted("x", TRUE, value) = Padded(itoa(value, 16))
           /\ Converted("u", FALSE, value) = itoa(value, 10)
           /\ \A alternate \in BOOLEAN : Converted("d", alternate, value) = SignedDigits(value)
  BY DEF Converted

\* The first argument.
LEMMA FirstArgument ==
    ASSUME NEW S, NEW a \in S, NEW rest \in Seq(S)
    PROVE  Head(<<a>> \o rest) = a /\ Tail(<<a>> \o rest) = rest
  <1> DEFINE s == <<a>> \o rest
             n == Len(rest)
  <1>1. n \in Nat /\ \A i \in 1..n : rest[i] \in S
    OBVIOUS
  <1>2. /\ s \in Seq(S) /\ Len(s) = n + 1 /\ s[1] = a
        /\ \A i \in 1..n : s[i + 1] = rest[i]
    BY <1>1
  <1> HIDE DEF s
  <1>3. Head(s) = a
    BY <1>2
  <1>4. Tail(s) \in Seq(S) /\ Len(Tail(s)) = n /\ \A i \in 1..n : Tail(s)[i] = rest[i]
    <2>1. s # <<>>
      BY <1>1, <1>2
    <2> HIDE DEF n
    <2>2. QED
      BY <1>1, <1>2, <2>1, HeadTailProperties
  <1>5. Tail(s) = rest
    <2> DEFINE t == Tail(s)
    <2> HIDE DEF t
    <2>1. t \in Seq(S) /\ Len(t) = Len(rest) /\ \A i \in 1..Len(t) : t[i] = rest[i]
      BY <1>4 DEF t
    <2>2. t = rest
      BY <2>1, SeqEqual
    <2>3. QED
      BY <2>2 DEF t
  <1>6. QED
    BY <1>3, <1>5 DEF s

\* printf of one, two and three more characters.
LEMMA PrintOne ==
    ASSUME NEW f \in Seq(Marks), NEW args, NEW a \in Marks
    PROVE  /\ printf(Join(f, <<a>>), args) = PrintChar(printf(f, args), a)
           /\ Join(f, <<a>>) \in Seq(Marks)
  <1>1. Append(f, a) = f \o <<a>> /\ Append(f, a) \in Seq(Marks)
    OBVIOUS
  <1>2. printf(Append(f, a), args) = PrintChar(printf(f, args), a)
    BY PrintAppend
  <1>3. QED
    BY <1>1, <1>2, Zenon DEF Join

LEMMA PrintTwo ==
    ASSUME NEW f \in Seq(Marks), NEW args, NEW a \in Marks, NEW b \in Marks
    PROVE  /\ printf(Join(f, <<a, b>>), args) = PrintChar(PrintChar(printf(f, args), a), b)
           /\ Join(f, <<a, b>>) \in Seq(Marks)
  <1> DEFINE g == Join(f, <<a>>)
  <1>1. g \in Seq(Marks) /\ printf(g, args) = PrintChar(printf(f, args), a)
    BY PrintOne
  <1>2. Join(g, <<b>>) = Join(f, <<a, b>>)
    <2>1. Append(f, a) = f \o <<a>>
      OBVIOUS
    <2>2. Append(Append(f, a), b) = f \o <<a, b>>
      OBVIOUS
    <2>3. g = Append(f, a)
      BY <2>1 DEF Join
    <2> HIDE DEF g
    <2>4. Append(g, b) = g \o <<b>>
      BY <1>1
    <2>5. QED
      BY <2>2, <2>3, <2>4, Zenon DEF Join
  <1> HIDE DEF g
  <1>3. Join(g, <<b>>) \in Seq(Marks) /\ printf(Join(g, <<b>>), args) = PrintChar(printf(g, args), b)
    BY <1>1, PrintOne
  <1>4. QED
    BY <1>1, <1>2, <1>3, Zenon

LEMMA PrintThree ==
    ASSUME NEW f \in Seq(Marks), NEW args, NEW a \in Marks, NEW b \in Marks, NEW c \in Marks
    PROVE  printf(Join(f, <<a, b, c>>), args)
             = PrintChar(PrintChar(PrintChar(printf(f, args), a), b), c)
  <1> DEFINE g == Join(f, <<a, b>>)
  <1>1. g \in Seq(Marks) /\ printf(g, args) = PrintChar(PrintChar(printf(f, args), a), b)
    BY PrintTwo
  <1>2. Join(g, <<c>>) = Join(f, <<a, b, c>>)
    BY DEF Join
  <1> HIDE DEF g
  <1>3. printf(Join(g, <<c>>), args) = PrintChar(printf(g, args), c)
    BY <1>1, PrintOne
  <1>4. QED
    BY <1>1, <1>2, <1>3, Zenon

\* A conversion takes the first argument.
BeforeConversion(f, args, out, a, rest, c) ==
    /\ f \in Seq(Marks) /\ a \in Given /\ rest \in Seq(Given) /\ c \in Taking
    /\ printf(f, args) = At(out, Join(<<a>>, rest), "text")

BehindConversion(f, args, out, a, rest, c) ==
    /\ printf(Join(f, <<"%", c>>), args) = At(Join(out, Converted(c, FALSE, a)), rest, "text")
    /\ printf(Join(f, <<"%", "#", c>>), args)
         = At(Join(out, Converted(c, TRUE, a)), rest, "text")

LEMMA TakingPrints ==
    ASSUME NEW f, NEW args, NEW out, NEW a, NEW rest, NEW c,
           BeforeConversion(f, args, out, a, rest, c)
    PROVE  BehindConversion(f, args, out, a, rest, c)
  <1> /\ f \in Seq(Marks) /\ a \in Given /\ rest \in Seq(Given) /\ c \in Taking
      /\ printf(f, args) = At(out, Join(<<a>>, rest), "text")
    BY DEF BeforeConversion
  <1> DEFINE esp == Join(<<a>>, rest)
  <1>1. Head(esp) = a /\ Tail(esp) = rest
    BY FirstArgument DEF Join
  <1>2. printf(f, args) = At(out, esp, "text")
    OBVIOUS
  <1> HIDE DEF esp
  <1>3. c \in Marks /\ "%" \in Marks /\ "#" \in Marks
    BY DEF Marks, Taking
  <1>4. /\ PrintChar(At(out, esp, "text"), "%") = At(out, esp, "percent")
        /\ PrintChar(At(out, esp, "percent"), "#") = At(out, esp, "alternate")
    BY CharPrints
  <1>5. PrintChar(At(out, esp, "percent"), c) = At(Join(out, Converted(c, FALSE, a)), rest, "text")
    <2>1. "percent" \in {"percent", "alternate"} /\ ("percent" = "alternate") = FALSE
      OBVIOUS
    <2>2. PrintChar(At(out, esp, "percent"), c)
            = At(Join(out, Converted(c, "percent" = "alternate", Head(esp))), Tail(esp), "text")
      BY <2>1, ConversionPrints
    <2>3. QED
      BY <1>1, <2>1, <2>2
  <1>6. PrintChar(At(out, esp, "alternate"), c) = At(Join(out, Converted(c, TRUE, a)), rest, "text")
    <2>1. "alternate" \in {"percent", "alternate"} /\ ("alternate" = "alternate") = TRUE
      OBVIOUS
    <2>2. PrintChar(At(out, esp, "alternate"), c)
            = At(Join(out, Converted(c, "alternate" = "alternate", Head(esp))), Tail(esp), "text")
      BY <2>1, ConversionPrints
    <2>3. QED
      BY <1>1, <2>1, <2>2
  <1>7. printf(Join(f, <<"%", c>>), args) = PrintChar(PrintChar(printf(f, args), "%"), c)
    BY <1>3, PrintTwo
  <1>8. printf(Join(f, <<"%", "#", c>>), args)
          = PrintChar(PrintChar(PrintChar(printf(f, args), "%"), "#"), c)
    BY <1>3, PrintThree
  <1>9. QED
    BY <1>2, <1>4, <1>5, <1>6, <1>7, <1>8, Zenon DEF BehindConversion

\* The forms of a piece.
Plain == {<<"A">>, <<"%", "%">>, <<"%", "i">>, <<"%", "c">>, <<"%", "s">>}

Numbered ==
    {<<"%", "x">>, <<"%", "#", "x">>, <<"%", "u">>, <<"%", "d">>, <<"%", "#", "d">>}

LEMMA PieceFacts ==
    ASSUME NEW p \in Pieces
    PROVE  /\ p.text \in Plain \cup Numbered
           /\ p.text \in Numbered => p.value \in 0..(Modulus - 1) /\ p.value \in Given
           /\ p.text \in Seq(Marks)
  <1>1. p.text \in Plain \cup Numbered /\ (p.text \in Numbered => p.value \in Values)
    BY DEF Pieces, Plain, Numbered
  <1>2. Plain \subseteq Seq(Marks) /\ Numbered \subseteq Seq(Marks)
    BY DEF Plain, Numbered, Marks
  <1>3. Values \subseteq 0..(Modulus - 1) /\ Values \subseteq Given
    BY BoundsAssumption DEF Given
  <1>4. QED
    BY <1>1, <1>2, <1>3

LEMMA ArgumentFacts ==
    ASSUME NEW p \in Pieces
    PROVE  /\ p.text \in {<<"A">>, <<"%", "%">>, <<"%", "i">>} => PieceArguments(p) = <<>>
           /\ p.text = <<"%", "c">> => PieceArguments(p) = <<"%">>
           /\ p.text = <<"%", "s">> => PieceArguments(p) = << <<"%", "x">> >>
           /\ p.text \in Numbered => PieceArguments(p) = <<p.value>>
           /\ PieceArguments(p) \in Seq(Given)
  <1>1. p.text \in {<<"A">>, <<"%", "%">>, <<"%", "i">>} => PieceArguments(p) = <<>>
    BY DEF PieceArguments
  <1>2. p.text = <<"%", "c">> => PieceArguments(p) = <<"%">>
    BY DEF PieceArguments
  <1>3. p.text = <<"%", "s">> => PieceArguments(p) = << <<"%", "x">> >>
    BY DEF PieceArguments
  <1>4. p.text \in Numbered => PieceArguments(p) = <<p.value>>
    BY DEF PieceArguments, Numbered
  <1>5. "%" \in Given /\ <<"%", "x">> \in Given
    BY DEF Given
  <1>6. PieceArguments(p) \in Seq(Given)
    <2>1. ASSUME NEW a \in Given PROVE <<a>> \in Seq(Given)
      OBVIOUS
    <2>2. <<>> \in Seq(Given)
      OBVIOUS
    <2>3. CASE p.text \in Numbered
      BY <1>4, <2>1, <2>3, PieceFacts
    <2>4. CASE p.text \in Plain
      BY <1>1, <1>2, <1>3, <1>5, <2>1, <2>2, <2>4 DEF Plain
    <2>5. QED
      BY <2>3, <2>4, PieceFacts
  <1>7. QED
    BY <1>1, <1>2, <1>3, <1>4, <1>6

LEMMA AppendJoin ==
    ASSUME NEW S, NEW s \in Seq(S), NEW c \in S
    PROVE  Append(s, c) = Join(s, <<c>>)
  <1>1. Append(s, c) = s \o <<c>>
    OBVIOUS
  <1>2. QED
    BY <1>1 DEF Join

LEMMA JoinNone == ASSUME NEW S, NEW s \in Seq(S) PROVE Join(s, <<>>) = s /\ Join(<<>>, s) = s
  <1>1. s \o <<>> = s /\ <<>> \o s = s
    OBVIOUS
  <1>2. QED
    BY <1>1 DEF Join

\* The texts of the pieces that are not numbers.
LEMMA PlainTexts ==
    ASSUME NEW p
    PROVE  /\ p.text = <<"A">> => IsText(<<"A">>, p)
           /\ p.text = <<"%", "%">> => IsText(<<"%">>, p)
           /\ p.text = <<"%", "i">> => IsText(<<>>, p)
           /\ p.text = <<"%", "c">> => IsText(<<"%">>, p)
           /\ p.text = <<"%", "s">> => IsText(<<"%", "x">>, p)
  BY DEF IsText

\* A numeral, and one behind a minus.
LEMMA NumeralShown ==
    ASSUME NEW radix \in {10, 16}, NEW value \in Nat
    PROVE  itoa(value, radix) \in Seq(Shown) /\ IsNumeral(itoa(value, radix), value, radix)
  <1>1. radix \in 2..16
    OBVIOUS
  <1>2. itoa(value, radix) \in Seq(Digits) /\ IsNumeral(itoa(value, radix), value, radix)
    BY <1>1, itoaIs
  <1>3. Digits \subseteq Shown
    BY DEF Shown
  <1> DEFINE D == Digits
             T == Shown
  <1>4. D \subseteq T /\ itoa(value, radix) \in Seq(D)
    BY <1>2, <1>3
  <1> HIDE DEF D, T
  <1>5. itoa(value, radix) \in Seq(T)
    BY <1>4
  <1>6. QED
    BY <1>2, <1>5 DEF T

LEMMA SignedShown ==
    ASSUME NEW value \in 0..(Modulus - 1)
    PROVE  /\ SignedDigits(value) \in Seq(Shown)
           /\ IF value < Modulus \div 2
                THEN IsNumeral(SignedDigits(value), value, 10)
                ELSE /\ SignedDigits(value) # <<>> /\ SignedDigits(value)[1] = "-"
                     /\ IsNumeral(Tail(SignedDigits(value)), Modulus - value, 10)
  <1>1. value \in Nat /\ Modulus \in Nat
    <2>1. PICK f : /\ \A i \in 0..HexDigits : f[i] \in Nat \ {0}
                   /\ Modulus = f[HexDigits]
      BY ModulusIs
    <2>2. HexDigits \in 0..HexDigits
      BY ModulusIs
    <2>3. QED
      BY <2>1, <2>2
  <1>2. 10 \in {10, 16}
    OBVIOUS
  <1>3. CASE value < Modulus \div 2
    <2>1. SignedDigits(value) = itoa(value, 10)
      BY <1>1, <1>3 DEF SignedDigits
    <2>2. QED
      BY <1>1, <1>2, <1>3, <2>1, NumeralShown
  <1>4. CASE ~(value < Modulus \div 2)
    <2> DEFINE t == itoa(Modulus - value, 10)
    <2>1. SignedDigits(value) = <<"-">> \o t /\ Modulus - value \in Nat
      BY <1>4, SignedIs
    <2>2. t \in Seq(Shown) /\ IsNumeral(t, Modulus - value, 10)
      BY <1>2, <2>1, NumeralShown
    <2>3. "-" \in Shown
      BY DEF Shown
    <2> HIDE DEF t
    <2>4. Head(<<"-">> \o t) = "-" /\ Tail(<<"-">> \o t) = t
      BY <2>2, <2>3, FirstArgument
    <2>5. <<"-">> \o t \in Seq(Shown) /\ <<"-">> \o t # <<>> /\ (<<"-">> \o t)[1] = "-"
      <3> DEFINE T == Shown
      <3>1. t \in Seq(T) /\ "-" \in T
        BY <2>2, <2>3
      <3> HIDE DEF T
      <3>2. <<"-">> \o t \in Seq(T) /\ <<"-">> \o t # <<>> /\ (<<"-">> \o t)[1] = "-"
        BY <3>1
      <3>3. QED
        BY <3>2 DEF T
    <2>6. QED
      BY <1>4, <2>1, <2>2, <2>4, <2>5, Zenon
  <1>5. QED
    BY <1>3, <1>4

\* The texts of the numbers.
LEMMA NumberTexts ==
    ASSUME NEW p, p.value \in 0..(Modulus - 1)
    PROVE  LET v == p.value
           IN  /\ p.text = <<"%", "x">> =>
                     Converted("x", FALSE, v) \in Seq(Shown) /\ IsText(Converted("x", FALSE, v), p)
               /\ p.text = <<"%", "#", "x">> =>
                     Converted("x", TRUE, v) \in Seq(Shown) /\ IsText(Converted("x", TRUE, v), p)
               /\ p.text = <<"%", "u">> =>
                     Converted("u", FALSE, v) \in Seq(Shown) /\ IsText(Converted("u", FALSE, v), p)
               /\ p.text = <<"%", "d">> =>
                     Converted("d", FALSE, v) \in Seq(Shown) /\ IsText(Converted("d", FALSE, v), p)
               /\ p.text = <<"%", "#", "d">> =>
                     Converted("d", TRUE, v) \in Seq(Shown) /\ IsText(Converted("d", TRUE, v), p)
  <1> DEFINE v == p.value
  <1>1. v \in 0..(Modulus - 1) /\ v \in Nat
    BY ModulusIs
  <1>2. /\ Converted("x", FALSE, v) = itoa(v, 16) /\ Converted("x", TRUE, v) = Padded(itoa(v, 16))
        /\ Converted("u", FALSE, v) = itoa(v, 10)
        /\ Converted("d", FALSE, v) = SignedDigits(v) /\ Converted("d", TRUE, v) = SignedDigits(v)
    BY <1>1, ConversionIs
  <1>3. 10 \in {10, 16} /\ 16 \in {10, 16}
    OBVIOUS
  <1>4. p.text = <<"%", "x">> =>
           Converted("x", FALSE, v) \in Seq(Shown) /\ IsText(Converted("x", FALSE, v), p)
    <2> HAVE p.text = <<"%", "x">>
    <2>1. itoa(v, 16) \in Seq(Shown) /\ IsNumeral(itoa(v, 16), v, 16)
      BY <1>1, <1>3, NumeralShown
    <2>2. IsText(itoa(v, 16), p)
      BY <2>1 DEF IsText
    <2>3. QED
      BY <1>2, <2>1, <2>2
  <1>5. p.text = <<"%", "#", "x">> =>
           Converted("x", TRUE, v) \in Seq(Shown) /\ IsText(Converted("x", TRUE, v), p)
    <2> HAVE p.text = <<"%", "#", "x">>
    <2> DEFINE t == Padded(itoa(v, 16))
    <2>1. t \in Seq(Digits) /\ Len(t) = HexDigits /\ ValueOf(t, 16) = v
      BY <1>1, PaddedIs
    <2> HIDE DEF t
    <2>2. ToSet(t) \subseteq ToSet(lookup)
      <3>1. \A i \in DOMAIN t : t[i] \in Digits
        BY <2>1
      <3>2. QED
        BY <3>1 DEF ToSet, Digits
    <2>3. IsText(t, p)
      BY <2>1, <2>2 DEF IsText
    <2>4. t \in Seq(Shown)
      <3> DEFINE D == Digits
                 T == Shown
      <3>1. D \subseteq T /\ t \in Seq(D)
        BY <2>1 DEF Shown
      <3> HIDE DEF D, T
      <3>2. t \in Seq(T)
        BY <3>1
      <3>3. QED
        BY <3>2 DEF T
    <2>5. QED
      BY <1>2, <2>3, <2>4 DEF t
  <1>6. p.text = <<"%", "u">> =>
           Converted("u", FALSE, v) \in Seq(Shown) /\ IsText(Converted("u", FALSE, v), p)
    <2> HAVE p.text = <<"%", "u">>
    <2>1. itoa(v, 10) \in Seq(Shown) /\ IsNumeral(itoa(v, 10), v, 10)
      BY <1>1, <1>3, NumeralShown
    <2>2. IsText(itoa(v, 10), p)
      BY <2>1 DEF IsText
    <2>3. QED
      BY <1>2, <2>1, <2>2
  <1>7. p.text \in {<<"%", "d">>, <<"%", "#", "d">>} =>
           SignedDigits(v) \in Seq(Shown) /\ IsText(SignedDigits(v), p)
    <2> HAVE p.text \in {<<"%", "d">>, <<"%", "#", "d">>}
    <2> DEFINE t == SignedDigits(v)
    <2>1. /\ t \in Seq(Shown)
          /\ IF v < Modulus \div 2
               THEN IsNumeral(t, v, 10)
               ELSE t # <<>> /\ t[1] = "-" /\ IsNumeral(Tail(t), Modulus - v, 10)
      BY <1>1, SignedShown
    <2> HIDE DEF t
    <2>2. IsText(t, p)
      BY <2>1 DEF IsText
    <2>3. QED
      BY <2>1, <2>2 DEF t
  <1>8. p.text = <<"%", "d">> =>
           Converted("d", FALSE, v) \in Seq(Shown) /\ IsText(Converted("d", FALSE, v), p)
    BY <1>2, <1>7, Zenon
  <1>9. p.text = <<"%", "#", "d">> =>
           Converted("d", TRUE, v) \in Seq(Shown) /\ IsText(Converted("d", TRUE, v), p)
    BY <1>2, <1>7, Zenon
  <1>10. QED
    BY <1>4, <1>5, <1>6, <1>8, <1>9, Zenon

\* A piece puts its text on the screen and takes its argument.
Puts(f, args, out, rest, p, t) ==
    /\ t \in Seq(Shown) /\ IsText(t, p)
    /\ printf(Join(f, p.text), args) = At(Join(out, t), rest, "text")

LEMMA PiecePrints ==
    ASSUME NEW p \in Pieces, NEW f \in Seq(Marks), NEW args, NEW out \in Seq(Shown),
           NEW rest \in Seq(Given),
           printf(f, args) = At(out, Join(PieceArguments(p), rest), "text")
    PROVE  \E t : Puts(f, args, out, rest, p, t)
  <1>1. Join(out, <<>>) = out /\ Join(<<>>, rest) = rest
    BY JoinNone
  <1>2. /\ "A" \in Marks /\ "%" \in Marks /\ "i" \in Marks /\ "c" \in Marks /\ "s" \in Marks
        /\ "x" \in Marks /\ "u" \in Marks /\ "d" \in Marks
    BY DEF Marks
  <1>3. Append(out, "A") = Join(out, <<"A">>) /\ Append(out, "%") = Join(out, <<"%">>)
    <2>1. "A" \in Shown /\ "%" \in Shown
      BY DEF Shown
    <2>2. QED
      BY <2>1, AppendJoin
  <1>4. <<"A">> \in Seq(Shown) /\ <<"%">> \in Seq(Shown) /\ <<>> \in Seq(Shown) /\ <<"%", "x">> \in Seq(Shown)
    BY DEF Shown
  <1>5. CASE p.text = <<"A">>
    <2>1. printf(f, args) = At(out, rest, "text")
      BY <1>1, <1>5, ArgumentFacts
    <2>2. printf(Join(f, <<"A">>), args) = PrintChar(printf(f, args), "A")
      BY <1>2, PrintOne
    <2>3. PrintChar(At(out, rest, "text"), "A") = At(Append(out, "A"), rest, "text")
      BY CharPrints
    <2>4. Puts(f, args, out, rest, p, <<"A">>)
      BY <1>3, <1>4, <1>5, <2>1, <2>2, <2>3, PlainTexts DEF Puts
    <2>5. QED
      BY <2>4
  <1>6. CASE p.text = <<"%", "%">>
    <2>1. printf(f, args) = At(out, rest, "text")
      BY <1>1, <1>6, ArgumentFacts
    <2>2. printf(Join(f, <<"%", "%">>), args) = PrintChar(PrintChar(printf(f, args), "%"), "%")
      BY <1>2, PrintTwo
    <2>3. PrintChar(PrintChar(At(out, rest, "text"), "%"), "%") = At(Append(out, "%"), rest, "text")
      BY CharPrints
    <2>4. Puts(f, args, out, rest, p, <<"%">>)
      BY <1>3, <1>4, <1>6, <2>1, <2>2, <2>3, PlainTexts DEF Puts
    <2>5. QED
      BY <2>4
  <1>7. CASE p.text = <<"%", "i">>
    <2>1. printf(f, args) = At(out, rest, "text")
      BY <1>1, <1>7, ArgumentFacts
    <2>2. printf(Join(f, <<"%", "i">>), args) = PrintChar(PrintChar(printf(f, args), "%"), "i")
      BY <1>2, PrintTwo
    <2>3. PrintChar(PrintChar(At(out, rest, "text"), "%"), "i") = At(out, rest, "text")
      BY CharPrints
    <2>4. Puts(f, args, out, rest, p, <<>>)
      BY <1>1, <1>4, <1>7, <2>1, <2>2, <2>3, PlainTexts DEF Puts
    <2>5. QED
      BY <2>4
  <1>8. ASSUME NEW a \in Given, PieceArguments(p) = <<a>>, NEW c \in Taking,
               NEW alternate \in BOOLEAN,
               p.text = IF alternate THEN <<"%", "#", c>> ELSE <<"%", c>>,
               Converted(c, alternate, a) \in Seq(Shown), IsText(Converted(c, alternate, a), p)
        PROVE  Puts(f, args, out, rest, p, Converted(c, alternate, a))
    <2>1. printf(f, args) = At(out, Join(<<a>>, rest), "text")
      BY <1>8
    <2>2. /\ printf(Join(f, <<"%", c>>), args) = At(Join(out, Converted(c, FALSE, a)), rest, "text")
          /\ printf(Join(f, <<"%", "#", c>>), args)
               = At(Join(out, Converted(c, TRUE, a)), rest, "text")
      <3>1. BeforeConversion(f, args, out, a, rest, c)
        BY <2>1, Zenon DEF BeforeConversion
      <3>2. BehindConversion(f, args, out, a, rest, c)
        BY <3>1, TakingPrints, Zenon
      <3>3. QED
        BY <3>2, Zenon DEF BehindConversion
    <2>3. CASE alternate = TRUE
      <3>1. p.text = <<"%", "#", c>>
        BY <1>8, <2>3
      <3>2. QED
        BY <1>8, <2>2, <2>3, <3>1, Zenon DEF Puts
    <2>4. CASE alternate = FALSE
      <3>1. p.text = <<"%", c>>
        BY <1>8, <2>4
      <3>2. QED
        BY <1>8, <2>2, <2>4, <3>1, Zenon DEF Puts
    <2>5. QED
      BY <2>3, <2>4
  <1>9. CASE p.text = <<"%", "c">>
    <2>1. "%" \in Given /\ PieceArguments(p) = <<"%">> /\ "c" \in Taking
      BY <1>9, ArgumentFacts DEF Given, Taking
    <2>2. Converted("c", FALSE, "%") = <<"%">>
      BY DEF Converted
    <2>3. IsText(<<"%">>, p)
      BY <1>9, PlainTexts
    <2>4. QED
      BY <1>4, <1>8, <1>9, <2>1, <2>2, <2>3
  <1>10. CASE p.text = <<"%", "s">>
    <2> DEFINE a == <<"%", "x">>
    <2>1. a \in Given /\ PieceArguments(p) = <<a>> /\ "s" \in Taking
      BY <1>10, ArgumentFacts DEF Given, Taking
    <2>2. Converted("s", FALSE, a) = a
      BY DEF Converted
    <2>3. IsText(a, p) /\ a \in Seq(Shown)
      BY <1>4, <1>10, PlainTexts
    <2> HIDE DEF a
    <2>4. QED
      BY <1>8, <1>10, <2>1, <2>2, <2>3
  <1>11. CASE p.text \in Numbered
    <2> DEFINE v == p.value
    <2>1. v \in Given /\ v \in 0..(Modulus - 1) /\ PieceArguments(p) = <<v>>
      BY <1>11, PieceFacts, ArgumentFacts
    <2>2. "x" \in Taking /\ "u" \in Taking /\ "d" \in Taking
      BY DEF Taking
    <2>3. /\ p.text = <<"%", "x">> =>
                Converted("x", FALSE, v) \in Seq(Shown) /\ IsText(Converted("x", FALSE, v), p)
          /\ p.text = <<"%", "#", "x">> =>
                Converted("x", TRUE, v) \in Seq(Shown) /\ IsText(Converted("x", TRUE, v), p)
          /\ p.text = <<"%", "u">> =>
                Converted("u", FALSE, v) \in Seq(Shown) /\ IsText(Converted("u", FALSE, v), p)
          /\ p.text = <<"%", "d">> =>
                Converted("d", FALSE, v) \in Seq(Shown) /\ IsText(Converted("d", FALSE, v), p)
          /\ p.text = <<"%", "#", "d">> =>
                Converted("d", TRUE, v) \in Seq(Shown) /\ IsText(Converted("d", TRUE, v), p)
      BY <2>1, NumberTexts
    <2> HIDE DEF v
    <2>4. CASE p.text = <<"%", "x">>
      BY <1>8, <2>1, <2>2, <2>3, <2>4
    <2>5. CASE p.text = <<"%", "#", "x">>
      BY <1>8, <2>1, <2>2, <2>3, <2>5
    <2>6. CASE p.text = <<"%", "u">>
      BY <1>8, <2>1, <2>2, <2>3, <2>6
    <2>7. CASE p.text = <<"%", "d">>
      BY <1>8, <2>1, <2>2, <2>3, <2>7
    <2>8. CASE p.text = <<"%", "#", "d">>
      BY <1>8, <2>1, <2>2, <2>3, <2>8
    <2>9. QED
      BY <1>11, <2>4, <2>5, <2>6, <2>7, <2>8 DEF Numbered
  <1>12. QED
    BY <1>5, <1>6, <1>7, <1>9, <1>10, <1>11, PieceFacts DEF Plain

\* A format with one more piece.
Image(Of, P) == [i \in DOMAIN P |-> Of[P[i]]]

Maps(Of, S) == \A q \in Pieces : Of[q] \in Seq(S)

LEMMA MappedAppend ==
    ASSUME NEW S, NEW P \in Seq(Pieces), NEW p \in Pieces, NEW Of, Maps(Of, S)
    PROVE  /\ Image(Of, P) \in Seq(Seq(S))
           /\ Image(Of, Append(P, p)) = Append(Image(Of, P), Of[p])
  <1> DEFINE n == Len(P)
             Q == Append(P, p)
             m == Image(Of, P)
             M == Image(Of, Q)
  <1> \A q \in Pieces : Of[q] \in Seq(S)
    BY DEF Maps
  <1>1. /\ n \in Nat /\ DOMAIN P = 1..n /\ DOMAIN Q = 1..(n + 1) /\ Q[n + 1] = p
        /\ \A i \in 1..n : P[i] \in Pieces /\ Q[i] = P[i]
    OBVIOUS
  <1> HIDE DEF Q, n
  <1>2. m \in Seq(Seq(S)) /\ Len(m) = n /\ \A i \in 1..n : m[i] = Of[P[i]]
    <2>1. m = [i \in 1..n |-> Of[P[i]]] /\ \A i \in 1..n : Of[P[i]] \in Seq(S)
      BY <1>1 DEF Image
    <2> DEFINE T == Seq(S)
    <2> HIDE DEF T, m
    <2>2. m = [i \in 1..n |-> Of[P[i]]] /\ \A i \in 1..n : Of[P[i]] \in T
      BY <2>1 DEF T
    <2>3. m \in [1..n -> T]
      BY <2>2
    <2>4. m \in Seq(T) /\ Len(m) = n
      BY <1>1, <2>3
    <2>5. QED
      BY <2>2, <2>4 DEF T
  <1>3. M = [i \in 1..(n + 1) |-> Of[Q[i]]]
    BY <1>1 DEF Image
  <1> HIDE DEF m, M
  <1>4. Append(m, Of[p]) = [i \in 1..(n + 1) |-> IF i = n + 1 THEN Of[p] ELSE m[i]]
    BY <1>1, <1>2
  <1>5. \A i \in 1..(n + 1) : Of[Q[i]] = IF i = n + 1 THEN Of[p] ELSE m[i]
    <2> SUFFICES ASSUME NEW i \in 1..(n + 1)
                 PROVE  Of[Q[i]] = IF i = n + 1 THEN Of[p] ELSE m[i]
      OBVIOUS
    <2>1. CASE i = n + 1
      BY <1>1, <2>1
    <2>2. CASE i # n + 1
      <3>1. i \in 1..n
        BY <1>1, <2>2
      <3>2. QED
        BY <1>1, <1>2, <2>2, <3>1
    <2>3. QED
      BY <2>1, <2>2
  <1>6. M = Append(m, Of[p])
    BY <1>3, <1>4, <1>5
  <1>7. QED
    BY <1>2, <1>6 DEF m, M, Q

LEMMA FormatAppend ==
    ASSUME NEW P \in Seq(Pieces), NEW p \in Pieces
    PROVE  /\ Format(P) \in Seq(Marks)
           /\ Format(Append(P, p)) = Join(Format(P), p.text)
  <1> DEFINE Of == [q \in Pieces |-> q.text]
             text(Q) == [i \in DOMAIN Q |-> Q[i].text]
  <1>1. Maps(Of, Marks)
    BY PieceFacts DEF Maps
  <1>2. \A Q \in Seq(Pieces) : Image(Of, Q) = text(Q)
    <2> SUFFICES ASSUME NEW Q \in Seq(Pieces) PROVE Image(Of, Q) = text(Q)
      OBVIOUS
    <2>1. \A i \in DOMAIN Q : Q[i] \in Pieces
      OBVIOUS
    <2>2. QED
      BY <2>1 DEF Image
  <1>3. Append(P, p) \in Seq(Pieces)
    OBVIOUS
  <1>4. Of[p] = p.text /\ p.text \in Seq(Marks)
    BY PieceFacts
  <1> HIDE DEF Of
  <1>5. Image(Of, P) \in Seq(Seq(Marks)) /\ Image(Of, Append(P, p)) = Append(Image(Of, P), Of[p])
    BY <1>1, MappedAppend, Zenon
  <1>6. text(P) \in Seq(Seq(Marks)) /\ text(Append(P, p)) = Append(text(P), p.text)
    BY <1>2, <1>3, <1>4, <1>5
  <1>7. Format(P) = FlattenSeq(text(P)) /\ Format(Append(P, p)) = FlattenSeq(text(Append(P, p)))
    BY Zenon DEF Format
  <1> HIDE DEF text
  <1>8. FlattenSeq(text(P)) \in Seq(Marks)
        /\ FlattenSeq(Append(text(P), p.text)) = FlattenSeq(text(P)) \o p.text
    BY <1>4, <1>6, FlattenAppend
  <1>9. QED
    BY <1>6, <1>7, <1>8, Zenon DEF Join

LEMMA ArgumentsAppend ==
    ASSUME NEW P \in Seq(Pieces), NEW p \in Pieces
    PROVE  /\ Arguments(P) \in Seq(Given)
           /\ Arguments(Append(P, p)) = Join(Arguments(P), PieceArguments(p))
  <1> DEFINE Of == [q \in Pieces |-> PieceArguments(q)]
             given(Q) == [i \in DOMAIN Q |-> PieceArguments(Q[i])]
  <1>1. Maps(Of, Given)
    BY ArgumentFacts DEF Maps
  <1>2. \A Q \in Seq(Pieces) : Image(Of, Q) = given(Q)
    <2> SUFFICES ASSUME NEW Q \in Seq(Pieces) PROVE Image(Of, Q) = given(Q)
      OBVIOUS
    <2>1. \A i \in DOMAIN Q : Q[i] \in Pieces
      OBVIOUS
    <2>2. QED
      BY <2>1 DEF Image
  <1>3. Append(P, p) \in Seq(Pieces)
    OBVIOUS
  <1>4. Of[p] = PieceArguments(p) /\ PieceArguments(p) \in Seq(Given)
    BY ArgumentFacts
  <1> HIDE DEF Of
  <1>5. Image(Of, P) \in Seq(Seq(Given)) /\ Image(Of, Append(P, p)) = Append(Image(Of, P), Of[p])
    BY <1>1, MappedAppend, Zenon
  <1>6. given(P) \in Seq(Seq(Given)) /\ given(Append(P, p)) = Append(given(P), PieceArguments(p))
    BY <1>2, <1>3, <1>4, <1>5
  <1>7. /\ Arguments(P) = FlattenSeq(given(P))
        /\ Arguments(Append(P, p)) = FlattenSeq(given(Append(P, p)))
    BY Zenon DEF Arguments
  <1> HIDE DEF given
  <1>8. FlattenSeq(given(P)) \in Seq(Given)
        /\ FlattenSeq(Append(given(P), PieceArguments(p))) = FlattenSeq(given(P)) \o PieceArguments(p)
    BY <1>4, <1>6, FlattenAppend
  <1>9. QED
    BY <1>6, <1>7, <1>8, Zenon DEF Join

LEMMA NoPieces == Format(<<>>) = <<>> /\ Arguments(<<>>) = <<>>
  <1>1. FlattenSeq(<<>>) = <<>>
    <2>1. <<>> \in Seq(Seq(Nat)) /\ Len(<<>>) = 0
      OBVIOUS
    <2>2. QED
      BY <2>1, FlattenFollows DEF Joins
  <1>2. /\ [i \in DOMAIN <<>> |-> <<>>[i].text] = <<>>
        /\ [i \in DOMAIN <<>> |-> PieceArguments(<<>>[i])] = <<>>
    OBVIOUS
  <1>3. QED
    BY <1>1, <1>2, Zenon DEF Format, Arguments

\* Parts of two sequences joined.
BothParts(u, s, t) ==
    /\ Len(u) = Len(s) + Len(t)
    /\ \A i \in 1..(Len(s) + 1), j \in 0..Len(s) : SubSeq(u, i, j) = SubSeq(s, i, j)
    /\ SubSeq(u, Len(s) + 1, Len(s) + Len(t)) = t

LEMMA JoinedParts ==
    ASSUME NEW S, NEW s \in Seq(S), NEW t \in Seq(S)
    PROVE  BothParts(Join(s, t), s, t)
  <1> DEFINE u == s \o t
             n == Len(s)
             k == Len(t)
  <1>1. n \in Nat /\ k \in Nat /\ u \in Seq(S) /\ Len(u) = n + k
    BY ConcatProperties
  <1>2. /\ \A i \in 1..n : u[i] = s[i]
        /\ \A i \in 1..k : u[n + i] = t[i]
        /\ \A i \in 1..k : t[i] \in S
    OBVIOUS
  <1> HIDE DEF u
  <1>3. ASSUME NEW i \in 1..(n + 1), NEW j \in 0..n PROVE SubSeq(u, i, j) = SubSeq(s, i, j)
    <2>1. CASE j < i
      <3>1. SubSeq(u, i, j) = <<>> /\ SubSeq(s, i, j) = <<>>
        BY <1>1, <2>1
      <3>2. QED
        BY <3>1
    <2>2. CASE ~(j < i)
      <3> DEFINE v == SubSeq(u, i, j)
                 w == SubSeq(s, i, j)
                 h == (j - i) + 1
      <3>1. h \in Nat /\ \A x \in 1..h : (i + x) - 1 \in 1..n
        BY <1>1, <2>2
      <3>2. v \in Seq(S) /\ Len(v) = h /\ \A x \in 1..h : v[x] = u[(i + x) - 1]
        BY <1>1, <2>2
      <3>3. w \in Seq(S) /\ Len(w) = h /\ \A x \in 1..h : w[x] = s[(i + x) - 1]
        BY <1>1, <2>2
      <3> HIDE DEF v, w, h
      <3>4. Len(v) = Len(w) /\ \A x \in 1..Len(v) : v[x] = w[x]
        BY <1>2, <3>1, <3>2, <3>3
      <3>5. v = w
        BY <3>2, <3>3, <3>4, SeqEqual
      <3>6. QED
        BY <3>5 DEF v, w
    <2>3. QED
      BY <2>1, <2>2
  <1>4. SubSeq(u, n + 1, n + k) = t
    <2> DEFINE v == SubSeq(u, n + 1, n + k)
    <2>1. v \in Seq(S) /\ Len(v) = k /\ \A x \in 1..k : v[x] = u[n + x]
      BY <1>1
    <2> HIDE DEF v
    <2>2. Len(v) = Len(t) /\ \A x \in 1..Len(v) : v[x] = t[x]
      BY <1>2, <2>1
    <2>3. v = t
      BY <2>1, <2>2, SeqEqual
    <2>4. QED
      BY <2>3 DEF v
  <1>5. QED
    BY <1>1, <1>3, <1>4 DEF u, Join, BothParts

\* printf has printed these pieces, and left the rest of its arguments.
PrintedSo(P, rest, out, ends) ==
    /\ out \in Seq(Shown)
    /\ printf(Format(P), Join(Arguments(P), rest)) = At(out, rest, "text")
    /\ ends \in [0..Len(P) -> 0..Len(out)]
    /\ CutAt(ends, out, P)

\* One more text, cut off where it begins.
LEMMA CutOn ==
    ASSUME NEW P \in Seq(Pieces), NEW p \in Pieces, NEW out \in Seq(Shown), NEW t \in Seq(Shown),
           IsText(t, p), NEW ends \in [0..Len(P) -> 0..Len(out)], CutAt(ends, out, P)
    PROVE  \E more : /\ more \in [0..Len(Append(P, p)) -> 0..Len(Join(out, t))]
                     /\ CutAt(more, Join(out, t), Append(P, p))
  <1> DEFINE n == Len(P)
             m == Len(out)
             Q == Append(P, p)
             all == Join(out, t)
             end == m + Len(t)
             more == [i \in 0..(n + 1) |-> IF i <= n THEN ends[i] ELSE end]
  <1>1. /\ n \in Nat /\ Len(Q) = n + 1 /\ DOMAIN Q = 1..(n + 1) /\ Q[n + 1] = p
        /\ DOMAIN P = 1..n /\ \A i \in 1..n : Q[i] = P[i]
    OBVIOUS
  <1>2. /\ m \in Nat /\ end \in Nat /\ m <= end /\ Len(all) = end
        /\ \A i \in 1..(m + 1), j \in 0..m : SubSeq(all, i, j) = SubSeq(out, i, j)
        /\ SubSeq(all, m + 1, end) = t
    <2>1. m \in Nat /\ Len(t) \in Nat
      OBVIOUS
    <2>2. /\ Len(all) = end
          /\ \A i \in 1..(m + 1), j \in 0..m : SubSeq(all, i, j) = SubSeq(out, i, j)
          /\ SubSeq(all, m + 1, end) = t
      <3>1. BothParts(all, out, t)
        BY JoinedParts
      <3> HIDE DEF all
      <3>2. QED
        BY <3>1 DEF BothParts
    <2> HIDE DEF m, all
    <2>3. end \in Nat /\ m <= end
      BY <2>1
    <2>4. QED
      BY <2>1, <2>2, <2>3
  <1>3. /\ ends[0] = 0 /\ ends[n] = m /\ \A i \in 0..n : ends[i] \in 0..m
        /\ \A i \in 1..n : ends[i - 1] <= ends[i]
                           /\ IsText(SubSeq(out, ends[i - 1] + 1, ends[i]), P[i])
    BY <1>1 DEF CutAt
  <1> HIDE DEF n, m, Q, all, end
  <1>4. /\ \A i \in 0..n : more[i] = ends[i]
        /\ more[n + 1] = end
    BY <1>1
  <1>5. more \in [0..(n + 1) -> 0..end]
    <2>1. ASSUME NEW i \in 0..(n + 1) PROVE (IF i <= n THEN ends[i] ELSE end) \in 0..end
      <3>1. CASE i <= n
        <4>1. ends[i] \in 0..m
          BY <1>1, <1>3, <3>1
        <4>2. QED
          BY <1>2, <3>1, <4>1
      <3>2. CASE ~(i <= n)
        BY <1>2, <3>2
      <3>3. QED
        BY <3>1, <3>2
    <2>2. QED
      BY <2>1
  <1> HIDE DEF more
  <1>6. ASSUME NEW i \in 1..(n + 1)
        PROVE  more[i - 1] <= more[i] /\ IsText(SubSeq(all, more[i - 1] + 1, more[i]), Q[i])
    <2>1. CASE i \in 1..n
      <3>1. i - 1 \in 0..n /\ i \in 0..n
        BY <1>1, <2>1
      <3>2. more[i - 1] = ends[i - 1] /\ more[i] = ends[i] /\ Q[i] = P[i]
        BY <1>1, <1>4, <2>1, <3>1
      <3>3. ends[i - 1] + 1 \in 1..(m + 1) /\ ends[i] \in 0..m
        BY <1>2, <1>3, <3>1
      <3>4. SubSeq(all, ends[i - 1] + 1, ends[i]) = SubSeq(out, ends[i - 1] + 1, ends[i])
        BY <1>2, <3>3
      <3>5. ends[i - 1] <= ends[i] /\ IsText(SubSeq(out, ends[i - 1] + 1, ends[i]), P[i])
        BY <1>3, <2>1
      <3>6. QED
        BY <3>2, <3>4, <3>5, Zenon
    <2>2. CASE i = n + 1
      <3>1. n \in 0..n /\ (n + 1) - 1 = n
        BY <1>1
      <3>2. more[i - 1] = m /\ more[i] = end /\ Q[i] = p
        BY <1>1, <1>3, <1>4, <2>2, <3>1
      <3>3. SubSeq(all, more[i - 1] + 1, more[i]) = t
        BY <1>2, <3>2
      <3>4. QED
        BY <1>2, <3>2, <3>3
    <2>3. QED
      BY <1>1, <2>1, <2>2
  <1>7. more[0] = 0 /\ more[n + 1] = end
    <2>1. 0 \in 0..n
      BY <1>1
    <2>2. QED
      BY <1>3, <1>4, <2>1
  <1>8. CutAt(more, all, Q)
    BY <1>1, <1>2, <1>6, <1>7 DEF CutAt
  <1>9. more \in [0..Len(Q) -> 0..Len(all)]
    BY <1>1, <1>2, <1>5
  <1>10. QED
    BY <1>8, <1>9 DEF Q, all

LEMMA JoinAssociative ==
    ASSUME NEW S, NEW s \in Seq(S), NEW t \in Seq(S), NEW u \in Seq(S)
    PROVE  Join(Join(s, t), u) = Join(s, Join(t, u))
  <1>1. (s \o t) \o u = s \o (t \o u)
    BY ConcatAssociative
  <1>2. QED
    BY <1>1, Zenon DEF Join

LEMMA PrintedOn ==
    ASSUME NEW P \in Seq(Pieces), NEW p \in Pieces, NEW rest \in Seq(Given), NEW out, NEW ends,
           PrintedSo(P, Join(PieceArguments(p), rest), out, ends)
    PROVE  \E longer, more : PrintedSo(Append(P, p), rest, longer, more)
  <1> DEFINE given == PieceArguments(p)
             args == Join(Arguments(P), Join(given, rest))
             f == Format(P)
             Q == Append(P, p)
  <1>1. /\ out \in Seq(Shown) /\ printf(f, args) = At(out, Join(given, rest), "text")
        /\ ends \in [0..Len(P) -> 0..Len(out)] /\ CutAt(ends, out, P)
    BY Zenon DEF PrintedSo
  <1>2. f \in Seq(Marks) /\ Format(Q) = Join(f, p.text)
    BY FormatAppend
  <1>3. /\ Arguments(P) \in Seq(Given) /\ given \in Seq(Given)
        /\ Arguments(Q) = Join(Arguments(P), given)
    BY ArgumentsAppend, ArgumentFacts
  <1>4. Join(Arguments(Q), rest) = args
    BY <1>3, JoinAssociative
  <1> HIDE DEF args, f
  <1>5. PICK t : Puts(f, args, out, rest, p, t)
    BY <1>1, <1>2, PiecePrints
  <1> HIDE DEF given
  <1>6. /\ t \in Seq(Shown) /\ IsText(t, p)
        /\ printf(Join(f, p.text), args) = At(Join(out, t), rest, "text")
    BY <1>5, Zenon DEF Puts
  <1>7. PICK more : /\ more \in [0..Len(Q) -> 0..Len(Join(out, t))]
                    /\ CutAt(more, Join(out, t), Q)
    BY <1>1, <1>6, CutOn
  <1>8. Join(out, t) \in Seq(Shown)
    BY <1>1, <1>6, JoinFacts
  <1> HIDE DEF Q
  <1>9. PrintedSo(Q, rest, Join(out, t), more)
    BY <1>2, <1>4, <1>6, <1>7, <1>8, Zenon DEF PrintedSo
  <1>10. QED
    BY <1>9 DEF Q

\* printf prints the pieces of any format.
LEMMA AllPrinted ==
    ASSUME NEW P \in Seq(Pieces), NEW rest \in Seq(Given)
    PROVE  \E out, ends : PrintedSo(P, rest, out, ends)
  <1> DEFINE Good(n) == \A Q \in Seq(Pieces) : \A left \in Seq(Given) :
                           Len(Q) = n => \E out, ends : PrintedSo(Q, left, out, ends)
             S == {n \in Nat : Good(n)}
  <1>1. 0 \in S
    <2> SUFFICES ASSUME NEW Q \in Seq(Pieces), NEW left \in Seq(Given), Len(Q) = 0
                 PROVE  \E out, ends : PrintedSo(Q, left, out, ends)
      OBVIOUS
    <2> DEFINE ends == [i \in 0..0 |-> 0]
    <2>1. Q = <<>>
      OBVIOUS
    <2>2. Format(Q) = <<>> /\ Arguments(Q) = <<>> /\ Join(<<>>, left) = left
      BY <2>1, NoPieces, JoinNone
    <2>3. printf(<<>>, left) = At(<<>>, left, "text")
      BY PrintNone DEF PrintStart, At
    <2>4. CutAt(ends, <<>>, Q) /\ ends \in [0..Len(Q) -> 0..Len(<<>>)]
      BY <2>1 DEF CutAt
    <2>5. <<>> \in Seq(Shown)
      OBVIOUS
    <2> HIDE DEF ends
    <2>6. PrintedSo(Q, left, <<>>, ends)
      BY <2>2, <2>3, <2>4, <2>5, Zenon DEF PrintedSo
    <2>7. QED
      BY <2>6
  <1>2. ASSUME NEW n \in S PROVE n + 1 \in S
    <2> SUFFICES ASSUME NEW Q \in Seq(Pieces), NEW left \in Seq(Given), Len(Q) = n + 1
                 PROVE  \E out, ends : PrintedSo(Q, left, out, ends)
      OBVIOUS
    <2> DEFINE front == SubSeq(Q, 1, n)
               p == Q[n + 1]
    <2>1. front \in Seq(Pieces) /\ Len(front) = n /\ p \in Pieces
      OBVIOUS
    <2>2. Append(front, p) = Q
      <3> DEFINE whole == Append(front, p)
      <3>1. \A i \in 1..n : front[i] = Q[i]
        OBVIOUS
      <3> HIDE DEF front, p
      <3>2. whole \in Seq(Pieces) /\ Len(whole) = n + 1 /\ whole[n + 1] = p
            /\ \A i \in 1..n : whole[i] = front[i]
        BY <2>1
      <3> HIDE DEF whole
      <3>3. \A i \in 1..Len(whole) : whole[i] = Q[i]
        <4> SUFFICES ASSUME NEW i \in 1..(n + 1) PROVE whole[i] = Q[i]
          BY <3>2
        <4>1. CASE i = n + 1
          BY <3>2, <4>1 DEF p
        <4>2. CASE i # n + 1
          <5>1. i \in 1..n
            BY <4>2
          <5>2. QED
            BY <3>1, <3>2, <5>1
        <4>3. QED
          BY <4>1, <4>2
      <3>4. whole = Q
        BY <3>2, <3>3, SeqEqual
      <3>5. QED
        BY <3>4 DEF whole
    <2> DEFINE given == Join(PieceArguments(p), left)
    <2>3. given \in Seq(Given)
      BY <2>1, ArgumentFacts, JoinFacts
    <2>4. Good(n)
      OBVIOUS
    <2> HIDE DEF front, p, S
    <2>5. \E out, ends : PrintedSo(front, given, out, ends)
      <3> HIDE DEF given
      <3>1. QED
        BY <2>1, <2>3, <2>4
    <2>6. QED
      BY <2>1, <2>2, <2>5, PrintedOn
  <1>3. S = Nat
    <2>1. S \subseteq Nat
      OBVIOUS
    <2> HIDE DEF S
    <2>2. QED
      BY <1>1, <1>2, <2>1, Induction
  <1>4. Good(Len(P))
    <2>1. Len(P) \in S
      BY <1>3
    <2>2. QED
      BY <2>1
  <1>5. QED
    BY <1>4

LEMMA BoundedIsSeq ==
    ASSUME NEW S, NEW most \in Nat, NEW s \in BoundedSeq(S, most)
    PROVE  s \in Seq(S)
  <1>1. PICK m \in 0..most : s \in [1..m -> S]
    BY DEF BoundedSeq, SeqOf
  <1>2. m \in Nat
    OBVIOUS
  <1>3. QED
    BY <1>1, <1>2, SeqDef, Zenon

LEMMA PrintfPrintsStep == CallInv /\ PrintfPrints /\ [Return]_vars => PrintfPrints'
  <1> SUFFICES ASSUME CallInv, PrintfPrints, [Return]_vars PROVE PrintfPrints'
    OBVIOUS
  <1>1. CASE result' = result
    BY <1>1, StepReturns DEF PrintfPrints, Returned
  <1>2. CASE Return
    <2> SUFFICES ASSUME Returned("printf")' PROVE PrintfPrints'
      BY DEF PrintfPrints
    <2> DEFINE P == call.args
               val == result'.val
    <2>1. call' = call /\ call.op = "printf" /\ val = printf(Format(P), Arguments(P))
      BY <1>2 DEF Return, Returns, Returned
    <2>2. P \in Seq(Pieces)
      <3>1. P \in BoundedSeq(Pieces, Items) /\ Items \in Nat
        BY <2>1, BoundsAssumption DEF CallInv
      <3> HIDE DEF P
      <3>2. QED
        BY <3>1, BoundedIsSeq
    <2> HIDE DEF P, val
    <2>3. <<>> \in Seq(Given)
      OBVIOUS
    <2>4. PICK out, ends : PrintedSo(P, <<>>, out, ends)
      BY <2>2, <2>3, AllPrinted
    <2>5. Arguments(P) \in Seq(Given)
      <3>1. [text |-> <<"A">>, value |-> 0] \in Pieces
        BY DEF Pieces
      <3>2. QED
        BY <2>2, <3>1, ArgumentsAppend
    <2>6. Join(Arguments(P), <<>>) = Arguments(P)
      BY <2>5, JoinNone
    <2>7. /\ val = At(out, <<>>, "text")
          /\ ends \in [0..Len(P) -> 0..Len(out)] /\ CutAt(ends, out, P)
      BY <2>1, <2>4, <2>6, Zenon DEF PrintedSo
    <2>8. val.esp = <<>> /\ val.out = out
      BY <2>7 DEF At
    <2>9. QED
      BY <2>1, <2>7, <2>8 DEF PrintfPrints, P, val
  <1>3. QED
    BY <1>1, <1>2, StepReturns

\* printf puts the text of each piece of a format on the screen, in order, from
\* the piece's own argument, and uses the arguments up.
THEOREM PrintfPrintsCorrect == Spec => []PrintfPrints
  <1>1. Init => PrintfPrints
    BY DEF Init, PrintfPrints, Returned, Running
  <1>2. QED
    BY <1>1, CallInvHolds, PrintfPrintsStep, PTL DEF Spec
=============================================================================
