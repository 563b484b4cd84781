---------------------------- MODULE NumberFacts -----------------------------
(***************************************************************************)
(* Facts about natural numbers, powers of two, sums, and sequences whose   *)
(* members are kept, put in and cut out, in an order or without one, which *)
(* the proofs about several parts of the library rely on.                  *)
(***************************************************************************)
EXTENDS Integers, Sequences, FiniteSetTheorems, SequenceTheorems, WellFoundedInduction, TLAPS

\* Every set of numbers that has one has a least one, and what holds for 0
\* and is passed on from each number to the next holds for all of them.
LEMMA Least ==
    ASSUME NEW T, T \subseteq Nat, T # {}
    PROVE  \E x \in T : \A y \in T : x <= y
<1>1. IsWellFoundedOn(OpToRel(<, Nat), Nat)
    BY NatLessThanWellFounded
<1>2. PICK x \in T : \A y \in T : ~ (<<y, x>> \in OpToRel(<, Nat))
    BY <1>1, WFMin
<1>3. \A y \in T : y \in Nat /\ x \in Nat /\ ~(y < x)
    BY <1>2 DEF OpToRel
<1>4. \A y \in T : x <= y
    BY <1>3
<1>. QED
    BY <1>4

\* Induction: a set with 0 and the successors of its numbers has all of them.
LEMMA SetInduction ==
    ASSUME NEW S, 0 \in S, \A n \in Nat : n \in S => n + 1 \in S
    PROVE  Nat \subseteq S
<1>. SUFFICES ASSUME Nat \ S # {} PROVE FALSE
    OBVIOUS
<1>1. PICK x \in Nat \ S : \A y \in Nat \ S : x <= y
    BY Least
<1>2. x # 0 /\ x - 1 \in Nat /\ x - 1 \in S
    BY <1>1
<1>. QED
    BY <1>1, <1>2

\* The sums of the first members of a sequence.
Sums(f, s, n) == f = [i \in 0..n |-> IF i = 0 THEN 0 ELSE f[i - 1] + s[i]]

\* What a function of the sums of a sequence is.
LEMMA SumsFacts ==
    ASSUME NEW f, NEW s, NEW n \in Nat, Sums(f, s, n)
    PROVE  f[0] = 0 /\ \A i \in 1..n : f[i] = f[i - 1] + s[i]
<1>1. \A i \in 0..n : f[i] = IF i = 0 THEN 0 ELSE f[i - 1] + s[i]
    BY Zenon DEF Sums
<1>2. 0 \in 0..n /\ \A i \in 1..n : i \in 0..n /\ i # 0
    OBVIOUS
<1>. QED
    BY <1>1, <1>2, Zenon

\* Every sequence of integers has its sums.
LEMMA SumsExist ==
    ASSUME NEW s \in Seq(Int), NEW n \in 0..Len(s)
    PROVE  \E f : Sums(f, s, n)
<1>. DEFINE S == {k \in Nat : k <= Len(s) => \E f \in [0..k -> Int] : Sums(f, s, k)}
<1>1. 0 \in S
  <2>. DEFINE f == [i \in 0..0 |-> 0]
  <2>1. f \in [0..0 -> Int] /\ Sums(f, s, 0)
    BY DEF Sums
  <2>. QED
    BY <2>1, Zenon
<1>2. ASSUME NEW k \in Nat, k \in S PROVE k + 1 \in S
  <2>. SUFFICES ASSUME k + 1 <= Len(s) PROVE \E f \in [0..(k + 1) -> Int] : Sums(f, s, k + 1)
    OBVIOUS
  <2>1. PICK g \in [0..k -> Int] : Sums(g, s, k)
    BY <1>2
  <2>. DEFINE f == [i \in 0..(k + 1) |-> IF i = k + 1 THEN g[k] + s[k + 1] ELSE g[i]]
  <2>2. f \in [0..(k + 1) -> Int] /\ Sums(f, s, k + 1)
    <3>1. s[k + 1] \in Int /\ g[k] \in Int /\ g[0] = 0 /\ \A i \in 1..k : g[i] = g[i - 1] + s[i]
      BY <2>1 DEF Sums
    <3>2. f \in [0..(k + 1) -> Int]
      BY <3>1
    <3>3. \A i \in 0..(k + 1) : f[i] = IF i = 0 THEN 0 ELSE f[i - 1] + s[i]
      BY <3>1
    <3>. QED
      BY <3>2, <3>3 DEF Sums
  <2>. QED
    BY <2>2, Zenon
<1>. HIDE DEF S
<1>3. Nat \subseteq S
    BY <1>1, <1>2, SetInduction, Zenon
<1>4. n \in S /\ n <= Len(s)
    BY <1>3
<1>. QED
    BY <1>4 DEF S

\* The numbers up to n are n numbers.
LEMMA CountTo ==
    ASSUME NEW n \in Nat
    PROVE  IsFiniteSet(1..n) /\ Cardinality(1..n) = n
<1>1. 1 \in Int /\ n \in Int
    OBVIOUS
<1>2. IsFiniteSet(1..n) /\ Cardinality(1..n) = IF 1 > n THEN 0 ELSE n - 1 + 1
    BY <1>1, FS_Interval, Zenon
<1>. QED
    BY <1>2

-----------------------------------------------------------------------------
\* The powers of two, counted as subsets.
LEMMA PowerCounts ==
    ASSUME NEW n \in Nat
    PROVE  IsFiniteSet(SUBSET (1..n)) /\ Cardinality(SUBSET (1..n)) = 2^n /\ 2^n \in Nat
<1>1. IsFiniteSet(1..n) /\ Cardinality(1..n) = n
    BY CountTo, Zenon
<1>2. IsFiniteSet(SUBSET (1..n)) /\ Cardinality(SUBSET (1..n)) = 2^Cardinality(1..n)
    BY <1>1, FS_SUBSET, Zenon
<1>3. Cardinality(SUBSET (1..n)) \in Nat
    BY <1>2, FS_CardinalityType, Zenon
<1>. QED
    BY <1>1, <1>2, <1>3, Zenon

\* And each is twice the one before.
LEMMA PowerDoubles ==
    ASSUME NEW n \in Nat
    PROVE  2^(n + 1) = 2 * 2^n
<1>. DEFINE S == SUBSET (1..n)
            T == {x \cup {n + 1} : x \in S}
            f == [x \in S |-> x \cup {n + 1}]
<1>0. n + 1 \in Nat /\ n + 1 \notin 1..n /\ 1..(n + 1) = (1..n) \cup {n + 1}
    OBVIOUS
<1>1. IsFiniteSet(S) /\ Cardinality(S) = 2^n /\ 2^n \in Nat
    BY PowerCounts, Zenon
<1>2. f \in Bijection(S, T)
  <2>1. f \in Surjection(S, T)
    BY DEF Surjection
  <2>2. \A x, y \in S : f[x] = f[y] => x = y
    <3>. SUFFICES ASSUME NEW x \in S, NEW y \in S, x \cup {n + 1} = y \cup {n + 1} PROVE x = y
        OBVIOUS
    <3>1. x \subseteq 1..n /\ y \subseteq 1..n
        OBVIOUS
    <3>2. n + 1 \notin x /\ n + 1 \notin y
        BY <1>0, <3>1
    <3>3. x = (x \cup {n + 1}) \ {n + 1} /\ y = (y \cup {n + 1}) \ {n + 1}
        BY <3>2
    <3>4. x \cup {n + 1} = y \cup {n + 1}
        OBVIOUS
    <3>. QED
        BY <3>3, <3>4, Zenon
  <2>3. f \in [S -> T]
    OBVIOUS
  <2>. QED
    BY <2>1, <2>2, <2>3 DEF Bijection, Injection, IsInjective
<1>3. IsFiniteSet(T) /\ Cardinality(T) = 2^n
  <2>1. ExistsBijection(S, T)
    BY <1>2, Zenon DEF ExistsBijection
  <2>. QED
    BY <1>1, <2>1, FS_Bijection, Zenon
<1>4. S \cap T = {} /\ SUBSET (1..(n + 1)) = S \cup T
  <2>1. ASSUME NEW x \in S PROVE x \notin T
    BY <1>0
  <2>2. ASSUME NEW x \in SUBSET (1..(n + 1)) PROVE x \in S \cup T
    <3>1. CASE n + 1 \notin x
        BY <1>0, <3>1
    <3>2. CASE n + 1 \in x
      <4>1. x \ {n + 1} \in S /\ x = (x \ {n + 1}) \cup {n + 1}
        BY <1>0, <3>2
      <4>. QED
        BY <4>1
    <3>. QED
        BY <3>1, <3>2
  <2>3. ASSUME NEW x \in S \cup T PROVE x \in SUBSET (1..(n + 1))
    BY <1>0
  <2>4. S \cap T = {}
    BY <2>1
  <2>5. SUBSET (1..(n + 1)) = S \cup T
    BY <2>2, <2>3
  <2>. QED
    BY <2>4, <2>5
<1>5. Cardinality(SUBSET (1..(n + 1))) = 2^(n + 1)
    BY <1>0, PowerCounts, Zenon
<1>. HIDE DEF S, T
<1>6. Cardinality(S \cup T) = Cardinality(S) + Cardinality(T) - Cardinality({})
    BY <1>1, <1>3, <1>4, FS_Union
<1>7. Cardinality({}) = 0
    BY FS_EmptySet
<1>8. PICK p \in Nat : p = 2^n
    BY <1>1
<1>9. Cardinality(SUBSET (1..(n + 1))) = p + p - 0
    BY <1>1, <1>3, <1>4, <1>6, <1>7, <1>8, Zenon
<1>10. p + p - 0 = 2 * p
    OBVIOUS
<1>. QED
    BY <1>5, <1>8, <1>9, <1>10, Zenon

\* The first interval is not doubled.
LEMMA PowerOfZero ==
    2^0 = 1
<1>1. 0 \in Nat /\ SUBSET (1..0) = {{}}
    OBVIOUS
<1>2. Cardinality(SUBSET (1..0)) = 2^0
    BY <1>1, PowerCounts, Zenon
<1>. QED
    BY <1>1, <1>2, FS_Singleton, Zenon
-----------------------------------------------------------------------------
\* The members of the first parts of a sequence that are in a set.
Parts(f, s, S, n) ==
    f = [i \in 0..n |-> IF i = 0 THEN <<>> ELSE IF s[i] \in S THEN Append(f[i - 1], s[i]) ELSE f[i - 1]]

OneByOne(f, s, S, n) ==
    f[0] = <<>> /\ \A i \in 1..n : f[i] = IF s[i] \in S THEN Append(f[i - 1], s[i]) ELSE f[i - 1]

\* A function of the parts of a sequence goes on one by one.
LEMMA PartsFacts ==
    ASSUME NEW f, NEW s, NEW S, NEW n \in Nat, Parts(f, s, S, n)
    PROVE  OneByOne(f, s, S, n)
<1>1. \A i \in 0..n : f[i] = IF i = 0 THEN <<>> ELSE IF s[i] \in S THEN Append(f[i - 1], s[i]) ELSE f[i - 1]
    BY Zenon DEF Parts
<1>2. 0 \in 0..n /\ \A i \in 1..n : i \in 0..n /\ i # 0
    OBVIOUS
<1>. QED
    BY <1>1, <1>2 DEF OneByOne

\* Every sequence has its parts.
LEMMA PartsExist ==
    ASSUME NEW X, NEW s \in Seq(X), NEW S, NEW n \in 0..Len(s)
    PROVE  \E f : Parts(f, s, S, n)
<1>. DEFINE N == {k \in Nat : k <= Len(s) => \E f \in [0..k -> Seq(X)] : Parts(f, s, S, k)}
<1>1. 0 \in N
  <2>. DEFINE f == [i \in 0..0 |-> <<>>]
  <2>1. f \in [0..0 -> Seq(X)] /\ Parts(f, s, S, 0)
    BY DEF Parts
  <2>. QED
    BY <2>1, Zenon
<1>2. ASSUME NEW k \in Nat, k \in N PROVE k + 1 \in N
  <2>. SUFFICES ASSUME k + 1 <= Len(s) PROVE \E f \in [0..(k + 1) -> Seq(X)] : Parts(f, s, S, k + 1)
    OBVIOUS
  <2>1. PICK g \in [0..k -> Seq(X)] : Parts(g, s, S, k)
    BY <1>2
  <2>2. PICK x \in Seq(X) : x = IF s[k + 1] \in S THEN Append(g[k], s[k + 1]) ELSE g[k]
    <3>1. s[k + 1] \in X /\ g[k] \in Seq(X)
      OBVIOUS
    <3>2. Append(g[k], s[k + 1]) \in Seq(X)
      BY <3>1, AppendProperties, Zenon
    <3>. QED
      BY <3>1, <3>2
  <2>. DEFINE f == [i \in 0..(k + 1) |-> IF i = k + 1 THEN x ELSE g[i]]
  <2>3. f \in [0..(k + 1) -> Seq(X)] /\ f[k + 1] = x /\ \A i \in 0..k : f[i] = g[i]
    OBVIOUS
  <2>4. Parts(f, s, S, k + 1)
    <3>1. OneByOne(g, s, S, k)
      BY <2>1, PartsFacts, Zenon
    <3>. HIDE DEF f
    <3>2. f[0] = <<>> /\ \A i \in 1..k : f[i] = IF s[i] \in S THEN Append(f[i - 1], s[i]) ELSE f[i - 1]
      <4>1. ASSUME NEW i \in 1..k PROVE f[i] = IF s[i] \in S THEN Append(f[i - 1], s[i]) ELSE f[i - 1]
        <5>1. f[i] = g[i] /\ f[i - 1] = g[i - 1]
          BY <2>3
        <5>2. g[i] = IF s[i] \in S THEN Append(g[i - 1], s[i]) ELSE g[i - 1]
          BY <3>1 DEF OneByOne
        <5>. QED
          BY <5>1, <5>2
      <4>2. f[0] = <<>>
        BY <2>3, <3>1 DEF OneByOne
      <4>. QED
        BY <4>1, <4>2
    <3>3. f[k + 1] = IF s[k + 1] \in S THEN Append(f[k], s[k + 1]) ELSE f[k]
      BY <2>2, <2>3
    <3>4. \A i \in 0..(k + 1) :
              f[i] = IF i = 0 THEN <<>> ELSE IF s[i] \in S THEN Append(f[i - 1], s[i]) ELSE f[i - 1]
      <4>1. ASSUME NEW i \in 0..(k + 1), i # 0
            PROVE  f[i] = IF s[i] \in S THEN Append(f[i - 1], s[i]) ELSE f[i - 1]
        <5>1. i \in 1..k \/ i = k + 1
          BY <4>1
        <5>2. ASSUME i = k + 1 PROVE i - 1 = k
          BY <5>2
        <5>. QED
          BY <3>2, <3>3, <5>1, <5>2
      <4>. QED
        BY <3>2, <4>1
    <3>5. f = [i \in 0..(k + 1) |-> f[i]]
      BY <2>3
    <3>. QED
      BY <3>4, <3>5 DEF Parts
  <2>. HIDE DEF f
  <2>. QED
    BY <2>3, <2>4, Zenon
<1>. HIDE DEF N
<1>3. Nat \subseteq N
    BY <1>1, <1>2, SetInduction, Zenon
<1>4. n \in N /\ n <= Len(s)
    BY <1>3
<1>. QED
    BY <1>4 DEF N

-----------------------------------------------------------------------------
(* Sequences that elements are inserted into and removed from.             *)

\* SubSeq goes from f to n, which may be one before f.
LEMMA PieceFacts ==
    ASSUME NEW X, NEW s \in Seq(X), NEW f \in 1..Len(s) + 1, NEW n \in f - 1..Len(s)
    PROVE  /\ SubSeq(s, f, n) \in Seq(X) /\ Len(SubSeq(s, f, n)) = n - f + 1
           /\ \A i \in 1..n - f + 1 : SubSeq(s, f, n)[i] = s[f + i - 1]
<1>1. f \in Int /\ n \in Int /\ \A i \in f..n : i \in 1..Len(s)
    OBVIOUS
<1>2. \A i \in f..n : s[i] \in X
    BY <1>1, ElementOfSeq, Zenon
<1>3. SubSeq(s, f, n) \in Seq(X)
    BY <1>1, <1>2, SubSeqProperties, Zenon
<1>4. Len(SubSeq(s, f, n)) = IF f <= n THEN n - f + 1 ELSE 0
    BY <1>1, <1>2, SubSeqProperties, Zenon
<1>5. \A i \in 1..n - f + 1 : SubSeq(s, f, n)[i] = s[f + i - 1]
    BY <1>1, <1>2, SubSeqProperties, SMT
<1>. DEFINE p == SubSeq(s, f, n)
<1>. HIDE DEF p
<1>6. Len(p) = n - f + 1
    BY <1>1, <1>4 DEF p
<1>. QED
    BY <1>3, <1>5, <1>6 DEF p

\* One sequence after another.
InARow(c, a, b) ==
    /\ Len(c) = Len(a) + Len(b)
    /\ \A i \in 1..Len(a) : c[i] = a[i]
    /\ \A i \in 1..Len(b) : c[Len(a) + i] = b[i]

\* The elements of two sequences, one after the other.
LEMMA JoinFacts ==
    ASSUME NEW X, NEW a \in Seq(X), NEW b \in Seq(X), NEW c, c = a \o b
    PROVE  c \in Seq(X) /\ InARow(c, a, b)
<1>0. Len(a) \in Nat /\ Len(b) \in Nat
    OBVIOUS
<1>1. c \in Seq(X) /\ Len(c) = Len(a) + Len(b)
    BY SMT
<1>2. \A i \in 1..Len(a) : c[i] = a[i]
    BY <1>0, SMT
<1>3. \A i \in 1..Len(b) : c[Len(a) + i] = b[i]
    BY <1>0, SMT
<1>. QED
    BY <1>1, <1>2, <1>3 DEF InARow

\* The elements of m are put before the one at f.
PutIn(c, s, m, f) ==
    /\ Len(c) = Len(s) + Len(m)
    /\ \A i \in 1..f - 1 : c[i] = s[i]
    /\ \A i \in 1..Len(m) : c[f - 1 + i] = m[i]
    /\ \A i \in f..Len(s) : c[i + Len(m)] = s[i]

\* Elements that are put in are there, and the others move up.
LEMMA InsertElements ==
    ASSUME NEW X, NEW s \in Seq(X), NEW m \in Seq(X), NEW f \in 1..Len(s) + 1, NEW c,
           c = SubSeq(s, 1, f - 1) \o m \o SubSeq(s, f, Len(s))
    PROVE  c \in Seq(X) /\ PutIn(c, s, m, f)
<1>. DEFINE a == SubSeq(s, 1, f - 1)
            b == SubSeq(s, f, Len(s))
            d == a \o m
<1>0. /\ Len(s) \in Nat /\ Len(m) \in Nat /\ f \in Int
      /\ 1 \in 1..Len(s) + 1 /\ f - 1 \in 1 - 1..Len(s) /\ Len(s) \in f - 1..Len(s)
    OBVIOUS
<1>1. a \in Seq(X) /\ Len(a) = f - 1 - 1 + 1 /\ \A i \in 1..f - 1 - 1 + 1 : a[i] = s[1 + i - 1]
    BY <1>0, PieceFacts, Zenon
<1>2. b \in Seq(X) /\ Len(b) = Len(s) - f + 1 /\ \A i \in 1..Len(s) - f + 1 : b[i] = s[f + i - 1]
    BY <1>0, PieceFacts, Zenon
<1>3. c = d \o b
    OBVIOUS
<1>. HIDE DEF a, b
<1>. HIDE DEF d
<1>4. d \in Seq(X) /\ InARow(d, a, m)
    BY <1>1, JoinFacts, Zenon DEF d
<1>5. c \in Seq(X) /\ InARow(c, d, b)
    BY <1>2, <1>3, <1>4, JoinFacts, Zenon
<1>6. PICK la \in Nat, lb \in Nat, ld \in Nat, ls \in Nat, lm \in Nat :
          /\ la = Len(a) /\ lb = Len(b) /\ ld = Len(d) /\ ls = Len(s) /\ lm = Len(m)
          /\ la = f - 1 /\ lb = ls - f + 1 /\ ld = la + lm
  <2>1. /\ Len(a) = f - 1 /\ Len(b) = Len(s) - f + 1 /\ Len(d) = Len(a) + Len(m)
        /\ Len(a) \in Nat /\ Len(b) \in Nat /\ Len(d) \in Nat
    BY <1>0, <1>1, <1>2, <1>4 DEF InARow
  <2>. QED
    BY <1>0, <2>1, Zenon
<1>7. Len(c) = Len(s) + Len(m)
  <2>1. Len(c) = ld + lb
    BY <1>5, <1>6, Zenon DEF InARow
  <2>2. ld + lb = ls + lm
    BY <1>0, <1>6
  <2>. QED
    BY <1>6, <2>1, <2>2, Zenon
<1>8. ASSUME NEW i \in 1..f - 1 PROVE c[i] = s[i]
  <2>1. i \in 1..la /\ i \in 1..ld /\ 1 + i - 1 = i /\ i \in 1..f - 1 - 1 + 1
    BY <1>0, <1>6
  <2>. QED
    BY <1>1, <1>4, <1>5, <1>6, <2>1 DEF InARow
<1>9. ASSUME NEW i \in 1..Len(m) PROVE c[f - 1 + i] = m[i]
  <2>1. la + i \in 1..ld /\ i \in 1..lm /\ la + i = f - 1 + i
    BY <1>0, <1>6
  <2>. QED
    BY <1>4, <1>5, <1>6, <2>1 DEF InARow
<1>10. ASSUME NEW i \in f..Len(s) PROVE c[i + Len(m)] = s[i]
  <2>1. i - la \in 1..lb /\ i - la \in 1..Len(s) - f + 1 /\ f + (i - la) - 1 = i /\ ld + (i - la) = i + lm
    BY <1>0, <1>6
  <2>2. c[ld + (i - la)] = b[i - la]
    BY <1>5, <1>6, <2>1 DEF InARow
  <2>3. b[i - la] = s[f + (i - la) - 1]
    BY <1>2, <2>1
  <2>. QED
    BY <1>6, <2>1, <2>2, <2>3
<1>. QED
    BY <1>5, <1>7, <1>8, <1>9, <1>10, Zenon DEF PutIn

\* The elements from f on to the one before t are removed.
CutOut(c, s, f, t) ==
    /\ Len(c) = Len(s) - (t - f)
    /\ \A i \in 1..f - 1 : c[i] = s[i]
    /\ \A i \in t..Len(s) : c[i - (t - f)] = s[i]

\* Elements that are cut out are gone, and the others move down.
LEMMA CutElements ==
    ASSUME NEW X, NEW s \in Seq(X), NEW f \in 1..Len(s) + 1, NEW t \in f..Len(s) + 1, NEW c,
           c = SubSeq(s, 1, f - 1) \o SubSeq(s, t, Len(s))
    PROVE  c \in Seq(X) /\ CutOut(c, s, f, t)
<1>. DEFINE a == SubSeq(s, 1, f - 1)
            b == SubSeq(s, t, Len(s))
<1>0. /\ Len(s) \in Nat /\ f \in Int /\ t \in Int /\ t \in 1..Len(s) + 1
      /\ 1 \in 1..Len(s) + 1 /\ f - 1 \in 1 - 1..Len(s) /\ Len(s) \in t - 1..Len(s)
    OBVIOUS
<1>1. a \in Seq(X) /\ Len(a) = f - 1 - 1 + 1 /\ \A i \in 1..f - 1 - 1 + 1 : a[i] = s[1 + i - 1]
    BY <1>0, PieceFacts, Zenon
<1>2. b \in Seq(X) /\ Len(b) = Len(s) - t + 1 /\ \A i \in 1..Len(s) - t + 1 : b[i] = s[t + i - 1]
    BY <1>0, PieceFacts, Zenon
<1>3. c = a \o b
    OBVIOUS
<1>. HIDE DEF a, b
<1>5. c \in Seq(X) /\ InARow(c, a, b)
    BY <1>1, <1>2, <1>3, JoinFacts, Zenon
<1>6. PICK la \in Nat, lb \in Nat, ls \in Nat :
          /\ la = Len(a) /\ lb = Len(b) /\ ls = Len(s) /\ la = f - 1 /\ lb = ls - t + 1
  <2>1. Len(a) = f - 1 /\ Len(b) = Len(s) - t + 1 /\ Len(a) \in Nat /\ Len(b) \in Nat
    BY <1>0, <1>1, <1>2
  <2>. QED
    BY <1>0, <2>1, Zenon
<1>7. Len(c) = Len(s) - (t - f)
  <2>1. Len(c) = la + lb
    BY <1>5, <1>6, Zenon DEF InARow
  <2>2. la + lb = ls - (t - f)
    BY <1>0, <1>6
  <2>. QED
    BY <1>6, <2>1, <2>2, Zenon
<1>8. ASSUME NEW i \in 1..f - 1 PROVE c[i] = s[i]
  <2>1. i \in 1..la /\ 1 + i - 1 = i /\ i \in 1..f - 1 - 1 + 1
    BY <1>0, <1>6
  <2>. QED
    BY <1>1, <1>5, <1>6, <2>1 DEF InARow
<1>9. ASSUME NEW i \in t..Len(s) PROVE c[i - (t - f)] = s[i]
  <2>1. i - t + 1 \in 1..lb /\ i - t + 1 \in 1..Len(s) - t + 1 /\ t + (i - t + 1) - 1 = i
        /\ la + (i - t + 1) = i - (t - f)
    BY <1>0, <1>6
  <2>2. c[la + (i - t + 1)] = b[i - t + 1]
    BY <1>5, <1>6, <2>1 DEF InARow
  <2>3. b[i - t + 1] = s[t + (i - t + 1) - 1]
    BY <1>2, <2>1
  <2>. QED
    BY <2>1, <2>2, <2>3
<1>. QED
    BY <1>5, <1>7, <1>8, <1>9, Zenon DEF CutOut

-----------------------------------------------------------------------------
(* Sequences in an order, which a set of pairs is.                         *)

Ordered(s, R) == \A i, j \in 1..Len(s) : i < j => <<s[i], s[j]>> \in R

Entries(s) == {s[i] : i \in 1..Len(s)}

Arranged(s, X, R, M) == s \in Seq(X) /\ Ordered(s, R) /\ Entries(s) = M

PutAt(c, s, f, x) == c = SubSeq(s, 1, f - 1) \o <<x>> \o SubSeq(s, f, Len(s))

HasOneMore(c, s, f, x) == Len(c) = Len(s) + 1 /\ c[f] = x

\* An element that is put where it belongs leaves the sequence in its order.
LEMMA InsertInOrder ==
    ASSUME NEW X, NEW R, NEW s \in Seq(X), Ordered(s, R), NEW f \in 1..Len(s) + 1, NEW x \in X,
           \A i \in 1..f - 1 : <<s[i], x>> \in R, \A i \in f..Len(s) : <<x, s[i]>> \in R,
           NEW c, PutAt(c, s, f, x)
    PROVE  Arranged(c, X, R, Entries(s) \cup {x}) /\ HasOneMore(c, s, f, x)
<1>. DEFINE m == <<x>>
<1>1. m \in Seq(X) /\ Len(m) = 1 /\ m[1] = x
    OBVIOUS
<1>. HIDE DEF m
<1>2. c \in Seq(X) /\ PutIn(c, s, m, f)
  <2>1. c = SubSeq(s, 1, f - 1) \o m \o SubSeq(s, f, Len(s))
    BY Zenon DEF m, PutAt
  <2>. QED
    BY <1>1, <2>1, InsertElements, Zenon
<1>3. PICK n \in Nat : n = Len(s) /\ f \in 1..n + 1
    OBVIOUS
<1>4. Len(c) = n + 1
    BY <1>1, <1>2, <1>3, Zenon DEF PutIn
<1>5. c[f] = x
  <2>1. 1 \in 1..1 /\ f - 1 + 1 = f
    BY <1>3
  <2>2. c[f - 1 + 1] = m[1]
    BY <1>1, <1>2, <2>1, Zenon DEF PutIn
  <2>. QED
    BY <1>1, <2>1, <2>2, Zenon
<1>6. \A i \in 1..f - 1 : c[i] = s[i]
    BY <1>2, Zenon DEF PutIn
<1>7. \A i \in f..n : c[i + 1] = s[i]
    BY <1>1, <1>2, <1>3, Zenon DEF PutIn
<1>8. ASSUME NEW i \in 1..n + 1
      PROVE  (i \in 1..f - 1) \/ i = f \/ (i - 1 \in f..n /\ i - 1 + 1 = i)
    BY <1>3
<1>9. ASSUME NEW i \in 1..n + 1, NEW j \in 1..n + 1, i < j PROVE <<c[i], c[j]>> \in R
  <2>0. \A k, l \in 1..n : k < l => <<s[k], s[l]>> \in R
    BY <1>3, Zenon DEF Ordered
  <2>1. CASE i \in 1..f - 1 /\ j \in 1..f - 1
    <3>1. i \in 1..n /\ j \in 1..n
      BY <1>3, <2>1
    <3>2. <<s[i], s[j]>> \in R
      BY <1>9, <2>0, <3>1, Zenon
    <3>. QED
      BY <1>6, <2>1, <3>2, Zenon
  <2>2. CASE i \in 1..f - 1 /\ j = f
    BY <1>5, <1>6, <2>2, Zenon
  <2>3. CASE i \in 1..f - 1 /\ j - 1 \in f..n
    <3>1. i \in 1..n /\ j - 1 \in 1..n /\ i < j - 1 /\ j - 1 + 1 = j
      BY <1>3, <2>3
    <3>2. <<s[i], s[j - 1]>> \in R
      BY <2>0, <3>1, Zenon
    <3>3. c[j] = s[j - 1] /\ c[i] = s[i]
      BY <1>6, <1>7, <2>3, <3>1
    <3>. QED
      BY <3>2, <3>3, Zenon
  <2>4. CASE i = f /\ j - 1 \in f..n
    <3>1. c[j] = s[j - 1]
      <4>1. j - 1 + 1 = j
        OBVIOUS
      <4>. QED
        BY <1>7, <2>4, <4>1
    <3>2. <<x, s[j - 1]>> \in R
      BY <1>3, <2>4, Zenon
    <3>. QED
      BY <1>5, <2>4, <3>1, <3>2, Zenon
  <2>5. CASE i - 1 \in f..n /\ j - 1 \in f..n
    <3>1. i - 1 \in 1..n /\ j - 1 \in 1..n /\ i - 1 < j - 1 /\ j - 1 + 1 = j /\ i - 1 + 1 = i
      BY <1>3, <1>9, <2>5
    <3>2. <<s[i - 1], s[j - 1]>> \in R
      BY <2>0, <3>1, Zenon
    <3>3. c[j] = s[j - 1] /\ c[i] = s[i - 1]
      BY <1>7, <2>5, <3>1
    <3>. QED
      BY <3>2, <3>3, Zenon
  <2>6. \/ i \in 1..f - 1 /\ j \in 1..f - 1
        \/ i \in 1..f - 1 /\ j = f
        \/ i \in 1..f - 1 /\ j - 1 \in f..n
        \/ i = f /\ j - 1 \in f..n
        \/ i - 1 \in f..n /\ j - 1 \in f..n
    BY <1>3, <1>9
  <2>. QED
    BY <2>1, <2>2, <2>3, <2>4, <2>5, <2>6, Zenon
<1>10. Ordered(c, R)
    BY <1>4, <1>9, Zenon DEF Ordered
<1>11. Entries(c) = Entries(s) \cup {x}
  <2>1. ASSUME NEW i \in 1..n + 1 PROVE c[i] \in {s[k] : k \in 1..n} \cup {x}
    <3>1. CASE i \in 1..f - 1
      <4>1. i \in 1..n
        BY <1>3, <3>1
      <4>. QED
        BY <1>6, <3>1, <4>1
    <3>2. CASE i - 1 \in f..n /\ i - 1 + 1 = i
      <4>1. i - 1 \in 1..n
        BY <1>3, <3>2
      <4>. QED
        BY <1>7, <3>2, <4>1
    <3>. QED
      BY <1>5, <1>8, <3>1, <3>2
  <2>2. ASSUME NEW i \in 1..n PROVE s[i] \in {c[k] : k \in 1..n + 1}
    <3>1. CASE i \in 1..f - 1
      <4>1. i \in 1..n + 1
        BY <1>3, <3>1
      <4>. QED
        BY <1>6, <3>1, <4>1
    <3>2. CASE i \in f..n
      <4>1. i + 1 \in 1..n + 1
        BY <1>3, <3>2
      <4>. QED
        BY <1>7, <3>2, <4>1
    <3>3. i \in 1..f - 1 \/ i \in f..n
      BY <1>3
    <3>. QED
      BY <3>1, <3>2, <3>3, Zenon
  <2>3. x \in {c[k] : k \in 1..n + 1}
    BY <1>3, <1>5
  <2>4. Entries(c) = {c[k] : k \in 1..n + 1} /\ Entries(s) = {s[k] : k \in 1..n}
    BY <1>3, <1>4, Zenon DEF Entries
  <2>5. {c[k] : k \in 1..n + 1} = {s[k] : k \in 1..n} \cup {x}
    BY <2>1, <2>2, <2>3, Zenon
  <2>. QED
    BY <2>4, <2>5, Zenon
<1>. QED
    BY <1>2, <1>3, <1>4, <1>5, <1>10, <1>11, Zenon DEF Arranged, HasOneMore

\* What is left of an ordered sequence is ordered.
LEMMA CutInOrder ==
    ASSUME NEW X, NEW R, NEW s \in Seq(X), Ordered(s, R),
           NEW f \in 1..Len(s) + 1, NEW t \in f..Len(s) + 1,
           NEW c, c = SubSeq(s, 1, f - 1) \o SubSeq(s, t, Len(s))
    PROVE  Arranged(c, X, R, {s[i] : i \in (1..f - 1) \cup (t..Len(s))})
<1>1. c \in Seq(X) /\ CutOut(c, s, f, t)
    BY CutElements, Zenon
<1>2. PICK n \in Nat : n = Len(s) /\ f \in 1..n + 1 /\ t \in f..n + 1
    OBVIOUS
<1>3. PICK d \in Nat : d = t - f /\ n - d \in Nat
    BY <1>2
<1>4. Len(c) = n - d
    BY <1>1, <1>2, <1>3, Zenon DEF CutOut
<1>5. \A i \in 1..f - 1 : c[i] = s[i]
    BY <1>1, Zenon DEF CutOut
<1>6. \A i \in t..n : c[i - d] = s[i]
    BY <1>1, <1>2, <1>3, Zenon DEF CutOut
<1>. DEFINE at(i) == IF i < f THEN i ELSE i + d
<1>7. ASSUME NEW i \in 1..n - d
      PROVE  at(i) \in 1..n /\ c[i] = s[at(i)] /\ at(i) \in (1..f - 1) \cup (t..n)
  <2>1. CASE i < f
    <3>1. i \in 1..f - 1 /\ at(i) = i /\ i \in 1..n
      BY <1>2, <1>3, <2>1
    <3>. QED
      BY <1>5, <3>1
  <2>2. CASE ~(i < f)
    <3>1. at(i) = i + d /\ i + d \in t..n /\ i + d \in 1..n /\ (i + d) - d = i
      BY <1>2, <1>3, <2>2
    <3>2. PICK j \in t..n : j = i + d /\ j - d = i
      BY <3>1
    <3>3. c[i] = s[j]
      BY <1>6, <3>2
    <3>. QED
      BY <3>1, <3>2, <3>3
  <2>. QED
    BY <2>1, <2>2
<1>8. ASSUME NEW i \in 1..n - d, NEW j \in 1..n - d, i < j PROVE at(i) < at(j)
    BY <1>2, <1>3, <1>8
<1>. HIDE DEF at
<1>9. Ordered(c, R)
  <2>1. \A k, l \in 1..n : k < l => <<s[k], s[l]>> \in R
    BY <1>2, Zenon DEF Ordered
  <2>2. ASSUME NEW i \in 1..n - d, NEW j \in 1..n - d, i < j PROVE <<c[i], c[j]>> \in R
    <3>1. at(i) < at(j)
      BY <1>8, <2>2
    <3>2. <<s[at(i)], s[at(j)]>> \in R
      BY <1>7, <2>1, <3>1, Zenon
    <3>. QED
      BY <1>7, <3>2, Zenon
  <2>. QED
    BY <1>4, <2>2, Zenon DEF Ordered
<1>10. Entries(c) = {s[i] : i \in (1..f - 1) \cup (t..Len(s))}
  <2>1. ASSUME NEW i \in (1..f - 1) \cup (t..n) PROVE s[i] \in {c[k] : k \in 1..n - d}
    <3>1. CASE i \in 1..f - 1
      <4>1. i \in 1..n - d
        BY <1>2, <1>3, <3>1
      <4>. QED
        BY <1>5, <3>1, <4>1
    <3>2. CASE i \in t..n
      <4>1. i - d \in 1..n - d
        BY <1>2, <1>3, <3>2
      <4>. QED
        BY <1>6, <3>2, <4>1
    <3>. QED
      BY <3>1, <3>2
  <2>2. {c[k] : k \in 1..n - d} = {s[i] : i \in (1..f - 1) \cup (t..n)}
    BY <1>7, <2>1, Zenon
  <2>. QED
    BY <1>2, <1>4, <2>2, Zenon DEF Entries
<1>. QED
    BY <1>1, <1>9, <1>10, Zenon DEF Arranged

\* An element behind all the others.
LEMMA AppendInOrder ==
    ASSUME NEW X, NEW R, NEW s \in Seq(X), Ordered(s, R), NEW x \in X,
           \A y \in Entries(s) : <<y, x>> \in R
    PROVE  Arranged(Append(s, x), X, R, Entries(s) \cup {x})
<1>. DEFINE c == Append(s, x)
<1>1. /\ c \in Seq(X) /\ Len(c) = Len(s) + 1 /\ (\A i \in 1..Len(s) : c[i] = s[i])
      /\ c[Len(s) + 1] = x
    OBVIOUS
<1>. HIDE DEF c
<1>2. PICK n \in Nat : n = Len(s)
    OBVIOUS
<1>3. /\ Len(c) = n + 1 /\ c[n + 1] = x
      /\ \A i \in 1..n : c[i] = s[i]
    BY <1>1, <1>2, Zenon
<1>4. Ordered(c, R)
  <2>1. ASSUME NEW i \in 1..n + 1, NEW j \in 1..n + 1, i < j PROVE <<c[i], c[j]>> \in R
    <3>1. i \in 1..n /\ (j \in 1..n \/ j = n + 1)
      BY <2>1
    <3>2. CASE j \in 1..n
      <4>1. <<s[i], s[j]>> \in R
        BY <1>2, <2>1, <3>1, <3>2, Zenon DEF Ordered
      <4>. QED
        BY <1>3, <3>1, <3>2, <4>1, Zenon
    <3>3. CASE j = n + 1
      <4>1. s[i] \in Entries(s)
        BY <1>2, <3>1, Zenon DEF Entries
      <4>. QED
        BY <1>3, <3>1, <3>3, <4>1, Zenon
    <3>. QED
      BY <3>1, <3>2, <3>3
  <2>. QED
    BY <1>3, <2>1, Zenon DEF Ordered
<1>5. Entries(c) = Entries(s) \cup {x}
  <2>1. \A i \in 1..n + 1 : i \in 1..n \/ i = n + 1
    OBVIOUS
  <2>2. n + 1 \in 1..n + 1 /\ \A i \in 1..n : i \in 1..n + 1
    OBVIOUS
  <2>3. {c[i] : i \in 1..n + 1} = {s[i] : i \in 1..n} \cup {x}
    BY <1>3, <2>1, <2>2
  <2>. QED
    BY <1>2, <1>3, <2>3, Zenon DEF Entries
<1>. QED
    BY <1>1, <1>4, <1>5 DEF c, Arranged

\* The members of an ordered sequence that are kept are in order.
LEMMA PartsInOrder ==
    ASSUME NEW X, NEW R, NEW s \in Seq(X), Ordered(s, R), NEW S, NEW f, Parts(f, s, S, Len(s))
    PROVE  Arranged(f[Len(s)], X, R, Entries(s) \cap S)
<1>. DEFINE Good(g, k) == /\ g \in Seq(X) /\ Ordered(g, R)
                          /\ Entries(g) = {s[i] : i \in 1..k} \cap S
            N == {k \in Nat : k <= Len(s) => Good(f[k], k)}
<1>1. PICK n \in Nat : n = Len(s)
    OBVIOUS
<1>2. OneByOne(f, s, S, n)
    BY <1>1, PartsFacts, Zenon
<1>3. 0 \in N
  <2>1. f[0] = <<>>
    BY <1>2 DEF OneByOne
  <2>2. <<>> \in Seq(X) /\ Len(<<>>) = 0 /\ 1..0 = {}
    OBVIOUS
  <2>3. Ordered(<<>>, R) /\ Entries(<<>>) = {}
    BY <2>2 DEF Ordered, Entries
  <2>. QED
    BY <2>1, <2>2, <2>3
<1>4. ASSUME NEW k \in Nat, k \in N PROVE k + 1 \in N
  <2>. SUFFICES ASSUME k + 1 <= n PROVE Good(f[k + 1], k + 1)
    BY <1>1
  <2>1. Good(f[k], k) /\ k + 1 \in 1..n /\ (k + 1) - 1 = k
    BY <1>1, <1>4
  <2>2. f[k + 1] = IF s[k + 1] \in S THEN Append(f[k], s[k + 1]) ELSE f[k]
    BY <1>2, <2>1 DEF OneByOne
  <2>3. s[k + 1] \in X
    BY <1>1, <2>1
  <2>4. {s[i] : i \in 1..(k + 1)} = {s[i] : i \in 1..k} \cup {s[k + 1]}
    <3>1. \A i \in 1..(k + 1) : i \in 1..k \/ i = k + 1
      OBVIOUS
    <3>2. k + 1 \in 1..(k + 1) /\ \A i \in 1..k : i \in 1..(k + 1)
      OBVIOUS
    <3>. QED
      BY <3>1, <3>2
  <2>5. CASE s[k + 1] \in S
    <3>1. \A y \in Entries(f[k]) : <<y, s[k + 1]>> \in R
      <4>1. \A i \in 1..k : i \in 1..n /\ i < k + 1
        BY <2>1
      <4>2. \A i \in 1..k : <<s[i], s[k + 1]>> \in R
        BY <1>1, <2>1, <4>1, Zenon DEF Ordered
      <4>. QED
        BY <2>1, <4>2
    <3>2. Append(f[k], s[k + 1]) \in Seq(X) /\ Ordered(Append(f[k], s[k + 1]), R)
          /\ Entries(Append(f[k], s[k + 1])) = Entries(f[k]) \cup {s[k + 1]}
      <4>1. PICK u \in Seq(X), x \in X : u = f[k] /\ x = s[k + 1] /\ Ordered(u, R)
        BY <2>1, <2>3, Zenon
      <4>2. \A y \in Entries(u) : <<y, x>> \in R
        BY <3>1, <4>1, Zenon
      <4>3. Arranged(Append(u, x), X, R, Entries(u) \cup {x})
        BY <4>1, <4>2, AppendInOrder, Zenon
      <4>. QED
        BY <4>1, <4>3, Zenon DEF Arranged
    <3>. HIDE DEF N
    <3>3. f[k + 1] = Append(f[k], s[k + 1])
      BY <2>2, <2>5, Zenon
    <3>4. Entries(f[k + 1]) = {s[i] : i \in 1..(k + 1)} \cap S
      BY <2>1, <2>4, <2>5, <3>2, <3>3, Zenon
    <3>. QED
      BY <3>2, <3>3, <3>4, Zenon
  <2>6. CASE s[k + 1] \notin S
    <3>1. f[k + 1] = f[k]
      BY <2>2, <2>6, Zenon
    <3>2. Entries(f[k + 1]) = {s[i] : i \in 1..(k + 1)} \cap S
      BY <2>1, <2>4, <2>6, <3>1, Zenon
    <3>. QED
      BY <2>1, <3>1, <3>2, Zenon
  <2>. QED
    BY <2>5, <2>6
<1>. HIDE DEF N
<1>5. Nat \subseteq N
    BY <1>3, <1>4, SetInduction, Zenon
<1>6. Good(f[n], n)
  <2>1. n \in N /\ n <= Len(s)
    BY <1>1, <1>5
  <2>. QED
    BY <2>1, Zenon DEF N
<1>. QED
    BY <1>1, <1>6, Zenon DEF Entries, Arranged

\* The first elements of a sequence.
LEMMA BeginFacts ==
    ASSUME NEW X, NEW s \in Seq(X), NEW n \in 0..Len(s)
    PROVE  /\ SubSeq(s, 1, n) \in Seq(X) /\ Len(SubSeq(s, 1, n)) = n
           /\ \A i \in 1..n : SubSeq(s, 1, n)[i] = s[i]
<1>1. 1 \in Int /\ n \in Int /\ \A i \in 1..n : s[i] \in X
    OBVIOUS
<1>2. SubSeq(s, 1, n) \in Seq(X)
    BY <1>1, SubSeqProperties, Zenon
<1>3. Len(SubSeq(s, 1, n)) = n
    BY SMT
<1>4. \A i \in 1..n : SubSeq(s, 1, n)[i] = s[i]
    BY SMT
<1>. QED
    BY <1>2, <1>3, <1>4, Zenon

\* What is kept of a sequence is no longer than it.
LEMMA PartsAreShorter ==
    ASSUME NEW X, NEW s \in Seq(X), NEW S, NEW f, Parts(f, s, S, Len(s))
    PROVE  f[Len(s)] \in Seq(X) /\ Len(f[Len(s)]) <= Len(s)
<1>. DEFINE N == {k \in Nat : k <= Len(s) => f[k] \in Seq(X) /\ Len(f[k]) <= k}
<1>1. PICK n \in Nat : n = Len(s)
    OBVIOUS
<1>2. OneByOne(f, s, S, n)
    BY <1>1, PartsFacts, Zenon
<1>3. 0 \in N
  <2>1. f[0] = <<>>
    BY <1>2 DEF OneByOne
  <2>2. f[0] \in Seq(X) /\ Len(f[0]) <= 0
    BY <2>1
  <2>. QED
    BY <2>2, Zenon
<1>4. ASSUME NEW k \in Nat, k \in N PROVE k + 1 \in N
  <2>. SUFFICES ASSUME k + 1 <= n PROVE f[k + 1] \in Seq(X) /\ Len(f[k + 1]) <= k + 1
    BY <1>1
  <2>1. f[k] \in Seq(X) /\ Len(f[k]) <= k /\ k + 1 \in 1..n /\ (k + 1) - 1 = k /\ s[k + 1] \in X
    BY <1>1, <1>4
  <2>2. f[k + 1] = IF s[k + 1] \in S THEN Append(f[k], s[k + 1]) ELSE f[k]
    BY <1>2, <2>1 DEF OneByOne
  <2>3. Append(f[k], s[k + 1]) \in Seq(X) /\ Len(Append(f[k], s[k + 1])) = Len(f[k]) + 1
    BY <2>1
  <2>4. Len(f[k]) \in Nat
    BY <2>1
  <2>. QED
    BY <2>1, <2>2, <2>3, <2>4
<1>. HIDE DEF N
<1>5. Nat \subseteq N
    BY <1>3, <1>4, SetInduction, Zenon
<1>6. n \in N /\ n <= Len(s)
    BY <1>1, <1>5
<1>. QED
    BY <1>1, <1>6, Zenon DEF N

-----------------------------------------------------------------------------
(* Sequences, one element after the other.                                *)

\* What holds of the empty sequence and is passed on when an element is
\* appended holds of all sequences.
LEMMA SequenceInduction ==
    ASSUME NEW X, NEW S, <<>> \in S,
           \A s \in Seq(X) : \A x \in X : s \in S => Append(s, x) \in S
    PROVE  Seq(X) \subseteq S
<1>. DEFINE N == {k \in Nat : \A s \in Seq(X) : Len(s) = k => s \in S}
<1>1. 0 \in N
  <2>1. \A s \in Seq(X) : Len(s) = 0 => s = <<>>
    OBVIOUS
  <2>. QED
    BY <2>1
<1>2. ASSUME NEW k \in Nat, k \in N PROVE k + 1 \in N
  <2>. SUFFICES ASSUME NEW s \in Seq(X), Len(s) = k + 1 PROVE s \in S
    OBVIOUS
  <2>1. PICK t, x : t = SubSeq(s, 1, k) /\ x = s[k + 1]
    OBVIOUS
  <2>2. t \in Seq(X) /\ Len(t) = k /\ x \in X /\ \A i \in 1..k : t[i] = s[i]
    BY <2>1
  <2>3. s = Append(t, x)
    BY <2>1, <2>2
  <2>4. t \in S
    BY <1>2, <2>2
  <2>. QED
    BY <2>2, <2>3, <2>4, Zenon
<1>. HIDE DEF N
<1>3. Nat \subseteq N
    BY <1>1, <1>2, SetInduction, Zenon
<1>4. ASSUME NEW s \in Seq(X) PROVE s \in S
  <2>1. Len(s) \in N
    BY <1>3
  <2>. QED
    BY <2>1, Zenon DEF N
<1>. QED
    BY <1>4

\* A sequence is what it begins with and the element after that.
LEMMA BeginGrows ==
    ASSUME NEW X, NEW s \in Seq(X)
    PROVE  /\ SubSeq(s, 1, 0) = <<>> /\ SubSeq(s, 1, Len(s)) = s
           /\ \A k \in 1..Len(s) : SubSeq(s, 1, k) = Append(SubSeq(s, 1, k - 1), s[k])
<1>1. SubSeq(s, 1, 0) = <<>> /\ SubSeq(s, 1, Len(s)) = s
    OBVIOUS
<1>2. ASSUME NEW k \in 1..Len(s) PROVE SubSeq(s, 1, k) = Append(SubSeq(s, 1, k - 1), s[k])
  <2>1. k - 1 \in 0..Len(s) /\ k \in 0..Len(s) /\ Len(s) \in Nat /\ s[k] \in X
    OBVIOUS
  <2>2. PICK t, u : t = SubSeq(s, 1, k) /\ u = SubSeq(s, 1, k - 1)
    OBVIOUS
  <2>3. t \in Seq(X) /\ Len(t) = k /\ \A i \in 1..k : t[i] = s[i]
    BY <2>1, <2>2, BeginFacts, Zenon
  <2>4. u \in Seq(X) /\ Len(u) = k - 1 /\ \A i \in 1..k - 1 : u[i] = s[i]
    BY <2>1, <2>2, BeginFacts, Zenon
  <2>5. t = Append(u, s[k])
    BY <2>1, <2>3, <2>4
  <2>. QED
    BY <2>2, <2>5, Zenon
<1>. QED
    BY <1>1, <1>2, Zenon

\* Appending to the second of two sequences.
LEMMA AppendBehind ==
    ASSUME NEW X, NEW a \in Seq(X), NEW b \in Seq(X), NEW x \in X
    PROVE  a \o Append(b, x) = Append(a \o b, x)
<1>1. PICK c : c = a \o b
    OBVIOUS
<1>2. c \in Seq(X) /\ InARow(c, a, b)
    BY <1>1, JoinFacts, Zenon
<1>3. PICK d : d = a \o Append(b, x)
    OBVIOUS
<1>4. Append(b, x) \in Seq(X)
    OBVIOUS
<1>5. d \in Seq(X) /\ InARow(d, a, Append(b, x))
    BY <1>3, <1>4, JoinFacts, Zenon
<1>6. Len(Append(c, x)) = Len(d) /\ Append(c, x) \in Seq(X)
    BY <1>2, <1>5 DEF InARow
<1>7. PICK m \in Nat, n \in Nat : m = Len(a) /\ n = Len(b)
    OBVIOUS
<1>8. /\ Len(c) = m + n /\ \A i \in 1..m : c[i] = a[i] /\ d[i] = a[i]
      /\ \A i \in 1..n : c[m + i] = b[i]
    BY <1>2, <1>5, <1>7, Zenon DEF InARow
<1>9. Len(d) = m + (n + 1) /\ \A i \in 1..n + 1 : d[m + i] = Append(b, x)[i]
    BY <1>4, <1>5, <1>7 DEF InARow
<1>10. \A i \in 1..n : d[m + i] = c[m + i]
    BY <1>7, <1>8, <1>9
<1>11. d[m + (n + 1)] = x
    BY <1>7, <1>9
<1>12. d = Append(c, x)
  <2>1. ASSUME NEW i \in 1..m + n PROVE d[i] = c[i]
    <3>1. i \in 1..m \/ \E j \in 1..n : i = m + j
      <4>1. i > m => i - m \in 1..n /\ i = m + (i - m)
        OBVIOUS
      <4>. QED
        BY <4>1
    <3>. QED
      BY <1>8, <1>10, <3>1, Zenon
  <2>2. PICK k \in Nat : k = m + n /\ m + (n + 1) = k + 1
    OBVIOUS
  <2>3. c \in Seq(X) /\ Len(c) = k /\ d \in Seq(X) /\ Len(d) = k + 1 /\ d[k + 1] = x
    BY <1>2, <1>5, <1>8, <1>9, <1>11, <2>2, Zenon
  <2>4. \A i \in 1..k : d[i] = c[i]
    BY <2>1, <2>2, Zenon
  <2>. QED
    BY <2>3, <2>4
<1>. QED
    BY <1>1, <1>3, <1>12, Zenon

-----------------------------------------------------------------------------
(* Sequences of sequences, joined to one.                                  *)

\* Sequences put together are a sequence.
Chained(f, ss) == f = [i \in 1..Len(ss) |-> IF i = 1 THEN ss[i] ELSE f[i - 1] \o ss[i]]

\* Sequences can be joined one by one, by induction over their number.
LEMMA ChainsExist ==
    ASSUME NEW X, NEW ss \in Seq(Seq(X)), Len(ss) # 0
    PROVE  \E f : Chained(f, ss) /\ f[Len(ss)] \in Seq(X)
<1>. DEFINE Prefix(f, k) == /\ f \in [1..k -> Seq(X)] /\ f[1] = ss[1]
                            /\ \A i \in 2..k : f[i] = f[i - 1] \o ss[i]
            N == {k \in Nat : k + 1 <= Len(ss) => \E f : Prefix(f, k + 1)}
<1>0. Len(ss) \in Nat \ {0} /\ \A i \in 1..Len(ss) : ss[i] \in Seq(X)
    OBVIOUS
<1>1. 0 \in N
  <2>. DEFINE f == [i \in 1..1 |-> ss[1]]
  <2>1. ss[1] \in Seq(X)
    BY <1>0
  <2>2. Prefix(f, 1)
    BY <2>1
  <2>3. 0 \in Nat /\ 0 + 1 = 1
    OBVIOUS
  <2>. HIDE DEF f, Prefix
  <2>4. \E g : Prefix(g, 0 + 1)
    BY <2>2, <2>3, Zenon
  <2>. QED
    BY <2>4
<1>2. ASSUME NEW k \in Nat, k \in N PROVE k + 1 \in N
  <2>. HIDE DEF Prefix
  <2>. SUFFICES ASSUME (k + 1) + 1 <= Len(ss) PROVE \E f : Prefix(f, (k + 1) + 1)
    OBVIOUS
  <2>0. k + 1 <= Len(ss)
    BY <1>0
  <2>1. PICK g : Prefix(g, k + 1)
    BY <1>2, <2>0, Zenon
  <2>. USE DEF Prefix
  <2>2. PICK x \in Seq(X) : x = g[k + 1] \o ss[k + 2]
    <3>1. ss[k + 2] \in Seq(X) /\ g[k + 1] \in Seq(X)
      BY <1>0, <2>1
    <3>2. g[k + 1] \o ss[k + 2] \in Seq(X)
      BY <3>1, ConcatProperties, Zenon
    <3>. QED
      BY <3>2
  <2>. DEFINE f == [i \in 1..(k + 2) |-> IF i = k + 2 THEN x ELSE g[i]]
  <2>3. f \in [1..(k + 2) -> Seq(X)] /\ f[k + 2] = x /\ \A i \in 1..(k + 1) : f[i] = g[i]
    BY <2>1
  <2>. HIDE DEF f
  <2>4. f[1] = ss[1]
    BY <2>1, <2>3
  <2>5. ASSUME NEW i \in 2..(k + 2) PROVE f[i] = f[i - 1] \o ss[i]
    <3>1. f[i - 1] = g[i - 1]
      BY <2>3
    <3>2. ASSUME i = k + 2 PROVE f[i] = f[i - 1] \o ss[i]
      <4>1. f[k + 1] = g[k + 1] /\ i - 1 = k + 1
        BY <2>3, <3>2
      <4>. QED
        BY <2>2, <2>3, <3>2, <4>1
    <3>3. ASSUME i # k + 2 PROVE f[i] = f[i - 1] \o ss[i]
      <4>1. i \in 2..(k + 1) /\ f[i] = g[i]
        BY <2>3, <3>3
      <4>. QED
        BY <2>1, <3>1, <4>1
    <3>. QED
      BY <3>2, <3>3
  <2>6. (k + 1) + 1 = k + 2
    OBVIOUS
  <2>7. Prefix(f, k + 2)
    BY <2>3, <2>4, <2>5
  <2>. HIDE DEF Prefix
  <2>. QED
    BY <2>6, <2>7, Zenon
<1>. HIDE DEF N
<1>3. Nat \subseteq N
    BY <1>1, <1>2, SetInduction, Zenon
<1>4. PICK n \in Nat : n + 1 = Len(ss)
  <2>1. Len(ss) - 1 \in Nat /\ (Len(ss) - 1) + 1 = Len(ss)
    BY <1>0
  <2>. QED
    BY <2>1, Zenon
<1>5. PICK f : Prefix(f, n + 1)
  <2>1. n \in N /\ n + 1 <= Len(ss)
    BY <1>0, <1>3, <1>4
  <2>. HIDE DEF Prefix
  <2>. QED
    BY <2>1, Zenon DEF N
<1>6. Prefix(f, Len(ss))
    BY <1>4, <1>5, Zenon
<1>7. f[Len(ss)] \in Seq(X)
    BY <1>0, <1>6
<1>8. Chained(f, ss)
  <2>1. \A i \in 1..Len(ss) : f[i] = IF i = 1 THEN ss[i] ELSE f[i - 1] \o ss[i]
    <3>1. ASSUME NEW i \in 1..Len(ss), i # 1 PROVE f[i] = f[i - 1] \o ss[i]
      <4>1. i \in 2..Len(ss)
        BY <1>0, <3>1
      <4>. QED
        BY <1>6, <4>1
    <3>. QED
      BY <1>6, <3>1
  <2>2. f = [i \in 1..Len(ss) |-> f[i]]
    BY <1>6
  <2>. HIDE DEF Prefix
  <2>. QED
    BY <2>1, <2>2 DEF Chained
<1>. QED
    BY <1>7, <1>8, Zenon

LinkedUp(f, ss, n) == \A i \in 1..n : f[i] = IF i = 1 THEN ss[i] ELSE f[i - 1] \o ss[i]

\* What joins sequences is one function.
LEMMA ChainsAgree ==
    ASSUME NEW ss, NEW n \in Nat, NEW f, NEW g, LinkedUp(f, ss, n), LinkedUp(g, ss, n)
    PROVE  \A i \in 1..n : f[i] = g[i]
<1>. USE DEF LinkedUp
<1>. DEFINE N == {k \in Nat : k \in 1..n => f[k] = g[k]}
<1>1. 0 \in N
    OBVIOUS
<1>2. ASSUME NEW k \in Nat, k \in N PROVE k + 1 \in N
  <2>. SUFFICES ASSUME k + 1 \in 1..n PROVE f[k + 1] = g[k + 1]
    OBVIOUS
  <2>1. CASE k = 0
    <3>1. k + 1 = 1
      BY <2>1
    <3>. QED
      BY <3>1, Zenon
  <2>2. CASE k # 0
    <3>1. k + 1 # 1 /\ (k + 1) - 1 = k /\ k \in 1..n
      BY <2>2
    <3>2. f[k] = g[k]
      BY <1>2, <3>1
    <3>3. f[k + 1] = f[k] \o ss[k + 1] /\ g[k + 1] = g[k] \o ss[k + 1]
      BY <3>1, Zenon
    <3>. QED
      BY <3>2, <3>3, Zenon
  <2>. QED
    BY <2>1, <2>2, Zenon
<1>. HIDE DEF N
<1>3. Nat \subseteq N
    BY <1>1, <1>2, SetInduction, Zenon
<1>. QED
    BY <1>3 DEF N

\* What a function that joins sequences is.
LEMMA ChainFacts ==
    ASSUME NEW f, NEW ss, Len(ss) \in Nat, Chained(f, ss)
    PROVE  LinkedUp(f, ss, Len(ss))
<1>. DEFINE Body(i) == IF i = 1 THEN ss[i] ELSE f[i - 1] \o ss[i]
<1>0. PICK n \in Nat : n = Len(ss)
    OBVIOUS
<1>1. f = [i \in 1..n |-> Body(i)]
    BY <1>0, Zenon DEF Chained
<1>. HIDE DEF Body
<1>2. \A i \in 1..n : f[i] = Body(i)
    BY <1>1
<1>. QED
    BY <1>0, <1>2, Zenon DEF Body, LinkedUp

-----------------------------------------------------------------------------
(* Functions that go on from step to step.                                 *)

GoesOn(f, b, step, s, n) == f = [i \in 0..n |-> IF i = 0 THEN b ELSE step[<<f[i - 1], s[i]>>]]

StepByStep(f, b, step, s, n) == f[0] = b /\ \A i \in 1..n : f[i] = step[<<f[i - 1], s[i]>>]

\* What such a function is.
LEMMA GoesOnFacts ==
    ASSUME NEW f, NEW b, NEW step, NEW s, NEW n \in Nat, GoesOn(f, b, step, s, n)
    PROVE  StepByStep(f, b, step, s, n)
<1>1. \A i \in 0..n : f[i] = IF i = 0 THEN b ELSE step[<<f[i - 1], s[i]>>]
    BY Zenon DEF GoesOn
<1>2. 0 \in 0..n /\ \A i \in 1..n : i \in 0..n /\ i # 0
    OBVIOUS
<1>. QED
    BY <1>1, <1>2, Zenon DEF StepByStep

\* There is one for every sequence.
LEMMA GoesOnExists ==
    ASSUME NEW S, NEW X, NEW b \in S, NEW step \in [S \X X -> S], NEW s \in Seq(X)
    PROVE  \E f \in [0..Len(s) -> S] : GoesOn(f, b, step, s, Len(s))
<1>. DEFINE N == {k \in Nat : k <= Len(s) => \E f \in [0..k -> S] : StepByStep(f, b, step, s, k)}
<1>0. Len(s) \in Nat /\ \A i \in 1..Len(s) : s[i] \in X
    OBVIOUS
<1>1. 0 \in N
  <2>. DEFINE f == [i \in 0..0 |-> b]
  <2>1. f \in [0..0 -> S] /\ f[0] = b /\ 1..0 = {}
    OBVIOUS
  <2>2. StepByStep(f, b, step, s, 0)
    BY <2>1, Zenon DEF StepByStep
  <2>. QED
    BY <2>1, <2>2, Zenon
<1>2. ASSUME NEW k \in Nat, k \in N PROVE k + 1 \in N
  <2>. SUFFICES ASSUME k + 1 <= Len(s) PROVE \E f \in [0..(k + 1) -> S] : StepByStep(f, b, step, s, k + 1)
    OBVIOUS
  <2>0. k <= Len(s)
    BY <1>0
  <2>1. PICK g \in [0..k -> S] : StepByStep(g, b, step, s, k)
    BY <1>2, <2>0, Zenon
  <2>2. s[k + 1] \in X /\ g[k] \in S
    BY <1>0
  <2>3. PICK y \in S : y = step[<<g[k], s[k + 1]>>]
    BY <2>2
  <2>. DEFINE f == [i \in 0..(k + 1) |-> IF i = k + 1 THEN y ELSE g[i]]
  <2>4. f \in [0..(k + 1) -> S] /\ f[k + 1] = y /\ \A i \in 0..k : f[i] = g[i]
    OBVIOUS
  <2>. HIDE DEF f
  <2>5. /\ 0 \in 0..k /\ k \in 0..k /\ (k + 1) - 1 = k
        /\ \A i \in 1..k : i \in 0..k /\ i - 1 \in 0..k
        /\ \A i \in 1..k + 1 : i \in 1..k \/ i = k + 1
    OBVIOUS
  <2>6. StepByStep(f, b, step, s, k + 1)
    BY <2>1, <2>3, <2>4, <2>5, Zenon DEF StepByStep
  <2>. QED
    BY <2>4, <2>6, Zenon
<1>. HIDE DEF N
<1>3. Len(s) \in N
    BY <1>0, <1>1, <1>2, SetInduction, Zenon
<1>4. Len(s) <= Len(s)
    BY <1>0
<1>5. PICK f \in [0..Len(s) -> S] : StepByStep(f, b, step, s, Len(s))
    BY <1>3, <1>4, Zenon DEF N
<1>6. \A i \in 0..Len(s) : f[i] = IF i = 0 THEN b ELSE step[<<f[i - 1], s[i]>>]
  <2>1. \A i \in 0..Len(s) : i = 0 \/ i \in 1..Len(s)
    OBVIOUS
  <2>2. \A i \in 1..Len(s) : i # 0
    OBVIOUS
  <2>. QED
    BY <1>5, <2>1, <2>2, Zenon DEF StepByStep
<1>7. f = [i \in 0..Len(s) |-> f[i]]
    BY <1>5
<1>8. GoesOn(f, b, step, s, Len(s))
    BY <1>6, <1>7 DEF GoesOn
<1>. QED
    BY <1>8, Zenon

\* The greatest of some places.
LEMMA Greatest ==
    ASSUME NEW n \in Nat, NEW T, T \subseteq 1..n, T # {}
    PROVE  \E x \in T : \A y \in T : x >= y
<1>. DEFINE D == {d \in 0..n : n - d \in T}
<1>1. D \subseteq Nat /\ D # {}
  <2>1. PICK t \in T : TRUE
    OBVIOUS
  <2>2. n - t \in 0..n /\ n - (n - t) = t /\ 0..n \subseteq Nat
    BY <2>1
  <2>3. n - t \in D
    BY <2>1, <2>2
  <2>. QED
    BY <2>2, <2>3, Zenon
<1>2. PICK d \in D : \A e \in D : d <= e
    BY <1>1, Least, Zenon
<1>3. ASSUME NEW y \in T PROVE n - d >= y
  <2>1. n - y \in 0..n /\ n - (n - y) = y
    OBVIOUS
  <2>2. n - y \in D
    BY <2>1
  <2>3. d <= n - y /\ d \in 0..n
    BY <1>2, <2>2
  <2>. QED
    BY <2>3
<1>. QED
    BY <1>2, <1>3

-----------------------------------------------------------------------------
(* Sequences taken apart.                                                  *)

\* Putting together in either order.
Regrouped(a, b, c) == (a \o b) \o c = a \o (b \o c)

LEMMA Regrouping ==
    ASSUME NEW X, NEW a \in Seq(X), NEW b \in Seq(X), NEW c \in Seq(X)
    PROVE  Regrouped(a, b, c)
BY ConcatAssociative, SMT DEF Regrouped

\* The parts of two sequences that were put together.
PutTogether(s, a, b) ==
    /\ Len(s) = Len(a) + Len(b)
    /\ SubSeq(s, 1, Len(a)) = a /\ SubSeq(s, Len(a) + 1, Len(s)) = b

LEMMA TwoParts ==
    ASSUME NEW X, NEW a \in Seq(X), NEW b \in Seq(X), NEW s, s = a \o b
    PROVE  s \in Seq(X) /\ PutTogether(s, a, b)
<1>1. s \in Seq(X) /\ InARow(s, a, b)
    BY JoinFacts, Zenon
<1>2. PICK m \in Nat, n \in Nat : m = Len(a) /\ n = Len(b)
    OBVIOUS
<1>3. Len(s) = m + n /\ (\A i \in 1..m : s[i] = a[i]) /\ \A i \in 1..n : s[m + i] = b[i]
    BY <1>1, <1>2, Zenon DEF InARow
<1>4. SubSeq(s, 1, m) = a
  <2>1. m \in 0..Len(s)
    BY <1>3
  <2>. DEFINE p == SubSeq(s, 1, m)
  <2>2. p \in Seq(X) /\ Len(p) = m /\ \A i \in 1..m : p[i] = s[i]
    BY <1>1, <2>1, BeginFacts, Zenon
  <2>. HIDE DEF p
  <2>3. p = a
    BY <1>2, <1>3, <2>2, SeqEqual, Zenon
  <2>. QED
    BY <2>3, Zenon DEF p
<1>5. SubSeq(s, m + 1, m + n) = b
  <2>1. /\ m + 1 \in 1..Len(s) + 1 /\ m + n \in (m + 1) - 1..Len(s)
        /\ (m + n) - (m + 1) + 1 = n /\ \A i \in 1..n : (m + 1) + i - 1 = m + i
    BY <1>3
  <2>. DEFINE p == SubSeq(s, m + 1, m + n)
  <2>2. p \in Seq(X) /\ Len(p) = n /\ \A i \in 1..n : p[i] = s[(m + 1) + i - 1]
    BY <1>1, <2>1, PieceFacts
  <2>. HIDE DEF p
  <2>3. \A i \in 1..n : p[i] = b[i]
    BY <1>3, <2>1, <2>2, Zenon
  <2>4. p = b
    BY <1>2, <2>2, <2>3, SeqEqual, Zenon
  <2>. QED
    BY <2>4, Zenon DEF p
<1>. QED
    BY <1>1, <1>2, <1>3, <1>4, <1>5, Zenon DEF PutTogether

\* A sequence is what comes before a place in it and what comes from there on.
LEMMA SplitAtPlace ==
    ASSUME NEW X, NEW s \in Seq(X), NEW j \in 1..Len(s) + 1
    PROVE  /\ SubSeq(s, 1, j - 1) \in Seq(X) /\ SubSeq(s, j, Len(s)) \in Seq(X)
           /\ Len(SubSeq(s, 1, j - 1)) = j - 1
           /\ s = SubSeq(s, 1, j - 1) \o SubSeq(s, j, Len(s))
<1>1. /\ j - 1 \in 0..Len(s) /\ Len(s) \in j - 1..Len(s) /\ (j - 1) + 1 = j
      /\ 1 \in 1..Len(s) + 1 /\ j - 1 \in 1 - 1..Len(s)
    OBVIOUS
<1>2. SubSeq(s, 1, j - 1) \in Seq(X) /\ Len(SubSeq(s, 1, j - 1)) = j - 1
    BY <1>1, BeginFacts, Zenon
<1>3. SubSeq(s, j, Len(s)) \in Seq(X)
    BY <1>1, PieceFacts, Zenon
<1>4. SubSeq(s, 1, j - 1) \o SubSeq(s, (j - 1) + 1, Len(s)) = SubSeq(s, 1, Len(s))
    BY <1>1, ConcatAdjacentSubSeq, Zenon
<1>5. SubSeq(s, 1, Len(s)) = s
    BY SubSeqFull, Zenon
<1>. QED
    BY <1>1, <1>2, <1>3, <1>4, <1>5, Zenon

PlaceIn(s, i, a, x, j, b) ==
    /\ i \in 1..Len(s) + 1
    /\ SubSeq(s, 1, i - 1) = a \o SubSeq(x, 1, j - 1)
    /\ SubSeq(s, i, Len(s)) = SubSeq(x, j, Len(x)) \o b

\* A place in the middle one of three sequences is a place in all of them.
LEMMA PlaceInPart ==
    ASSUME NEW X, NEW a \in Seq(X), NEW x \in Seq(X), NEW b \in Seq(X), NEW j \in 1..Len(x) + 1,
           NEW s, s = a \o (x \o b), NEW i, i = Len(a) + j
    PROVE  s \in Seq(X) /\ PlaceIn(s, i, a, x, j, b)
<1>. DEFINE y == SubSeq(x, 1, j - 1)
            z == SubSeq(x, j, Len(x))
<1>1. y \in Seq(X) /\ z \in Seq(X) /\ Len(y) = j - 1 /\ x = y \o z
    BY SplitAtPlace, Zenon
<1>. HIDE DEF y, z
<1>2. a \o y \in Seq(X) /\ z \o b \in Seq(X) /\ Len(a \o y) = Len(a) + Len(y)
    BY <1>1, ConcatProperties, Zenon
<1>3. s = (a \o y) \o (z \o b)
  <2>1. Regrouped(y, z, b) /\ Regrouped(a, y, z \o b)
    BY <1>1, <1>2, Regrouping, Zenon
  <2>. QED
    BY <1>1, <2>1, Zenon DEF Regrouped
<1>. DEFINE u == a \o y
            v == z \o b
<1>. HIDE DEF u, v
<1>4. u \in Seq(X) /\ v \in Seq(X) /\ Len(u) = i - 1 /\ s = u \o v
  <2>1. Len(u) = Len(a) + (j - 1)
    BY <1>1, <1>2, Zenon DEF u
  <2>2. Len(a) + (j - 1) = i - 1
    OBVIOUS
  <2>. QED
    BY <1>2, <1>3, <2>1, <2>2, Zenon DEF u, v
<1>5. s \in Seq(X) /\ PutTogether(s, u, v)
    BY <1>4, TwoParts, Zenon
<1>6. Len(u) + 1 = i /\ i \in 1..Len(s) + 1
    BY <1>4, <1>5 DEF PutTogether
<1>. QED
    BY <1>4, <1>5, <1>6, Zenon DEF u, v, y, z, PlaceIn, PutTogether

\* An element that is put into one of three sequences is put into all of them.
LEMMA PutInPart ==
    ASSUME NEW X, NEW a \in Seq(X), NEW x \in Seq(X), NEW b \in Seq(X), NEW j \in 1..Len(x) + 1, NEW e \in X,
           NEW s, s = a \o (x \o b), NEW i, i = Len(a) + j, NEW y, PutAt(y, x, j, e)
    PROVE  y \in Seq(X) /\ PutAt(a \o (y \o b), s, i, e)
<1>. DEFINE p == SubSeq(x, 1, j - 1)
            q == SubSeq(x, j, Len(x))
<1>1. p \in Seq(X) /\ q \in Seq(X)
    BY SplitAtPlace, Zenon
<1>2. PlaceIn(s, i, a, x, j, b)
    BY PlaceInPart, Zenon
<1>3. y = p \o <<e>> \o q /\ SubSeq(s, 1, i - 1) = a \o p /\ SubSeq(s, i, Len(s)) = q \o b
    BY <1>2, Zenon DEF PutAt, PlaceIn
<1>. HIDE DEF p, q
<1>4. <<e>> \in Seq(X)
    OBVIOUS
<1>5. p \o <<e>> \in Seq(X) /\ q \o b \in Seq(X) /\ <<e>> \o (q \o b) \in Seq(X) /\ (p \o <<e>>) \o q \in Seq(X)
    BY <1>1, <1>4, ConcatProperties, Zenon
<1>6. Regrouped(p \o <<e>>, q, b) /\ Regrouped(a, p \o <<e>>, q \o b) /\ Regrouped(a, p, <<e>>)
    BY <1>1, <1>4, <1>5, Regrouping, Zenon
<1>. QED
    BY <1>2, <1>3, <1>5, <1>6, Zenon DEF PutAt, Regrouped

WithoutAt(r, s, i) == r = SubSeq(s, 1, i - 1) \o SubSeq(s, i + 1, Len(s))

\* An element that is cut out of one of three sequences is cut out of all of them.
LEMMA CutInPart ==
    ASSUME NEW X, NEW a \in Seq(X), NEW x \in Seq(X), NEW b \in Seq(X), NEW j \in 1..Len(x),
           NEW s, s = a \o (x \o b), NEW i, i = Len(a) + j,
           NEW y, WithoutAt(y, x, j)
    PROVE  y \in Seq(X) /\ i \in 1..Len(s) /\ WithoutAt(a \o (y \o b), s, i)
<1>0. j \in 1..Len(x) + 1 /\ j + 1 \in 1..Len(x) + 1 /\ i + 1 = Len(a) + (j + 1)
    OBVIOUS
<1>. DEFINE p == SubSeq(x, 1, j - 1)
            q == SubSeq(x, j + 1, Len(x))
<1>1. p \in Seq(X) /\ q \in Seq(X)
    BY <1>0, SplitAtPlace, Zenon
<1>2. s \in Seq(X) /\ PlaceIn(s, i, a, x, j, b) /\ PlaceIn(s, i + 1, a, x, j + 1, b)
    BY <1>0, PlaceInPart, Zenon
<1>3. SubSeq(s, 1, i - 1) = a \o p /\ SubSeq(s, i + 1, Len(s)) = q \o b /\ i + 1 \in 1..Len(s) + 1
    BY <1>2, Zenon DEF PlaceIn
<1>4. y = p \o q
    BY Zenon DEF WithoutAt
<1>. HIDE DEF p, q
<1>5. q \o b \in Seq(X) /\ p \o q \in Seq(X)
    BY <1>1, ConcatProperties, Zenon
<1>6. Regrouped(p, q, b) /\ Regrouped(a, p, q \o b)
    BY <1>1, <1>5, Regrouping, Zenon
<1>7. i \in 1..Len(s)
    BY <1>2, <1>3
<1>. QED
    BY <1>2, <1>3, <1>4, <1>5, <1>6, <1>7, Zenon DEF Regrouped, WithoutAt
=============================================================================
