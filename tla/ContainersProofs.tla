-------------------------- MODULE ContainersProofs --------------------------
(***************************************************************************)
(* Proofs about ListContainers and KeyedContainers, for every size and all *)
(* elements and keys: what each call does to the elements and what it      *)
(* returns is what ListSpec and MapSpec say.                               *)
(***************************************************************************)
EXTENDS ListContainers, KeyedContainers, NumberFacts, FunctionTheorems

-----------------------------------------------------------------------------
(* Bisection.                                                              *)

\* The positions that a search has still to look at are from np[2] on, np[1] of
\* them: those before are left, those behind are not.
Searched(b, e, left, np) ==
    /\ b <= np[2] /\ np[2] + np[1] <= e
    /\ \A i \in b..e - 1 : (i < np[2] => i \in left) /\ (i >= np[2] + np[1] => i \notin left)

\* The positions that are left come before the others.
LeftFirst(b, e, left) == \A i, j \in b..e - 1 : i < j /\ j \in left => i \in left

\* A turn looks at half of them.
LEMMA HalvedFacts ==
    ASSUME NEW b \in Nat, NEW e \in Nat, NEW left, LeftFirst(b, e, left),
           NEW np \in Nat \X Nat, Searched(b, e, left, np)
    PROVE  /\ Halved(np, left) \in Nat \X Nat /\ Searched(b, e, left, Halved(np, left))
           /\ Halved(np, left)[1] <= np[1] /\ (np[1] > 0 => Halved(np, left)[1] < np[1])
<1>1. PICK n \in Nat, p \in Nat : np = <<n, p>> /\ np[1] = n /\ np[2] = p
    BY SMT
<1>2. CASE n = 0
  <2>1. Halved(np, left) = np
    BY <1>1, <1>2 DEF Halved
  <2>. QED
    BY <1>1, <1>2, <2>1
<1>3. CASE n # 0
  <2>1. PICK h \in Nat : h = n \div 2 /\ h < n
    BY <1>3
  <2>2. p + h \in b..e - 1
    BY <1>1, <2>1 DEF Searched
  <2>3. CASE p + h \in left
    <3>1. Halved(np, left) = <<n - (h + 1), p + h + 1>>
      BY <1>1, <1>3, <2>1, <2>3 DEF Halved
    <3>2. Searched(b, e, left, <<n - (h + 1), p + h + 1>>)
      <4>1. ASSUME NEW i \in b..e - 1, i < p + h + 1 PROVE i \in left
        <5>1. i < p + h \/ i = p + h
          BY <4>1
        <5>. QED
          BY <2>2, <2>3, <5>1, Zenon DEF LeftFirst
      <4>2. ASSUME NEW i \in b..e - 1, i >= p + h + 1 + (n - (h + 1)) PROVE i \notin left
        <5>1. i >= p + n
          BY <2>1, <4>2
        <5>. QED
          BY <1>1, <5>1 DEF Searched
      <4>3. b <= p + h + 1 /\ p + h + 1 + (n - (h + 1)) <= e
        BY <1>1, <2>1 DEF Searched
      <4>. QED
        BY <4>1, <4>2, <4>3 DEF Searched
    <3>3. n - (h + 1) \in Nat /\ n - (h + 1) < n
      BY <2>1
    <3>. QED
      BY <1>1, <3>1, <3>2, <3>3
  <2>4. CASE p + h \notin left
    <3>1. Halved(np, left) = <<h, p>>
      BY <1>1, <1>3, <2>1, <2>4 DEF Halved
    <3>2. Searched(b, e, left, <<h, p>>)
      <4>1. ASSUME NEW i \in b..e - 1, i >= p + h PROVE i \notin left
        <5>1. p + h < i \/ i = p + h
          BY <4>1
        <5>. QED
          BY <2>2, <2>4, <5>1, Zenon DEF LeftFirst
      <4>2. \A i \in b..e - 1 : i < p => i \in left
        BY <1>1 DEF Searched
      <4>3. b <= p /\ p + h <= e
        BY <1>1, <2>1 DEF Searched
      <4>. QED
        BY <4>1, <4>2, <4>3 DEF Searched
    <3>. QED
      BY <1>1, <2>1, <3>1, <3>2
  <2>. QED
    BY <2>3, <2>4
<1>. QED
    BY <1>2, <1>3

\* What a search has come to after every turn.
Turns(f, b, e, left) == f = [i \in 0..e - b |-> IF i = 0 THEN <<e - b, b>> ELSE Halved(f[i - 1], left)]

TurnByTurn(f, b, left, k, n) == f[0] = <<n, b>> /\ \A i \in 1..k : f[i] = Halved(f[i - 1], left)

\* Every search has its turns.
LEMMA TurnsExist ==
    ASSUME NEW b, NEW left, NEW n, NEW k \in Nat
    PROVE  \E f : f = [i \in 0..k |-> f[i]] /\ TurnByTurn(f, b, left, k, n)
<1>. DEFINE N == {i \in Nat : \E f : f = [j \in 0..i |-> f[j]] /\ TurnByTurn(f, b, left, i, n)}
<1>1. 0 \in N
  <2>. DEFINE f == [i \in 0..0 |-> <<n, b>>]
  <2>1. f = [j \in 0..0 |-> f[j]] /\ f[0] = <<n, b>> /\ 1..0 = {}
    OBVIOUS
  <2>. HIDE DEF f
  <2>2. TurnByTurn(f, b, left, 0, n)
    BY <2>1 DEF TurnByTurn
  <2>. QED
    BY <2>1, <2>2, Zenon
<1>2. ASSUME NEW i \in Nat, i \in N PROVE i + 1 \in N
  <2>1. PICK g : g = [j \in 0..i |-> g[j]] /\ TurnByTurn(g, b, left, i, n)
    BY <1>2
  <2>. DEFINE f == [j \in 0..(i + 1) |-> IF j = i + 1 THEN Halved(g[i], left) ELSE g[j]]
  <2>2. f = [j \in 0..(i + 1) |-> f[j]] /\ f[i + 1] = Halved(g[i], left) /\ \A j \in 0..i : f[j] = g[j]
    OBVIOUS
  <2>. HIDE DEF f
  <2>3. TurnByTurn(f, b, left, i + 1, n)
    <3>1. f[0] = <<n, b>>
      <4>1. 0 \in 0..i
        OBVIOUS
      <4>. QED
        BY <2>1, <2>2, <4>1, Zenon DEF TurnByTurn
    <3>2. ASSUME NEW j \in 1..(i + 1) PROVE f[j] = Halved(f[j - 1], left)
      <4>1. CASE j = i + 1
        <5>1. j - 1 = i /\ i \in 0..i
          BY <4>1
        <5>. QED
          BY <2>2, <4>1, <5>1, Zenon
      <4>2. CASE j # i + 1
        <5>1. j \in 1..i /\ j \in 0..i /\ j - 1 \in 0..i
          BY <4>2
        <5>. QED
          BY <2>1, <2>2, <5>1, Zenon DEF TurnByTurn
      <4>. QED
        BY <4>1, <4>2
    <3>. QED
      BY <3>1, <3>2, Zenon DEF TurnByTurn
  <2>4. i + 1 \in Nat /\ \E h : h = [j \in 0..(i + 1) |-> h[j]] /\ TurnByTurn(h, b, left, i + 1, n)
    BY <2>2, <2>3
  <2>. QED
    BY <2>4, Zenon
<1>. HIDE DEF N
<1>3. Nat \subseteq N
    BY <1>1, <1>2, SetInduction, Zenon
<1>. QED
    BY <1>3 DEF N

\* A search ends, between the positions that are left and the others.
LEMMA BisectFacts ==
    ASSUME NEW b \in Nat, NEW e \in Nat, b <= e, NEW left, LeftFirst(b, e, left)
    PROVE  Bisect(b, e, left) \in b..e /\ \A i \in b..e - 1 : i \in left <=> i < Bisect(b, e, left)
<1>1. PICK n \in Nat : n = e - b
    OBVIOUS
<1>. DEFINE f == CHOOSE g : Turns(g, b, e, left)
<1>2. Turns(f, b, e, left)
  <2>1. PICK g : g = [i \in 0..n |-> g[i]] /\ TurnByTurn(g, b, left, n, n)
    BY TurnsExist, Zenon
  <2>2. ASSUME NEW i \in 0..n PROVE g[i] = IF i = 0 THEN <<n, b>> ELSE Halved(g[i - 1], left)
    <3>1. i = 0 \/ (i # 0 /\ i \in 1..n)
      OBVIOUS
    <3>. QED
      BY <2>1, <3>1, Zenon DEF TurnByTurn
  <2>3. g = [i \in 0..n |-> IF i = 0 THEN <<n, b>> ELSE Halved(g[i - 1], left)]
    BY <2>1, <2>2, Zenon
  <2>4. Turns(g, b, e, left)
    BY <1>1, <2>3, Zenon DEF Turns
  <2>. QED
    BY <2>4, Zenon
<1>3. Bisect(b, e, left) = f[n][2]
    BY <1>1, Zenon DEF Bisect, Turns
<1>. HIDE DEF f
<1>4. TurnByTurn(f, b, left, n, n)
  <2>1. \A i \in 0..n : f[i] = IF i = 0 THEN <<n, b>> ELSE Halved(f[i - 1], left)
    BY <1>1, <1>2, Zenon DEF Turns
  <2>2. 0 \in 0..n /\ \A i \in 1..n : i \in 0..n /\ i # 0
    OBVIOUS
  <2>. QED
    BY <2>1, <2>2, Zenon DEF TurnByTurn
<1>. DEFINE Good(np, i) == np \in Nat \X Nat /\ Searched(b, e, left, np) /\ np[1] <= n - i
            N == {i \in Nat : i <= n => Good(f[i], i)}
<1>5. 0 \in N
  <2>1. f[0] = <<n, b>>
    BY <1>4 DEF TurnByTurn
  <2>2. Searched(b, e, left, <<n, b>>)
    BY <1>1 DEF Searched
  <2>. QED
    BY <2>1, <2>2
<1>6. ASSUME NEW i \in Nat, i \in N PROVE i + 1 \in N
  <2>. SUFFICES ASSUME i + 1 <= n PROVE Good(f[i + 1], i + 1)
    OBVIOUS
  <2>1. Good(f[i], i) /\ i + 1 \in 1..n /\ (i + 1) - 1 = i
    BY <1>6
  <2>2. f[i + 1] = Halved(f[i], left)
    BY <1>4, <2>1 DEF TurnByTurn
  <2>3. PICK np \in Nat \X Nat : np = f[i] /\ Searched(b, e, left, np) /\ np[1] <= n - i
    BY <2>1
  <2>4. /\ Halved(np, left) \in Nat \X Nat /\ Searched(b, e, left, Halved(np, left))
        /\ Halved(np, left)[1] <= np[1] /\ (np[1] > 0 => Halved(np, left)[1] < np[1])
    BY <2>3, HalvedFacts
  <2>5. PICK h \in Nat \X Nat : h = Halved(np, left)
    BY <2>4
  <2>6. h[1] <= n - (i + 1)
    BY <2>3, <2>4, <2>5
  <2>. QED
    BY <2>2, <2>3, <2>4, <2>5, <2>6
<1>. HIDE DEF N
<1>7. Nat \subseteq N
    BY <1>5, <1>6, SetInduction, Zenon
<1>8. Good(f[n], n)
    BY <1>7 DEF N
<1>9. PICK p \in Nat : p = f[n][2] /\ f[n][1] = 0
    BY <1>8
<1>10. b <= p /\ p <= e /\ \A i \in b..e - 1 : (i < p => i \in left) /\ (i >= p => i \notin left)
    BY <1>8, <1>9 DEF Searched
<1>. QED
    BY <1>3, <1>9, <1>10

-----------------------------------------------------------------------------
(* Where a key is, or belongs.                                             *)

\* Numbers at the positions from b to the one before e that rise.
Rises(ks, b, e) ==
    /\ \A i \in b..e - 1 : ks[i] \in Int
    /\ \A i, j \in b..e - 1 : i < j => ks[i] < ks[j]

\* The first position whose number is not below k.
Bounds(ks, b, e, k, p) == p \in b..e /\ \A i \in b..e - 1 : ks[i] < k <=> i < p

\* Bisection of numbers that rise finds the first that is not below k.
LEMMA SearchFacts ==
    ASSUME NEW b \in Nat, NEW e \in Nat, b <= e, NEW ks, Rises(ks, b, e), NEW k \in Int,
           NEW left, left = {i \in b..e - 1 : ks[i] < k}
    PROVE  Bounds(ks, b, e, k, Bisect(b, e, left))
<1>1. LeftFirst(b, e, left)
  <2>1. ASSUME NEW i \in b..e - 1, NEW j \in b..e - 1, i < j, j \in left PROVE i \in left
    <3>1. ks[i] \in Int /\ ks[j] \in Int /\ ks[i] < ks[j] /\ ks[j] < k
      BY <2>1, Zenon DEF Rises
    <3>2. ks[i] < k
      BY <3>1
    <3>. QED
      BY <3>2, Zenon
  <2>. QED
    BY <2>1, Zenon DEF LeftFirst
<1>2. Bisect(b, e, left) \in b..e /\ \A i \in b..e - 1 : i \in left <=> i < Bisect(b, e, left)
    BY <1>1, BisectFacts, Zenon
<1>3. \A i \in b..e - 1 : i \in left <=> ks[i] < k
    BY Zenon
<1>. QED
    BY <1>2, <1>3, Zenon DEF Bounds

\* Pairs by their keys, and keys.
MapPairs == MapKeys \X MapVals

MapOrder == {xy \in MapPairs \X MapPairs : xy[1][1] < xy[2][1]}

SetOrder == {xy \in MapKeys \X MapKeys : xy[1] < xy[2]}

KeysOf(s) == [i \in 1..Len(s) |-> s[i][1]]

MapSound(s) == s \in Seq(MapPairs) /\ Ordered(s, MapOrder)

SetSound(s) == s \in Seq(MapKeys) /\ Ordered(s, SetOrder)

\* The keys of a sorted sequence of pairs rise.
LEMMA KeysRise ==
    ASSUME NEW s, MapSound(s)
    PROVE  Rises(KeysOf(s), 1, EndOf(s)) /\ \A i \in 1..Len(s) : KeysOf(s)[i] = s[i][1] /\ s[i] \in MapPairs
<1>. USE FlatAssumption
<1>1. PICK n \in Nat : n = Len(s) /\ EndOf(s) - 1 = n
    BY DEF MapSound, EndOf
<1>2. \A i \in 1..n : s[i] \in MapPairs
    BY <1>1, ElementOfSeq, Zenon DEF MapSound
<1>3. \A i \in 1..n : KeysOf(s)[i] = s[i][1]
    BY <1>1, Zenon DEF KeysOf
<1>4. \A i \in 1..n : s[i][1] \in MapKeys /\ s[i][1] \in Int
    BY <1>2 DEF MapPairs
<1>5. ASSUME NEW i \in 1..n, NEW j \in 1..n, i < j PROVE s[i][1] < s[j][1]
  <2>1. <<s[i], s[j]>> \in MapOrder
    BY <1>1, <1>5, Zenon DEF MapSound, Ordered
  <2>. QED
    BY <2>1 DEF MapOrder
<1>6. Rises(KeysOf(s), 1, EndOf(s))
    BY <1>1, <1>3, <1>4, <1>5, Zenon DEF Rises
<1>. QED
    BY <1>1, <1>2, <1>3, <1>6, Zenon

\* The keys of a sorted sequence of keys rise.
LEMMA SetRises ==
    ASSUME NEW s, SetSound(s)
    PROVE  Rises(s, 1, EndOf(s))
<1>. USE FlatAssumption
<1>1. PICK n \in Nat : n = Len(s) /\ EndOf(s) - 1 = n
    BY DEF SetSound, EndOf
<1>2. \A i \in 1..n : s[i] \in MapKeys /\ s[i] \in Int
  <2>1. \A i \in 1..n : s[i] \in MapKeys
    BY <1>1, ElementOfSeq, Zenon DEF SetSound
  <2>. QED
    BY <2>1
<1>5. ASSUME NEW i \in 1..n, NEW j \in 1..n, i < j PROVE s[i] < s[j]
  <2>1. <<s[i], s[j]>> \in SetOrder
    BY <1>1, <1>5, Zenon DEF SetSound, Ordered
  <2>. QED
    BY <2>1 DEF SetOrder
<1>. QED
    BY <1>1, <1>2, <1>5, Zenon DEF Rises

\* Parts of rising numbers rise.
LEMMA RisesBefore ==
    ASSUME NEW ks, NEW e \in Nat, Rises(ks, 1, e), NEW p \in 1..e
    PROVE  Rises(ks, 1, p)
<1>1. \A i \in 1..p - 1 : i \in 1..e - 1
    OBVIOUS
<1>. QED
    BY <1>1, Zenon DEF Rises

\* LowerBound finds the first pair whose key is not below k.
LEMMA MapBound ==
    ASSUME NEW s, MapSound(s), NEW k \in MapKeys, NEW e \in 1..EndOf(s)
    PROVE  Bounds(KeysOf(s), 1, e, k, LowerBound(s, 1, e, k))
<1>0. EndOf(s) \in Nat /\ e \in Nat /\ 1 \in Nat /\ 1 <= e /\ \A i \in 1..e - 1 : i \in 1..Len(s)
    BY DEF MapSound, EndOf
<1>1. Rises(KeysOf(s), 1, e) /\ \A i \in 1..Len(s) : KeysOf(s)[i] = s[i][1]
    BY <1>0, KeysRise, RisesBefore, Zenon
<1>. DEFINE left == {i \in 1..e - 1 : s[i][1] < k}
<1>. DEFINE ks == KeysOf(s)
<1>2. left = {i \in 1..e - 1 : ks[i] < k}
    BY <1>0, <1>1
<1>3. LowerBound(s, 1, e, k) = Bisect(1, e, left)
    BY DEF LowerBound
<1>4. k \in Int
    BY FlatAssumption
<1>5. Rises(ks, 1, e)
    BY <1>1
<1>. HIDE DEF left, ks
<1>6. Bounds(ks, 1, e, k, LowerBound(s, 1, e, k))
    BY <1>0, <1>2, <1>3, <1>4, <1>5, SearchFacts, Zenon
<1>. QED
    BY <1>6 DEF ks

\* SetLowerBound finds the first key that is not below k.
LEMMA SetBound ==
    ASSUME SetSound(setStorage), NEW k \in MapKeys, NEW e \in 1..EndOf(setStorage)
    PROVE  Bounds(setStorage, 1, e, k, SetLowerBound(1, e, k))
<1>0. EndOf(setStorage) \in Nat /\ e \in Nat /\ 1 \in Nat /\ 1 <= e
    BY DEF SetSound, EndOf
<1>1. Rises(setStorage, 1, e)
    BY <1>0, SetRises, RisesBefore, Zenon
<1>. DEFINE left == {i \in 1..e - 1 : setStorage[i] < k}
<1>3. SetLowerBound(1, e, k) = Bisect(1, e, left)
    BY DEF SetLowerBound
<1>4. k \in Int
    BY FlatAssumption
<1>. HIDE DEF left
<1>5. left = {i \in 1..e - 1 : setStorage[i] < k}
    BY DEF left
<1>. QED
    BY <1>0, <1>1, <1>3, <1>4, <1>5, SearchFacts, Zenon

\* A key belongs behind those below it and before those above it; at where it
\* is, if new does not hold.
Placed(ks, n, k, p, new) ==
    /\ p \in 1..n + 1 /\ new \in BOOLEAN
    /\ \A i \in 1..p - 1 : ks[i] < k
    /\ new => \A i \in p..n : k < ks[i]
    /\ ~new => p <= n /\ ks[p] = k

\* The first place that is not below k is the one where k belongs.
LEMMA PlaceFacts ==
    ASSUME NEW ks, NEW n \in Nat, Rises(ks, 1, n + 1), NEW k \in Int, NEW p, Bounds(ks, 1, n + 1, k, p)
    PROVE  Placed(ks, n, k, p, p = n + 1 \/ ks[p] # k)
<1>1. p \in 1..n + 1 /\ \A i \in 1..n : ks[i] \in Int /\ (ks[i] < k <=> i < p)
    BY DEF Bounds, Rises
<1>2. \A i \in 1..p - 1 : ks[i] < k
    BY <1>1
<1>3. ASSUME p = n + 1 \/ ks[p] # k, NEW i \in p..n PROVE k < ks[i]
  <2>1. p \in 1..n /\ i \in 1..n /\ ~(ks[p] < k) /\ ks[p] \in Int /\ ks[i] \in Int
    BY <1>1
  <2>2. k < ks[p]
    BY <1>3, <2>1
  <2>3. p = i \/ ks[p] < ks[i]
    BY <2>1 DEF Rises
  <2>. QED
    BY <2>1, <2>2, <2>3
<1>4. ASSUME ~(p = n + 1 \/ ks[p] # k) PROVE p <= n /\ ks[p] = k
    BY <1>1, <1>4
<1>5. (p = n + 1 \/ ks[p] # k) \in BOOLEAN
    OBVIOUS
<1>. QED
    BY <1>1, <1>2, <1>3, <1>4, <1>5, Zenon DEF Placed

\* _find_insert_pos of the map finds the place of the key, and whether to insert it.
LEMMA MapPlace ==
    ASSUME NEW s, MapSound(s), NEW k \in MapKeys
    PROVE  Placed(KeysOf(s), Len(s), k, InsertPos(s, k)[1], InsertPos(s, k)[2])
<1>1. PICK n \in Nat : n = Len(s) /\ EndOf(s) = n + 1 /\ EndOf(s) \in 1..EndOf(s)
    BY DEF MapSound, EndOf
<1>2. PICK p : p = LowerBound(s, 1, EndOf(s), k)
    OBVIOUS
<1>. DEFINE ks == KeysOf(s)
<1>3. Rises(ks, 1, n + 1) /\ \A i \in 1..n : ks[i] = s[i][1]
    BY <1>1, KeysRise, Zenon
<1>4. Bounds(ks, 1, n + 1, k, p)
    BY <1>1, <1>2, MapBound, Zenon
<1>5. k \in Int
    BY FlatAssumption
<1>. HIDE DEF ks
<1>6. Placed(ks, n, k, p, p = n + 1 \/ ks[p] # k)
    BY <1>3, <1>4, <1>5, PlaceFacts, Zenon
<1>7. p \in 1..n + 1 /\ (p # n + 1 => p \in 1..n)
    BY <1>4 DEF Bounds
<1>8. InsertPos(s, k)[1] = p
    BY <1>2 DEF InsertPos
<1>9. InsertPos(s, k)[2] = (p = n + 1 \/ s[p][1] # k)
    BY <1>1, <1>2, Zenon DEF InsertPos
<1>10. Placed(ks, n, k, p, p = n + 1 \/ s[p][1] # k)
  <2>1. (p = n + 1 \/ s[p][1] # k) <=> (p = n + 1 \/ ks[p] # k)
    BY <1>3, <1>7, Zenon
  <2>2. (p = n + 1 \/ s[p][1] # k) \in BOOLEAN
    OBVIOUS
  <2>. QED
    BY <1>6, <2>1, <2>2, Zenon DEF Placed
<1>. QED
    BY <1>1, <1>8, <1>9, <1>10, Zenon DEF ks

\* _find_insert_pos of the set does so too.
LEMMA SetPlace ==
    ASSUME SetSound(setStorage), NEW k \in MapKeys
    PROVE  Placed(setStorage, Len(setStorage), k, SetInsertPos(k)[1], SetInsertPos(k)[2])
<1>1. PICK n \in Nat : n = Len(setStorage) /\ EndOf(setStorage) = n + 1
                       /\ EndOf(setStorage) \in 1..EndOf(setStorage)
    BY DEF SetSound, EndOf
<1>2. PICK p : p = SetLowerBound(1, EndOf(setStorage), k)
    OBVIOUS
<1>3. Rises(setStorage, 1, n + 1)
    BY <1>1, SetRises, Zenon
<1>4. Bounds(setStorage, 1, n + 1, k, p)
    BY <1>1, <1>2, SetBound, Zenon
<1>5. k \in Int
    BY FlatAssumption
<1>6. Placed(setStorage, n, k, p, p = n + 1 \/ setStorage[p] # k)
    BY <1>3, <1>4, <1>5, PlaceFacts, Zenon
<1>8. SetInsertPos(k)[1] = p
    BY <1>2 DEF SetInsertPos
<1>9. SetInsertPos(k)[2] = (p = n + 1 \/ setStorage[p] # k)
    BY <1>1, <1>2, Zenon DEF SetInsertPos
<1>. QED
    BY <1>1, <1>6, <1>8, <1>9, Zenon

\* A hint that is the end or the place of the key changes nothing.
LEMMA MapHintFacts ==
    ASSUME NEW s, MapSound(s), NEW k \in MapKeys, ~AnyHint, NEW hint \in Hints(s, k)
    PROVE  HintedPos(s, hint, k) = InsertPos(s, k)
<1>1. PICK n \in Nat : n = Len(s) /\ EndOf(s) = n + 1 /\ EndOf(s) \in 1..EndOf(s)
    BY DEF MapSound, EndOf
<1>2. PICK p : p = LowerBound(s, 1, EndOf(s), k)
    OBVIOUS
<1>3. hint = n + 1 \/ hint = p
    BY <1>1, <1>2 DEF Hints
<1>4. Rises(KeysOf(s), 1, n + 1) /\ \A i \in 1..n : KeysOf(s)[i] = s[i][1]
    BY <1>1, KeysRise, Zenon
<1>5. Bounds(KeysOf(s), 1, n + 1, k, p)
    BY <1>1, <1>2, MapBound, Zenon
<1>6. p \in 1..n + 1 /\ \A i \in 1..n : s[i][1] \in Int /\ (s[i][1] < k <=> i < p)
  <2>1. p \in 1..n + 1 /\ \A i \in 1..(n + 1) - 1 : KeysOf(s)[i] < k <=> i < p
    BY <1>5, Zenon DEF Bounds
  <2>3. \A i \in 1..(n + 1) - 1 : KeysOf(s)[i] \in Int
    BY <1>4, Zenon DEF Rises
  <2>2. \A i \in 1..n : i \in 1..(n + 1) - 1
    OBVIOUS
  <2>. QED
    BY <1>4, <2>1, <2>2, <2>3, Zenon
<1>7. k \in Int
    BY FlatAssumption
<1>8. InsertPos(s, k) = <<p, p = n + 1 \/ s[p][1] # k>>
    BY <1>1, <1>2, Zenon DEF InsertPos
<1>9. CASE hint = n + 1 /\ (s = <<>> \/ Last(s)[1] < k)
  <2>1. HintedPos(s, hint, k) = <<n + 1, TRUE>>
    BY <1>1, <1>9, Zenon DEF HintedPos
  <2>2. p = n + 1
    <3>1. CASE s = <<>>
      BY <1>1, <1>6, <3>1
    <3>2. CASE s # <<>>
      <4>1. n \in 1..n /\ Last(s) = s[n]
        BY <1>1, <3>2 DEF Last, MapSound
      <4>2. s[n][1] < k
        BY <1>9, <3>2, <4>1, Zenon
      <4>3. n < p
        BY <1>6, <4>1, <4>2, Zenon
      <4>. QED
        BY <1>6, <4>3
    <3>. QED
      BY <3>1, <3>2
  <2>3. (p = n + 1 \/ s[p][1] # k) = TRUE
    BY <2>2, Zenon
  <2>. QED
    BY <1>8, <2>1, <2>2, <2>3, Zenon
<1>10. CASE ~(hint = n + 1 /\ (s = <<>> \/ Last(s)[1] < k))
  <2>1. p \in 1..n
    <3>1. CASE p = n + 1
      <4>1. hint = n + 1 /\ s # <<>> /\ ~(Last(s)[1] < k)
        BY <1>3, <1>10, <3>1
      <4>2. n \in 1..n /\ Last(s) = s[n] /\ n < p
        BY <1>1, <3>1, <4>1 DEF Last, MapSound
      <4>3. s[n][1] < k
        BY <1>6, <4>2, Zenon
      <4>. QED
        BY <4>1, <4>2, <4>3, Zenon
    <3>. QED
      BY <1>6, <3>1
  <2>2. (IF hint = EndOf(s) THEN LowerBound(s, 1, EndOf(s), k) ELSE hint) = p
    BY <1>1, <1>2, <1>3, Zenon
  <2>3. HintedPos(s, hint, k) =
            IF s[p][1] = k THEN <<p, FALSE>>
            ELSE IF k < s[p][1] THEN <<IF p # 1 THEN LowerBound(s, 1, p, k) ELSE p, TRUE>>
            ELSE <<LowerBound(s, p, EndOf(s), k), TRUE>>
    BY <1>1, <1>10, <2>2, Zenon DEF HintedPos
  <2>4. p # n + 1 /\ ~(s[p][1] < k) /\ s[p][1] \in Int
    BY <1>6, <2>1
  <2>5. CASE s[p][1] = k
    <3>1. (p = n + 1 \/ s[p][1] # k) = FALSE
      BY <2>4, <2>5, Zenon
    <3>. QED
      BY <1>8, <2>3, <2>5, <3>1, Zenon
  <2>6. CASE s[p][1] # k
    <3>1. k < s[p][1]
      BY <1>7, <2>4, <2>6
    <3>2. LowerBound(s, 1, p, k) = p
      <4>1. PICK q : q = LowerBound(s, 1, p, k)
        OBVIOUS
      <4>2. p \in 1..EndOf(s)
        BY <1>1, <1>6
      <4>3. Bounds(KeysOf(s), 1, p, k, q)
        BY <4>1, <4>2, MapBound, Zenon
      <4>4. q \in 1..p /\ \A i \in 1..p - 1 : i < q
        <5>1. \A i \in 1..p - 1 : i \in 1..n /\ i < p
          BY <2>1
        <5>2. \A i \in 1..p - 1 : KeysOf(s)[i] < k
          BY <1>4, <1>6, <5>1, Zenon
        <5>. QED
          BY <4>3, <5>2, Zenon DEF Bounds
      <4>5. q = p
        <5>1. CASE q < p
          <6>1. q \in 1..p - 1
            BY <2>1, <4>4, <5>1
          <6>. QED
            BY <4>4, <6>1
        <5>. QED
          BY <2>1, <4>4, <5>1
      <4>. QED
        BY <4>1, <4>5
    <3>3. (p = n + 1 \/ s[p][1] # k) = TRUE
      BY <2>6, Zenon
    <3>4. HintedPos(s, hint, k) = <<p, TRUE>>
      <4>1. (IF p # 1 THEN LowerBound(s, 1, p, k) ELSE p) = p
        BY <3>2, Zenon
      <4>. QED
        BY <2>3, <2>6, <3>1, <4>1, Zenon
    <3>. QED
      BY <1>8, <3>3, <3>4, Zenon
  <2>. QED
    BY <2>5, <2>6
<1>. QED
    BY <1>9, <1>10

\* A hint that is the end, or the place of the key, finds its place in the set.
LEMMA SetHintFacts ==
    ASSUME SetSound(setStorage), NEW k \in MapKeys, ~AnyHint, NEW hint \in SetHints(k)
    PROVE  SetHintedPos(hint, k) = SetInsertPos(k)
<1>1. PICK n \in Nat : n = Len(setStorage) /\ EndOf(setStorage) = n + 1 /\ EndOf(setStorage) \in 1..EndOf(setStorage)
    BY DEF SetSound, EndOf
<1>2. PICK p : p = SetLowerBound(1, EndOf(setStorage), k)
    OBVIOUS
<1>3. hint = n + 1 \/ hint = p
    BY <1>1, <1>2 DEF SetHints
<1>4. Rises(setStorage, 1, n + 1)
    BY <1>1, SetRises, Zenon
<1>5. Bounds(setStorage, 1, n + 1, k, p)
    BY <1>1, <1>2, SetBound, Zenon
<1>6. p \in 1..n + 1 /\ \A i \in 1..n : setStorage[i] \in Int /\ (setStorage[i] < k <=> i < p)
  <2>1. p \in 1..n + 1 /\ \A i \in 1..(n + 1) - 1 : setStorage[i] < k <=> i < p
    BY <1>5, Zenon DEF Bounds
  <2>3. \A i \in 1..(n + 1) - 1 : setStorage[i] \in Int
    BY <1>4, Zenon DEF Rises
  <2>2. \A i \in 1..n : i \in 1..(n + 1) - 1
    OBVIOUS
  <2>. QED
    BY <1>4, <2>1, <2>2, <2>3, Zenon
<1>7. k \in Int
    BY FlatAssumption
<1>8. SetInsertPos(k) = <<p, p = n + 1 \/ setStorage[p] # k>>
    BY <1>1, <1>2, Zenon DEF SetInsertPos
<1>9. CASE hint = n + 1 /\ (setStorage = <<>> \/ Last(setStorage) < k)
  <2>1. SetHintedPos(hint, k) = <<n + 1, TRUE>>
    BY <1>1, <1>9, Zenon DEF SetHintedPos
  <2>2. p = n + 1
    <3>1. CASE setStorage = <<>>
      BY <1>1, <1>6, <3>1
    <3>2. CASE setStorage # <<>>
      <4>1. n \in 1..n /\ Last(setStorage) = setStorage[n]
        BY <1>1, <3>2 DEF Last, SetSound
      <4>2. setStorage[n] < k
        BY <1>9, <3>2, <4>1, Zenon
      <4>3. n < p
        BY <1>6, <4>1, <4>2, Zenon
      <4>. QED
        BY <1>6, <4>3
    <3>. QED
      BY <3>1, <3>2
  <2>3. (p = n + 1 \/ setStorage[p] # k) = TRUE
    BY <2>2, Zenon
  <2>. QED
    BY <1>8, <2>1, <2>2, <2>3, Zenon
<1>10. CASE ~(hint = n + 1 /\ (setStorage = <<>> \/ Last(setStorage) < k))
  <2>1. p \in 1..n
    <3>1. CASE p = n + 1
      <4>1. hint = n + 1 /\ setStorage # <<>> /\ ~(Last(setStorage) < k)
        BY <1>3, <1>10, <3>1
      <4>2. n \in 1..n /\ Last(setStorage) = setStorage[n] /\ n < p
        BY <1>1, <3>1, <4>1 DEF Last, SetSound
      <4>3. setStorage[n] < k
        BY <1>6, <4>2, Zenon
      <4>. QED
        BY <4>1, <4>2, <4>3, Zenon
    <3>. QED
      BY <1>6, <3>1
  <2>2. (IF hint = EndOf(setStorage) THEN SetLowerBound(1, EndOf(setStorage), k) ELSE hint) = p
    BY <1>1, <1>2, <1>3, Zenon
  <2>3. SetHintedPos(hint, k) =
            IF setStorage[p] = k THEN <<p, FALSE>>
            ELSE IF k < setStorage[p] THEN <<IF p # 1 THEN SetLowerBound(1, p, k) ELSE p, TRUE>>
            ELSE <<SetLowerBound(p, EndOf(setStorage), k), TRUE>>
    BY <1>1, <1>10, <2>2, Zenon DEF SetHintedPos
  <2>4. p # n + 1 /\ ~(setStorage[p] < k) /\ setStorage[p] \in Int
    BY <1>6, <2>1
  <2>5. CASE setStorage[p] = k
    <3>1. (p = n + 1 \/ setStorage[p] # k) = FALSE
      BY <2>4, <2>5, Zenon
    <3>. QED
      BY <1>8, <2>3, <2>5, <3>1, Zenon
  <2>6. CASE setStorage[p] # k
    <3>1. k < setStorage[p]
      BY <1>7, <2>4, <2>6
    <3>2. SetLowerBound(1, p, k) = p
      <4>1. PICK q : q = SetLowerBound(1, p, k)
        OBVIOUS
      <4>2. p \in 1..EndOf(setStorage)
        BY <1>1, <1>6
      <4>3. Bounds(setStorage, 1, p, k, q)
        BY <4>1, <4>2, SetBound, Zenon
      <4>4. q \in 1..p /\ \A i \in 1..p - 1 : i < q
        <5>1. \A i \in 1..p - 1 : i \in 1..n /\ i < p
          BY <2>1
        <5>2. \A i \in 1..p - 1 : setStorage[i] < k
          BY <1>4, <1>6, <5>1, Zenon
        <5>. QED
          BY <4>3, <5>2, Zenon DEF Bounds
      <4>5. q = p
        <5>1. CASE q < p
          <6>1. q \in 1..p - 1
            BY <2>1, <4>4, <5>1
          <6>. QED
            BY <4>4, <6>1
        <5>. QED
          BY <2>1, <4>4, <5>1
      <4>. QED
        BY <4>1, <4>5
    <3>3. (p = n + 1 \/ setStorage[p] # k) = TRUE
      BY <2>6, Zenon
    <3>4. SetHintedPos(hint, k) = <<p, TRUE>>
      <4>1. (IF p # 1 THEN SetLowerBound(1, p, k) ELSE p) = p
        BY <3>2, Zenon
      <4>. QED
        BY <2>3, <2>6, <3>1, <4>1, Zenon
    <3>. QED
      BY <1>8, <3>3, <3>4, Zenon
  <2>. QED
    BY <2>5, <2>6
<1>. QED
    BY <1>9, <1>10

-----------------------------------------------------------------------------
(* The maps that sets of pairs stand for.                                  *)

IsMap(g, E) == g = [k \in {x[1] : x \in E} |-> g[k]] /\ \A x \in E : g[x[1]] = x[2]

\* A set of pairs stands for one map.
LEMMA SameMap ==
    ASSUME NEW g, NEW h, NEW E, IsMap(g, E), IsMap(h, E)
    PROVE  g = h
<1>1. \A k \in {x[1] : x \in E} : g[k] = h[k]
    BY DEF IsMap
<1>2. /\ g = [k \in {x[1] : x \in E} |-> g[k]]
      /\ h = [k \in {x[1] : x \in E} |-> h[k]]
    BY Zenon DEF IsMap
<1>. QED
    BY <1>1, <1>2, Zenon

WithKey(g, k, v) == [x \in DOMAIN g \cup {k} |-> IF x = k THEN v ELSE g[x]]

\* A pair replaces the one that has its key.
LEMMA WithKeyFacts ==
    ASSUME NEW g, NEW E, IsMap(g, E), NEW k, NEW v
    PROVE  IsMap(WithKey(g, k, v), {x \in E : x[1] # k} \cup {<<k, v>>})
<1>1. DOMAIN g = {x[1] : x \in E} /\ \A x \in E : g[x[1]] = x[2]
    BY DEF IsMap
<1>. DEFINE h == WithKey(g, k, v)
            F == {x \in E : x[1] # k} \cup {<<k, v>>}
<1>2. h = [x \in DOMAIN g \cup {k} |-> h[x]]
    BY DEF WithKey
<1>3. DOMAIN g \cup {k} = {x[1] : x \in F}
  <2>1. \A x \in F : x = <<k, v>> \/ x \in E
    OBVIOUS
  <2>2. \A x \in F : x[1] \in DOMAIN g \cup {k}
    BY <1>1, <2>1
  <2>3. \A y \in DOMAIN g : y # k => \E x \in F : y = x[1]
    BY <1>1
  <2>4. <<k, v>> \in F /\ <<k, v>>[1] = k
    OBVIOUS
  <2>. HIDE DEF F
  <2>. QED
    BY <2>2, <2>3, <2>4
<1>4. ASSUME NEW x \in F PROVE h[x[1]] = x[2]
  <2>1. CASE x = <<k, v>>
    BY <2>1 DEF WithKey
  <2>2. CASE x \in E /\ x[1] # k
    <3>1. x[1] \in DOMAIN g /\ g[x[1]] = x[2]
      BY <1>1, <2>2
    <3>. QED
      BY <2>2, <3>1 DEF WithKey
  <2>. QED
    BY <2>1, <2>2
<1>. QED
    BY <1>2, <1>3, <1>4, Zenon DEF IsMap

WithoutKeys(g, ks) == [x \in DOMAIN g \ ks |-> g[x]]

\* The pairs with some keys are removed.
LEMMA WithoutKeysFacts ==
    ASSUME NEW g, NEW E, IsMap(g, E), NEW ks
    PROVE  IsMap(WithoutKeys(g, ks), {x \in E : x[1] \notin ks})
<1>1. DOMAIN g = {x[1] : x \in E} /\ \A x \in E : g[x[1]] = x[2]
    BY DEF IsMap
<1>. DEFINE h == WithoutKeys(g, ks)
            F == {x \in E : x[1] \notin ks}
<1>2. h = [x \in DOMAIN g \ ks |-> h[x]]
    BY DEF WithoutKeys
<1>3. DOMAIN g \ ks = {x[1] : x \in F}
    BY <1>1
<1>4. ASSUME NEW x \in F PROVE h[x[1]] = x[2]
  <2>1. x[1] \in DOMAIN g \ ks /\ g[x[1]] = x[2]
    BY <1>1
  <2>. QED
    BY <2>1 DEF WithoutKeys
<1>. QED
    BY <1>2, <1>3, <1>4, Zenon DEF IsMap

\* A key has one value, at one place.
LEMMA MapOfFacts ==
    ASSUME NEW s, MapSound(s)
    PROVE  /\ IsMap(MapOf(s), Entries(s)) /\ Entries(s) \subseteq MapPairs
           /\ \A i, j \in 1..Len(s) : s[i][1] = s[j][1] => i = j
           /\ \A x, y \in Entries(s) : x[1] = y[1] => x = y
<1>1. PICK n \in Nat : n = Len(s) /\ DOMAIN s = 1..n
    BY DEF MapSound
<1>2. \A i \in 1..n : s[i] \in MapPairs /\ s[i][1] \in Int
  <2>1. \A i \in 1..n : s[i] \in MapPairs
    BY <1>1, KeysRise, Zenon
  <2>. QED
    BY <2>1, FlatAssumption DEF MapPairs
<1>3. ASSUME NEW i \in 1..n, NEW j \in 1..n, i < j PROVE s[i][1] < s[j][1]
  <2>1. <<s[i], s[j]>> \in MapOrder
    BY <1>1, <1>3, Zenon DEF MapSound, Ordered
  <2>. QED
    BY <2>1 DEF MapOrder
<1>4. ASSUME NEW i \in 1..n, NEW j \in 1..n, s[i][1] = s[j][1] PROVE i = j
  <2>1. i < j \/ j < i \/ i = j
    OBVIOUS
  <2>2. s[i][1] \in Int /\ s[j][1] \in Int
    BY <1>2, Zenon
  <2>3. CASE i < j
    <3>1. s[i][1] < s[j][1]
      BY <1>3, <2>3, Zenon
    <3>. QED
      BY <1>4, <2>2, <3>1
  <2>4. CASE j < i
    <3>1. s[j][1] < s[i][1]
      BY <1>3, <2>4, Zenon
    <3>. QED
      BY <1>4, <2>2, <3>1
  <2>. QED
    BY <2>1, <2>3, <2>4
<1>. DEFINE E == ToSet(s)
<1>5. E = Entries(s) /\ E = {s[i] : i \in 1..n}
    BY <1>1, Zenon DEF Entries, ToSet
<1>. HIDE DEF E
<1>6. \A x, y \in E : x[1] = y[1] => x = y
    BY <1>4, <1>5, Zenon
<1>7. E \subseteq MapPairs
    BY <1>2, <1>5
<1>8. {s[i][1] : i \in DOMAIN s} = {x[1] : x \in E}
    BY <1>1, <1>5
<1>9. MapOf(s) = [k \in {x[1] : x \in E} |-> (CHOOSE x \in E : x[1] = k)[2]]
    BY <1>8, Zenon DEF MapOf, E
<1>10. ASSUME NEW x \in E PROVE MapOf(s)[x[1]] = x[2]
  <2>1. (CHOOSE y \in E : y[1] = x[1]) = x
    <3>1. (CHOOSE y \in E : y[1] = x[1]) \in E /\ (CHOOSE y \in E : y[1] = x[1])[1] = x[1]
      BY <1>10, Zenon
    <3>. QED
      BY <1>6, <3>1, Zenon
  <2>2. x[1] \in {y[1] : y \in E}
    BY Zenon
  <2>. QED
    BY <1>9, <2>1, <2>2, Zenon
<1>11. MapOf(s) = [k \in {x[1] : x \in E} |-> MapOf(s)[k]]
    BY <1>9, Zenon
<1>12. IsMap(MapOf(s), E)
    BY <1>10, <1>11, Zenon DEF IsMap
<1>. QED
    BY <1>1, <1>4, <1>5, <1>6, <1>7, <1>12, Zenon

\* What the keys of a map are.
LEMMA KeysOfMap ==
    ASSUME NEW s, MapSound(s)
    PROVE  /\ \A i \in 1..Len(s) : s[i][1] \in DOMAIN MapOf(s) /\ MapOf(s)[s[i][1]] = s[i][2]
           /\ \A k \in DOMAIN MapOf(s) : \E i \in 1..Len(s) : s[i][1] = k
<1>1. IsMap(MapOf(s), Entries(s))
    BY MapOfFacts, Zenon
<1>2. DOMAIN MapOf(s) = {x[1] : x \in Entries(s)} /\ \A x \in Entries(s) : MapOf(s)[x[1]] = x[2]
    BY <1>1, SMT DEF IsMap
<1>. QED
    BY <1>2, Zenon DEF Entries

-----------------------------------------------------------------------------
(* What the operations do to a sorted sequence of pairs.                   *)

MapHolds(s, E) == MapSound(s) /\ Entries(s) = E

MapGains(c, s, p, k, v) ==
    /\ MapHolds(c, Entries(s) \cup {<<k, v>>})
    /\ p \in 1..Len(c) /\ c[p] = <<k, v>> /\ k \notin DOMAIN MapOf(s)

\* A key that is not there is put in its place.
LEMMA MapPutIn ==
    ASSUME NEW s, MapSound(s), NEW k \in MapKeys, NEW v \in MapVals, NEW p,
           Placed(KeysOf(s), Len(s), k, p, TRUE), NEW c, c = InsertAt(s, p, <<k, v>>)
    PROVE  MapGains(c, s, p, k, v)
<1>1. PICK n \in Nat : n = Len(s) /\ s \in Seq(MapPairs)
    BY DEF MapSound
<1>2. PICK x \in MapPairs : x = <<k, v>> /\ x[1] = k
    BY DEF MapPairs
<1>3. \A i \in 1..n : s[i][1] = KeysOf(s)[i] /\ s[i] \in MapPairs
    BY <1>1, KeysRise, Zenon
<1>4. p \in 1..n + 1 /\ (\A i \in 1..p - 1 : KeysOf(s)[i] < k) /\ \A i \in p..n : k < KeysOf(s)[i]
    BY <1>1, Zenon DEF Placed
<1>5. \A i \in 1..p - 1 : <<s[i], x>> \in MapOrder
  <2>1. ASSUME NEW i \in 1..p - 1 PROVE <<s[i], x>> \in MapOrder
    <3>1. i \in 1..n
      BY <1>4
    <3>2. s[i] \in MapPairs /\ s[i][1] < x[1]
      BY <1>2, <1>3, <1>4, <3>1, Zenon
    <3>. QED
      BY <3>2 DEF MapOrder
  <2>. QED
    BY <2>1
<1>6. \A i \in p..n : <<x, s[i]>> \in MapOrder
  <2>1. ASSUME NEW i \in p..n PROVE <<x, s[i]>> \in MapOrder
    <3>1. i \in 1..n
      BY <1>4
    <3>2. s[i] \in MapPairs /\ x[1] < s[i][1]
      BY <1>2, <1>3, <1>4, <3>1, Zenon
    <3>. QED
      BY <3>2 DEF MapOrder
  <2>. QED
    BY <2>1
<1>7. PutAt(c, s, p, x)
    BY <1>2, Zenon DEF InsertAt, PutAt
<1>8. Arranged(c, MapPairs, MapOrder, Entries(s) \cup {x}) /\ HasOneMore(c, s, p, x)
  <2>1. p \in 1..Len(s) + 1 /\ Ordered(s, MapOrder)
    BY <1>1, <1>4, Zenon DEF MapSound
  <2>2. (\A i \in 1..p - 1 : <<s[i], x>> \in MapOrder) /\ \A i \in p..Len(s) : <<x, s[i]>> \in MapOrder
    BY <1>1, <1>5, <1>6, Zenon
  <2>. QED
    BY <1>1, <1>7, <2>1, <2>2, InsertInOrder, Zenon
<1>9. p \in 1..Len(c)
    BY <1>1, <1>4, <1>8, Zenon DEF HasOneMore
<1>10. k \notin DOMAIN MapOf(s)
  <2>1. ASSUME NEW i \in 1..n, s[i][1] = k PROVE FALSE
    <3>1. i \in 1..p - 1 \/ i \in p..n
      BY <1>4
    <3>2. k \in Int
      BY FlatAssumption
    <3>3. k < k
      BY <1>3, <1>4, <2>1, <3>1, Zenon
    <3>. QED
      BY <3>2, <3>3
  <2>. QED
    BY <1>1, <2>1, KeysOfMap, Zenon
<1>. QED
    BY <1>2, <1>8, <1>9, <1>10, Zenon DEF MapSound, Arranged, HasOneMore, MapGains, MapHolds

\* Pairs come in the order of their keys.
LEMMA MapBefore ==
    ASSUME NEW a \in MapPairs, NEW b \in MapPairs, a[1] < b[1]
    PROVE  <<a, b>> \in MapOrder
BY DEF MapOrder

\* The members of a sequence after one of them, which has the key k, is changed.
RowChanged(c, s, I, k, x) == {c[i] : i \in I} = {y \in {s[i] : i \in I} : y[1] # k} \cup {x}

OneWritten(c, s, I, k, x) ==
    /\ \E p \in I : c[p] = x
    /\ \A i \in I : c[i] = x \/ (c[i] = s[i] /\ s[i][1] # k)
    /\ \A i \in I : s[i][1] # k => c[i] = s[i]

\* What one change in a sequence does to its entries.
LEMMA OneChanged ==
    ASSUME NEW I, NEW c, NEW s, NEW k, NEW x, OneWritten(c, s, I, k, x)
    PROVE  RowChanged(c, s, I, k, x)
BY DEF RowChanged, OneWritten

\* A value is written where its key is.
LEMMA MapWritten ==
    ASSUME NEW s, MapSound(s), NEW k \in MapKeys, NEW v \in MapVals, NEW p \in 1..Len(s), s[p][1] = k,
           NEW c, c = [s EXCEPT ![p] = <<k, v>>]
    PROVE  MapHolds(c, {x \in Entries(s) : x[1] # k} \cup {<<k, v>>})
<1>1. PICK n \in Nat : n = Len(s) /\ s \in Seq(MapPairs) /\ DOMAIN s = 1..n
    BY DEF MapSound
<1>2. PICK x \in MapPairs : x = <<k, v>> /\ x[1] = k
    BY DEF MapPairs
<1>3. c \in Seq(MapPairs) /\ Len(c) = n /\ c[p] = x /\ \A i \in 1..n : i # p => c[i] = s[i]
    BY <1>1, <1>2
<1>4. \A i \in 1..n : c[i] \in MapPairs /\ s[i] \in MapPairs /\ c[i][1] = s[i][1]
  <2>1. \A i \in 1..n : c[i] \in MapPairs /\ s[i] \in MapPairs
    BY <1>1, <1>3, ElementOfSeq, Zenon
  <2>2. \A i \in 1..n : c[i][1] = s[i][1]
    BY <1>2, <1>3, Zenon
  <2>. QED
    BY <2>1, <2>2
<1>5. Ordered(c, MapOrder)
  <2>1. ASSUME NEW i \in 1..n, NEW j \in 1..n, i < j PROVE <<c[i], c[j]>> \in MapOrder
    <3>1. <<s[i], s[j]>> \in MapOrder
      BY <1>1, <2>1, Zenon DEF MapSound, Ordered
    <3>2. s[i][1] < s[j][1]
      BY <3>1 DEF MapOrder
    <3>3. PICK a \in MapPairs, b \in MapPairs : a = c[i] /\ b = c[j] /\ a[1] < b[1]
      BY <1>4, <3>2, Zenon
    <3>4. <<a, b>> \in MapOrder
      BY <3>3, MapBefore, Zenon
    <3>. QED
      BY <3>3, <3>4, Zenon
  <2>. QED
    BY <1>3, <2>1, Zenon DEF Ordered
<1>6. \A i \in 1..n : s[i][1] = k => i = p
    BY <1>1, MapOfFacts, Zenon
<1>7. RowChanged(c, s, 1..n, k, x)
  <2>1. ASSUME NEW i \in 1..n PROVE c[i] = x \/ (c[i] = s[i] /\ s[i][1] # k)
    BY <1>3, <1>6
  <2>2. ASSUME NEW i \in 1..n, s[i][1] # k PROVE c[i] = s[i]
    BY <1>3, <2>2
  <2>3. p \in 1..n
    BY <1>1
  <2>4. OneWritten(c, s, 1..n, k, x)
    BY <1>3, <2>1, <2>2, <2>3, Zenon DEF OneWritten
  <2>. QED
    BY <2>4, OneChanged, Zenon
<1>8. Entries(c) = {y \in Entries(s) : y[1] # k} \cup {x}
    BY <1>1, <1>3, <1>7, Zenon DEF Entries, RowChanged
<1>. QED
    BY <1>2, <1>3, <1>5, <1>8, Zenon DEF MapSound, MapHolds

MapLoses(c, s, f, t) == MapHolds(c, {x \in Entries(s) : x[1] \notin {s[i][1] : i \in f..t - 1}})

\* Pairs are removed.
LEMMA MapCut ==
    ASSUME NEW s, MapSound(s), NEW f \in 1..Len(s) + 1, NEW t \in f..Len(s) + 1,
           NEW c, c = SubSeq(s, 1, f - 1) \o SubSeq(s, t, Len(s))
    PROVE  MapLoses(c, s, f, t)
<1>1. PICK n \in Nat : n = Len(s) /\ s \in Seq(MapPairs)
    BY DEF MapSound
<1>2. Arranged(c, MapPairs, MapOrder, {s[i] : i \in (1..f - 1) \cup (t..Len(s))})
  <2>1. Ordered(s, MapOrder)
    BY DEF MapSound
  <2>. QED
    BY <1>1, <2>1, CutInOrder, Zenon
<1>3. \A i, j \in 1..n : s[i][1] = s[j][1] => i = j
    BY <1>1, MapOfFacts, Zenon
<1>4. ASSUME NEW i \in 1..n
      PROVE  i \in (1..f - 1) \cup (t..n) <=> s[i][1] \notin {s[j][1] : j \in f..t - 1}
  <2>1. \A j \in f..t - 1 : j \in 1..n
    BY <1>1
  <2>2. i \in f..t - 1 <=> s[i][1] \in {s[j][1] : j \in f..t - 1}
    BY <1>3, <2>1
  <2>3. i \in (1..f - 1) \cup (t..n) <=> i \notin f..t - 1
    BY <1>1
  <2>. QED
    BY <2>2, <2>3
<1>5. \A i \in (1..f - 1) \cup (t..n) : i \in 1..n
    BY <1>1
<1>. DEFINE ks == {s[j][1] : j \in f..t - 1}
<1>6. {s[i] : i \in (1..f - 1) \cup (t..n)} = {x \in {s[i] : i \in 1..n} : x[1] \notin ks}
    BY <1>4, <1>5, Zenon
<1>7. Entries(c) = {x \in Entries(s) : x[1] \notin ks}
    BY <1>1, <1>2, <1>6, Zenon DEF Entries, Arranged
<1>. QED
    BY <1>2, <1>7, Zenon DEF MapSound, Arranged, MapHolds, MapLoses

\* Pairs of a set are kept.
LEMMA MapKept ==
    ASSUME NEW s, MapSound(s), NEW K
    PROVE  MapHolds(Selected(s, K), Entries(s) \cap K)
<1>1. PICK n \in Nat : n = Len(s) /\ s \in Seq(MapPairs) /\ n \in 0..Len(s)
    BY DEF MapSound
<1>. DEFINE f == CHOOSE g : Parts(g, s, K, Len(s))
<1>2. Parts(f, s, K, Len(s))
    BY <1>1, PartsExist, Zenon
<1>3. Selected(s, K) = f[Len(s)]
    BY Zenon DEF Selected, Parts
<1>. HIDE DEF f
<1>4. Arranged(f[Len(s)], MapPairs, MapOrder, Entries(s) \cap K)
    BY <1>1, <1>2, PartsInOrder, Zenon DEF MapSound
<1>. QED
    BY <1>3, <1>4, Zenon DEF MapSound, Arranged, MapHolds

\* Keys come in their order.
LEMMA SetBefore ==
    ASSUME NEW a \in MapKeys, NEW b \in MapKeys, a < b
    PROVE  <<a, b>> \in SetOrder
BY DEF SetOrder

SetHolds(s, E) == SetSound(s) /\ Entries(s) = E

\* A key that is not there is put in its place.
LEMMA SetPutIn ==
    ASSUME NEW s, SetSound(s), NEW k \in MapKeys, NEW p, Placed(s, Len(s), k, p, TRUE),
           NEW c, c = InsertAt(s, p, k)
    PROVE  SetHolds(c, Entries(s) \cup {k}) /\ k \notin Entries(s)
<1>1. PICK n \in Nat : n = Len(s) /\ s \in Seq(MapKeys)
    BY DEF SetSound
<1>3. \A i \in 1..n : s[i] \in MapKeys
    BY <1>1, ElementOfSeq, Zenon
<1>4. p \in 1..n + 1 /\ (\A i \in 1..p - 1 : s[i] < k) /\ \A i \in p..n : k < s[i]
    BY <1>1, Zenon DEF Placed
<1>5. \A i \in 1..p - 1 : <<s[i], k>> \in SetOrder
  <2>1. ASSUME NEW i \in 1..p - 1 PROVE <<s[i], k>> \in SetOrder
    <3>1. i \in 1..n
      BY <1>4
    <3>. QED
      BY <1>3, <1>4, <3>1, SetBefore, Zenon
  <2>. QED
    BY <2>1
<1>6. \A i \in p..n : <<k, s[i]>> \in SetOrder
  <2>1. ASSUME NEW i \in p..n PROVE <<k, s[i]>> \in SetOrder
    <3>1. i \in 1..n
      BY <1>4
    <3>. QED
      BY <1>3, <1>4, <3>1, SetBefore, Zenon
  <2>. QED
    BY <2>1
<1>7. PutAt(c, s, p, k)
    BY Zenon DEF InsertAt, PutAt
<1>8. Arranged(c, MapKeys, SetOrder, Entries(s) \cup {k}) /\ HasOneMore(c, s, p, k)
  <2>1. p \in 1..Len(s) + 1 /\ Ordered(s, SetOrder)
    BY <1>1, <1>4, Zenon DEF SetSound
  <2>2. (\A i \in 1..p - 1 : <<s[i], k>> \in SetOrder) /\ \A i \in p..Len(s) : <<k, s[i]>> \in SetOrder
    BY <1>1, <1>5, <1>6, Zenon
  <2>. QED
    BY <1>1, <1>7, <2>1, <2>2, InsertInOrder, Zenon
<1>10. k \notin Entries(s)
  <2>1. ASSUME NEW i \in 1..n, s[i] = k PROVE FALSE
    <3>1. i \in 1..p - 1 \/ i \in p..n
      BY <1>4
    <3>2. k \in Int
      BY FlatAssumption
    <3>3. k < k
      BY <1>3, <1>4, <2>1, <3>1, Zenon
    <3>. QED
      BY <3>2, <3>3
  <2>. QED
    BY <1>1, <2>1, Zenon DEF Entries
<1>. QED
    BY <1>8, <1>10, Zenon DEF SetSound, Arranged, SetHolds

\* Every key is there once.
LEMMA SetOnce ==
    ASSUME NEW s, SetSound(s)
    PROVE  \A i, j \in 1..Len(s) : s[i] = s[j] => i = j
<1>1. PICK n \in Nat : n = Len(s) /\ EndOf(s) - 1 = n
    BY DEF SetSound, EndOf
<1>2. (\A i \in 1..n : s[i] \in Int) /\ \A i, j \in 1..n : i < j => s[i] < s[j]
    BY <1>1, SetRises, Zenon DEF Rises
<1>3. ASSUME NEW i \in 1..n, NEW j \in 1..n, s[i] = s[j] PROVE i = j
  <2>1. i < j \/ j < i \/ i = j
    OBVIOUS
  <2>2. CASE i < j
    BY <1>2, <1>3, <2>2
  <2>3. CASE j < i
    BY <1>2, <1>3, <2>3
  <2>. QED
    BY <2>1, <2>2, <2>3
<1>. QED
    BY <1>1, <1>3, Zenon

SetLoses(c, s, f, t) == SetHolds(c, Entries(s) \ {s[i] : i \in f..t - 1})

\* Keys are removed.
LEMMA SetCut ==
    ASSUME NEW s, SetSound(s), NEW f \in 1..Len(s) + 1, NEW t \in f..Len(s) + 1,
           NEW c, c = SubSeq(s, 1, f - 1) \o SubSeq(s, t, Len(s))
    PROVE  SetLoses(c, s, f, t)
<1>1. PICK n \in Nat : n = Len(s) /\ s \in Seq(MapKeys)
    BY DEF SetSound
<1>2. Arranged(c, MapKeys, SetOrder, {s[i] : i \in (1..f - 1) \cup (t..Len(s))})
  <2>1. Ordered(s, SetOrder)
    BY DEF SetSound
  <2>. QED
    BY <1>1, <2>1, CutInOrder, Zenon
<1>3. \A i, j \in 1..n : s[i] = s[j] => i = j
    BY <1>1, SetOnce, Zenon
<1>4. ASSUME NEW i \in 1..n
      PROVE  i \in (1..f - 1) \cup (t..n) <=> s[i] \notin {s[j] : j \in f..t - 1}
  <2>1. \A j \in f..t - 1 : j \in 1..n
    BY <1>1
  <2>2. i \in f..t - 1 <=> s[i] \in {s[j] : j \in f..t - 1}
    BY <1>3, <2>1
  <2>3. i \in (1..f - 1) \cup (t..n) <=> i \notin f..t - 1
    BY <1>1
  <2>. QED
    BY <2>2, <2>3
<1>5. \A i \in (1..f - 1) \cup (t..n) : i \in 1..n
    BY <1>1
<1>. DEFINE ks == {s[j] : j \in f..t - 1}
<1>6. {s[i] : i \in (1..f - 1) \cup (t..n)} = {s[i] : i \in 1..n} \ ks
    BY <1>4, <1>5, Zenon
<1>7. Entries(c) = Entries(s) \ ks
    BY <1>1, <1>2, <1>6, Zenon DEF Entries, Arranged
<1>. QED
    BY <1>2, <1>7, Zenon DEF SetSound, Arranged, SetHolds, SetLoses

-----------------------------------------------------------------------------
(* Lists of at most two elements.                                          *)

Sorts(c, l, R) ==
    /\ c \in [DOMAIN l -> ToSet(l)] /\ ToSet(c) = ToSet(l)
    /\ \A i, j \in DOMAIN c : i < j => <<c[i], c[j]>> \in R

\* A list in an order in which none of it comes before a smaller one is sorted
\* when no two of it are equal.
LEMMA ArrangedSorts ==
    ASSUME NEW X, NEW l \in Seq(X), NEW c \in Arrangements(l), NEW R, NEW Q,
           \A i, j \in DOMAIN l : i # j => <<l[i], l[j]>> \notin Q,
           \A i, j \in DOMAIN c : i < j => <<c[i], c[j]>> \in R \cup Q
    PROVE  Sorts(c, l, R)
<1>. DEFINE D == DOMAIN l
<1>1. PICK p \in Bijection(D, D) : c = [i \in D |-> l[p[i]]]
    BY Zenon DEF Arrangements
<1>2. /\ p \in [D -> D] /\ \A a, b \in D : p[a] = p[b] => a = b
      /\ \A t \in D : \E a \in D : p[a] = t
    BY DEF Bijection, Injection, Surjection, IsInjective
<1>3. DOMAIN c = D /\ \A i \in D : p[i] \in D /\ c[i] = l[p[i]]
    BY <1>1, <1>2
<1>4. D = 1..Len(l) /\ Len(l) \in Nat
    OBVIOUS
<1>5. ToSet(l) = {l[i] : i \in D}
    BY <1>4 DEF ToSet
<1>6. ToSet(c) = {c[i] : i \in D}
    BY <1>3 DEF ToSet
<1>. HIDE DEF D
<1>7. \A i \in D : c[i] \in ToSet(l)
    BY <1>3, <1>5, Zenon
<1>8. c \in [D -> ToSet(l)]
    BY <1>1, <1>3, <1>7
<1>9. ToSet(c) = ToSet(l)
  <2>1. \A x \in ToSet(c) : x \in ToSet(l)
    BY <1>6, <1>7, Zenon
  <2>2. ASSUME NEW x \in ToSet(l) PROVE x \in ToSet(c)
    <3>1. PICK t \in D : x = l[t]
      BY <1>5, Zenon
    <3>2. PICK a \in D : p[a] = t
      BY <1>2, <3>1, Zenon
    <3>3. c[a] = x
      BY <1>3, <3>1, <3>2, Zenon
    <3>. QED
      BY <1>6, <3>3, Zenon
  <2>. QED
    BY <2>1, <2>2, Zenon
<1>10. ASSUME NEW i \in D, NEW j \in D, i < j PROVE <<c[i], c[j]>> \in R
  <2>1. i # j
    BY <1>4, <1>10
  <2>2. p[i] # p[j] /\ p[i] \in D /\ p[j] \in D
    BY <1>2, <1>3, <2>1, Zenon
  <2>3. <<c[i], c[j]>> \notin Q
    BY <1>3, <2>2, Zenon DEF D
  <2>. QED
    BY <1>3, <1>10, <2>3, Zenon
<1>. QED
    BY <1>3, <1>8, <1>9, <1>10, Zenon DEF Sorts, D

\* The lists that are assigned are sequences.
LEMMA ListsAreSequences ==
    ASSUME NEW X, NEW l \in Lists(X)
    PROVE  l \in Seq(X) /\ ToSet(l) \subseteq X /\ \A i \in DOMAIN l : l[i] \in X
<1>1. l \in Seq(X)
  <2>1. CASE l = <<>>
    BY <2>1
  <2>2. CASE \E x \in X : l = <<x>>
    BY <2>2
  <2>3. CASE \E x, y \in X : l = <<x, y>>
    <3>1. PICK x \in X, y \in X : l = <<x, y>>
      BY <2>3
    <3>. QED
      BY <3>1
  <2>. QED
    BY <2>1, <2>2, <2>3 DEF Lists
<1>. QED
    BY <1>1 DEF ToSet

\* A sorted list has its entries in order.
LEMMA SortedIsArranged ==
    ASSUME NEW X, NEW l \in Seq(X), NEW R, NEW c, Sorts(c, l, R)
    PROVE  Arranged(c, X, R, ToSet(l))
<1>1. PICK n \in Nat : n = Len(l) /\ DOMAIN l = 1..n
    OBVIOUS
<1>2. ToSet(l) \subseteq X
    BY DEF ToSet
<1>3. c \in [1..n -> X] /\ DOMAIN c = 1..n /\ ToSet(c) = ToSet(l)
    BY <1>1, <1>2 DEF Sorts
<1>4. c \in Seq(X) /\ Len(c) = n
    BY <1>3
<1>5. Entries(c) = ToSet(c)
    BY <1>3, <1>4, Zenon DEF Entries, ToSet
<1>6. Ordered(c, R)
    BY <1>3, <1>4, Zenon DEF Sorts, Ordered
<1>. QED
    BY <1>3, <1>4, <1>5, <1>6, Zenon DEF Arranged

-----------------------------------------------------------------------------
(* The steps of the map are steps of MapSpec.                              *)

\* A call that inserts a pair, or finds its key, is an insert of MapSpec.
LEMMA NextByInsert ==
    ASSUME NEW k, NEW v, NEW new, mapCall' = <<"insert", k, v, new>>, new = (k \notin DOMAIN MapOf(storage)),
           MapOf(storage') = IF new THEN WithKey(MapOf(storage), k, v) ELSE MapOf(storage)
    PROVE  AsMap!MapNext
<1>1. mapCall'[1] = "insert" /\ mapCall'[2] = k /\ mapCall'[3] = v
    OBVIOUS
<1>2. mapCall'[4] = new
    BY Zenon
<1>3. AsMap!MapInsert(k, v, new)
    BY Zenon DEF AsMap!MapInsert, AsMap!With, WithKey
<1>. QED
    BY <1>1, <1>2, <1>3, Zenon DEF AsMap!MapNext

\* A call that writes the value of a key is a write of MapSpec.
LEMMA NextByWrite ==
    ASSUME NEW k, NEW v, mapCall' = <<"write", k, v>>, MapOf(storage') = WithKey(MapOf(storage), k, v)
    PROVE  AsMap!MapNext
<1>1. mapCall'[1] = "write" /\ mapCall'[2] = k /\ mapCall'[3] = v
    OBVIOUS
<1>3. AsMap!MapWrite(k, v)
    BY Zenon DEF AsMap!MapWrite, AsMap!With, WithKey
<1>. QED
    BY <1>1, <1>3, Zenon DEF AsMap!MapNext

\* A call that removes a key is an erase of MapSpec.
LEMMA NextByErase ==
    ASSUME NEW k, NEW n, mapCall' = <<"erase", k, n>>, n = IF k \in DOMAIN MapOf(storage) THEN 1 ELSE 0,
           MapOf(storage') = WithoutKeys(MapOf(storage), {k})
    PROVE  AsMap!MapNext
<1>1. mapCall'[1] = "erase" /\ mapCall'[2] = k /\ mapCall'[3] = n
    OBVIOUS
<1>3. AsMap!MapErase(k, n)
    BY Zenon DEF AsMap!MapErase, AsMap!Without, WithoutKeys
<1>. QED
    BY <1>1, <1>3, Zenon DEF AsMap!MapNext

\* A call that removes several keys is an erase of keys of MapSpec.
LEMMA NextByEraseKeys ==
    ASSUME NEW ks, mapCall' = <<"erase_keys", ks>>, MapOf(storage') = WithoutKeys(MapOf(storage), ks)
    PROVE  AsMap!MapNext
<1>1. mapCall'[1] = "erase_keys" /\ mapCall'[2] = ks
    OBVIOUS
<1>3. MapOf(storage)' = AsMap!Without(ks)
    BY Zenon DEF AsMap!Without, WithoutKeys
<1>. QED
    BY <1>1, <1>3, Zenon DEF AsMap!MapNext

\* A call that leaves a map is an assignment of MapSpec.
LEMMA NextByAssign ==
    ASSUME NEW g, mapCall' = <<"assign", g>>, MapOf(storage') = g
    PROVE  AsMap!MapNext
<1>1. mapCall'[1] = "assign" /\ mapCall'[2] = g
    OBVIOUS
<1>. QED
    BY <1>1, Zenon DEF AsMap!MapNext

\* insert and emplace of flat_map.
LEMMA InsertImplemented ==
    ASSUME MapSound(storage), NEW k \in MapKeys, NEW v \in MapVals, MapInsert(k, v)
    PROVE  MapSound(storage') /\ AsMap!MapNext
<1>. DEFINE ip == InsertPos(storage, k)
<1>1. /\ storage' = DoInsert(storage, ip, <<k, v>>)
      /\ mapCall' = <<"insert", k, v, ip[2]>>
    BY Zenon DEF MapInsert, OnMap
<1>2. Placed(KeysOf(storage), Len(storage), k, ip[1], ip[2])
    BY MapPlace, Zenon
<1>. HIDE DEF ip
<1>3. ip[2] \in BOOLEAN
    BY <1>2, Zenon DEF Placed
<1>4. CASE ip[2] = TRUE
  <2>1. storage' = InsertAt(storage, ip[1], <<k, v>>)
    BY <1>1, <1>4, Zenon DEF DoInsert
  <2>2. Placed(KeysOf(storage), Len(storage), k, ip[1], TRUE)
    BY <1>2, <1>4, Zenon
  <2>3. /\ MapSound(storage') /\ Entries(storage') = Entries(storage) \cup {<<k, v>>}
        /\ k \notin DOMAIN MapOf(storage)
    <3>1. MapGains(storage', storage, ip[1], k, v)
      BY <2>1, <2>2, MapPutIn, Zenon
    <3>. QED
      BY <3>1, Zenon DEF MapGains, MapHolds
  <2>4. IsMap(MapOf(storage), Entries(storage)) /\ IsMap(MapOf(storage'), Entries(storage'))
    BY <2>3, MapOfFacts, Zenon
  <2>5. IsMap(WithKey(MapOf(storage), k, v), {x \in Entries(storage) : x[1] # k} \cup {<<k, v>>})
    BY <2>4, WithKeyFacts, Zenon
  <2>6. {x \in Entries(storage) : x[1] # k} = Entries(storage)
    <3>1. DOMAIN MapOf(storage) = {x[1] : x \in Entries(storage)}
      BY <2>4, SMT DEF IsMap
    <3>. QED
      BY <2>3, <3>1, Zenon
  <2>7. MapOf(storage') = WithKey(MapOf(storage), k, v)
    <3>1. IsMap(WithKey(MapOf(storage), k, v), Entries(storage'))
      BY <2>3, <2>5, <2>6, Zenon
    <3>. QED
      BY <2>4, <3>1, SameMap, Zenon
  <2>8. ip[2] = (k \notin DOMAIN MapOf(storage))
    BY <1>4, <2>3, Zenon
  <2>9. AsMap!MapNext
    BY <1>1, <1>4, <2>7, <2>8, NextByInsert, Zenon
  <2>. QED
    BY <2>3, <2>9, Zenon
<1>5. CASE ip[2] = FALSE
  <2>1. storage' = storage
    BY <1>1, <1>5, Zenon DEF DoInsert
  <2>2. ip[1] \in 1..Len(storage) + 1 /\ ip[1] <= Len(storage) /\ KeysOf(storage)[ip[1]] = k
    BY <1>2, <1>5, Zenon DEF Placed
  <2>3. ip[1] \in 1..Len(storage)
    BY <2>2 DEF MapSound
  <2>4. storage[ip[1]][1] = k
    BY <2>2, <2>3, KeysRise, Zenon
  <2>5. k \in DOMAIN MapOf(storage)
    BY <2>3, <2>4, KeysOfMap, Zenon
  <2>6. ip[2] = (k \notin DOMAIN MapOf(storage))
    BY <1>5, <2>5, Zenon
  <2>9. AsMap!MapNext
    BY <1>1, <1>5, <2>1, <2>6, NextByInsert, Zenon
  <2>. QED
    BY <2>1, <2>9, Zenon
<1>. QED
    BY <1>3, <1>4, <1>5, Zenon

\* insert with a hint of flat_map.
LEMMA InsertHintImplemented ==
    ASSUME MapSound(storage), ~AnyHint, NEW k \in MapKeys, NEW v \in MapVals,
           NEW hint \in Hints(storage, k), MapInsertHint(hint, k, v)
    PROVE  MapSound(storage') /\ AsMap!MapNext
<1>1. HintedPos(storage, hint, k) = InsertPos(storage, k)
    BY MapHintFacts, Zenon
<1>2. MapInsert(k, v)
    BY <1>1, Zenon DEF MapInsertHint, MapInsert
<1>. QED
    BY <1>2, InsertImplemented, Zenon

\* operator[] of flat_map.
LEMMA IndexImplemented ==
    ASSUME MapSound(storage), NEW k \in MapKeys, NEW v \in MapVals, MapIndex(k, v)
    PROVE  MapSound(storage') /\ AsMap!MapNext
<1>. DEFINE ip == InsertPos(storage, k)
            c == DoInsert(storage, ip, <<k, DefaultVal>>)
<1>1. /\ storage' = [c EXCEPT ![ip[1]] = <<k, v>>]
      /\ mapCall' = <<"write", k, v>>
    BY Zenon DEF MapIndex, OnMap
<1>2. Placed(KeysOf(storage), Len(storage), k, ip[1], ip[2])
    BY MapPlace, Zenon
<1>3. DefaultVal \in MapVals
    BY FlatAssumption
<1>4. PICK p : p = ip[1]
    OBVIOUS
<1>. HIDE DEF ip
<1>5. ip[2] \in BOOLEAN
    BY <1>2, Zenon DEF Placed
<1>6. /\ MapSound(c) /\ p \in 1..Len(c) /\ c[p][1] = k
      /\ {x \in Entries(c) : x[1] # k} = {x \in Entries(storage) : x[1] # k}
  <2>1. CASE ip[2] = TRUE
    <3>1. c = InsertAt(storage, p, <<k, DefaultVal>>)
      BY <1>4, <2>1, Zenon DEF DoInsert
    <3>2. Placed(KeysOf(storage), Len(storage), k, p, TRUE)
      BY <1>2, <1>4, <2>1, Zenon
    <3>. HIDE DEF c
    <3>3. MapGains(c, storage, p, k, DefaultVal)
      BY <1>3, <3>1, <3>2, MapPutIn, Zenon
    <3>4. MapSound(c) /\ Entries(c) = Entries(storage) \cup {<<k, DefaultVal>>} /\ p \in 1..Len(c)
      BY <3>3, Zenon DEF MapGains, MapHolds
    <3>5. c[p] = <<k, DefaultVal>>
      BY <3>3, Zenon DEF MapGains
    <3>6. c[p][1] = k
      BY <3>5
    <3>7. \A x : x \in Entries(c) /\ x[1] # k <=> x \in Entries(storage) /\ x[1] # k
      <4>1. <<k, DefaultVal>>[1] = k
        OBVIOUS
      <4>. QED
        BY <3>4, <4>1, Zenon
    <3>8. {x \in Entries(c) : x[1] # k} = {x \in Entries(storage) : x[1] # k}
      BY <3>7, Zenon
    <3>. QED
      BY <3>4, <3>6, <3>8, Zenon
  <2>2. CASE ip[2] = FALSE
    <3>1. c = storage
      BY <2>2, Zenon DEF DoInsert
    <3>2. p \in 1..Len(storage) + 1 /\ p <= Len(storage) /\ KeysOf(storage)[p] = k
      BY <1>2, <1>4, <2>2, Zenon DEF Placed
    <3>. HIDE DEF c
    <3>3. p \in 1..Len(storage)
      BY <3>2 DEF MapSound
    <3>4. storage[p][1] = k
      BY <3>2, <3>3, KeysRise, Zenon
    <3>. QED
      BY <3>1, <3>3, <3>4, Zenon
  <2>. QED
    BY <1>5, <2>1, <2>2, Zenon
<1>. HIDE DEF c
<1>7. storage' = [c EXCEPT ![p] = <<k, v>>]
    BY <1>1, <1>4, Zenon
<1>8. MapHolds(storage', {x \in Entries(c) : x[1] # k} \cup {<<k, v>>})
    BY <1>6, <1>7, MapWritten, Zenon
<1>9. /\ MapSound(storage')
      /\ Entries(storage') = {x \in Entries(storage) : x[1] # k} \cup {<<k, v>>}
    BY <1>6, <1>8, Zenon DEF MapHolds
<1>10. IsMap(MapOf(storage), Entries(storage)) /\ IsMap(MapOf(storage'), Entries(storage'))
    BY <1>9, MapOfFacts, Zenon
<1>11. IsMap(WithKey(MapOf(storage), k, v), Entries(storage'))
  <2>1. IsMap(WithKey(MapOf(storage), k, v), {x \in Entries(storage) : x[1] # k} \cup {<<k, v>>})
    BY <1>10, WithKeyFacts, Zenon
  <2>. QED
    BY <1>9, <2>1, Zenon
<1>12. MapOf(storage') = WithKey(MapOf(storage), k, v)
    BY <1>10, <1>11, SameMap, Zenon
<1>. QED
    BY <1>1, <1>9, <1>12, NextByWrite, Zenon

\* A map without some of its keys.
LEMMA LessIsWithout ==
    ASSUME MapSound(storage), NEW ks, NEW c, MapHolds(c, {x \in Entries(storage) : x[1] \notin ks})
    PROVE  MapOf(c) = WithoutKeys(MapOf(storage), ks)
<1>1. MapSound(c) /\ Entries(c) = {x \in Entries(storage) : x[1] \notin ks}
    BY Zenon DEF MapHolds
<1>2. IsMap(MapOf(storage), Entries(storage)) /\ IsMap(MapOf(c), Entries(c))
    BY <1>1, MapOfFacts, Zenon
<1>3. IsMap(WithoutKeys(MapOf(storage), ks), Entries(c))
  <2>1. IsMap(WithoutKeys(MapOf(storage), ks), {x \in Entries(storage) : x[1] \notin ks})
    BY <1>2, WithoutKeysFacts, Zenon
  <2>. QED
    BY <1>1, <2>1, Zenon
<1>. QED
    BY <1>2, <1>3, SameMap, Zenon

\* erase of a key of flat_map.
LEMMA EraseImplemented ==
    ASSUME MapSound(storage), NEW k \in MapKeys, MapErase(k)
    PROVE  MapSound(storage') /\ AsMap!MapNext
<1>. DEFINE p == LowerBound(storage, 1, EndOf(storage), k)
            found == p # EndOf(storage) /\ ~(k < storage[p][1])
            n == IF found THEN 1 ELSE 0
<1>1. /\ storage' = IF found THEN RemoveAt(storage, p) ELSE storage
      /\ mapCall' = <<"erase", k, n>>
    BY Zenon DEF MapErase, OnMap
<1>2. PICK l \in Nat : l = Len(storage) /\ EndOf(storage) = l + 1 /\ EndOf(storage) \in 1..EndOf(storage)
    BY DEF MapSound, EndOf
<1>3. Bounds(KeysOf(storage), 1, EndOf(storage), k, p)
    BY <1>2, MapBound, Zenon
<1>. HIDE DEF p
<1>4. \A i \in 1..l : KeysOf(storage)[i] = storage[i][1] /\ storage[i] \in MapPairs
    BY <1>2, KeysRise, Zenon
<1>5. p \in 1..l + 1 /\ \A i \in 1..l : storage[i][1] < k <=> i < p
  <2>1. p \in 1..l + 1 /\ \A i \in 1..(l + 1) - 1 : KeysOf(storage)[i] < k <=> i < p
    BY <1>2, <1>3, Zenon DEF Bounds
  <2>2. \A i \in 1..l : i \in 1..(l + 1) - 1
    OBVIOUS
  <2>. QED
    BY <1>4, <2>1, <2>2, Zenon
<1>6. k \in Int /\ \A i \in 1..l : storage[i][1] \in Int
    BY <1>4, FlatAssumption DEF MapPairs
<1>7. CASE found
  <2>1. p \in 1..l /\ ~(k < storage[p][1])
    BY <1>2, <1>5, <1>7
  <2>2. storage[p][1] = k
    BY <1>5, <1>6, <2>1
  <2>3. storage' = SubSeq(storage, 1, p - 1) \o SubSeq(storage, p + 1, Len(storage))
    BY <1>1, <1>7, Zenon DEF RemoveAt
  <2>4. p \in 1..Len(storage) + 1 /\ p + 1 \in p..Len(storage) + 1 /\ p..(p + 1) - 1 = {p}
    BY <1>2, <2>1
  <2>5. MapLoses(storage', storage, p, p + 1)
    BY <2>3, <2>4, MapCut, Zenon
  <2>6. {storage[i][1] : i \in p..(p + 1) - 1} = {k}
    BY <2>2, <2>4
  <2>7. MapHolds(storage', {x \in Entries(storage) : x[1] \notin {k}})
    BY <2>5, <2>6, Zenon DEF MapLoses
  <2>8. MapOf(storage') = WithoutKeys(MapOf(storage), {k})
    BY <2>7, LessIsWithout, Zenon
  <2>9. k \in DOMAIN MapOf(storage)
    BY <1>2, <2>1, <2>2, KeysOfMap, Zenon
  <2>10. n = IF k \in DOMAIN MapOf(storage) THEN 1 ELSE 0
    BY <1>7, <2>9, Zenon
  <2>11. AsMap!MapNext
    BY <1>1, <2>8, <2>10, NextByErase, Zenon
  <2>. QED
    BY <2>7, <2>11, Zenon DEF MapHolds
<1>8. CASE ~found
  <2>1. storage' = storage
    BY <1>1, <1>8, Zenon
  <2>2. ASSUME NEW i \in 1..l, storage[i][1] = k PROVE FALSE
    <3>1. ~(i < p)
      BY <1>5, <1>6, <2>2
    <3>2. p \in 1..l /\ p # EndOf(storage) /\ k < storage[p][1]
      BY <1>2, <1>5, <1>8, <3>1
    <3>3. p = i \/ storage[p][1] < storage[i][1]
      <4>1. p = i \/ p < i
        BY <1>5, <3>1
      <4>2. Rises(KeysOf(storage), 1, l + 1) /\ i \in 1..(l + 1) - 1 /\ p \in 1..(l + 1) - 1
        BY <1>2, <3>2, KeysRise
      <4>. QED
        BY <1>4, <3>2, <4>1, <4>2, Zenon DEF Rises
    <3>. QED
      BY <1>6, <2>2, <3>2, <3>3
  <2>3. k \notin DOMAIN MapOf(storage)
    BY <1>2, <2>2, KeysOfMap, Zenon
  <2>4. {x \in Entries(storage) : x[1] \notin {k}} = Entries(storage)
    BY <1>2, <2>2, Zenon DEF Entries
  <2>5. MapHolds(storage, {x \in Entries(storage) : x[1] \notin {k}})
    BY <2>4, Zenon DEF MapHolds
  <2>8. MapOf(storage') = WithoutKeys(MapOf(storage), {k})
    BY <2>1, <2>5, LessIsWithout, Zenon
  <2>10. n = IF k \in DOMAIN MapOf(storage) THEN 1 ELSE 0
    BY <1>8, <2>3, Zenon
  <2>11. AsMap!MapNext
    BY <1>1, <2>8, <2>10, NextByErase, Zenon
  <2>. QED
    BY <2>1, <2>11, Zenon
<1>. QED
    BY <1>7, <1>8, Zenon

\* erase of a range of flat_map, and clear.
LEMMA EraseRangeImplemented ==
    ASSUME MapSound(storage), NEW f \in 1..EndOf(storage), NEW t \in 1..EndOf(storage), f <= t,
           MapEraseRange(f, t)
    PROVE  MapSound(storage') /\ AsMap!MapNext
<1>. DEFINE ks == {storage[i][1] : i \in f..t - 1}
<1>1. /\ storage' = SubSeq(storage, 1, f - 1) \o SubSeq(storage, t, Len(storage))
      /\ mapCall' = <<"erase_keys", ks>>
    BY Zenon DEF MapEraseRange, OnMap
<1>2. f \in 1..Len(storage) + 1 /\ t \in f..Len(storage) + 1
    BY DEF MapSound, EndOf
<1>3. MapLoses(storage', storage, f, t)
    BY <1>1, <1>2, MapCut, Zenon
<1>4. MapHolds(storage', {x \in Entries(storage) : x[1] \notin ks})
    BY <1>3, Zenon DEF MapLoses
<1>. HIDE DEF ks
<1>5. MapOf(storage') = WithoutKeys(MapOf(storage), ks)
    BY <1>4, LessIsWithout, Zenon
<1>6. AsMap!MapNext
    BY <1>1, <1>5, NextByEraseKeys, Zenon
<1>. QED
    BY <1>4, <1>6, Zenon DEF MapHolds

\* erase_if of flat_map.
LEMMA EraseIfImplemented ==
    ASSUME MapSound(storage), NEW v \in MapVals, MapEraseIf(v)
    PROVE  MapSound(storage') /\ AsMap!MapNext
<1>. DEFINE K == {x \in ToSet(storage) : x[2] # v}
            ks == {storage[i][1] : i \in {j \in DOMAIN storage : storage[j][2] = v}}
<1>1. storage' = Selected(storage, K) /\ mapCall' = <<"erase_keys", ks>>
    BY Zenon DEF MapEraseIf, OnMap
<1>2. MapHolds(storage', Entries(storage) \cap K)
    BY <1>1, MapKept, Zenon
<1>3. PICK l \in Nat : l = Len(storage) /\ DOMAIN storage = 1..l
    BY DEF MapSound
<1>4. Entries(storage) = {storage[i] : i \in 1..l} /\ ToSet(storage) = {storage[i] : i \in 1..l}
    BY <1>3, Zenon DEF Entries, ToSet
<1>5. \A x, y \in Entries(storage) : x[1] = y[1] => x = y
    BY MapOfFacts, Zenon
<1>6. ASSUME NEW x \in Entries(storage) PROVE x \in K <=> x[1] \notin ks
  <2>1. CASE x[2] = v
    <3>1. PICK i \in 1..l : x = storage[i]
      BY <1>4
    <3>2. x[1] \in ks
      BY <1>3, <2>1, <3>1, Zenon
    <3>. QED
      BY <2>1, <3>2, Zenon
  <2>2. CASE x[2] # v
    <3>1. x \in K
      BY <1>4, <2>2, Zenon
    <3>2. ASSUME x[1] \in ks PROVE FALSE
      <4>1. PICK i \in 1..l : x[1] = storage[i][1] /\ storage[i][2] = v
        BY <1>3, <3>2, Zenon
      <4>2. storage[i] \in Entries(storage)
        BY <1>4, Zenon
      <4>. QED
        BY <1>5, <2>2, <4>1, <4>2, Zenon
    <3>. QED
      BY <3>1, <3>2, Zenon
  <2>. QED
    BY <2>1, <2>2, Zenon
<1>. HIDE DEF K, ks
<1>7. Entries(storage) \cap K = {x \in Entries(storage) : x[1] \notin ks}
    BY <1>6, Zenon
<1>8. MapHolds(storage', {x \in Entries(storage) : x[1] \notin ks})
    BY <1>2, <1>7, Zenon
<1>9. MapOf(storage') = WithoutKeys(MapOf(storage), ks)
    BY <1>8, LessIsWithout, Zenon
<1>10. AsMap!MapNext
    BY <1>1, <1>9, NextByEraseKeys, Zenon
<1>. QED
    BY <1>8, <1>10, Zenon DEF MapHolds

SameKeys == {xy \in MapPairs \X MapPairs : xy[1][1] = xy[2][1]}

\* assign of flat_map sorts the list.
LEMMA AssignImplemented ==
    ASSUME NEW ps \in Lists(MapKeys \X MapVals), MapAssign(ps), ~mapRepeats'
    PROVE  MapSound(storage') /\ AsMap!MapNext
<1>. DEFINE g == [k \in {ps[i][1] : i \in DOMAIN ps} |-> (CHOOSE x \in ToSet(ps) : x[1] = k)[2]]
<1>1. /\ storage' \in {s \in Arrangements(ps) : \A i, j \in DOMAIN s : i < j => s[i][1] <= s[j][1]}
      /\ mapCall' = <<"assign", g>>
      /\ ~(\E i, j \in DOMAIN ps : i # j /\ ps[i][1] = ps[j][1])
    BY Zenon DEF MapAssign
<1>2. PICK c \in Arrangements(ps) : c = storage' /\ \A i, j \in DOMAIN c : i < j => c[i][1] <= c[j][1]
    BY <1>1, Zenon
<1>3. ps \in Lists(MapPairs)
    BY DEF MapPairs
<1>4. ps \in Seq(MapPairs) /\ ToSet(ps) \subseteq MapPairs /\ \A i \in DOMAIN ps : ps[i] \in MapPairs
    BY <1>3, ListsAreSequences, Zenon
<1>5. \A i, j \in DOMAIN ps : i # j => <<ps[i], ps[j]>> \notin SameKeys
    BY <1>1, <1>4 DEF SameKeys
<1>6. \A i \in DOMAIN c : c[i] \in MapPairs
  <2>1. PICK p \in Bijection(DOMAIN ps, DOMAIN ps) : c = [i \in DOMAIN ps |-> ps[p[i]]]
    BY Zenon DEF Arrangements
  <2>2. p \in [DOMAIN ps -> DOMAIN ps]
    BY DEF Bijection, Injection
  <2>. QED
    BY <1>4, <2>1, <2>2
<1>7. ASSUME NEW i \in DOMAIN c, NEW j \in DOMAIN c, i < j
      PROVE  <<c[i], c[j]>> \in MapOrder \cup SameKeys
  <2>1. PICK a \in MapPairs, b \in MapPairs : a = c[i] /\ b = c[j] /\ a[1] <= b[1]
    BY <1>2, <1>6, <1>7, Zenon
  <2>2. a[1] \in Int /\ b[1] \in Int
    BY FlatAssumption DEF MapPairs
  <2>3. a[1] < b[1] \/ a[1] = b[1]
    BY <2>1, <2>2
  <2>. QED
    BY <2>1, <2>3 DEF MapOrder, SameKeys
<1>9. Sorts(storage', ps, MapOrder)
    BY <1>2, <1>4, <1>5, <1>7, ArrangedSorts, Zenon
<1>10. Arranged(storage', MapPairs, MapOrder, ToSet(ps))
    BY <1>4, <1>9, SortedIsArranged, Zenon
<1>11. MapSound(storage')
    BY <1>10, Zenon DEF Arranged, MapSound
<1>12. ToSet(storage') = ToSet(ps)
    BY <1>9, Zenon DEF Sorts
<1>13. \A s : {s[i][1] : i \in DOMAIN s} = {x[1] : x \in ToSet(s)}
    BY Zenon DEF ToSet
<1>15. MapOf(storage') = g
  <2>. DEFINE Named(E) == [k \in {x[1] : x \in E} |-> (CHOOSE x \in E : x[1] = k)[2]]
  <2>1. MapOf(storage') = Named(ToSet(storage'))
    BY <1>13, Zenon DEF MapOf
  <2>2. g = Named(ToSet(ps))
    BY <1>13, Zenon
  <2>. HIDE DEF Named, g
  <2>. QED
    BY <1>12, <2>1, <2>2, Zenon
<1>. HIDE DEF g
<1>16. AsMap!MapNext
    BY <1>1, <1>15, NextByAssign, Zenon
<1>. QED
    BY <1>11, <1>16, Zenon

-----------------------------------------------------------------------------
(* The steps of the set are steps of MapSpec.                              *)

SetAsMap(E) == [k \in E |-> DefaultVal]

\* A call that inserts a key is an insert of MapSpec.
LEMMA SetNextByInsert ==
    ASSUME NEW k, NEW new, setCall' = <<"insert", k, DefaultVal, new>>, new = (k \notin ToSet(setStorage)),
           ToSet(setStorage') = IF new THEN ToSet(setStorage) \cup {k} ELSE ToSet(setStorage)
    PROVE  AsSet!MapNext
<1>1. setCall'[1] = "insert" /\ setCall'[2] = k /\ setCall'[3] = DefaultVal
    OBVIOUS
<1>2. setCall'[4] = new
    BY Zenon
<1>. DEFINE D == ToSet(setStorage)
            E == ToSet(setStorage')
<1>3. DOMAIN SetAsMap(D) = D
    BY DEF SetAsMap
<1>4. new = (k \notin DOMAIN SetAsMap(D))
    BY <1>3, Zenon
<1>5. SetAsMap(E) = IF new THEN WithKey(SetAsMap(D), k, DefaultVal) ELSE SetAsMap(D)
  <2>. HIDE DEF D, E
  <2>1. SetAsMap(D \cup {k}) = WithKey(SetAsMap(D), k, DefaultVal)
    BY DEF SetAsMap, WithKey
  <2>2. E = IF new THEN D \cup {k} ELSE D
    BY Zenon DEF D, E
  <2>. QED
    BY <2>1, <2>2, Zenon
<1>6. AsSet!MapInsert(k, DefaultVal, new)
    BY <1>4, <1>5, Zenon DEF AsSet!MapInsert, AsSet!With, WithKey, SetAsMap
<1>. QED
    BY <1>1, <1>2, <1>6, Zenon DEF AsSet!MapNext

\* A call that removes a key is an erase of MapSpec.
LEMMA SetNextByErase ==
    ASSUME NEW k, NEW n, setCall' = <<"erase", k, n>>, n = IF k \in ToSet(setStorage) THEN 1 ELSE 0,
           ToSet(setStorage') = ToSet(setStorage) \ {k}
    PROVE  AsSet!MapNext
<1>1. setCall'[1] = "erase" /\ setCall'[2] = k /\ setCall'[3] = n
    OBVIOUS
<1>. DEFINE D == ToSet(setStorage)
            E == ToSet(setStorage')
<1>2. DOMAIN SetAsMap(D) = D
    BY DEF SetAsMap
<1>3. n = IF k \in DOMAIN SetAsMap(D) THEN 1 ELSE 0
    BY <1>2, Zenon
<1>4. SetAsMap(E) = WithoutKeys(SetAsMap(D), {k})
  <2>. HIDE DEF D, E
  <2>1. SetAsMap(D \ {k}) = WithoutKeys(SetAsMap(D), {k})
    BY DEF SetAsMap, WithoutKeys
  <2>2. E = D \ {k}
    BY Zenon DEF D, E
  <2>. QED
    BY <2>1, <2>2, Zenon
<1>5. AsSet!MapErase(k, n)
    BY <1>3, <1>4, Zenon DEF AsSet!MapErase, AsSet!Without, WithoutKeys, SetAsMap
<1>. QED
    BY <1>1, <1>5, Zenon DEF AsSet!MapNext

\* A call that removes several keys is an erase of keys of MapSpec.
LEMMA SetNextByEraseKeys ==
    ASSUME NEW ks, setCall' = <<"erase_keys", ks>>, ToSet(setStorage') = ToSet(setStorage) \ ks
    PROVE  AsSet!MapNext
<1>1. setCall'[1] = "erase_keys" /\ setCall'[2] = ks
    OBVIOUS
<1>. DEFINE D == ToSet(setStorage)
            E == ToSet(setStorage')
<1>4. SetAsMap(E) = WithoutKeys(SetAsMap(D), ks)
  <2>. HIDE DEF D, E
  <2>1. SetAsMap(D \ ks) = WithoutKeys(SetAsMap(D), ks)
    BY DEF SetAsMap, WithoutKeys
  <2>2. E = D \ ks
    BY Zenon DEF D, E
  <2>. QED
    BY <2>1, <2>2, Zenon
<1>5. [k \in ToSet(setStorage) |-> DefaultVal]' = AsSet!Without(ks)
    BY <1>4, Zenon DEF AsSet!Without, WithoutKeys, SetAsMap
<1>. QED
    BY <1>1, <1>5, Zenon DEF AsSet!MapNext

\* The entries of a sorted sequence of keys.
LEMMA SetMembers ==
    ASSUME NEW s, SetSound(s)
    PROVE  Entries(s) = ToSet(s)
<1>1. DOMAIN s = 1..Len(s)
    BY DEF SetSound
<1>. QED
    BY <1>1, Zenon DEF Entries, ToSet

\* insert of flat_set.
LEMMA SetInsertImplemented ==
    ASSUME SetSound(setStorage), NEW k \in MapKeys, SetInsert(k)
    PROVE  SetSound(setStorage') /\ AsSet!MapNext
<1>. DEFINE ip == SetInsertPos(k)
<1>1. /\ setStorage' = DoInsert(setStorage, ip, k)
      /\ setCall' = <<"insert", k, DefaultVal, ip[2]>>
    BY Zenon DEF SetInsert, OnSet
<1>2. Placed(setStorage, Len(setStorage), k, ip[1], ip[2])
    BY SetPlace, Zenon
<1>. HIDE DEF ip
<1>3. ip[2] \in BOOLEAN
    BY <1>2, Zenon DEF Placed
<1>4. CASE ip[2] = TRUE
  <2>1. setStorage' = InsertAt(setStorage, ip[1], k)
    BY <1>1, <1>4, Zenon DEF DoInsert
  <2>2. Placed(setStorage, Len(setStorage), k, ip[1], TRUE)
    BY <1>2, <1>4, Zenon
  <2>3. SetHolds(setStorage', Entries(setStorage) \cup {k}) /\ k \notin Entries(setStorage)
    BY <2>1, <2>2, SetPutIn, Zenon
  <2>4. /\ SetSound(setStorage') /\ ToSet(setStorage') = ToSet(setStorage) \cup {k}
        /\ k \notin ToSet(setStorage)
    BY <2>3, SetMembers, Zenon DEF SetHolds
  <2>5. ip[2] = (k \notin ToSet(setStorage))
    BY <1>4, <2>4, Zenon
  <2>6. AsSet!MapNext
    BY <1>1, <1>4, <2>4, <2>5, SetNextByInsert, Zenon
  <2>. QED
    BY <2>4, <2>6, Zenon
<1>5. CASE ip[2] = FALSE
  <2>1. setStorage' = setStorage
    BY <1>1, <1>5, Zenon DEF DoInsert
  <2>2. ip[1] \in 1..Len(setStorage) + 1 /\ ip[1] <= Len(setStorage) /\ setStorage[ip[1]] = k
    BY <1>2, <1>5, Zenon DEF Placed
  <2>3. ip[1] \in 1..Len(setStorage)
    BY <2>2 DEF SetSound
  <2>4. k \in ToSet(setStorage)
    BY <2>2, <2>3, SetMembers, Zenon DEF Entries
  <2>5. ip[2] = (k \notin ToSet(setStorage))
    BY <1>5, <2>4, Zenon
  <2>6. AsSet!MapNext
    BY <1>1, <1>5, <2>1, <2>5, SetNextByInsert, Zenon
  <2>. QED
    BY <2>1, <2>6, Zenon
<1>. QED
    BY <1>3, <1>4, <1>5, Zenon

\* insert with a hint of flat_set.
LEMMA SetInsertHintImplemented ==
    ASSUME SetSound(setStorage), ~AnyHint, NEW k \in MapKeys, NEW hint \in SetHints(k), SetInsertHint(hint, k)
    PROVE  SetSound(setStorage') /\ AsSet!MapNext
<1>1. SetHintedPos(hint, k) = SetInsertPos(k)
    BY SetHintFacts, Zenon
<1>2. SetInsert(k)
    BY <1>1, Zenon DEF SetInsertHint, SetInsert
<1>. QED
    BY <1>2, SetInsertImplemented, Zenon

\* erase of a key of flat_set.
LEMMA SetEraseImplemented ==
    ASSUME SetSound(setStorage), NEW k \in MapKeys, SetErase(k)
    PROVE  SetSound(setStorage') /\ AsSet!MapNext
<1>. DEFINE p == SetLowerBound(1, EndOf(setStorage), k)
            found == p # EndOf(setStorage) /\ ~(k < setStorage[p])
            n == IF found THEN 1 ELSE 0
<1>1. /\ setStorage' = IF found THEN RemoveAt(setStorage, p) ELSE setStorage
      /\ setCall' = <<"erase", k, n>>
    BY Zenon DEF SetErase, OnSet
<1>2. PICK l \in Nat : l = Len(setStorage) /\ EndOf(setStorage) = l + 1
                       /\ EndOf(setStorage) \in 1..EndOf(setStorage)
    BY DEF SetSound, EndOf
<1>3. Bounds(setStorage, 1, EndOf(setStorage), k, p)
    BY <1>2, SetBound, Zenon
<1>. HIDE DEF p
<1>4. Rises(setStorage, 1, l + 1)
    BY <1>2, SetRises, Zenon
<1>5. /\ p \in 1..l + 1
      /\ \A i \in 1..l : setStorage[i] \in Int /\ (setStorage[i] < k <=> i < p)
      /\ \A i, j \in 1..l : i < j => setStorage[i] < setStorage[j]
  <2>1. p \in 1..l + 1 /\ \A i \in 1..(l + 1) - 1 : setStorage[i] < k <=> i < p
    BY <1>2, <1>3, Zenon DEF Bounds
  <2>2. \A i \in 1..l : i \in 1..(l + 1) - 1
    OBVIOUS
  <2>. QED
    BY <1>4, <2>1, <2>2, Zenon DEF Rises
<1>6. k \in Int
    BY FlatAssumption
<1>7. CASE found
  <2>1. p \in 1..l /\ ~(k < setStorage[p])
    BY <1>2, <1>5, <1>7
  <2>2. setStorage[p] = k
    BY <1>5, <1>6, <2>1
  <2>3. setStorage' = SubSeq(setStorage, 1, p - 1) \o SubSeq(setStorage, p + 1, Len(setStorage))
    BY <1>1, <1>7, Zenon DEF RemoveAt
  <2>4. p \in 1..Len(setStorage) + 1 /\ p + 1 \in p..Len(setStorage) + 1 /\ p..(p + 1) - 1 = {p}
    BY <1>2, <2>1
  <2>5. SetLoses(setStorage', setStorage, p, p + 1)
    BY <2>3, <2>4, SetCut, Zenon
  <2>6. {setStorage[i] : i \in p..(p + 1) - 1} = {k}
    BY <2>2, <2>4
  <2>7. SetSound(setStorage') /\ Entries(setStorage') = Entries(setStorage) \ {k}
    BY <2>5, <2>6, Zenon DEF SetLoses, SetHolds
  <2>8. ToSet(setStorage') = ToSet(setStorage) \ {k}
    BY <2>7, SetMembers, Zenon
  <2>9. k \in ToSet(setStorage)
    BY <1>2, <2>1, <2>2, SetMembers, Zenon DEF Entries
  <2>10. n = IF k \in ToSet(setStorage) THEN 1 ELSE 0
    BY <1>7, <2>9, Zenon
  <2>11. AsSet!MapNext
    BY <1>1, <2>8, <2>10, SetNextByErase, Zenon
  <2>. QED
    BY <2>7, <2>11, Zenon
<1>8. CASE ~found
  <2>1. setStorage' = setStorage
    BY <1>1, <1>8, Zenon
  <2>2. ASSUME NEW i \in 1..l, setStorage[i] = k PROVE FALSE
    <3>1. ~(i < p)
      BY <1>5, <1>6, <2>2
    <3>2. p \in 1..l /\ p # EndOf(setStorage) /\ k < setStorage[p]
      BY <1>2, <1>5, <1>8, <3>1
    <3>3. p = i \/ setStorage[p] < setStorage[i]
      <4>1. p = i \/ p < i
        BY <1>5, <3>1
      <4>. QED
        BY <1>5, <3>2, <4>1, Zenon
    <3>4. setStorage[p] \in Int
      BY <1>5, <3>2, Zenon
    <3>. QED
      BY <1>6, <2>2, <3>2, <3>3, <3>4
  <2>3. k \notin Entries(setStorage)
    BY <1>2, <2>2, Zenon DEF Entries
  <2>4. k \notin ToSet(setStorage)
    BY <2>3, SetMembers, Zenon
  <2>5. ToSet(setStorage') = ToSet(setStorage) \ {k}
    BY <2>1, <2>4, Zenon
  <2>10. n = IF k \in ToSet(setStorage) THEN 1 ELSE 0
    BY <1>8, <2>4, Zenon
  <2>11. AsSet!MapNext
    BY <1>1, <2>5, <2>10, SetNextByErase, Zenon
  <2>. QED
    BY <2>1, <2>11, Zenon
<1>. QED
    BY <1>7, <1>8, Zenon

\* erase of a range of flat_set, and clear.
LEMMA SetEraseRangeImplemented ==
    ASSUME SetSound(setStorage), NEW f \in 1..EndOf(setStorage), NEW t \in 1..EndOf(setStorage), f <= t,
           SetEraseRange(f, t)
    PROVE  SetSound(setStorage') /\ AsSet!MapNext
<1>. DEFINE ks == {setStorage[i] : i \in f..t - 1}
<1>1. /\ setStorage' = SubSeq(setStorage, 1, f - 1) \o SubSeq(setStorage, t, Len(setStorage))
      /\ setCall' = <<"erase_keys", ks>>
    BY Zenon DEF SetEraseRange, OnSet
<1>2. f \in 1..Len(setStorage) + 1 /\ t \in f..Len(setStorage) + 1
    BY DEF SetSound, EndOf
<1>3. SetLoses(setStorage', setStorage, f, t)
    BY <1>1, <1>2, SetCut, Zenon
<1>4. SetSound(setStorage') /\ Entries(setStorage') = Entries(setStorage) \ ks
    BY <1>3, Zenon DEF SetLoses, SetHolds
<1>. HIDE DEF ks
<1>5. ToSet(setStorage') = ToSet(setStorage) \ ks
    BY <1>4, SetMembers, Zenon
<1>6. AsSet!MapNext
    BY <1>1, <1>5, SetNextByEraseKeys, Zenon
<1>. QED
    BY <1>4, <1>6, Zenon

EqualKeys == {xy \in MapKeys \X MapKeys : xy[1] = xy[2]}

\* assign of flat_set sorts the list.
LEMMA SetAssignImplemented ==
    ASSUME NEW ks \in Lists(MapKeys), SetAssign(ks), ~setRepeats'
    PROVE  SetSound(setStorage') /\ AsSet!MapNext
<1>1. /\ setStorage' \in {s \in Arrangements(ks) : \A i, j \in DOMAIN s : i < j => s[i] <= s[j]}
      /\ setCall' = <<"assign", SetAsMap(ToSet(ks))>>
      /\ ~(\E i, j \in DOMAIN ks : i # j /\ ks[i] = ks[j])
    BY Zenon DEF SetAssign, SetAsMap
<1>2. PICK c \in Arrangements(ks) : c = setStorage' /\ \A i, j \in DOMAIN c : i < j => c[i] <= c[j]
    BY <1>1, Zenon
<1>4. ks \in Seq(MapKeys) /\ ToSet(ks) \subseteq MapKeys /\ \A i \in DOMAIN ks : ks[i] \in MapKeys
    BY ListsAreSequences, Zenon
<1>5. \A i, j \in DOMAIN ks : i # j => <<ks[i], ks[j]>> \notin EqualKeys
    BY <1>1, <1>4 DEF EqualKeys
<1>6. \A i \in DOMAIN c : c[i] \in MapKeys
  <2>1. PICK p \in Bijection(DOMAIN ks, DOMAIN ks) : c = [i \in DOMAIN ks |-> ks[p[i]]]
    BY Zenon DEF Arrangements
  <2>2. p \in [DOMAIN ks -> DOMAIN ks]
    BY DEF Bijection, Injection
  <2>. QED
    BY <1>4, <2>1, <2>2
<1>7. ASSUME NEW i \in DOMAIN c, NEW j \in DOMAIN c, i < j
      PROVE  <<c[i], c[j]>> \in SetOrder \cup EqualKeys
  <2>1. PICK a \in MapKeys, b \in MapKeys : a = c[i] /\ b = c[j] /\ a <= b
    BY <1>2, <1>6, <1>7, Zenon
  <2>2. a \in Int /\ b \in Int
    BY FlatAssumption
  <2>3. a < b \/ a = b
    BY <2>1, <2>2
  <2>. QED
    BY <2>1, <2>3 DEF SetOrder, EqualKeys
<1>9. Sorts(setStorage', ks, SetOrder)
    BY <1>2, <1>4, <1>5, <1>7, ArrangedSorts, Zenon
<1>10. Arranged(setStorage', MapKeys, SetOrder, ToSet(ks))
    BY <1>4, <1>9, SortedIsArranged, Zenon
<1>11. SetSound(setStorage')
    BY <1>10, Zenon DEF Arranged, SetSound
<1>12. ToSet(setStorage') = ToSet(ks)
    BY <1>9, Zenon DEF Sorts
<1>13. setCall'[1] = "assign" /\ setCall'[2] = SetAsMap(ToSet(setStorage'))
    BY <1>1, <1>12
<1>14. AsSet!MapNext
    BY <1>13, Zenon DEF AsSet!MapNext, SetAsMap
<1>. QED
    BY <1>11, <1>14, Zenon

-----------------------------------------------------------------------------
(* The map and the set together.                                           *)

\* Keys are stored once, in their order, unless a list had one more than once.
FlatInv ==
    /\ mapRepeats \in BOOLEAN /\ (~mapRepeats => MapSound(storage))
    /\ setRepeats \in BOOLEAN /\ (~setRepeats => SetSound(setStorage))

\* Nothing is stored at first.
LEMMA FlatInitially ==
    ASSUME FlatInit
    PROVE  FlatInv /\ AsMap!MapInit /\ AsSet!MapInit
<1>1. /\ storage = <<>> /\ mapCall = <<"construct">> /\ mapRepeats \in BOOLEAN
      /\ setStorage = <<>> /\ setCall = <<"construct">> /\ setRepeats \in BOOLEAN
    BY DEF FlatInit
<1>2. Len(<<>>) = 0 /\ 1..0 = {} /\ <<>> \in Seq(MapPairs) /\ <<>> \in Seq(MapKeys)
    OBVIOUS
<1>3. FlatInv
    BY <1>1, <1>2, Zenon DEF FlatInv, MapSound, SetSound, Ordered
<1>4. DOMAIN <<>> = {}
    OBVIOUS
<1>5. MapOf(<<>>) = [k \in {} |-> 0]
  <2>1. {<<>>[i][1] : i \in DOMAIN <<>>} = {}
    BY <1>4
  <2>2. \A E : E = {} => [k \in E |-> (CHOOSE x \in ToSet(<<>>) : x[1] = k)[2]] = [k \in {} |-> 0]
    OBVIOUS
  <2>. QED
    BY <2>1, <2>2, Zenon DEF MapOf
<1>6. [k \in ToSet(<<>>) |-> DefaultVal] = [k \in {} |-> 0]
  <2>1. ToSet(<<>>) = {}
    BY <1>4 DEF ToSet
  <2>2. \A E : E = {} => [k \in E |-> DefaultVal] = [k \in {} |-> 0]
    OBVIOUS
  <2>. QED
    BY <2>1, <2>2, Zenon
<1>. QED
    BY <1>1, <1>3, <1>5, <1>6, Zenon DEF AsMap!MapInit, AsSet!MapInit

\* What a step of the map changes.
LEMMA MapStepImplemented ==
    ASSUME FlatInv, ~AnyHint, MapNext
    PROVE  FlatInv' /\ (mapRepeats' \/ AsMap!MapNext) /\ UNCHANGED <<setStorage, setCall, setRepeats>>
<1>1. CASE \E ps \in Lists(MapKeys \X MapVals) : MapAssign(ps)
  <2>1. mapRepeats' \in BOOLEAN /\ UNCHANGED <<setStorage, setCall, setRepeats>>
    BY <1>1 DEF MapAssign
  <2>2. mapRepeats' \/ (MapSound(storage') /\ AsMap!MapNext)
    BY <1>1, AssignImplemented, Zenon
  <2>. QED
    BY <2>1, <2>2, Zenon DEF FlatInv
<1>2. CASE ~\E ps \in Lists(MapKeys \X MapVals) : MapAssign(ps)
  <2>0. UNCHANGED <<mapRepeats, setStorage, setCall, setRepeats>>
    BY <1>2, Zenon DEF MapNext, MapInsert, MapInsertHint, MapIndex, MapErase, MapEraseRange, MapEraseIf, OnMap
  <2>. SUFFICES ASSUME MapSound(storage) PROVE MapSound(storage') /\ AsMap!MapNext
    BY <2>0, Zenon DEF FlatInv
  <2>1. CASE \E k \in MapKeys, v \in MapVals : MapInsert(k, v)
    BY <2>1, InsertImplemented, Zenon
  <2>2. CASE \E k \in MapKeys, v \in MapVals : \E hint \in Hints(storage, k) : MapInsertHint(hint, k, v)
    BY <2>2, InsertHintImplemented, Zenon
  <2>3. CASE \E k \in MapKeys, v \in MapVals : MapIndex(k, v)
    BY <2>3, IndexImplemented, Zenon
  <2>4. CASE \E k \in MapKeys : MapErase(k)
    BY <2>4, EraseImplemented, Zenon
  <2>5. CASE \E f, t \in 1..EndOf(storage) : f <= t /\ MapEraseRange(f, t)
    BY <2>5, EraseRangeImplemented, Zenon
  <2>6. CASE \E v \in MapVals : MapEraseIf(v)
    BY <2>6, EraseIfImplemented, Zenon
  <2>. QED
    BY <1>2, <2>1, <2>2, <2>3, <2>4, <2>5, <2>6, Zenon DEF MapNext
<1>. QED
    BY <1>1, <1>2, Zenon

\* What a step of the set changes.
LEMMA SetStepImplemented ==
    ASSUME FlatInv, ~AnyHint, SetNext
    PROVE  FlatInv' /\ (setRepeats' \/ AsSet!MapNext) /\ UNCHANGED <<storage, mapCall, mapRepeats>>
<1>1. CASE \E ks \in Lists(MapKeys) : SetAssign(ks)
  <2>1. setRepeats' \in BOOLEAN /\ UNCHANGED <<storage, mapCall, mapRepeats>>
    BY <1>1 DEF SetAssign
  <2>2. setRepeats' \/ (SetSound(setStorage') /\ AsSet!MapNext)
    BY <1>1, SetAssignImplemented, Zenon
  <2>. QED
    BY <2>1, <2>2, Zenon DEF FlatInv
<1>2. CASE ~\E ks \in Lists(MapKeys) : SetAssign(ks)
  <2>0. UNCHANGED <<setRepeats, storage, mapCall, mapRepeats>>
    BY <1>2, Zenon DEF SetNext, SetInsert, SetInsertHint, SetErase, SetEraseRange, OnSet
  <2>. SUFFICES ASSUME SetSound(setStorage) PROVE SetSound(setStorage') /\ AsSet!MapNext
    BY <2>0, Zenon DEF FlatInv
  <2>1. CASE \E k \in MapKeys : SetInsert(k)
    BY <2>1, SetInsertImplemented, Zenon
  <2>2. CASE \E k \in MapKeys : \E hint \in SetHints(k) : SetInsertHint(hint, k)
    BY <2>2, SetInsertHintImplemented, Zenon
  <2>3. CASE \E k \in MapKeys : SetErase(k)
    BY <2>3, SetEraseImplemented, Zenon
  <2>4. CASE \E f, t \in 1..EndOf(setStorage) : f <= t /\ SetEraseRange(f, t)
    BY <2>4, SetEraseRangeImplemented, Zenon
  <2>. QED
    BY <1>2, <2>1, <2>2, <2>3, <2>4, Zenon DEF SetNext
<1>. QED
    BY <1>1, <1>2, Zenon

\* Every step of either is one of the map that it stands for, or none, unless a
\* key is there more than once.
LEMMA FlatStepImplemented ==
    ASSUME FlatInv, ~AnyHint, FlatNext \/ UNCHANGED flatVars
    PROVE  /\ FlatInv'
           /\ (mapRepeats' \/ AsMap!MapNext) \/ UNCHANGED <<storage, mapCall>>
           /\ (setRepeats' \/ AsSet!MapNext) \/ UNCHANGED <<setStorage, setCall>>
<1>1. CASE MapNext
    BY <1>1, MapStepImplemented, Zenon
<1>2. CASE SetNext
    BY <1>2, SetStepImplemented, Zenon
<1>3. CASE UNCHANGED flatVars
    BY <1>3, Zenon DEF flatVars, FlatInv
<1>. QED
    BY <1>1, <1>2, <1>3, Zenon DEF FlatNext

\* flat_set::contains finds what is stored.
LEMMA SetFound ==
    ASSUME SetSound(setStorage), NEW k \in MapKeys
    PROVE  SetContains(k) = (k \in ToSet(setStorage))
<1>1. PICK l \in Nat : l = Len(setStorage) /\ DOMAIN setStorage = 1..l
    BY DEF SetSound
<1>2. PICK b, new : b = SetInsertPos(k)[1] /\ new = SetInsertPos(k)[2]
    OBVIOUS
<1>3. Placed(setStorage, l, k, b, new)
    BY <1>1, <1>2, SetPlace, Zenon
<1>4. SetContains(k) \in BOOLEAN /\ (SetContains(k) <=> ~new)
    BY <1>2 DEF SetContains
<1>5. k \in ToSet(setStorage) <=> \E i \in 1..l : setStorage[i] = k
    BY <1>1, Zenon DEF ToSet
<1>6. k \in Int
    BY FlatAssumption
<1>7. CASE new
  <2>1. /\ b \in 1..l + 1 /\ \A i \in 1..b - 1 : setStorage[i] < k
        /\ \A i \in b..l : k < setStorage[i]
    BY <1>3, <1>7, Zenon DEF Placed
  <2>2. ASSUME NEW i \in 1..l PROVE setStorage[i] # k
    <3>1. i \in 1..b - 1 \/ i \in b..l
      BY <2>1
    <3>2. setStorage[i] < k \/ k < setStorage[i]
      BY <2>1, <3>1, Zenon
    <3>. QED
      BY <1>6, <3>2
  <2>. QED
    BY <1>4, <1>5, <1>7, <2>2
<1>8. CASE ~new
  <2>1. b \in 1..l + 1 /\ b <= l /\ setStorage[b] = k
    BY <1>3, <1>8, Zenon DEF Placed
  <2>2. b \in 1..l
    BY <2>1
  <2>. QED
    BY <1>4, <1>5, <1>8, <2>1, <2>2
<1>. QED
    BY <1>7, <1>8, Zenon

\* UpperBound finds where the keys that are not above k end.
LEMMA UpperFound ==
    ASSUME MapSound(storage), NEW k \in MapKeys, NEW l \in Nat, l = Len(storage), EndOf(storage) = l + 1,
           NEW c \in 1..l + 1, \A i \in 1..l : ~(k < storage[i][1]) <=> i < c
    PROVE  UpperBound(storage, 1, EndOf(storage), k) = c
<1>. DEFINE left == {i \in 1..(l + 1) - 1 : ~(k < storage[i][1])}
<1>1. UpperBound(storage, 1, EndOf(storage), k) = Bisect(1, l + 1, left)
    BY DEF UpperBound
<1>2. (l + 1) - 1 = l /\ l + 1 \in Nat /\ 1 <= l + 1
    OBVIOUS
<1>3. \A i \in 1..(l + 1) - 1 : i \in left <=> i < c
    BY <1>2, Zenon
<1>. HIDE DEF left
<1>4. LeftFirst(1, l + 1, left)
  <2>1. \A i, j \in 1..(l + 1) - 1 : i < j /\ j < c => i < c
    OBVIOUS
  <2>. QED
    BY <1>3, <2>1, Zenon DEF LeftFirst
<1>5. PICK u : u = Bisect(1, l + 1, left) /\ u \in 1..l + 1 /\ \A i \in 1..(l + 1) - 1 : i \in left <=> i < u
  <2>1. 1 \in Nat
    OBVIOUS
  <2>2. /\ Bisect(1, l + 1, left) \in 1..l + 1
        /\ \A i \in 1..(l + 1) - 1 : i \in left <=> i < Bisect(1, l + 1, left)
    BY <1>2, <1>4, <2>1, BisectFacts, Zenon
  <2>. QED
    BY <2>2, Zenon
<1>6. \A i \in 1..l : i < u <=> i < c
    BY <1>2, <1>3, <1>5, Zenon
<1>7. u = c
  <2>1. u < c => u \in 1..l
    BY <1>5
  <2>2. c < u => c \in 1..l
    BY <1>5
  <2>3. ~(u < u) /\ ~(c < c)
    BY <1>5
  <2>4. ~(u < c) /\ ~(c < u)
    BY <1>6, <2>1, <2>2, <2>3, Zenon
  <2>. QED
    BY <1>5, <2>4
<1>. QED
    BY <1>1, <1>5, <1>7, Zenon

\* Bisection finds the keys of the map, between their bounds.
LEMMA MapFinds ==
    ASSUME MapSound(storage), NEW k \in MapKeys
    PROVE  /\ (Find(storage, k) # EndOf(storage)) = (k \in DOMAIN MapOf(storage))
           /\ Find(storage, k) # EndOf(storage) => storage[Find(storage, k)] = <<k, MapOf(storage)[k]>>
           /\ UpperBound(storage, 1, EndOf(storage), k) - LowerBound(storage, 1, EndOf(storage), k)
              = IF k \in DOMAIN MapOf(storage) THEN 1 ELSE 0
<1>1. MapSound(storage)
    OBVIOUS
<1>2. PICK l \in Nat : l = Len(storage) /\ EndOf(storage) = l + 1
    BY <1>1 DEF MapSound, EndOf
<1>3. \A i \in 1..l : KeysOf(storage)[i] = storage[i][1] /\ storage[i] \in MapPairs
    BY <1>1, <1>2, KeysRise, Zenon
<1>4. k \in Int /\ \A i \in 1..l : storage[i][1] \in Int /\ storage[i] = <<storage[i][1], storage[i][2]>>
  <2>1. ASSUME NEW x \in MapPairs PROVE x[1] \in Int /\ x = <<x[1], x[2]>>
    <3>1. PICK j \in MapKeys, v \in MapVals : x = <<j, v>>
      BY DEF MapPairs
    <3>2. j \in Int /\ x[1] = j /\ x[2] = v
      BY <3>1, FlatAssumption
    <3>. QED
      BY <3>1, <3>2, Zenon
  <2>2. k \in Int
    BY FlatAssumption
  <2>. QED
    BY <1>3, <2>1, <2>2, Zenon
<1>5. PICK b : b = LowerBound(storage, 1, EndOf(storage), k)
    OBVIOUS
<1>6. InsertPos(storage, k)[1] = b /\ InsertPos(storage, k)[2] = (b = l + 1 \/ storage[b][1] # k)
    BY <1>2, <1>5 DEF InsertPos
<1>7. Placed(KeysOf(storage), l, k, b, b = l + 1 \/ storage[b][1] # k)
    BY <1>1, <1>2, <1>6, MapPlace, Zenon
<1>11. \A i, j \in 1..l : i < j => storage[i][1] < storage[j][1]
  <2>1. (l + 1) - 1 = l /\ Rises(KeysOf(storage), 1, l + 1)
    BY <1>1, <1>2, KeysRise
  <2>. QED
    BY <1>3, <2>1, Zenon DEF Rises
<1>8. Find(storage, k) = IF b # l + 1 /\ k < storage[b][1] THEN l + 1 ELSE b
    BY <1>2, <1>5, Zenon DEF Find
<1>9. CASE b = l + 1 \/ storage[b][1] # k
  <2>1. /\ b \in 1..l + 1 /\ \A i \in 1..b - 1 : KeysOf(storage)[i] < k
        /\ \A i \in b..l : k < KeysOf(storage)[i]
    BY <1>7, <1>9, Zenon DEF Placed
  <2>2. ASSUME NEW i \in 1..l PROVE storage[i][1] # k /\ (b <= i => k < storage[i][1])
    <3>1. i \in 1..b - 1 \/ i \in b..l
      BY <2>1
    <3>2. storage[i][1] < k \/ k < storage[i][1]
      BY <1>3, <2>1, <3>1, Zenon
    <3>3. b <= i => k < storage[i][1]
      <4>1. b <= i => i \in b..l
        BY <2>1
      <4>. QED
        BY <1>3, <2>1, <4>1, Zenon
    <3>. QED
      BY <1>4, <3>2, <3>3
  <2>3. Find(storage, k) = l + 1
    <3>1. b \in 1..l => b <= b /\ k < storage[b][1]
      BY <2>2
    <3>. QED
      BY <1>8, <2>1, <3>1
  <2>4. k \notin DOMAIN MapOf(storage)
    BY <1>1, <1>2, <2>2, KeysOfMap, Zenon
  <2>6. /\ ~(Find(storage, k) # EndOf(storage))
        /\ (Find(storage, k) # EndOf(storage)) = (k \in DOMAIN MapOf(storage))
    BY <1>2, <2>3, <2>4
  <2>7. ASSUME NEW i \in 1..l PROVE ~(k < storage[i][1]) <=> i < b
    <3>1. (i < b => i \in 1..b - 1) /\ (i < b \/ b <= i)
      BY <2>1
    <3>2. i < b => storage[i][1] < k
      BY <1>3, <2>1, <3>1, Zenon
    <3>. QED
      BY <1>4, <2>1, <2>2, <3>1, <3>2
  <2>8. UpperBound(storage, 1, EndOf(storage), k) = b
    BY <1>2, <2>1, <2>7, UpperFound, Zenon
  <2>9. UpperBound(storage, 1, EndOf(storage), k) - LowerBound(storage, 1, EndOf(storage), k) = 0
    BY <1>5, <2>1, <2>8
  <2>. QED
    BY <2>4, <2>6, <2>9, Zenon
<1>10. CASE ~(b = l + 1 \/ storage[b][1] # k)
  <2>1. b \in 1..l + 1 /\ b # l + 1 /\ storage[b][1] = k
    BY <1>7, <1>10, Zenon DEF Placed
  <2>2. b \in 1..l
    BY <2>1
  <2>3. Find(storage, k) = b
    BY <1>4, <1>8, <2>1, <2>2
  <2>4. k \in DOMAIN MapOf(storage) /\ MapOf(storage)[k] = storage[b][2]
    BY <1>1, <1>2, <2>1, <2>2, KeysOfMap, Zenon
  <2>5. storage[b] = <<k, MapOf(storage)[k]>>
    BY <1>4, <2>1, <2>2, <2>4, Zenon
  <2>7. (Find(storage, k) # EndOf(storage)) = (k \in DOMAIN MapOf(storage))
    BY <1>2, <2>1, <2>3, <2>4
  <2>8. ASSUME NEW i \in 1..l PROVE ~(k < storage[i][1]) <=> i < b + 1
    <3>1. i < b \/ i = b \/ b < i
      BY <2>2
    <3>2. i < b => storage[i][1] < storage[b][1]
      BY <1>2, <1>3, <2>2, <1>11, Zenon
    <3>3. b < i => storage[b][1] < storage[i][1]
      BY <1>2, <1>3, <2>2, <1>11, Zenon
    <3>. QED
      BY <1>4, <2>1, <2>2, <3>1, <3>2, <3>3
  <2>9. b + 1 \in 1..l + 1
    BY <2>2
  <2>10. UpperBound(storage, 1, EndOf(storage), k) = b + 1
    BY <1>2, <2>8, <2>9, UpperFound, Zenon
  <2>11. UpperBound(storage, 1, EndOf(storage), k) - LowerBound(storage, 1, EndOf(storage), k) = 1
    BY <1>5, <2>2, <2>10
  <2>. QED
    BY <2>3, <2>4, <2>5, <2>7, <2>11, Zenon
<1>. QED
    BY <1>9, <1>10, Zenon

\* Bisection finds what is stored.
LEMMA FlatInvSuffices ==
    ASSUME FlatInv PROVE LookupsAgree
BY MapFinds, SetFound, Zenon DEF FlatInv, LookupsAgree

-----------------------------------------------------------------------------
(* small_vector.                                                           *)

\* The array is full length, whatever the vector holds.
VectorInv ==
    /\ alternative \in {"static", "heap"}
    /\ array \in [1..SmallSize -> SmallElems] /\ size \in 0..SmallSize
    /\ heap \in Seq(SmallElems)

\* An array and a size that hold the elements of a sequence.
Stores(op, s) ==
    /\ op[1] \in [1..SmallSize -> SmallElems]
    /\ s \in Seq(SmallElems) /\ op[2] = Len(s) /\ Len(s) <= SmallSize
    /\ \A i \in 1..Len(s) : op[1][i] = s[i]

\* What an array holds before its size.
LEMMA FilledFacts ==
    ASSUME NEW a \in [1..SmallSize -> SmallElems], NEW n \in 0..SmallSize
    PROVE  /\ SubSeq(a, 1, n) \in Seq(SmallElems) /\ Len(SubSeq(a, 1, n)) = n
           /\ \A i \in 1..n : SubSeq(a, 1, n)[i] = a[i]
<1>. USE SmallAssumption
<1>1. a \in Seq(SmallElems) /\ Len(a) = SmallSize
    OBVIOUS
<1>2. n \in 0..Len(a)
    BY <1>1
<1>. QED
    BY <1>1, <1>2, BeginFacts, Zenon

\* The elements that an array and a size store.
LEMMA StoredFacts ==
    ASSUME NEW a, NEW n, NEW s, Stores(<<a, n>>, s)
    PROVE  /\ SubSeq(a, 1, n) = s
           /\ a \in [1..SmallSize -> SmallElems] /\ n \in 0..SmallSize
<1>0. <<a, n>>[1] = a /\ <<a, n>>[2] = n
    OBVIOUS
<1>1. /\ a \in [1..SmallSize -> SmallElems] /\ s \in Seq(SmallElems) /\ n = Len(s)
      /\ Len(s) <= SmallSize /\ \A i \in 1..Len(s) : a[i] = s[i]
    BY <1>0, Zenon DEF Stores
<1>2. n \in 0..SmallSize
    BY <1>1, SmallAssumption
<1>3. /\ SubSeq(a, 1, n) \in Seq(SmallElems) /\ Len(SubSeq(a, 1, n)) = n
      /\ \A i \in 1..n : SubSeq(a, 1, n)[i] = a[i]
    BY <1>1, <1>2, FilledFacts, Zenon
<1>4. SubSeq(a, 1, n) = s
    BY <1>1, <1>3, SeqEqual, Zenon
<1>. QED
    BY <1>1, <1>2, <1>4

\* The elements in either form.
LEMMA ContentFacts ==
    ASSUME VectorInv
    PROVE  /\ Content \in Seq(SmallElems) /\ Len(Content) \in Nat
           /\ alternative = "static" => Len(Content) = size /\ \A i \in 1..size : Content[i] = array[i]
<1>1. CASE alternative = "static"
  <2>1. Content = SubSeq(array, 1, size)
    BY <1>1 DEF Content, StaticContent
  <2>2. /\ SubSeq(array, 1, size) \in Seq(SmallElems) /\ Len(SubSeq(array, 1, size)) = size
        /\ \A i \in 1..size : SubSeq(array, 1, size)[i] = array[i]
    BY FilledFacts, Zenon DEF VectorInv
  <2>3. size \in Nat
    BY SmallAssumption DEF VectorInv
  <2>. QED
    BY <2>1, <2>2, <2>3, Zenon
<1>2. CASE alternative = "heap"
    BY <1>2 DEF Content, VectorInv
<1>. QED
    BY <1>1, <1>2 DEF VectorInv

\* A call whose elements the array stores, if they fit, is a call that leaves
\* these elements.
LEMMA ServedFacts ==
    ASSUME VectorInv, NEW fits, NEW a, NEW n, NEW elems \in Seq(SmallElems), NEW call,
           Serve(fits, <<a, n>>, elems, call),
           alternative = "static" /\ fits => Stores(<<a, n>>, elems)
    PROVE  VectorInv' /\ Content' = elems /\ smallCall' = call
<1>0. <<a, n>>[1] = a /\ <<a, n>>[2] = n
    OBVIOUS
<1>1. CASE alternative = "static" /\ fits
  <2>1. array' = a /\ size' = n /\ UNCHANGED <<alternative, heap>> /\ smallCall' = call
    BY <1>0, <1>1, Zenon DEF Serve
  <2>2. SubSeq(a, 1, n) = elems /\ a \in [1..SmallSize -> SmallElems] /\ n \in 0..SmallSize
    BY <1>1, StoredFacts, Zenon
  <2>3. alternative' = "static" /\ heap' = heap
    BY <1>1, <2>1
  <2>4. Content' = elems
    BY <2>1, <2>2, <2>3, Zenon DEF Content, StaticContent
  <2>. QED
    BY <2>1, <2>2, <2>3, <2>4, Zenon DEF VectorInv
<1>2. CASE alternative = "static" /\ ~fits
  <2>1. /\ alternative' = "heap" /\ heap' = elems /\ smallCall' = call
        /\ array' = [i \in 1..SmallSize |-> Blank] /\ size' = 0
    BY <1>2, Zenon DEF Serve
  <2>2. array' \in [1..SmallSize -> SmallElems] /\ size' \in 0..SmallSize
    BY <2>1, SmallAssumption
  <2>3. "heap" # "static"
    OBVIOUS
  <2>. QED
    BY <2>1, <2>2, <2>3, Zenon DEF VectorInv, Content
<1>3. CASE alternative = "heap"
  <2>1. heap' = elems /\ UNCHANGED <<alternative, array, size>> /\ smallCall' = call
    BY <1>3 DEF Serve
  <2>2. alternative' = "heap" /\ "heap" # "static" /\ array' = array /\ size' = size
    BY <1>3, <2>1
  <2>. QED
    BY <2>1, <2>2, Zenon DEF VectorInv, Content
<1>. QED
    BY <1>1, <1>2, <1>3, Zenon DEF VectorInv

\* push_back.
LEMMA PushStored ==
    ASSUME VectorInv, NEW v \in SmallElems
    PROVE  /\ Append(Content, v) \in Seq(SmallElems)
           /\ alternative = "static" /\ size < SmallSize => Stores(StaticPush(v), Append(Content, v))
<1>1. PICK c \in Seq(SmallElems) : c = Content /\ Append(c, v) \in Seq(SmallElems)
    BY ContentFacts
<1>2. ASSUME alternative = "static", size < SmallSize PROVE Stores(StaticPush(v), Append(c, v))
  <2>. DEFINE a == [array EXCEPT ![size + 1] = v]
              r == Append(c, v)
  <2>1. Len(c) = size /\ \A i \in 1..size : c[i] = array[i]
    BY <1>1, <1>2, ContentFacts, Zenon
  <2>2. /\ array \in [1..SmallSize -> SmallElems] /\ size \in Nat /\ SmallSize \in Nat
        /\ size + 1 \in 1..SmallSize /\ size + 1 <= SmallSize
    BY <1>2, SmallAssumption DEF VectorInv
  <2>3. a \in [1..SmallSize -> SmallElems] /\ \A i \in 1..size + 1 : a[i] = IF i = size + 1 THEN v ELSE array[i]
    BY <2>2
  <2>4. r \in Seq(SmallElems) /\ Len(r) = size + 1
        /\ \A i \in 1..size + 1 : r[i] = IF i = size + 1 THEN v ELSE c[i]
    BY <2>1, <2>2
  <2>. HIDE DEF a, r
  <2>5. \A i \in 1..size + 1 : a[i] = r[i]
    BY <2>1, <2>2, <2>3, <2>4
  <2>6. Stores(<<a, size + 1>>, r)
    BY <2>2, <2>3, <2>4, <2>5 DEF Stores
  <2>. QED
    BY <2>6, Zenon DEF StaticPush, a, r
<1>. QED
    BY <1>1, <1>2, Zenon

\* pop_back.
LEMMA PopStored ==
    ASSUME VectorInv, Content # <<>>
    PROVE  /\ Front(Content) \in Seq(SmallElems)
           /\ alternative = "static" => Stores(StaticPop, Front(Content))
           /\ Front(Content) = SubSeq(Content, 1, Len(Content) - 1)
<1>1. PICK c \in Seq(SmallElems) : c = Content
    BY ContentFacts
<1>2. Len(c) \in Nat \ {0} /\ Len(c) - 1 \in 0..Len(c)
    BY <1>1
<1>. DEFINE r == SubSeq(c, 1, Len(c) - 1)
<1>3. Front(Content) = r
    BY <1>1, Zenon DEF Front
<1>4. r \in Seq(SmallElems) /\ Len(r) = Len(c) - 1 /\ \A i \in 1..Len(c) - 1 : r[i] = c[i]
    BY <1>2, BeginFacts, Zenon
<1>. HIDE DEF r
<1>5. ASSUME alternative = "static" PROVE Stores(StaticPop, r)
  <2>. DEFINE a == [array EXCEPT ![size] = Blank]
  <2>1. Len(c) = size /\ \A i \in 1..size : c[i] = array[i]
    BY <1>1, <1>5, ContentFacts, Zenon
  <2>2. /\ array \in [1..SmallSize -> SmallElems] /\ size \in Nat /\ SmallSize \in Nat
        /\ size \in 1..SmallSize /\ size - 1 <= SmallSize
    BY <1>2, <2>1, SmallAssumption DEF VectorInv
  <2>3. a \in [1..SmallSize -> SmallElems] /\ \A i \in 1..size - 1 : a[i] = array[i]
    BY <2>2, SmallAssumption
  <2>. HIDE DEF a
  <2>4. \A i \in 1..size - 1 : a[i] = r[i]
    BY <1>4, <2>1, <2>2, <2>3
  <2>5. Stores(<<a, size - 1>>, r)
    BY <1>4, <2>1, <2>2, <2>3, <2>4 DEF Stores
  <2>. QED
    BY <2>5, Zenon DEF StaticPop, a
<1>. QED
    BY <1>1, <1>3, <1>4, <1>5, Zenon DEF r

\* insert moves the elements behind up, from the last one.
LEMMA InsertStored ==
    ASSUME VectorInv, NEW vs \in Seq(SmallElems), NEW f \in 1..Len(Content) + 1, NEW r,
           r = SubSeq(Content, 1, f - 1) \o vs \o SubSeq(Content, f, Len(Content))
    PROVE  /\ r \in Seq(SmallElems)
           /\ alternative = "static" /\ size + Len(vs) <= SmallSize => Stores(StaticInsert(f, vs), r)
<1>1. PICK c \in Seq(SmallElems) : c = Content
    BY ContentFacts
<1>2. r \in Seq(SmallElems) /\ PutIn(r, c, vs, f)
    BY <1>1, InsertElements, Zenon
<1>3. ASSUME alternative = "static", size + Len(vs) <= SmallSize PROVE Stores(StaticInsert(f, vs), r)
  <2>1. PICK n \in Nat, k \in Nat, m \in Nat : n = Len(vs) /\ k = size /\ m = SmallSize /\ k + n <= m
    <3>1. Len(vs) \in Nat /\ size \in Nat /\ SmallSize \in Nat
      BY SmallAssumption DEF VectorInv
    <3>. QED
      BY <1>3, <3>1, Zenon
  <2>2. Len(c) = k /\ \A i \in 1..k : c[i] = array[i]
    BY <1>1, <1>3, <2>1, ContentFacts, Zenon
  <2>. DEFINE a == [i \in 1..m |-> CASE i < f \/ i > k + n -> array[i]
                                     [] i \in f..f + n - 1 -> vs[i - f + 1]
                                     [] OTHER -> array[i - n]]
  <2>3. /\ Len(r) = k + n
        /\ \A i \in 1..f - 1 : r[i] = c[i]
        /\ \A i \in 1..n : r[f - 1 + i] = vs[i]
        /\ \A i \in f..k : r[i + n] = c[i]
    BY <1>2, <2>1, <2>2, Zenon DEF PutIn
  <2>4. f \in 1..k + 1
    BY <1>1, <2>2, Zenon
  <2>5. array \in [1..m -> SmallElems] /\ \A i \in 1..n : vs[i] \in SmallElems
    BY <2>1 DEF VectorInv
  <2>6. ASSUME NEW i \in 1..m, i < f \/ i > k + n PROVE a[i] = array[i] /\ a[i] \in SmallElems
    BY <2>4, <2>5, <2>6
  <2>7. ASSUME NEW i \in 1..m, i \in f..f + n - 1
        PROVE  i - f + 1 \in 1..n /\ a[i] = vs[i - f + 1] /\ a[i] \in SmallElems
    <3>1. ~(i < f \/ i > k + n) /\ i - f + 1 \in 1..n
      BY <2>4, <2>7
    <3>. QED
      BY <2>5, <2>7, <3>1
  <2>8. ASSUME NEW i \in 1..m, i \in f + n..k + n
        PROVE  i - n \in f..k /\ i - n \in 1..m /\ a[i] = array[i - n] /\ a[i] \in SmallElems
    <3>1. ~(i < f \/ i > k + n) /\ i \notin f..f + n - 1 /\ i - n \in f..k /\ i - n \in 1..m
      BY <2>1, <2>4, <2>8
    <3>. QED
      BY <2>5, <2>8, <3>1
  <2>9. a = [i \in 1..m |-> a[i]]
    OBVIOUS
  <2>. HIDE DEF a
  <2>10. \A i \in 1..m : (i < f \/ i > k + n) \/ i \in f..f + n - 1 \/ i \in f + n..k + n
    BY <2>4
  <2>11. a \in [1..m -> SmallElems]
    BY <2>6, <2>7, <2>8, <2>9, <2>10
  <2>12. ASSUME NEW i \in 1..k + n PROVE a[i] = r[i]
    <3>1. i \in 1..m /\ ~(i > k + n)
      BY <2>1
    <3>2. CASE i < f
      <4>1. i \in 1..f - 1 /\ i \in 1..k
        BY <2>4, <3>2
      <4>. QED
        BY <2>2, <2>3, <2>6, <3>1, <3>2, <4>1, Zenon
    <3>3. CASE i \in f..f + n - 1
      <4>1. f - 1 + (i - f + 1) = i
        BY <2>4
      <4>2. i - f + 1 \in 1..n /\ a[i] = vs[i - f + 1]
        BY <2>7, <3>1, <3>3, Zenon
      <4>3. r[f - 1 + (i - f + 1)] = vs[i - f + 1]
        BY <2>3, <4>2, Zenon
      <4>. QED
        BY <4>1, <4>2, <4>3, Zenon
    <3>4. CASE i \in f + n..k + n
      <4>1. (i - n) + n = i
        BY <2>4
      <4>2. i - n \in f..k /\ i - n \in 1..m /\ a[i] = array[i - n]
        BY <2>8, <3>1, <3>4, Zenon
      <4>3. r[(i - n) + n] = c[i - n]
        BY <2>3, <4>2, Zenon
      <4>4. i - n \in 1..k
        BY <2>4, <4>2
      <4>. QED
        BY <2>2, <4>1, <4>2, <4>3, <4>4, Zenon
    <3>. QED
      BY <2>10, <3>1, <3>2, <3>3, <3>4, Zenon
  <2>13. Stores(<<a, k + n>>, r)
    BY <1>2, <2>1, <2>3, <2>11, <2>12 DEF Stores
  <2>14. StaticInsert(f, vs) = <<a, k + n>>
    <3>. DEFINE Moved(N, K, M) == <<[i \in 1..M |-> CASE i < f \/ i > K + N -> array[i]
                                                   [] i \in f..f + N - 1 -> vs[i - f + 1]
                                                   [] OTHER -> array[i - N]], K + N>>
    <3>1. StaticInsert(f, vs) = Moved(Len(vs), size, SmallSize)
      BY Zenon DEF StaticInsert
    <3>2. Moved(n, k, m) = <<a, k + n>>
      BY Zenon DEF a
    <3>. HIDE DEF Moved
    <3>. QED
      BY <2>1, <3>1, <3>2, Zenon
  <2>. QED
    BY <2>13, <2>14, Zenon
<1>. QED
    BY <1>2, <1>3, Zenon

-----------------------------------------------------------------------------
\* std::remove_if leaves no more than there was.
LEMMA RemainingFacts ==
    ASSUME NEW X, NEW s \in Seq(X), NEW set
    PROVE  Remaining(s, set) \in Seq(X) /\ Len(Remaining(s, set)) <= Len(s)
<1>1. Len(s) \in 0..Len(s)
    OBVIOUS
<1>. DEFINE f == CHOOSE g : Parts(g, s, set, Len(s))
<1>2. Parts(f, s, set, Len(s))
    BY <1>1, PartsExist, Zenon
<1>3. Remaining(s, set) = f[Len(s)]
    BY Zenon DEF Remaining, Parts
<1>. HIDE DEF f
<1>. QED
    BY <1>2, <1>3, PartsAreShorter, Zenon

\* erase resets what it removes and moves the elements behind down.
LEMMA EraseStored ==
    ASSUME VectorInv, NEW f \in 1..Len(Content) + 1, NEW t \in f..Len(Content) + 1, NEW r,
           r = SubSeq(Content, 1, f - 1) \o SubSeq(Content, t, Len(Content))
    PROVE  /\ r \in Seq(SmallElems)
           /\ alternative = "static" => Stores(StaticErase(f, t), r)
<1>1. PICK c \in Seq(SmallElems) : c = Content
    BY ContentFacts
<1>2. r \in Seq(SmallElems) /\ CutOut(r, c, f, t)
    BY <1>1, CutElements, Zenon
<1>3. ASSUME alternative = "static" PROVE Stores(StaticErase(f, t), r)
  <2>1. PICK k \in Nat, m \in Nat : k = size /\ m = SmallSize /\ k <= m
    <3>1. size \in Nat /\ SmallSize \in Nat /\ size <= SmallSize
      BY SmallAssumption DEF VectorInv
    <3>. QED
      BY <3>1, Zenon
  <2>2. Len(c) = k /\ \A i \in 1..k : c[i] = array[i]
    BY <1>1, <1>3, <2>1, ContentFacts, Zenon
  <2>3. f \in 1..k + 1 /\ t \in f..k + 1
    BY <1>1, <2>2, Zenon
  <2>4. PICK n \in Nat, j \in Nat : n = t - f /\ j = k - t + 1 /\ n + f = t /\ f + (j - 1) + n = k
    <3>1. t - f \in Nat /\ k - t + 1 \in Nat /\ (t - f) + f = t /\ f + ((k - t + 1) - 1) + (t - f) = k
      BY <2>3
    <3>. QED
      BY <3>1, Zenon
  <2>. DEFINE a == [i \in 1..m |-> CASE i \in f..f + j - 1 -> array[i + n]
                                     [] i \in f..t - 1 /\ i >= f + j -> Blank
                                     [] OTHER -> array[i]]
  <2>5. /\ Len(r) = k - n
        /\ \A i \in 1..f - 1 : r[i] = c[i]
        /\ \A i \in t..k : r[i - n] = c[i]
    BY <1>2, <2>2, <2>4, Zenon DEF CutOut
  <2>6. array \in [1..m -> SmallElems] /\ Blank \in SmallElems
    BY <2>1, SmallAssumption DEF VectorInv
  <2>7. ASSUME NEW i \in 1..m, i \in f..f + j - 1
        PROVE  i + n \in t..k /\ i + n \in 1..m /\ i + n \in 1..k /\ a[i] = array[i + n] /\ a[i] \in SmallElems
    <3>1. i + n \in t..k /\ i + n \in 1..m /\ i + n \in 1..k
      BY <2>1, <2>3, <2>4, <2>7
    <3>2. ~(i >= f + j)
      BY <2>3, <2>7
    <3>. QED
      BY <2>6, <2>7, <3>1, <3>2
  <2>8. ASSUME NEW i \in 1..m, i \in f..t - 1, i >= f + j PROVE a[i] \in SmallElems
    <3>1. i \notin f..f + j - 1
      BY <2>3, <2>8
    <3>. QED
      BY <2>6, <2>8, <3>1
  <2>9. ASSUME NEW i \in 1..m, i \notin f..f + j - 1, ~(i \in f..t - 1 /\ i >= f + j)
        PROVE  a[i] = array[i] /\ a[i] \in SmallElems
    BY <2>6, <2>9
  <2>10. a = [i \in 1..m |-> a[i]]
    OBVIOUS
  <2>. HIDE DEF a
  <2>11. a \in [1..m -> SmallElems]
    BY <2>7, <2>8, <2>9, <2>10
  <2>12. ASSUME NEW i \in 1..k - n PROVE a[i] = r[i]
    <3>1. i \in 1..m /\ (i \in 1..f - 1 \/ i \in f..f + j - 1)
      BY <2>1, <2>3, <2>4
    <3>2. CASE i \in 1..f - 1
      <4>1. i \in 1..k /\ i \notin f..f + j - 1 /\ i \notin f..t - 1
        BY <2>3, <3>2
      <4>. QED
        BY <2>2, <2>5, <2>9, <3>1, <3>2, <4>1, Zenon
    <3>3. CASE i \in f..f + j - 1
      <4>1. i + n \in t..k /\ i + n \in 1..k /\ a[i] = array[i + n]
        BY <2>7, <3>1, <3>3, Zenon
      <4>2. (i + n) - n = i
        OBVIOUS
      <4>. QED
        BY <2>2, <2>5, <4>1, <4>2, Zenon
    <3>. QED
      BY <3>1, <3>2, <3>3, Zenon
  <2>13. k - n <= m
    BY <2>1, <2>4
  <2>14. Stores(<<a, k - n>>, r)
    BY <1>2, <2>1, <2>5, <2>11, <2>12, <2>13 DEF Stores
  <2>15. StaticErase(f, t) = <<a, k - n>>
    <3>. DEFINE Moved(N, J, K, M) == <<[i \in 1..M |-> CASE i \in f..f + J - 1 -> array[i + N]
                                                      [] i \in f..t - 1 /\ i >= f + J -> Blank
                                                      [] OTHER -> array[i]], K - N>>
    <3>1. StaticErase(f, t) = Moved(t - f, size - t + 1, size, SmallSize)
      BY Zenon DEF StaticErase
    <3>2. Moved(n, j, k, m) = <<a, k - n>>
      BY Zenon DEF a
    <3>. HIDE DEF Moved
    <3>. QED
      BY <2>1, <2>4, <3>1, <3>2, Zenon
  <2>. QED
    BY <2>14, <2>15, Zenon
<1>. QED
    BY <1>2, <1>3, Zenon

\* erase_if keeps the others, in their order.
LEMMA EraseIfStored ==
    ASSUME VectorInv, NEW v
    PROVE  /\ Remaining(Content, SmallElems \ {v}) \in Seq(SmallElems)
           /\ alternative = "static" => Stores(StaticEraseIf(v), Remaining(Content, SmallElems \ {v}))
<1>1. PICK r \in Seq(SmallElems) : r = Remaining(Content, SmallElems \ {v}) /\ Len(r) <= Len(Content)
  <2>1. Content \in Seq(SmallElems)
    BY ContentFacts, Zenon
  <2>. QED
    BY <2>1, RemainingFacts, Zenon
<1>2. ASSUME alternative = "static" PROVE Stores(StaticEraseIf(v), r)
  <2>1. Remaining(StaticContent, SmallElems \ {v}) = r
    BY <1>1, <1>2, Zenon DEF Content
  <2>. DEFINE Kept(k) == <<[i \in 1..SmallSize |-> IF i <= Len(k) THEN k[i] ELSE IF i <= size THEN Blank
                                                   ELSE array[i]], Len(k)>>
              a == [i \in 1..SmallSize |-> IF i <= Len(r) THEN r[i] ELSE IF i <= size THEN Blank ELSE array[i]]
  <2>2. StaticEraseIf(v) = <<a, Len(r)>>
    <3>1. StaticEraseIf(v) = Kept(Remaining(StaticContent, SmallElems \ {v}))
      BY Zenon DEF StaticEraseIf
    <3>2. Kept(r) = <<a, Len(r)>>
      BY Zenon
    <3>. HIDE DEF Kept
    <3>. QED
      BY <2>1, <3>1, <3>2, Zenon
  <2>3. Len(Content) = size
    BY <1>2, ContentFacts, Zenon
  <2>4. /\ array \in [1..SmallSize -> SmallElems] /\ Blank \in SmallElems /\ SmallSize \in Nat
        /\ size \in Nat /\ size <= SmallSize /\ Len(r) \in Nat /\ Len(r) <= SmallSize
    BY <1>1, <2>3, SmallAssumption DEF VectorInv
  <2>5. /\ a \in [1..SmallSize -> SmallElems]
        /\ \A i \in 1..Len(r) : a[i] = r[i]
    BY <2>4
  <2>. HIDE DEF a
  <2>6. Stores(<<a, Len(r)>>, r)
    BY <2>4, <2>5 DEF Stores
  <2>. QED
    BY <2>2, <2>6, Zenon
<1>. QED
    BY <1>1, <1>2, Zenon

\* The calls of small_vector are calls of a list.
LEMMA VectorPush ==
    ASSUME VectorInv, NEW v \in SmallElems, SmallPush(v)
    PROVE  VectorInv' /\ AsVector!ListNext
<1>. DEFINE call == <<"push_back", v>>
            r == Append(Content, v)
<1>1. r \in Seq(SmallElems) /\ (alternative = "static" /\ size < SmallSize => Stores(StaticPush(v), r))
    BY PushStored, Zenon
<1>2. Serve(size < SmallSize, StaticPush(v), r, call)
    BY Zenon DEF SmallPush
<1>. HIDE DEF r
<1>3. VectorInv' /\ Content' = r /\ smallCall' = call
    BY <1>1, <1>2, ServedFacts, Zenon DEF StaticPush
<1>4. smallCall'[1] = "push_back" /\ smallCall'[2] = v
    BY <1>3
<1>5. AsVector!ListPush(v)
    BY <1>3, Zenon DEF AsVector!ListPush, r
<1>. QED
    BY <1>3, <1>4, <1>5, Zenon DEF AsVector!ListNext

\* pop_back of small_vector.
LEMMA VectorPop ==
    ASSUME VectorInv, SmallPop
    PROVE  VectorInv' /\ AsVector!ListNext
<1>. DEFINE call == <<"pop_back">>
            r == Front(Content)
<1>0. Content # <<>> /\ Serve(TRUE, StaticPop, r, call)
    BY Zenon DEF SmallPop
<1>1. /\ r \in Seq(SmallElems) /\ (alternative = "static" => Stores(StaticPop, r))
      /\ r = SubSeq(Content, 1, Len(Content) - 1)
    BY <1>0, PopStored, Zenon
<1>. HIDE DEF r
<1>3. VectorInv' /\ Content' = r /\ smallCall' = call
    BY <1>0, <1>1, ServedFacts, Zenon DEF StaticPop
<1>4. smallCall'[1] = "pop_back"
    BY <1>3
<1>5. AsVector!ListPop
    BY <1>0, <1>1, <1>3, Zenon DEF AsVector!ListPop
<1>. QED
    BY <1>3, <1>4, <1>5, Zenon DEF AsVector!ListNext

\* One element is a range of one.
LEMMA VectorInsert ==
    ASSUME VectorInv, NEW f \in 1..Len(Content) + 1, NEW v \in SmallElems, SmallInsert(f, v)
    PROVE  VectorInv' /\ AsVector!ListNext
<1>. DEFINE call == <<"insert", f, v, f>>
            r == SubSeq(Content, 1, f - 1) \o <<v>> \o SubSeq(Content, f, Len(Content))
<1>0. Serve(size < SmallSize, StaticInsert(f, <<v>>), r, call)
    BY Zenon DEF SmallInsert, InsertAt
<1>. HIDE DEF r
<1>1. <<v>> \in Seq(SmallElems) /\ Len(<<v>>) = 1 /\ (size < SmallSize => size + 1 <= SmallSize)
    BY SmallAssumption DEF VectorInv
<1>2. r \in Seq(SmallElems) /\ (alternative = "static" /\ size < SmallSize => Stores(StaticInsert(f, <<v>>), r))
    BY <1>1, InsertStored, Zenon DEF r
<1>3. VectorInv' /\ Content' = r /\ smallCall' = call
    BY <1>0, <1>2, ServedFacts, Zenon DEF StaticInsert
<1>4. smallCall'[1] = "insert" /\ smallCall'[2] = f /\ smallCall'[3] = v
    BY <1>3
<1>5. AsVector!ListInsert(f, v)
    BY <1>3, Zenon DEF AsVector!ListInsert, r
<1>. QED
    BY <1>3, <1>4, <1>5, Zenon DEF AsVector!ListNext

\* insert of a range of small_vector.
LEMMA VectorInsertRange ==
    ASSUME VectorInv, NEW f \in 1..Len(Content) + 1, NEW vs \in Seq(SmallElems), SmallInsertRange(f, vs)
    PROVE  VectorInv' /\ AsVector!ListNext
<1>. DEFINE call == <<"insert_range", f, vs, f>>
            r == SubSeq(Content, 1, f - 1) \o vs \o SubSeq(Content, f, Len(Content))
<1>0. Serve(size + Len(vs) <= SmallSize, StaticInsert(f, vs), r, call)
    BY Zenon DEF SmallInsertRange
<1>. HIDE DEF r
<1>2. /\ r \in Seq(SmallElems)
      /\ alternative = "static" /\ size + Len(vs) <= SmallSize => Stores(StaticInsert(f, vs), r)
    BY InsertStored, Zenon DEF r
<1>3. VectorInv' /\ Content' = r /\ smallCall' = call
    BY <1>0, <1>2, ServedFacts, Zenon DEF StaticInsert
<1>4. smallCall'[1] = "insert_range" /\ smallCall'[2] = f /\ smallCall'[3] = vs
    BY <1>3
<1>5. AsVector!ListInsertRange(f, vs)
    BY <1>3, Zenon DEF AsVector!ListInsertRange, r
<1>. QED
    BY <1>3, <1>4, <1>5, Zenon DEF AsVector!ListNext

\* erase of one element of small_vector.
LEMMA VectorErase ==
    ASSUME VectorInv, NEW f \in 1..Len(Content), SmallErase(f)
    PROVE  VectorInv' /\ AsVector!ListNext
<1>. DEFINE call == <<"erase", f, f>>
            r == SubSeq(Content, 1, f - 1) \o SubSeq(Content, f + 1, Len(Content))
<1>0. Serve(TRUE, StaticErase(f, f + 1), r, call)
    BY Zenon DEF SmallErase, RemoveAt
<1>. HIDE DEF r
<1>1. f \in 1..Len(Content) + 1 /\ f + 1 \in f..Len(Content) + 1 /\ f <= Len(Content)
    BY ContentFacts
<1>2. r \in Seq(SmallElems) /\ (alternative = "static" => Stores(StaticErase(f, f + 1), r))
    BY <1>1, EraseStored, Zenon DEF r
<1>3. VectorInv' /\ Content' = r /\ smallCall' = call
    BY <1>0, <1>2, ServedFacts, Zenon DEF StaticErase
<1>4. smallCall'[1] = "erase" /\ smallCall'[2] = f
    BY <1>3
<1>5. AsVector!ListErase(f)
    BY <1>1, <1>3, Zenon DEF AsVector!ListErase, AsVector!Cut, r
<1>. QED
    BY <1>3, <1>4, <1>5, Zenon DEF AsVector!ListNext

\* erase of a range of small_vector.
LEMMA VectorEraseRange ==
    ASSUME VectorInv, NEW f \in 1..Len(Content) + 1, NEW t \in 1..Len(Content) + 1, f <= t, SmallEraseRange(f, t)
    PROVE  VectorInv' /\ AsVector!ListNext
<1>. DEFINE call == <<"erase_range", f, t, f>>
            r == SubSeq(Content, 1, f - 1) \o SubSeq(Content, t, Len(Content))
<1>0. Serve(TRUE, StaticErase(f, t), r, call)
    BY Zenon DEF SmallEraseRange
<1>. HIDE DEF r
<1>1. t \in f..Len(Content) + 1
    BY ContentFacts
<1>2. r \in Seq(SmallElems) /\ (alternative = "static" => Stores(StaticErase(f, t), r))
    BY <1>1, EraseStored, Zenon DEF r
<1>3. VectorInv' /\ Content' = r /\ smallCall' = call
    BY <1>0, <1>2, ServedFacts, Zenon DEF StaticErase
<1>4. smallCall'[1] = "erase_range" /\ smallCall'[2] = f /\ smallCall'[3] = t
    BY <1>3
<1>5. AsVector!ListEraseRange(f, t)
    BY <1>3, Zenon DEF AsVector!ListEraseRange, AsVector!Cut, r
<1>. QED
    BY <1>3, <1>4, <1>5, Zenon DEF AsVector!ListNext

\* erase_if of small_vector.
LEMMA VectorEraseIf ==
    ASSUME VectorInv, NEW v \in SmallElems, SmallEraseIf(v)
    PROVE  VectorInv' /\ AsVector!ListNext
<1>. DEFINE r == Remaining(Content, SmallElems \ {v})
            call == <<"erase_if", v, Len(Content) - Len(r)>>
<1>0. Serve(TRUE, StaticEraseIf(v), r, call)
    BY Zenon DEF SmallEraseIf
<1>1. AsVector!Kept(SmallElems \ {v}) = r
    BY Zenon DEF AsVector!Kept, Remaining
<1>. HIDE DEF r
<1>2. r \in Seq(SmallElems) /\ (alternative = "static" => Stores(StaticEraseIf(v), r))
    BY EraseIfStored, Zenon DEF r
<1>3. VectorInv' /\ Content' = r /\ smallCall' = call
    BY <1>0, <1>2, ServedFacts, Zenon DEF StaticEraseIf
<1>4. smallCall'[1] = "erase_if" /\ smallCall'[2] = v
    BY <1>3
<1>5. AsVector!ListEraseIf(v)
    BY <1>1, <1>3, Zenon DEF AsVector!ListEraseIf
<1>. QED
    BY <1>3, <1>4, <1>5, Zenon DEF AsVector!ListNext

\* clear of small_vector is an assignment of nothing.
LEMMA VectorClear ==
    ASSUME VectorInv, SmallClear
    PROVE  VectorInv' /\ AsVector!ListNext
<1>. DEFINE call == <<"assign", <<>>>>
            a == [i \in 1..SmallSize |-> IF i <= size THEN Blank ELSE array[i]]
<1>0. Serve(TRUE, <<a, 0>>, <<>>, call)
    BY Zenon DEF SmallClear, StaticClear
<1>1. a \in [1..SmallSize -> SmallElems]
    BY SmallAssumption DEF VectorInv
<1>. HIDE DEF a
<1>2. <<>> \in Seq(SmallElems) /\ Stores(<<a, 0>>, <<>>)
    BY <1>1, SmallAssumption DEF Stores
<1>3. VectorInv' /\ Content' = <<>> /\ smallCall' = call
    BY <1>0, <1>2, ServedFacts, Zenon
<1>4. smallCall'[1] = "assign" /\ smallCall'[2] = <<>>
    BY <1>3
<1>5. AsVector!ListAssign(<<>>)
    BY <1>3, Zenon DEF AsVector!ListAssign
<1>. QED
    BY <1>3, <1>4, <1>5, Zenon DEF AsVector!ListNext

\* resize keeps the first elements; the array shows what it held behind the last.
LEMMA VectorResize ==
    ASSUME VectorInv, NEW n \in 0..MaxSmall, SmallResize(n)
    PROVE  VectorInv' /\ AsVector!ListNext
<1>. DEFINE call == <<"resize", n>>
            fits == n <= SmallSize
            a == [i \in 1..SmallSize |-> IF i \in n + 1..size THEN Blank ELSE array[i]]
            s == [i \in 1..n |-> IF i <= Len(Content) THEN Content[i] ELSE Blank]
            NewSize(r) == /\ r \in Seq(SmallElems) /\ Len(r) = n
                          /\ \A i \in 1..n : IF i <= Len(Content) THEN r[i] = Content[i] ELSE r[i] \in SmallElems
<1>0. Serve(fits, <<a, n>>, s, call)
    BY Zenon DEF SmallResize, StaticResize
<1>1. PICK c \in Seq(SmallElems), l \in Nat : c = Content /\ l = Len(Content)
    BY ContentFacts
<1>2. n \in Nat /\ SmallSize \in Nat /\ Blank \in SmallElems /\ size \in Nat
    BY SmallAssumption DEF VectorInv
<1>3. NewSize(s)
  <2>1. s = [i \in 1..n |-> IF i <= l THEN c[i] ELSE Blank]
    BY <1>1, Zenon
  <2>2. \A i \in 1..n : i <= l => c[i] \in SmallElems
    BY <1>1, <1>2
  <2>. HIDE DEF s
  <2>3. s \in Seq(SmallElems) /\ Len(s) = n
    BY <1>2, <2>1, <2>2
  <2>4. \A i \in 1..n : IF i <= l THEN s[i] = c[i] ELSE s[i] \in SmallElems
    BY <1>2, <2>1
  <2>. QED
    BY <1>1, <2>3, <2>4, Zenon
<1>. HIDE DEF s
<1>4. \E r : NewSize(r) /\ VectorInv' /\ Content' = r /\ smallCall' = call
  <2>1. CASE alternative = "static" /\ fits
    <3>. DEFINE r == SubSeq(a, 1, n)
    <3>1. /\ a \in [1..SmallSize -> SmallElems] /\ n \in 0..SmallSize
          /\ \A i \in 1..n : a[i] = array[i] /\ a[i] \in SmallElems
      BY <1>2, <2>1 DEF VectorInv
    <3>. HIDE DEF a
    <3>2. r \in Seq(SmallElems) /\ Len(r) = n /\ \A i \in 1..n : r[i] = a[i]
      BY <3>1, FilledFacts, Zenon
    <3>3. l = size /\ \A i \in 1..size : Content[i] = array[i]
      BY <1>1, <2>1, ContentFacts, Zenon
    <3>. HIDE DEF r
    <3>4. \A i \in 1..n : IF i <= l THEN r[i] = Content[i] ELSE r[i] \in SmallElems
      <4>1. \A i \in 1..n : i <= l => i \in 1..size
        BY <3>3
      <4>. QED
        BY <3>1, <3>2, <3>3, <4>1, Zenon
    <3>5. NewSize(r)
      BY <1>1, <3>2, <3>4, Zenon
    <3>6. Stores(<<a, n>>, r)
      BY <2>1, <3>1, <3>2 DEF Stores
    <3>7. Serve(fits, <<a, n>>, r, call)
      <4>1. Len(r) = Len(s)
        BY <1>3, <3>2, Zenon
      <4>2. alternative # "heap"
        BY <2>1
      <4>. QED
        BY <1>0, <2>1, <4>1, <4>2, Zenon DEF Serve
    <3>. QED
      BY <3>2, <3>5, <3>6, <3>7, ServedFacts, Zenon
  <2>2. CASE ~(alternative = "static" /\ fits)
    <3>1. s \in Seq(SmallElems)
      BY <1>3, Zenon
    <3>. QED
      BY <1>0, <1>3, <2>2, <3>1, ServedFacts, Zenon
  <2>. QED
    BY <2>1, <2>2, Zenon
<1>5. smallCall' = call
    BY <1>4, Zenon
<1>6. smallCall'[1] = "resize" /\ smallCall'[2] = n
    BY <1>5
<1>7. AsVector!ListResize(n)
    BY <1>4, Zenon DEF AsVector!ListResize
<1>. QED
    BY <1>4, <1>6, <1>7, Zenon DEF AsVector!ListNext

\* A bounded sequence is one.
LEMMA BoundedSeqFacts ==
    ASSUME NEW X, NEW n \in Nat, NEW s \in BoundedSeq(X, n)
    PROVE  s \in Seq(X)
<1>1. PICK m \in 0..n : s \in [1..m -> X]
    BY DEF BoundedSeq, SeqOf
<1>. QED
    BY <1>1

\* Every step of the vector is a call of a list.
LEMMA SmallStepImplemented ==
    ASSUME VectorInv, SmallNext \/ UNCHANGED smallVars
    PROVE  VectorInv' /\ (AsVector!ListNext \/ UNCHANGED <<Content, smallCall>>)
<1>1. CASE \E v \in SmallElems : SmallPush(v)
    BY <1>1, VectorPush, Zenon
<1>2. CASE SmallPop
    BY <1>2, VectorPop, Zenon
<1>3. CASE \E f \in 1..Len(Content) + 1, v \in SmallElems : SmallInsert(f, v)
    BY <1>3, VectorInsert, Zenon
<1>4. CASE \E f \in 1..Len(Content) + 1, vs \in BoundedSeq(SmallElems, 2) : SmallInsertRange(f, vs)
  <2>1. 2 \in Nat
    OBVIOUS
  <2>. QED
    BY <1>4, <2>1, VectorInsertRange, BoundedSeqFacts, Zenon
<1>5. CASE \E f \in 1..Len(Content) : SmallErase(f)
    BY <1>5, VectorErase, Zenon
<1>6. CASE \E f, t \in 1..Len(Content) + 1 : f <= t /\ SmallEraseRange(f, t)
    BY <1>6, VectorEraseRange, Zenon
<1>7. CASE \E v \in SmallElems : SmallEraseIf(v)
    BY <1>7, VectorEraseIf, Zenon
<1>8. CASE \E n \in 0..MaxSmall : SmallResize(n)
    BY <1>8, VectorResize, Zenon
<1>9. CASE SmallClear
    BY <1>9, VectorClear, Zenon
<1>10. CASE UNCHANGED smallVars
    BY <1>10, Zenon DEF smallVars, VectorInv, Content, StaticContent
<1>. QED
    BY <1>1, <1>2, <1>3, <1>4, <1>5, <1>6, <1>7, <1>8, <1>9, <1>10, Zenon DEF SmallNext

\* A new vector has no elements.
LEMMA SmallInitially ==
    ASSUME SmallInit PROVE VectorInv /\ AsVector!ListInit
<1>1. /\ alternative = "static" /\ array = [i \in 1..SmallSize |-> Blank] /\ size = 0 /\ heap = <<>>
      /\ smallCall = <<"construct">>
    BY DEF SmallInit
<1>2. VectorInv
    BY <1>1, SmallAssumption DEF VectorInv
<1>3. Content \in Seq(SmallElems) /\ Len(Content) = 0
    BY <1>1, <1>2, ContentFacts, Zenon
<1>4. Content = <<>>
    BY <1>3
<1>. QED
    BY <1>1, <1>2, <1>4, Zenon DEF AsVector!ListInit

-----------------------------------------------------------------------------
(* Sequences of sequences, joined to one by FlattenSeq.                    *)

\* The sequences of a sequence are joined one by one.
LEMMA FlattenFacts ==
    ASSUME NEW X, NEW ss \in Seq(Seq(X))
    PROVE  /\ FlattenSeq(ss) \in Seq(X)
           /\ Len(ss) = 0 => FlattenSeq(ss) = <<>>
           /\ \A r \in Seq(X) : FlattenSeq(Append(ss, r)) = FlattenSeq(ss) \o r
<1>. DEFINE F(s) == CHOOSE f : Chained(f, s)
<1>1. ASSUME NEW s, Len(s) # 0 PROVE FlattenSeq(s) = F(s)[Len(s)]
    BY <1>1, Zenon DEF FlattenSeq, Chained
<1>2. ASSUME NEW s \in Seq(Seq(X)), Len(s) # 0
      PROVE  F(s)[Len(s)] \in Seq(X) /\ LinkedUp(F(s), s, Len(s))
  <2>1. PICK f : Chained(f, s) /\ f[Len(s)] \in Seq(X)
    BY <1>2, ChainsExist, Zenon
  <2>2. PICK n \in Nat : n = Len(s) /\ n \in 1..n
    BY <1>2
  <2>3. Chained(F(s), s)
    BY <2>1, Zenon
  <2>. HIDE DEF F
  <2>4. LinkedUp(f, s, n)
    BY <2>1, <2>2, ChainFacts, Zenon
  <2>5. LinkedUp(F(s), s, n)
    BY <2>2, <2>3, ChainFacts, Zenon
  <2>6. F(s)[n] = f[n]
    <3>1. \A i \in 1..n : F(s)[i] = f[i]
      BY <2>4, <2>5, ChainsAgree
    <3>. QED
      BY <2>2, <3>1, Zenon
  <2>. QED
    BY <2>1, <2>2, <2>5, <2>6, Zenon
<1>. HIDE DEF F
<1>3. Len(ss) = 0 => FlattenSeq(ss) = <<>> /\ ss = <<>>
  <2>1. Len(ss) = 0 => ss = <<>>
    OBVIOUS
  <2>. QED
    BY <2>1, Zenon DEF FlattenSeq
<1>4. FlattenSeq(ss) \in Seq(X)
  <2>1. <<>> \in Seq(X)
    OBVIOUS
  <2>. QED
    BY <1>1, <1>2, <1>3, <2>1, Zenon
<1>5. ASSUME NEW r \in Seq(X) PROVE FlattenSeq(Append(ss, r)) = FlattenSeq(ss) \o r
  <2>0. Len(ss) \in Nat
    OBVIOUS
  <2>1. PICK n \in Nat, t \in {Append(ss, r)} : n = Len(ss) /\ t = Append(ss, r)
    BY <2>0, Zenon
  <2>2. /\ t \in Seq(Seq(X)) /\ Len(t) = n + 1 /\ n + 1 # 0 /\ t[n + 1] = r
        /\ \A i \in 1..n : t[i] = ss[i]
    BY <2>1
  <2>3. \A i \in 1..n + 1 : F(t)[i] = IF i = 1 THEN t[i] ELSE F(t)[i - 1] \o t[i]
    BY <1>2, <2>2, Zenon DEF LinkedUp
  <2>4. FlattenSeq(t) = F(t)[n + 1]
    BY <1>1, <2>2, Zenon
  <2>5. CASE n = 0
    <3>1. FlattenSeq(t) = r
      BY <2>2, <2>3, <2>4, <2>5
    <3>2. <<>> \o r = r
      OBVIOUS
    <3>. QED
      BY <1>3, <2>1, <2>5, <3>1, <3>2, Zenon
  <2>6. CASE n # 0
    <3>1. LinkedUp(F(ss), ss, n)
      BY <1>2, <2>1, <2>6, Zenon
    <3>2. \A i \in 1..n : i \in 1..n + 1
      OBVIOUS
    <3>3. LinkedUp(F(t), ss, n)
      BY <2>2, <2>3, <3>2, Zenon DEF LinkedUp
    <3>4. n \in 1..n /\ n + 1 \in 1..n + 1 /\ n + 1 # 1 /\ (n + 1) - 1 = n
      BY <2>6
    <3>5. F(t)[n] = F(ss)[n]
      <4>1. \A i \in 1..n : F(t)[i] = F(ss)[i]
        BY <3>1, <3>3, ChainsAgree
      <4>. QED
        BY <3>4, <4>1, Zenon
    <3>6. F(t)[n + 1] = F(t)[n] \o r
      BY <2>2, <2>3, <3>4, Zenon
    <3>. QED
      BY <1>1, <2>1, <2>4, <2>6, <3>5, <3>6, Zenon
  <2>. QED
    BY <2>5, <2>6, Zenon
<1>. QED
    BY <1>3, <1>4, <1>5, Zenon

\* Joining is the same before and after sequences are put together.
LEMMA FlattenJoined ==
    ASSUME NEW X, NEW a \in Seq(Seq(X)), NEW b \in Seq(Seq(X))
    PROVE  FlattenSeq(a \o b) = FlattenSeq(a) \o FlattenSeq(b)
<1>. DEFINE S == {c \in Seq(Seq(X)) : FlattenSeq(a \o c) = FlattenSeq(a) \o FlattenSeq(c)}
<1>0. \A c \in Seq(Seq(X)) : FlattenSeq(c) \in Seq(X)
    BY FlattenFacts, Zenon
<1>1. <<>> \in S
  <2>1. <<>> \in Seq(Seq(X)) /\ Len(<<>>) = 0 /\ a \o <<>> = a
    OBVIOUS
  <2>2. FlattenSeq(<<>>) = <<>>
    BY <2>1, FlattenFacts, Zenon
  <2>3. \A s \in Seq(X) : s \o <<>> = s
    OBVIOUS
  <2>4. FlattenSeq(a) \o <<>> = FlattenSeq(a)
    BY <1>0, <2>3, Zenon
  <2>. QED
    BY <2>1, <2>2, <2>4, Zenon
<1>2. ASSUME NEW c \in Seq(Seq(X)), NEW r \in Seq(X), c \in S PROVE Append(c, r) \in S
  <2>1. Append(c, r) \in Seq(Seq(X)) /\ a \o c \in Seq(Seq(X))
    OBVIOUS
  <2>2. a \o Append(c, r) = Append(a \o c, r)
    BY AppendBehind
  <2>3. FlattenSeq(Append(a \o c, r)) = FlattenSeq(a \o c) \o r
    BY <2>1, FlattenFacts, Zenon
  <2>4. FlattenSeq(Append(c, r)) = FlattenSeq(c) \o r
    BY FlattenFacts, Zenon
  <2>5. FlattenSeq(a \o c) = FlattenSeq(a) \o FlattenSeq(c)
    BY <1>2, Zenon
  <2>6. (FlattenSeq(a) \o FlattenSeq(c)) \o r = FlattenSeq(a) \o (FlattenSeq(c) \o r)
    <3>1. FlattenSeq(a) \in Seq(X) /\ FlattenSeq(c) \in Seq(X)
      BY <1>0, Zenon
    <3>. QED
      BY <3>1, ConcatAssociative
  <2>. QED
    BY <2>1, <2>2, <2>3, <2>4, <2>5, <2>6, Zenon
<1>. HIDE DEF S
<1>3. Seq(Seq(X)) \subseteq S
    BY <1>1, <1>2, SequenceInduction, Zenon
<1>4. b \in S
    BY <1>3, Zenon
<1>. QED
    BY <1>4, Zenon DEF S

-----------------------------------------------------------------------------
(* The first of some sequences joined, and the others.                     *)

Through(ss, c) == FlattenSeq(SubSeq(ss, 1, c))

Behind(ss, c) == FlattenSeq(SubSeq(ss, c + 1, Len(ss)))

\* What comes through a place and what is behind it.
LEMMA ThroughFacts ==
    ASSUME NEW X, NEW ss \in Seq(Seq(X)), NEW c \in 0..Len(ss)
    PROVE  /\ Through(ss, c) \in Seq(X) /\ Behind(ss, c) \in Seq(X)
           /\ FlattenSeq(ss) = Through(ss, c) \o Behind(ss, c)
<1>1. c + 1 \in 1..Len(ss) + 1 /\ (c + 1) - 1 = c
    OBVIOUS
<1>. DEFINE a == SubSeq(ss, 1, c)
            b == SubSeq(ss, c + 1, Len(ss))
<1>2. a \in Seq(Seq(X)) /\ b \in Seq(Seq(X)) /\ ss = a \o b
    BY <1>1, SplitAtPlace
<1>. HIDE DEF a, b
<1>3. FlattenSeq(a \o b) = FlattenSeq(a) \o FlattenSeq(b)
    BY <1>2, FlattenJoined
<1>4. FlattenSeq(a) \in Seq(X) /\ FlattenSeq(b) \in Seq(X)
    BY <1>2, FlattenFacts, Zenon
<1>. QED
    BY <1>2, <1>3, <1>4, Zenon DEF Through, Behind, a, b

\* One sequence after the other comes through.
LEMMA ThroughEnds ==
    ASSUME NEW X, NEW ss \in Seq(Seq(X))
    PROVE  Through(ss, 0) = <<>> /\ Through(ss, Len(ss)) = FlattenSeq(ss) /\ Behind(ss, Len(ss)) = <<>>
<1>1. SubSeq(ss, 1, 0) = <<>> /\ SubSeq(ss, 1, Len(ss)) = ss
    BY BeginGrows, Zenon
<1>2. Len(ss) + 1 \in Int /\ Len(ss) \in Int /\ Len(ss) < Len(ss) + 1
    OBVIOUS
<1>3. SubSeq(ss, Len(ss) + 1, Len(ss)) = <<>>
    BY <1>2, SubSeqEmpty, Zenon
<1>4. <<>> \in Seq(Seq(X)) /\ Len(<<>>) = 0
    OBVIOUS
<1>5. FlattenSeq(<<>>) = <<>>
    BY <1>4, FlattenFacts, Zenon
<1>. QED
    BY <1>1, <1>3, <1>5, Zenon DEF Through, Behind

\* One sequence more comes through.
LEMMA ThroughNext ==
    ASSUME NEW X, NEW ss \in Seq(Seq(X)), NEW c \in 1..Len(ss)
    PROVE  /\ Through(ss, c) = Through(ss, c - 1) \o ss[c]
           /\ Behind(ss, c - 1) = ss[c] \o Behind(ss, c)
           /\ ss[c] \in Seq(X)
<1>1. c - 1 \in 0..Len(ss) /\ ss[c] \in Seq(X) /\ (c - 1) + 1 = c /\ Len(ss) \in c..Len(ss)
    OBVIOUS
<1>2. SubSeq(ss, 1, c) = Append(SubSeq(ss, 1, c - 1), ss[c])
    BY BeginGrows, Zenon
<1>3. SubSeq(ss, 1, c - 1) \in Seq(Seq(X))
    BY <1>1, BeginFacts, Zenon
<1>4. FlattenSeq(Append(SubSeq(ss, 1, c - 1), ss[c])) = FlattenSeq(SubSeq(ss, 1, c - 1)) \o ss[c]
    BY <1>1, <1>3, FlattenFacts, Zenon
<1>. DEFINE a == <<ss[c]>>
            b == SubSeq(ss, c + 1, Len(ss))
<1>5. SubSeq(ss, c, Len(ss)) = a \o b
    BY <1>1, SubSeqRecursiveFirst, Zenon
<1>6. a \in Seq(Seq(X)) /\ a = Append(<<>>, ss[c]) /\ <<>> \in Seq(Seq(X)) /\ Len(<<>>) = 0
    BY <1>1
<1>7. b \in Seq(Seq(X))
  <2>1. c + 1 \in 1..Len(ss) + 1 /\ (c + 1) - 1 \in 0..Len(ss)
    OBVIOUS
  <2>. QED
    BY <2>1, SplitAtPlace, Zenon
<1>. HIDE DEF a, b
<1>8. FlattenSeq(a \o b) = FlattenSeq(a) \o FlattenSeq(b)
    BY <1>6, <1>7, FlattenJoined
<1>9. FlattenSeq(a) = ss[c]
  <2>1. FlattenSeq(<<>>) = <<>> /\ FlattenSeq(Append(<<>>, ss[c])) = FlattenSeq(<<>>) \o ss[c]
    BY <1>1, <1>6, FlattenFacts, Zenon
  <2>2. <<>> \o ss[c] = ss[c]
    BY <1>1
  <2>. QED
    BY <1>6, <2>1, <2>2, Zenon
<1>. QED
    BY <1>1, <1>2, <1>4, <1>5, <1>8, <1>9, Zenon DEF Through, Behind, b

\* One sequence between those before it and those behind it.
LEMMA OneOfMany ==
    ASSUME NEW X, NEW ss \in Seq(Seq(X)), NEW c \in 1..Len(ss)
    PROVE  FlattenSeq(ss) = Through(ss, c - 1) \o (ss[c] \o Behind(ss, c))
<1>1. c - 1 \in 0..Len(ss)
    OBVIOUS
<1>. QED
    BY <1>1, ThroughFacts, ThroughNext, Zenon

\* What comes through is made of the first sequences only.
LEMMA ThroughSame ==
    ASSUME NEW X, NEW ss \in Seq(Seq(X)), NEW tt \in Seq(Seq(X)), NEW c \in 0..Len(ss), c <= Len(tt),
           \A k \in 1..c : ss[k] = tt[k]
    PROVE  Through(ss, c) = Through(tt, c)
<1>. DEFINE a == SubSeq(ss, 1, c)
            b == SubSeq(tt, 1, c)
<1>1. c \in 0..Len(tt) /\ c \in Nat
    OBVIOUS
<1>2. a \in Seq(Seq(X)) /\ Len(a) = c /\ \A i \in 1..c : a[i] = ss[i]
    BY BeginFacts, Zenon
<1>3. b \in Seq(Seq(X)) /\ Len(b) = c /\ \A i \in 1..c : b[i] = tt[i]
    BY <1>1, BeginFacts, Zenon
<1>. HIDE DEF a, b
<1>4. \A i \in 1..c : a[i] = b[i]
    BY <1>2, <1>3, Zenon
<1>5. a = b
    BY <1>2, <1>3, <1>4, SeqEqual
<1>. QED
    BY <1>5, Zenon DEF Through, a, b

\* What is behind a place is made of the sequences there only.
SameBehind(ss, tt, c) == Len(tt) = Len(ss) /\ \A k \in c + 1..Len(ss) : ss[k] = tt[k]

LEMMA BehindSame ==
    ASSUME NEW X, NEW ss \in Seq(Seq(X)), NEW tt \in Seq(Seq(X)), NEW c \in 0..Len(ss), SameBehind(ss, tt, c)
    PROVE  Behind(ss, c) = Behind(tt, c)
<1>. USE DEF SameBehind
<1>. DEFINE a == SubSeq(ss, c + 1, Len(ss))
            b == SubSeq(tt, c + 1, Len(tt))
<1>0. PICK n \in Nat : n = Len(ss) - (c + 1) + 1 /\ n = Len(tt) - (c + 1) + 1
    OBVIOUS
<1>1. /\ c + 1 \in 1..Len(ss) + 1 /\ Len(ss) \in (c + 1) - 1..Len(ss)
      /\ c + 1 \in 1..Len(tt) + 1 /\ Len(tt) \in (c + 1) - 1..Len(tt)
      /\ \A i \in 1..n : (c + 1) + i - 1 \in c + 1..Len(ss)
    BY <1>0
<1>2. a \in Seq(Seq(X)) /\ Len(a) = n /\ \A i \in 1..n : a[i] = ss[(c + 1) + i - 1]
    BY <1>0, <1>1, PieceFacts, Zenon
<1>3. b \in Seq(Seq(X)) /\ Len(b) = n /\ \A i \in 1..n : b[i] = tt[(c + 1) + i - 1]
    BY <1>0, <1>1, PieceFacts, Zenon
<1>. HIDE DEF a, b
<1>4. \A i \in 1..n : a[i] = b[i]
    BY <1>1, <1>2, <1>3, Zenon
<1>5. a = b
    BY <1>2, <1>3, <1>4, SeqEqual
<1>. QED
    BY <1>5, Zenon DEF Behind, a, b

\* The numbers of elements that come through.
LEMMA ThroughCounts ==
    ASSUME NEW X, NEW ss \in Seq(Seq(X))
    PROVE  /\ \A c \in 0..Len(ss) : Len(Through(ss, c)) \in Nat
           /\ Len(Through(ss, 0)) = 0
           /\ \A c \in 1..Len(ss) : /\ Len(ss[c]) \in Nat
                                    /\ Len(Through(ss, c)) = Len(Through(ss, c - 1)) + Len(ss[c])
<1>1. \A c \in 0..Len(ss) : Through(ss, c) \in Seq(X)
    BY ThroughFacts, Zenon
<1>2. \A s \in Seq(X) : Len(s) \in Nat
    OBVIOUS
<1>3. Len(Through(ss, 0)) = 0
  <2>1. Len(<<>>) = 0
    OBVIOUS
  <2>. QED
    BY <2>1, ThroughEnds, Zenon
<1>4. ASSUME NEW c \in 1..Len(ss)
      PROVE  Len(ss[c]) \in Nat /\ Len(Through(ss, c)) = Len(Through(ss, c - 1)) + Len(ss[c])
  <2>1. c - 1 \in 0..Len(ss)
    OBVIOUS
  <2>2. Through(ss, c - 1) \in Seq(X) /\ ss[c] \in Seq(X)
    BY <1>1, <2>1, ThroughNext, Zenon
  <2>. QED
    <3>1. Len(Through(ss, c - 1) \o ss[c]) = Len(Through(ss, c - 1)) + Len(ss[c])
      BY <2>2, ConcatProperties, Zenon
    <3>. QED
      BY <1>2, <2>2, <3>1, ThroughNext, Zenon
<1>. QED
    BY <1>1, <1>2, <1>3, <1>4, Zenon

\* Empty sequences add nothing.
LEMMA ThroughEmpty ==
    ASSUME NEW X, NEW ss \in Seq(Seq(X)), NEW a \in 0..Len(ss), NEW b \in a..Len(ss),
           \A k \in a + 1..b : ss[k] = <<>>
    PROVE  Through(ss, b) = Through(ss, a)
<1>. DEFINE N == {n \in Nat : a + n <= b => Through(ss, a + n) = Through(ss, a)}
<1>1. 0 \in N
    OBVIOUS
<1>2. ASSUME NEW n \in Nat, n \in N PROVE n + 1 \in N
  <2>. SUFFICES ASSUME a + (n + 1) <= b PROVE Through(ss, a + (n + 1)) = Through(ss, a)
    OBVIOUS
  <2>1. /\ a + (n + 1) \in 1..Len(ss) /\ a + (n + 1) \in a + 1..b /\ (a + (n + 1)) - 1 = a + n
        /\ a + n <= b /\ a + n \in 0..Len(ss)
    OBVIOUS
  <2>2. Through(ss, a + (n + 1)) = Through(ss, a + n) \o <<>>
    BY <2>1, ThroughNext, Zenon
  <2>3. Through(ss, a + n) \in Seq(X)
    BY <2>1, ThroughFacts, Zenon
  <2>4. Through(ss, a + n) \o <<>> = Through(ss, a + n)
    BY <2>3, ConcatEmptySeq, Zenon
  <2>. QED
    BY <1>2, <2>1, <2>2, <2>4, Zenon
<1>. HIDE DEF N
<1>3. b - a \in N
  <2>1. Nat \subseteq N
    BY <1>1, <1>2, SetInduction, Zenon
  <2>2. b - a \in Nat
    OBVIOUS
  <2>. QED
    BY <2>1, <2>2, Zenon
<1>4. a + (b - a) <= b /\ a + (b - a) = b
    OBVIOUS
<1>. QED
    BY <1>3, <1>4, Zenon DEF N

\* No fewer elements come through later.
LEMMA ThroughRises ==
    ASSUME NEW X, NEW ss \in Seq(Seq(X)), NEW a \in 0..Len(ss), NEW b \in a..Len(ss)
    PROVE  Len(Through(ss, a)) <= Len(Through(ss, b))
<1>. DEFINE T(c) == Len(Through(ss, c))
            N == {n \in Nat : a + n <= b => T(a) <= T(a + n)}
<1>0. \A c \in 0..Len(ss) : T(c) \in Nat
    BY ThroughCounts, Zenon
<1>00. \A c \in 1..Len(ss) : Len(ss[c]) \in Nat /\ T(c) = T(c - 1) + Len(ss[c])
    BY ThroughCounts, Zenon
<1>. HIDE DEF T
<1>1. 0 \in N
    BY <1>0
<1>2. ASSUME NEW n \in Nat, n \in N PROVE n + 1 \in N
  <2>. SUFFICES ASSUME a + (n + 1) <= b PROVE T(a) <= T(a + (n + 1))
    OBVIOUS
  <2>1. /\ a + (n + 1) \in 1..Len(ss) /\ (a + (n + 1)) - 1 = a + n
        /\ a + n <= b /\ a + n \in 0..Len(ss) /\ a \in 0..Len(ss)
    OBVIOUS
  <2>2. T(a) <= T(a + n) /\ T(a) \in Nat /\ T(a + n) \in Nat
    BY <1>0, <1>2, <2>1
  <2>3. Len(ss[a + (n + 1)]) \in Nat /\ T(a + (n + 1)) = T(a + n) + Len(ss[a + (n + 1)])
    BY <1>00, <2>1, Zenon
  <2>. QED
    BY <2>2, <2>3
<1>. HIDE DEF N
<1>3. b - a \in N
  <2>1. Nat \subseteq N
    BY <1>1, <1>2, SetInduction, Zenon
  <2>2. b - a \in Nat
    OBVIOUS
  <2>. QED
    BY <2>1, <2>2, Zenon
<1>4. a + (b - a) <= b /\ a + (b - a) = b
    OBVIOUS
<1>. QED
    BY <1>3, <1>4, Zenon DEF N, T

-----------------------------------------------------------------------------
(* One of some sequences changed.                                          *)

Replaced(tt, ss, c, x) ==
    /\ Len(tt) = Len(ss) /\ tt[c] = x /\ \A k \in 1..Len(ss) : k # c => tt[k] = ss[k]
    /\ Through(tt, c - 1) = Through(ss, c - 1)
    /\ FlattenSeq(tt) = Through(ss, c - 1) \o (x \o Behind(ss, c))

\* The others stay, and come before and behind it.
LEMMA OneReplaced ==
    ASSUME NEW X, NEW ss \in Seq(Seq(X)), NEW c \in 1..Len(ss), NEW x \in Seq(X),
           NEW tt, tt = [ss EXCEPT ![c] = x]
    PROVE  tt \in Seq(Seq(X)) /\ Replaced(tt, ss, c, x)
<1>1. /\ tt \in Seq(Seq(X)) /\ Len(tt) = Len(ss)
      /\ \A j \in 1..Len(ss) : tt[j] = IF j = c THEN x ELSE ss[j]
    BY ExceptSeq
<1>2. /\ c - 1 \in 0..Len(tt) /\ c - 1 <= Len(ss) /\ c \in 0..Len(tt) /\ c \in 1..Len(tt)
      /\ \A k \in 1..c - 1 : k \in 1..Len(ss) /\ k # c
      /\ \A k \in c + 1..Len(tt) : k \in 1..Len(ss) /\ k # c
    BY <1>1
<1>3. Through(tt, c - 1) = Through(ss, c - 1)
  <2>0. tt \in Seq(Seq(X)) /\ c - 1 \in 0..Len(tt) /\ c - 1 <= Len(ss)
    BY <1>1, <1>2, Zenon
  <2>1. \A k \in 1..c - 1 : tt[k] = ss[k]
    BY <1>1, <1>2, Zenon
  <2>. QED
    BY <2>0, <2>1, ThroughSame
<1>4. Behind(tt, c) = Behind(ss, c)
  <2>0. tt \in Seq(Seq(X)) /\ c \in 0..Len(tt) /\ Len(ss) = Len(tt)
    BY <1>1, <1>2, Zenon
  <2>1. \A k \in c + 1..Len(tt) : tt[k] = ss[k]
    BY <1>1, <1>2, Zenon
  <2>2. SameBehind(tt, ss, c)
    BY <2>0, <2>1, Zenon DEF SameBehind
  <2>. QED
    BY <2>0, <2>2, BehindSame, Zenon
<1>5. tt[c] = x
    BY <1>1, Zenon
<1>6. FlattenSeq(tt) = Through(tt, c - 1) \o (tt[c] \o Behind(tt, c))
    BY <1>1, <1>2, OneOfMany, Zenon
<1>. QED
    BY <1>1, <1>3, <1>4, <1>5, <1>6, Zenon DEF Replaced

OneMore(tt, ss, x) ==
    /\ Len(tt) = Len(ss) + 1 /\ tt[Len(ss) + 1] = x /\ \A k \in 1..Len(ss) : tt[k] = ss[k]
    /\ Through(tt, Len(ss)) = FlattenSeq(ss) /\ FlattenSeq(tt) = FlattenSeq(ss) \o x

\* A sequence that is put behind the others.
LEMMA OneAppended ==
    ASSUME NEW X, NEW ss \in Seq(Seq(X)), NEW x \in Seq(X), NEW tt, tt = Append(ss, x)
    PROVE  tt \in Seq(Seq(X)) /\ OneMore(tt, ss, x)
<1>1. /\ tt \in Seq(Seq(X)) /\ Len(tt) = Len(ss) + 1 /\ tt[Len(ss) + 1] = x
      /\ \A k \in 1..Len(ss) : tt[k] = ss[k]
    OBVIOUS
<1>2. Len(ss) \in 0..Len(ss) /\ Len(ss) <= Len(tt)
    BY <1>1
<1>3. Through(ss, Len(ss)) = Through(tt, Len(ss))
    BY <1>1, <1>2, ThroughSame
<1>4. Through(ss, Len(ss)) = FlattenSeq(ss)
    BY ThroughEnds, Zenon
<1>5. FlattenSeq(tt) = FlattenSeq(ss) \o x
    BY FlattenFacts, Zenon
<1>. QED
    BY <1>1, <1>3, <1>4, <1>5, Zenon DEF OneMore

-----------------------------------------------------------------------------
(* chunk_list.                                                             *)

\* What a list of chunks is.
ChunkLists == Seq(Seq(ChunkElems))

\* A position and the index in the sequence that it stands for.
AtIndex(cs, p, i) ==
    \/ \E c \in 1..Len(cs) : \E j \in 1..Len(cs[c]) : p = <<c, j>> /\ i = Len(Through(cs, c - 1)) + j
    \/ p = ListEnd(cs) /\ i = Len(FlattenSeq(cs)) + 1

\* The first element from chunk c on: the chunks before it are empty.
FirstAt(cs, c, p) ==
    \/ p = ListEnd(cs) /\ \A k \in c..Len(cs) : cs[k] = <<>>
    \/ \E m \in c..Len(cs) : p = <<m, 1>> /\ cs[m] # <<>> /\ \A k \in c..m - 1 : cs[k] = <<>>

\* Chunks are counted as their elements are.
LEMMA HeldCounts ==
    ASSUME NEW cs \in ChunkLists, NEW a \in 1..Len(cs) + 1, NEW b \in 0..Len(cs)
    PROVE  Held(cs, a, b) = Len(Through(cs, b)) - Len(Through(cs, a - 1))
<1>0. PICK n \in Nat : n = Len(cs) /\ DOMAIN cs = 1..n /\ cs \in Seq(Seq(ChunkElems))
    BY DEF ChunkLists
<1>. DEFINE sizes == [c \in DOMAIN cs |-> Len(cs[c])]
            f == CHOOSE g : Sums(g, sizes, n)
            T(c) == Len(Through(cs, c))
<1>1. /\ \A c \in 0..n : T(c) \in Nat
      /\ T(0) = 0
      /\ \A c \in 1..n : Len(cs[c]) \in Nat /\ T(c) = T(c - 1) + Len(cs[c])
    BY <1>0, ThroughCounts, Zenon
<1>2. Held(cs, a, b) = f[b] - f[a - 1]
    BY <1>0, Zenon DEF Held, Sums
<1>3. sizes \in Seq(Int) /\ Len(sizes) = n /\ \A c \in 1..n : sizes[c] = Len(cs[c])
    BY <1>0, <1>1
<1>. HIDE DEF sizes, T
<1>4. Sums(f, sizes, n)
  <2>1. n \in 0..Len(sizes)
    BY <1>3
  <2>. QED
    BY <1>3, <2>1, SumsExist, Zenon
<1>. HIDE DEF f
<1>5. f[0] = 0 /\ \A i \in 1..n : f[i] = f[i - 1] + sizes[i]
    BY <1>4, SumsFacts, Zenon
<1>. DEFINE N == {k \in Nat : k <= n => f[k] = T(k)}
<1>6. 0 \in N
    BY <1>1, <1>5
<1>7. ASSUME NEW k \in Nat, k \in N PROVE k + 1 \in N
  <2>. SUFFICES ASSUME k + 1 <= n PROVE f[k + 1] = T(k + 1)
    OBVIOUS
  <2>1. k + 1 \in 1..n /\ (k + 1) - 1 = k /\ k <= n
    OBVIOUS
  <2>2. f[k] = T(k)
    BY <1>7, <2>1
  <2>3. f[k + 1] = f[k] + sizes[k + 1] /\ T(k + 1) = T(k) + Len(cs[k + 1]) /\ sizes[k + 1] = Len(cs[k + 1])
    BY <1>1, <1>3, <1>5, <2>1, Zenon
  <2>. QED
    BY <2>2, <2>3, Zenon
<1>. HIDE DEF N
<1>8. Nat \subseteq N
    BY <1>6, <1>7, SetInduction, Zenon
<1>9. a - 1 \in Nat /\ a - 1 <= n /\ b \in Nat /\ b <= n
    BY <1>0
<1>10. f[a - 1] = T(a - 1) /\ f[b] = T(b)
    BY <1>8, <1>9, Zenon DEF N
<1>. QED
    BY <1>2, <1>10, Zenon DEF T

\* size counts the elements.
LEMMA SizeCounts ==
    ASSUME NEW cs \in ChunkLists
    PROVE  /\ ListSize(cs) = Len(FlattenSeq(cs)) /\ ListSize(cs) \in Nat
           /\ FlattenSeq(cs) \in Seq(ChunkElems)
<1>1. cs \in Seq(Seq(ChunkElems))
    BY Zenon DEF ChunkLists
<1>2. 1 \in 1..Len(cs) + 1 /\ Len(cs) \in 0..Len(cs) /\ 1 - 1 = 0
    BY <1>1
<1>3. ListSize(cs) = Len(Through(cs, Len(cs))) - Len(Through(cs, 0))
    BY <1>2, HeldCounts, Zenon DEF ListSize
<1>4. Through(cs, Len(cs)) = FlattenSeq(cs)
    BY <1>1, ThroughEnds, Zenon
<1>5. Len(Through(cs, Len(cs))) \in Nat /\ Len(Through(cs, 0)) = 0
    BY <1>1, <1>2, ThroughCounts, Zenon
<1>6. FlattenSeq(cs) \in Seq(ChunkElems)
    BY <1>1, FlattenFacts, Zenon
<1>. QED
    BY <1>3, <1>4, <1>5, <1>6

\* adjust looks for the next chunk that has elements.
LEMMA FirstFound ==
    ASSUME NEW cs \in ChunkLists, NEW c \in 1..Len(cs) + 1
    PROVE  FirstAt(cs, c, FirstFrom(cs, c))
<1>0. PICK n \in Nat : n = Len(cs)
    BY DEF ChunkLists
<1>. DEFINE filled == {k \in c..n : cs[k] # <<>>}
<1>1. CASE filled = {}
  <2>1. \A k \in c..n : cs[k] = <<>>
    BY <1>1
  <2>2. FirstFrom(cs, c) = ListEnd(cs)
    BY <1>0, <1>1, Zenon DEF FirstFrom
  <2>. QED
    BY <1>0, <2>1, <2>2, Zenon DEF FirstAt
<1>2. CASE filled # {}
  <2>1. filled \subseteq Nat
    BY <1>0
  <2>2. \E m \in filled : \A k \in filled : m <= k
    BY <1>2, <2>1, Least, Zenon
  <2>3. FirstFrom(cs, c) = <<Min(filled), 1>>
    BY <1>0, <1>2, Zenon DEF FirstFrom
  <2>4. PICK m : m = Min(filled)
    OBVIOUS
  <2>5. m \in filled /\ \A k \in filled : m <= k
    BY <2>2, <2>4, Zenon DEF Min
  <2>6. m \in c..n /\ cs[m] # <<>> /\ m \in Nat
    BY <2>5, <2>1
  <2>7. ASSUME NEW k \in c..m - 1 PROVE cs[k] = <<>>
    <3>1. k \in c..n /\ ~(m <= k)
      BY <1>0, <2>6
    <3>2. k \notin filled
      BY <2>5, <3>1, Zenon
    <3>. QED
      BY <3>1, <3>2
  <2>8. FirstFrom(cs, c) = <<m, 1>>
    BY <2>3, <2>4, Zenon
  <2>. HIDE DEF filled
  <2>. QED
    BY <1>0, <2>6, <2>7, <2>8, Zenon DEF FirstAt
<1>. QED
    BY <1>1, <1>2, Zenon

\* begin passes over the empty chunks.
LEMMA BeginFound ==
    ASSUME NEW cs \in ChunkLists
    PROVE  FirstAt(cs, 1, ListBegin(cs))
<1>0. PICK n \in Nat : n = Len(cs) /\ (cs = <<>> <=> n = 0) /\ \A k \in 1..n : Len(cs[k]) \in Nat /\ (cs[k] = <<>> <=> Len(cs[k]) = 0)
    BY DEF ChunkLists
<1>1. CASE n = 0
  <2>1. \A k \in 1..n : FALSE
    BY <1>1
  <2>. QED
    BY <1>0, <1>1, <2>1, Zenon DEF FirstAt, ListBegin
<1>2. CASE n # 0 /\ cs[1] # <<>>
  <2>1. 1 \in 1..n /\ 1..1 - 1 = {} /\ ~(1 > Len(cs[1]))
    BY <1>0, <1>2
  <2>2. Adjust(cs, <<1, 1>>) = <<1, 1>>
    BY <2>1 DEF Adjust
  <2>3. ListBegin(cs) = <<1, 1>>
    BY <1>0, <1>2, <2>2, Zenon DEF ListBegin
  <2>. QED
    BY <1>0, <1>2, <2>1, <2>3, Zenon DEF FirstAt
<1>3. CASE n # 0 /\ cs[1] = <<>>
  <2>1. 1 \in 1..n /\ 1 <= Len(cs) /\ 1 > Len(cs[1]) /\ 1 + 1 = 2 /\ 2 \in 1..Len(cs) + 1
    BY <1>0, <1>3
  <2>2. Adjust(cs, <<1, 1>>) = FirstFrom(cs, 2)
    BY <2>1 DEF Adjust
  <2>3. ListBegin(cs) = FirstFrom(cs, 2)
    BY <1>0, <1>3, <2>2, Zenon DEF ListBegin
  <2>4. FirstAt(cs, 2, ListBegin(cs))
    BY <2>1, <2>3, FirstFound, Zenon
  <2>5. \A m \in 1..n + 1 : \A k \in 1..m - 1 : k = 1 \/ k \in 2..m - 1
    OBVIOUS
  <2>6. \A k \in 1..n : k = 1 \/ k \in 2..n
    OBVIOUS
  <2>7. \A m \in 2..n : m \in 1..n /\ m \in 1..n + 1
    OBVIOUS
  <2>. QED
    BY <1>0, <1>3, <2>4, <2>5, <2>6, <2>7, Zenon DEF FirstAt
<1>. QED
    BY <1>2, <1>1, <1>3, Zenon

\* The first element from chunk c on has the index after those before c.
LEMMA FirstIndex ==
    ASSUME NEW cs \in ChunkLists, NEW c \in 1..Len(cs) + 1, NEW p, FirstAt(cs, c, p)
    PROVE  AtIndex(cs, p, Len(Through(cs, c - 1)) + 1)
<1>0. PICK n \in Nat : n = Len(cs) /\ cs \in Seq(Seq(ChunkElems)) /\ c - 1 \in 0..n /\ (c - 1) + 1 = c
    BY DEF ChunkLists
<1>1. CASE p = ListEnd(cs) /\ \A k \in c..Len(cs) : cs[k] = <<>>
  <2>1. n \in c - 1..Len(cs) /\ c - 1 \in 0..Len(cs)
    BY <1>0
  <2>2. \A k \in (c - 1) + 1..n : cs[k] = <<>>
    BY <1>0, <1>1
  <2>3. Through(cs, n) = Through(cs, c - 1)
    BY <1>0, <2>1, <2>2, ThroughEmpty, Zenon
  <2>4. Through(cs, n) = FlattenSeq(cs)
    BY <1>0, ThroughEnds, Zenon
  <2>. QED
    BY <1>1, <2>3, <2>4, Zenon DEF AtIndex
<1>2. CASE \E m \in c..Len(cs) : p = <<m, 1>> /\ cs[m] # <<>> /\ \A k \in c..m - 1 : cs[k] = <<>>
  <2>0. PICK m \in c..Len(cs) : p = <<m, 1>> /\ cs[m] # <<>> /\ \A k \in c..m - 1 : cs[k] = <<>>
    BY <1>2, Zenon
  <2>1. m - 1 \in c - 1..Len(cs) /\ c - 1 \in 0..Len(cs) /\ m \in 1..Len(cs)
    BY <1>0
  <2>2. \A k \in (c - 1) + 1..m - 1 : cs[k] = <<>>
    BY <1>0, <2>0
  <2>3. Through(cs, m - 1) = Through(cs, c - 1)
    BY <1>0, <2>1, <2>2, ThroughEmpty, Zenon
  <2>4. 1 \in 1..Len(cs[m])
    BY <1>0, <2>0, <2>1
  <2>. QED
    BY <2>0, <2>1, <2>3, <2>4, Zenon DEF AtIndex
<1>. QED
    BY <1>1, <1>2, Zenon DEF FirstAt

\* adjust makes a position of a place in a chunk or behind its last element.
LEMMA AdjustedIndex ==
    ASSUME NEW cs \in ChunkLists, NEW c \in 1..Len(cs), NEW j \in 1..Len(cs[c]) + 1
    PROVE  AtIndex(cs, Adjust(cs, <<c, j>>), Len(Through(cs, c - 1)) + j)
<1>0. PICK n \in Nat, l \in Nat : n = Len(cs) /\ l = Len(cs[c]) /\ c \in 1..n /\ j \in 1..l + 1
  <2>1. Len(cs) \in Nat /\ Len(cs[c]) \in Nat
    BY DEF ChunkLists
  <2>. QED
    BY <2>1, Zenon
<1>1. <<c, j>>[1] = c /\ <<c, j>>[2] = j
    OBVIOUS
<1>2. CASE j \in 1..l
  <2>1. ~(j > l)
    BY <1>2
  <2>2. Adjust(cs, <<c, j>>) = <<c, j>>
    BY <1>0, <1>1, <2>1, Zenon DEF Adjust
  <2>. QED
    BY <1>0, <1>2, <2>2, Zenon DEF AtIndex
<1>3. CASE j = l + 1
  <2>1. c <= n /\ j > l /\ c + 1 \in 1..Len(cs) + 1 /\ (c + 1) - 1 = c
    BY <1>0, <1>3
  <2>2. Adjust(cs, <<c, j>>) = FirstFrom(cs, c + 1)
    BY <1>0, <1>1, <2>1, Zenon DEF Adjust
  <2>3. AtIndex(cs, FirstFrom(cs, c + 1), Len(Through(cs, c)) + 1)
    BY <2>1, FirstFound, FirstIndex
  <2>4. Len(Through(cs, c)) = Len(Through(cs, c - 1)) + l /\ Len(Through(cs, c - 1)) \in Nat
    <3>1. cs \in Seq(Seq(ChunkElems)) /\ c - 1 \in 0..Len(cs)
      BY <1>0 DEF ChunkLists
    <3>. QED
      BY <1>0, <3>1, ThroughCounts, Zenon
  <2>5. Len(Through(cs, c)) + 1 = Len(Through(cs, c - 1)) + j
    <3>1. PICK t, u : t \in Nat /\ t = Len(Through(cs, c - 1)) /\ u = Len(Through(cs, c)) /\ u = t + l
      BY <2>4, Zenon
    <3>2. u = t + l /\ j = l + 1 /\ l \in Nat /\ t \in Nat
      BY <1>0, <1>3, <3>1, Zenon
    <3>3. u + 1 = t + j
      BY <3>2
    <3>. QED
      BY <3>1, <3>3, Zenon
  <2>. QED
    BY <2>2, <2>3, <2>5, Zenon
<1>4. j \in 1..l \/ j = l + 1
    BY <1>0
<1>. QED
    BY <1>2, <1>3, <1>4, Zenon

\* Counting from the beginning gives the index of a position.
LEMMA DistanceCounted ==
    ASSUME NEW cs \in ChunkLists, NEW p, NEW i, AtIndex(cs, p, i)
    PROVE  Distance(cs, ListBegin(cs), p) \in Int /\ Distance(cs, ListBegin(cs), p) + 1 = i
<1>0. PICK n \in Nat : n = Len(cs) /\ cs \in Seq(Seq(ChunkElems))
    BY DEF ChunkLists
<1>. DEFINE T(x) == Len(Through(cs, x))
<1>1. /\ \A c \in 0..n : T(c) \in Nat
      /\ T(0) = 0
      /\ \A c \in 1..n : Len(cs[c]) \in Nat /\ T(c) = T(c - 1) + Len(cs[c])
    BY <1>0, ThroughCounts, Zenon
<1>2. T(n) = Len(FlattenSeq(cs))
    BY <1>0, ThroughEnds, Zenon
<1>3. \A a \in 1..n + 1, b \in 0..n : Held(cs, a, b) = T(b) - T(a - 1)
    BY <1>0, HeldCounts, Zenon
<1>. DEFINE b == ListBegin(cs)
<1>4. FirstAt(cs, 1, b)
    BY BeginFound, Zenon
<1>5. SUFFICES Distance(cs, b, p) \in Int /\ Distance(cs, b, p) + 1 = i
    BY Zenon
<1>. HIDE DEF b
<1>6. CASE b = ListEnd(cs) /\ \A k \in 1..n : cs[k] = <<>>
  <2>1. b[1] > Len(cs)
    BY <1>0, <1>6 DEF ListEnd
  <2>2. Distance(cs, b, p) = 0
    BY <2>1 DEF Distance
  <2>3. \A k \in 1..n : 1..Len(cs[k]) = {}
    BY <1>6
  <2>4. i = Len(FlattenSeq(cs)) + 1
    BY <1>0, <2>3, Zenon DEF AtIndex
  <2>5. AtIndex(cs, b, T(0) + 1)
    <3>1. 1 \in 1..Len(cs) + 1 /\ 1 - 1 = 0
      BY <1>0
    <3>. QED
      BY <1>4, <3>1, FirstIndex, Zenon
  <2>6. T(0) + 1 = Len(FlattenSeq(cs)) + 1
    BY <1>0, <2>3, <2>5, Zenon DEF AtIndex
  <2>7. 0 \in Int /\ 0 + 1 = i
    <3>. HIDE DEF T
    <3>1. 0 + 1 = i
      BY <1>1, <2>4, <2>6, Zenon
    <3>. QED
      BY <3>1
  <2>. QED
    BY <2>2, <2>7, Zenon
<1>7. CASE \E m \in 1..n : b = <<m, 1>> /\ cs[m] # <<>> /\ \A k \in 1..m - 1 : cs[k] = <<>>
  <2>1. PICK m \in 1..n : b = <<m, 1>> /\ cs[m] # <<>> /\ \A k \in 1..m - 1 : cs[k] = <<>>
    BY <1>7, Zenon
  <2>2. T(m - 1) = 0
    <3>1. 0 \in 0..Len(cs) /\ m - 1 \in 0..Len(cs) /\ 0 + 1 = 1
      BY <1>0
    <3>2. Through(cs, m - 1) = Through(cs, 0)
      BY <1>0, <2>1, <3>1, ThroughEmpty
    <3>. QED
      BY <1>1, <3>2, Zenon
  <2>3. b[1] = m /\ b[2] = 1 /\ ~(m > n)
    BY <2>1
  <2>4. T(m) = Len(cs[m]) /\ Len(cs[m]) \in Nat /\ m + 1 \in 1..n + 1 /\ (m + 1) - 1 = m
    <3>. HIDE DEF T
    <3>1. Len(cs[m]) \in Nat /\ T(m) = 0 + Len(cs[m])
      BY <1>1, <2>2, Zenon
    <3>2. 0 + Len(cs[m]) = Len(cs[m])
      BY <3>1
    <3>. QED
      BY <3>1, <3>2
  <2>5. CASE \E c \in 1..n : \E j \in 1..Len(cs[c]) : p = <<c, j>> /\ i = T(c - 1) + j
    <3>0. PICK c \in 1..n : \E j \in 1..Len(cs[c]) : p = <<c, j>> /\ i = T(c - 1) + j
      BY <2>5, Zenon
    <3>1. PICK j \in 1..Len(cs[c]) : p = <<c, j>> /\ i = T(c - 1) + j
      BY <3>0, Zenon
    <3>2. p[1] = c /\ p[2] = j /\ c <= n
      BY <3>1
    <3>3. CASE c = m
      <4>1. Distance(cs, b, p) = j - 1
        BY <1>0, <2>3, <3>2, <3>3, Zenon DEF Distance
      <4>2. i = 0 + j /\ j \in Int
        BY <2>2, <3>1, <3>3
      <4>3. j - 1 \in Int /\ (j - 1) + 1 = i
        BY <4>2
      <4>. QED
        BY <4>1, <4>3, Zenon
    <3>4. CASE c > m
      <4>1. c - 1 \in 0..n /\ c # m
        BY <3>4
      <4>2. Distance(cs, b, p) = (Len(cs[m]) + 1 - 1) + Held(cs, m + 1, c - 1) + (j - 1)
        BY <1>0, <2>3, <3>2, <4>1, Zenon DEF Distance
      <4>3. Held(cs, m + 1, c - 1) = T(c - 1) - T(m) /\ T(c - 1) \in Nat
        BY <1>1, <1>3, <2>4, <4>1, Zenon
      <4>4. Distance(cs, b, p) \in Int /\ Distance(cs, b, p) + 1 = T(c - 1) + j
        <5>. HIDE DEF T
        <5>1. PICK l \in Nat, t \in Nat : l = Len(cs[m]) /\ T(m) = l /\ t = T(c - 1)
          BY <2>4, <4>3, Zenon
        <5>2. Distance(cs, b, p) = (l + 1 - 1) + (t - l) + (j - 1)
          BY <4>2, <4>3, <5>1, Zenon
        <5>3. j \in Int
          BY <3>1
        <5>4. (l + 1 - 1) + (t - l) + (j - 1) \in Int /\ ((l + 1 - 1) + (t - l) + (j - 1)) + 1 = t + j
          BY <5>3
        <5>. QED
          BY <5>1, <5>2, <5>4, Zenon
      <4>. QED
        BY <3>1, <4>4, Zenon
    <3>5. c = m \/ c > m
      <4>1. c < m => c \in 1..m - 1
        OBVIOUS
      <4>2. c < m => 1..Len(cs[c]) = {}
        BY <2>1, <4>1
      <4>. QED
        BY <3>1, <4>2
    <3>. QED
      BY <3>3, <3>4, <3>5, Zenon
  <2>6. CASE p = ListEnd(cs) /\ i = Len(FlattenSeq(cs)) + 1
    <3>1. p[1] = n + 1 /\ m # n + 1 /\ ~(n + 1 <= n) /\ (n + 1) - 1 = n /\ n \in 0..n
      BY <1>0, <2>6 DEF ListEnd
    <3>2. Distance(cs, b, p) = (Len(cs[m]) + 1 - 1) + Held(cs, m + 1, n) + 0
      BY <1>0, <2>3, <3>1, Zenon DEF Distance
    <3>3. Held(cs, m + 1, n) = T(n) - T(m) /\ T(n) \in Nat
      BY <1>1, <1>3, <2>4, <3>1, Zenon
    <3>4. Distance(cs, b, p) \in Int /\ Distance(cs, b, p) + 1 = T(n) + 1
      <4>. HIDE DEF T
      <4>1. PICK l \in Nat, t \in Nat : l = Len(cs[m]) /\ T(m) = l /\ t = T(n)
        BY <2>4, <3>3, Zenon
      <4>2. Distance(cs, b, p) = (l + 1 - 1) + (t - l) + 0
        BY <3>2, <3>3, <4>1, Zenon
      <4>3. (l + 1 - 1) + (t - l) + 0 \in Int /\ ((l + 1 - 1) + (t - l) + 0) + 1 = t + 1
        OBVIOUS
      <4>. QED
        BY <4>1, <4>2, <4>3, Zenon
    <3>. QED
      BY <1>2, <2>6, <3>4, Zenon
  <2>. QED
    BY <1>0, <2>5, <2>6, Zenon DEF AtIndex
<1>. QED
    BY <1>0, <1>4, <1>6, <1>7, Zenon DEF FirstAt

\* So a position counts as its index.
LEMMA IndexCounted ==
    ASSUME NEW cs \in ChunkLists, NEW p, NEW i, AtIndex(cs, p, i)
    PROVE  IndexOf(cs, p) = i
BY DistanceCounted, Zenon DEF IndexOf

\* No chunk has more elements than it has room for.
WellChunked(cs) == cs \in ChunkLists /\ \A c \in 1..Len(cs) : Len(cs[c]) <= ChunkSize

\* The last chunk takes an element: it becomes the last one of the list.
LEMMA LastGains ==
    ASSUME NEW cs, WellChunked(cs), Len(cs) # 0, ~IsFull(Last(cs)), NEW v \in ChunkElems
    PROVE  WellChunked(LastGets(cs, v)) /\ FlattenSeq(LastGets(cs, v)) = Append(FlattenSeq(cs), v)
<1>0. PICK n \in Nat : n = Len(cs) /\ n \in 1..Len(cs) /\ cs \in Seq(Seq(ChunkElems))
    BY DEF WellChunked, ChunkLists
<1>1. PICK x : x = Append(cs[n], v)
    OBVIOUS
<1>2. /\ cs[n] \in Seq(ChunkElems) /\ x \in Seq(ChunkElems) /\ Len(x) = Len(cs[n]) + 1
      /\ Len(cs[n]) \in Nat
    BY <1>0, <1>1
<1>3. PICK ds : ds = LastGets(cs, v)
    OBVIOUS
<1>4. ds = [cs EXCEPT ![n] = x]
    BY <1>0, <1>1, <1>3, Zenon DEF LastGets
<1>5. ds \in Seq(Seq(ChunkElems)) /\ Replaced(ds, cs, n, x)
    BY <1>0, <1>2, <1>4, OneReplaced, Zenon
<1>6. Len(x) <= ChunkSize
  <2>1. Len(cs[n]) <= ChunkSize /\ Len(cs[n]) # ChunkSize
    BY <1>0, Zenon DEF WellChunked, IsFull, Last
  <2>. QED
    BY <1>2, <2>1, ChunkAssumption
<1>7. WellChunked(ds)
  <2>1. Len(ds) = Len(cs) /\ ds[n] = x /\ \A k \in 1..Len(cs) : k # n => ds[k] = cs[k]
    BY <1>5, Zenon DEF Replaced
  <2>. QED
    BY <1>5, <1>6, <2>1, Zenon DEF WellChunked, ChunkLists
<1>8. FlattenSeq(ds) = Append(FlattenSeq(cs), v)
  <2>1. FlattenSeq(ds) = Through(cs, n - 1) \o (x \o Behind(cs, n))
    BY <1>5, Zenon DEF Replaced
  <2>2. Behind(cs, n) = <<>> /\ Through(cs, n) = FlattenSeq(cs)
    BY <1>0, ThroughEnds, Zenon
  <2>3. x \o <<>> = x
    BY <1>2, ConcatEmptySeq, Zenon
  <2>4. n - 1 \in 0..Len(cs)
    BY <1>0
  <2>5. Through(cs, n - 1) \in Seq(ChunkElems)
    BY <1>0, <2>4, ThroughFacts, Zenon
  <2>6. Through(cs, n - 1) \o Append(cs[n], v) = Append(Through(cs, n - 1) \o cs[n], v)
    <3>1. PICK a \in Seq(ChunkElems), b \in Seq(ChunkElems) : a = Through(cs, n - 1) /\ b = cs[n]
      BY <1>2, <2>5, Zenon
    <3>2. a \o Append(b, v) = Append(a \o b, v)
      BY AppendBehind
    <3>. QED
      BY <3>1, <3>2, Zenon
  <2>7. Through(cs, n) = Through(cs, n - 1) \o cs[n]
    BY <1>0, ThroughNext, Zenon
  <2>. QED
    BY <1>1, <2>1, <2>2, <2>3, <2>6, <2>7, Zenon
<1>. QED
    BY <1>3, <1>7, <1>8, Zenon

\* A new chunk has no elements and room for some.
LEMMA ChunkAdded ==
    ASSUME NEW cs, WellChunked(cs), NEW ds, ds = Append(cs, <<>>)
    PROVE  /\ WellChunked(ds) /\ Len(ds) # 0 /\ ~IsFull(Last(ds)) /\ FlattenSeq(ds) = FlattenSeq(cs)
           /\ Len(ds) = Len(cs) + 1 /\ ds[Len(cs) + 1] = <<>> /\ Through(ds, Len(cs)) = FlattenSeq(cs)
<1>0. cs \in Seq(Seq(ChunkElems)) /\ <<>> \in Seq(ChunkElems) /\ Len(<<>>) = 0 /\ Len(cs) \in Nat
    BY DEF WellChunked, ChunkLists
<1>1. /\ ds \in Seq(Seq(ChunkElems)) /\ Len(ds) = Len(cs) + 1 /\ ds[Len(cs) + 1] = <<>>
      /\ \A k \in 1..Len(cs) : ds[k] = cs[k]
      /\ Through(ds, Len(cs)) = FlattenSeq(cs) /\ FlattenSeq(ds) = FlattenSeq(cs) \o <<>>
  <2>1. PICK e \in Seq(ChunkElems) : e = <<>>
    BY <1>0, Zenon
  <2>2. ds = Append(cs, e)
    BY <2>1, Zenon
  <2>3. ds \in Seq(Seq(ChunkElems)) /\ OneMore(ds, cs, e)
    BY <1>0, <2>2, OneAppended, Zenon
  <2>. QED
    BY <2>1, <2>3, Zenon DEF OneMore
<1>2. FlattenSeq(cs) \o <<>> = FlattenSeq(cs)
  <2>1. FlattenSeq(cs) \in Seq(ChunkElems)
    BY <1>0, FlattenFacts, Zenon
  <2>. QED
    BY <2>1, ConcatEmptySeq, Zenon
<1>3. ASSUME NEW c \in 1..Len(ds) PROVE Len(ds[c]) <= ChunkSize
  <2>1. c \in 1..Len(cs) \/ c = Len(cs) + 1
    BY <1>0, <1>1
  <2>2. 0 <= ChunkSize
    BY ChunkAssumption
  <2>. QED
    BY <1>0, <1>1, <2>1, <2>2, Zenon DEF WellChunked
<1>4. ~IsFull(Last(ds))
  <2>1. 0 # ChunkSize
    BY ChunkAssumption
  <2>. QED
    BY <1>0, <1>1, <2>1, Zenon DEF IsFull, Last
<1>5. Len(ds) # 0
    BY <1>0, <1>1
<1>. QED
    BY <1>1, <1>2, <1>3, <1>4, <1>5, Zenon DEF WellChunked, ChunkLists

\* Whichever chunk takes it, an element comes behind all others.
Appended(ds, cs, v) == WellChunked(ds) /\ FlattenSeq(ds) = Append(FlattenSeq(cs), v)

LEMMA PushAppends ==
    ASSUME NEW cs, WellChunked(cs), NEW v \in ChunkElems
    PROVE  Appended(ChunkPushed(cs, v), cs, v) /\ Appended(GrownByOne(cs, v), cs, v)
<1>1. cs \in Seq(Seq(ChunkElems)) /\ (Len(cs) = 0 <=> cs = <<>>)
    BY DEF WellChunked, ChunkLists
<1>. DEFINE ds == Append(cs, <<>>)
<1>2. /\ WellChunked(ds) /\ Len(ds) # 0 /\ ~IsFull(Last(ds)) /\ FlattenSeq(ds) = FlattenSeq(cs)
    BY ChunkAdded, Zenon
<1>. HIDE DEF ds
<1>3. Appended(LastGets(ds, v), cs, v)
    BY <1>2, LastGains, Zenon DEF Appended
<1>4. Len(cs) # 0 /\ ~IsFull(Last(cs)) => Appended(LastGets(cs, v), cs, v)
    BY LastGains, Zenon DEF Appended
<1>5. Appended(ChunkPushed(cs, v), cs, v)
  <2>1. ListSize(cs) # 0 => Len(cs) # 0
    <3>1. cs = <<>> => FlattenSeq(cs) = <<>>
      BY <1>1, FlattenFacts, Zenon
    <3>2. ListSize(cs) = Len(FlattenSeq(cs)) /\ Len(<<>>) = 0
      BY SizeCounts DEF WellChunked
    <3>. QED
      BY <1>1, <3>1, <3>2, Zenon
  <2>2. CASE ListSize(cs) = 0 \/ IsFull(Last(cs))
    BY <1>3, <2>2, Zenon DEF ChunkPushed, ds
  <2>3. CASE ~(ListSize(cs) = 0 \/ IsFull(Last(cs)))
    BY <1>4, <2>1, <2>3, Zenon DEF ChunkPushed
  <2>. QED
    BY <2>2, <2>3, Zenon
<1>6. Appended(GrownByOne(cs, v), cs, v)
  <2>2. CASE cs = <<>> \/ IsFull(Last(cs))
    BY <1>3, <2>2, Zenon DEF GrownByOne, ds
  <2>3. CASE ~(cs = <<>> \/ IsFull(Last(cs)))
    BY <1>1, <1>4, <2>3, Zenon DEF GrownByOne
  <2>. QED
    BY <2>2, <2>3, Zenon
<1>. QED
    BY <1>5, <1>6, Zenon

\* The chunk lists that hold no more than they have room for.
ListsInChunks == {cs \in ChunkLists : WellChunked(cs)}

\* One element after the other is appended.
Appending(f, b, vs) ==
    f[0] = b /\ \A i \in 1..Len(vs) : WellChunked(f[i - 1]) => Appended(f[i], f[i - 1], vs[i])

LEMMA AllAppended ==
    ASSUME NEW b, WellChunked(b), NEW vs \in Seq(ChunkElems), NEW f, Appending(f, b, vs)
    PROVE  WellChunked(f[Len(vs)]) /\ FlattenSeq(f[Len(vs)]) = FlattenSeq(b) \o vs
<1>0. PICK n \in Nat : n = Len(vs)
    OBVIOUS
<1>. DEFINE Begins(k) == WellChunked(f[k]) /\ FlattenSeq(f[k]) = FlattenSeq(b) \o SubSeq(vs, 1, k)
            N == {k \in Nat : k <= n => Begins(k)}
<1>1. f[0] = b /\ \A i \in 1..n : WellChunked(f[i - 1]) => Appended(f[i], f[i - 1], vs[i])
    BY <1>0, Zenon DEF Appending
<1>2. FlattenSeq(b) \in Seq(ChunkElems)
  <2>1. b \in Seq(Seq(ChunkElems))
    BY Zenon DEF WellChunked, ChunkLists
  <2>. QED
    BY <2>1, FlattenFacts, Zenon
<1>3. Begins(0)
  <2>1. SubSeq(vs, 1, 0) = <<>>
    BY BeginGrows, Zenon
  <2>2. FlattenSeq(b) \o <<>> = FlattenSeq(b)
    BY <1>2, ConcatEmptySeq, Zenon
  <2>. QED
    BY <1>1, <2>1, <2>2, Zenon
<1>. HIDE DEF Begins
<1>4. 0 \in N
    BY <1>3
<1>5. ASSUME NEW k \in Nat, k \in N PROVE k + 1 \in N
  <2>. SUFFICES ASSUME k + 1 <= n PROVE Begins(k + 1)
    OBVIOUS
  <2>1. /\ k <= n /\ k + 1 \in 1..n /\ (k + 1) - 1 = k /\ vs[k + 1] \in ChunkElems
        /\ k + 1 \in 1..Len(vs) /\ k \in 0..Len(vs)
    BY <1>0
  <2>2. Begins(k)
    BY <1>5, <2>1, Zenon
  <2>3. Appended(f[k + 1], f[k], vs[k + 1])
    BY <1>1, <2>1, <2>2, Zenon DEF Begins
  <2>6. WellChunked(f[k + 1]) /\ FlattenSeq(f[k + 1]) = Append(FlattenSeq(f[k]), vs[k + 1])
    BY <2>3, Zenon DEF Appended
  <2>7. SubSeq(vs, 1, k + 1) = Append(SubSeq(vs, 1, k), vs[k + 1])
    BY <2>1, BeginGrows, Zenon
  <2>8. SubSeq(vs, 1, k) \in Seq(ChunkElems)
    BY <2>1, BeginFacts, Zenon
  <2>9. FlattenSeq(b) \o Append(SubSeq(vs, 1, k), vs[k + 1])
          = Append(FlattenSeq(b) \o SubSeq(vs, 1, k), vs[k + 1])
    BY <1>2, <2>1, <2>8, AppendBehind
  <2>. QED
    BY <2>2, <2>6, <2>7, <2>9, Zenon DEF Begins
<1>. HIDE DEF N
<1>6. n \in N
    BY <1>4, <1>5, SetInduction, Zenon
<1>7. n <= n
    OBVIOUS
<1>8. Begins(n)
    BY <1>6, <1>7, Zenon DEF N
<1>9. SubSeq(vs, 1, Len(vs)) = vs
    BY BeginGrows, Zenon
<1>. QED
    BY <1>0, <1>8, <1>9, Zenon DEF Begins

\* resize appends what fills the list.
LEMMA GrownAppends ==
    ASSUME NEW cs, WellChunked(cs), NEW vs \in Seq(ChunkElems)
    PROVE  WellChunked(GrownBy(cs, vs)) /\ FlattenSeq(GrownBy(cs, vs)) = FlattenSeq(cs) \o vs
<1>. DEFINE step == [x \in ListsInChunks \X ChunkElems |-> GrownByOne(x[1], x[2])]
            FilledUp(f) == f = [i \in 0..Len(vs) |-> IF i = 0 THEN cs ELSE GrownByOne(f[i - 1], vs[i])]
            g == CHOOSE f : FilledUp(f)
<1>0. cs \in ListsInChunks
    BY Zenon DEF ListsInChunks, WellChunked
<1>1. ASSUME NEW b \in ListsInChunks, NEW v \in ChunkElems
      PROVE  GrownByOne(b, v) \in ListsInChunks /\ Appended(GrownByOne(b, v), b, v) /\ step[<<b, v>>] = GrownByOne(b, v)
  <2>1. Appended(GrownByOne(b, v), b, v)
    BY PushAppends, Zenon DEF ListsInChunks
  <2>. QED
    BY <2>1 DEF Appended, ListsInChunks, WellChunked
<1>2. step \in [ListsInChunks \X ChunkElems -> ListsInChunks]
    BY <1>1
<1>. HIDE DEF step
<1>4. \A i \in 1..Len(vs) : vs[i] \in ChunkElems
    OBVIOUS
<1>5. PICK h \in [0..Len(vs) -> ListsInChunks] : GoesOn(h, cs, step, vs, Len(vs))
    BY <1>0, <1>2, GoesOnExists, Zenon
<1>6. FilledUp(h)
  <2>1. ASSUME NEW i \in 0..Len(vs)
        PROVE  h[i] = IF i = 0 THEN cs ELSE GrownByOne(h[i - 1], vs[i])
    <3>1. i # 0 => i \in 1..Len(vs) /\ i - 1 \in 0..Len(vs)
      OBVIOUS
    <3>2. i # 0 => h[i - 1] \in ListsInChunks /\ vs[i] \in ChunkElems
      BY <1>4, <3>1
    <3>3. Len(vs) \in Nat
      OBVIOUS
    <3>4. StepByStep(h, cs, step, vs, Len(vs))
      BY <1>5, <3>3, GoesOnFacts, Zenon
    <3>. QED
      BY <1>1, <3>1, <3>2, <3>4, Zenon DEF StepByStep
  <2>2. h = [i \in 0..Len(vs) |-> h[i]]
    OBVIOUS
  <2>. QED
    BY <2>1, <2>2
<1>7. FilledUp(g)
    BY <1>6, Zenon
<1>8. GrownBy(cs, vs) = g[Len(vs)]
    BY Zenon DEF GrownBy
<1>9. Appending(g, cs, vs)
  <2>1. \A i \in 0..Len(vs) : g[i] = IF i = 0 THEN cs ELSE GrownByOne(g[i - 1], vs[i])
    BY <1>7, Zenon
  <2>2. 0 \in 0..Len(vs) /\ \A i \in 1..Len(vs) : i \in 0..Len(vs) /\ i # 0
    OBVIOUS
  <2>. HIDE DEF g
  <2>3. g[0] = cs /\ \A i \in 1..Len(vs) : g[i] = GrownByOne(g[i - 1], vs[i])
    BY <2>1, <2>2, Zenon
  <2>. QED
    BY <1>4, <2>3, PushAppends, Zenon DEF Appending
<1>. HIDE DEF g
<1>. QED
    BY <1>8, <1>9, AllAppended, Zenon

\* Chunks without elements make a list without elements.
LEMMA EmptyFlattens ==
    ASSUME NEW cs, cs \in ChunkLists, \A c \in 1..Len(cs) : cs[c] = <<>>
    PROVE  FlattenSeq(cs) = <<>>
<1>0. cs \in Seq(Seq(ChunkElems)) /\ Len(cs) \in Nat /\ Len(cs) \in 0..Len(cs) /\ 0 \in 0..Len(cs) /\ 0 + 1 = 1
    BY DEF ChunkLists
<1>1. Through(cs, Len(cs)) = Through(cs, 0)
    BY <1>0, ThroughEmpty
<1>. QED
    BY <1>0, <1>1, ThroughEnds, Zenon

\* assign clears the chunks and appends the elements.
LEMMA AssignedFacts ==
    ASSUME NEW cs, WellChunked(cs), NEW vs \in Seq(ChunkElems)
    PROVE  WellChunked(Assigned(cs, vs)) /\ FlattenSeq(Assigned(cs, vs)) = vs
<1>. DEFINE step == [x \in ListsInChunks \X ChunkElems |-> ChunkPushed(x[1], x[2])]
            b == Cleared(cs)
            Pushed(f) == f = [i \in 0..Len(vs) |-> IF i = 0 THEN b ELSE ChunkPushed(f[i - 1], vs[i])]
            g == CHOOSE f : Pushed(f)
<1>0. WellChunked(b) /\ b \in ListsInChunks /\ FlattenSeq(b) = <<>>
  <2>1. PICK n \in Nat : n = Len(cs) /\ DOMAIN cs = 1..n
    BY DEF WellChunked, ChunkLists
  <2>2. b = [c \in 1..n |-> <<>>]
    BY <2>1, Zenon DEF Cleared
  <2>3. b \in ChunkLists /\ Len(b) = n /\ \A c \in 1..n : b[c] = <<>>
    BY <2>2 DEF ChunkLists
  <2>. HIDE DEF b
  <2>4. Len(<<>>) = 0 /\ 0 <= ChunkSize
    BY ChunkAssumption
  <2>5. WellChunked(b)
    BY <2>3, <2>4, Zenon DEF WellChunked
  <2>6. FlattenSeq(b) = <<>>
    BY <2>3, EmptyFlattens
  <2>. QED
    BY <2>3, <2>5, <2>6, Zenon DEF ListsInChunks
<1>. HIDE DEF b
<1>1. ASSUME NEW l \in ListsInChunks, NEW v \in ChunkElems
      PROVE  ChunkPushed(l, v) \in ListsInChunks /\ step[<<l, v>>] = ChunkPushed(l, v)
  <2>1. Appended(ChunkPushed(l, v), l, v)
    BY PushAppends, Zenon DEF ListsInChunks
  <2>. QED
    BY <2>1 DEF Appended, ListsInChunks, WellChunked
<1>2. step \in [ListsInChunks \X ChunkElems -> ListsInChunks]
    BY <1>1
<1>. HIDE DEF step
<1>4. \A i \in 1..Len(vs) : vs[i] \in ChunkElems
    OBVIOUS
<1>5. PICK h \in [0..Len(vs) -> ListsInChunks] : GoesOn(h, b, step, vs, Len(vs))
    BY <1>0, <1>2, GoesOnExists, Zenon
<1>6. Pushed(h)
  <2>1. ASSUME NEW i \in 0..Len(vs)
        PROVE  h[i] = IF i = 0 THEN b ELSE ChunkPushed(h[i - 1], vs[i])
    <3>1. i # 0 => i \in 1..Len(vs) /\ i - 1 \in 0..Len(vs)
      OBVIOUS
    <3>2. i # 0 => h[i - 1] \in ListsInChunks /\ vs[i] \in ChunkElems
      BY <1>4, <3>1
    <3>3. Len(vs) \in Nat
      OBVIOUS
    <3>4. StepByStep(h, b, step, vs, Len(vs))
      BY <1>5, <3>3, GoesOnFacts, Zenon
    <3>. QED
      BY <1>1, <3>1, <3>2, <3>4, Zenon DEF StepByStep
  <2>2. h = [i \in 0..Len(vs) |-> h[i]]
    OBVIOUS
  <2>. QED
    BY <2>1, <2>2
<1>7. Pushed(g)
    BY <1>6, Zenon
<1>8. Assigned(cs, vs) = g[Len(vs)]
    BY Zenon DEF Assigned, b
<1>9. Appending(g, b, vs)
  <2>1. \A i \in 0..Len(vs) : g[i] = IF i = 0 THEN b ELSE ChunkPushed(g[i - 1], vs[i])
    BY <1>7, Zenon
  <2>2. 0 \in 0..Len(vs) /\ \A i \in 1..Len(vs) : i \in 0..Len(vs) /\ i # 0
    OBVIOUS
  <2>. HIDE DEF g
  <2>3. g[0] = b /\ \A i \in 1..Len(vs) : g[i] = ChunkPushed(g[i - 1], vs[i])
    BY <2>1, <2>2, Zenon
  <2>. QED
    BY <1>4, <2>3, PushAppends, Zenon DEF Appending
<1>. HIDE DEF g
<1>10. WellChunked(g[Len(vs)]) /\ FlattenSeq(g[Len(vs)]) = <<>> \o vs
    BY <1>0, <1>9, AllAppended
<1>11. <<>> \o vs = vs
    BY ConcatEmptySeq, Zenon
<1>. QED
    BY <1>8, <1>10, <1>11, Zenon

\* The last element is the last of the last chunk that has any.
LEMMA LastFound ==
    ASSUME NEW cs \in ChunkLists, FlattenSeq(cs) # <<>>
    PROVE  /\ LastFilled(cs) \in 1..Len(cs) /\ cs[LastFilled(cs)] # <<>>
           /\ Through(cs, LastFilled(cs)) = FlattenSeq(cs)
<1>0. PICK n \in Nat : n = Len(cs) /\ cs \in Seq(Seq(ChunkElems))
    BY DEF ChunkLists
<1>. DEFINE filled == {c \in 1..n : cs[c] # <<>>}
<1>2. filled # {} /\ filled \subseteq 1..n
    BY <1>0, EmptyFlattens
<1>3. PICK m : m = Max(filled) /\ m \in filled /\ \A k \in filled : m >= k
    BY <1>2, Greatest, Zenon DEF Max
<1>4. LastFilled(cs) = m
    BY <1>0, <1>3, Zenon DEF LastFilled
<1>5. /\ m \in 1..Len(cs) /\ m \in 1..n /\ cs[m] # <<>> /\ n \in m..Len(cs) /\ m \in 0..Len(cs)
    BY <1>0, <1>3
<1>6. \A k \in m + 1..n : cs[k] = <<>>
  <2>1. ASSUME NEW k \in m + 1..n PROVE k \in 1..n /\ ~(m >= k)
    BY <1>5
  <2>2. \A k \in m + 1..n : k \notin filled
    BY <1>3, <2>1, Zenon
  <2>. QED
    BY <2>1, <2>2
<1>. HIDE DEF filled
<1>7. Through(cs, m) = FlattenSeq(cs)
  <2>1. Through(cs, n) = Through(cs, m)
    BY <1>0, <1>5, <1>6, ThroughEmpty
  <2>. QED
    BY <1>0, <2>1, ThroughEnds, Zenon
<1>. QED
    BY <1>4, <1>5, <1>7, Zenon

\* pop_back takes the last element of the last chunk that has any.
LEMMA LastTaken ==
    ASSUME NEW cs, WellChunked(cs), ListSize(cs) > 0, NEW ds,
           ds = [cs EXCEPT ![LastFilled(cs)] = Front(@)]
    PROVE  /\ WellChunked(ds) /\ FlattenSeq(cs) # <<>>
           /\ FlattenSeq(ds) = SubSeq(FlattenSeq(cs), 1, Len(FlattenSeq(cs)) - 1)
<1>0. PICK n \in Nat : n = Len(cs) /\ cs \in ChunkLists /\ cs \in Seq(Seq(ChunkElems))
    BY DEF WellChunked, ChunkLists
<1>1. FlattenSeq(cs) # <<>> /\ FlattenSeq(cs) \in Seq(ChunkElems)
  <2>1. ListSize(cs) = Len(FlattenSeq(cs)) /\ FlattenSeq(cs) \in Seq(ChunkElems)
    BY <1>0, SizeCounts, Zenon
  <2>2. Len(FlattenSeq(cs)) > 0
    BY <2>1
  <2>. QED
    BY <2>1, <2>2
<1>4. PICK m : m = LastFilled(cs) /\ m \in 1..Len(cs) /\ cs[m] # <<>> /\ Through(cs, m) = FlattenSeq(cs)
    BY <1>0, <1>1, LastFound, Zenon
<1>5. m \in 1..n /\ m \in 0..Len(cs) /\ m - 1 \in 0..Len(cs)
    BY <1>0, <1>4
<1>8. Behind(cs, m) = <<>>
  <2>1. Behind(cs, m) \in Seq(ChunkElems) /\ FlattenSeq(cs) = FlattenSeq(cs) \o Behind(cs, m)
    BY <1>0, <1>4, <1>5, ThroughFacts, Zenon
  <2>2. FlattenSeq(cs) \o Behind(cs, m) = FlattenSeq(cs)
    BY <2>1, Zenon
  <2>. QED
    BY <1>1, <2>1, <2>2, ConcatEqualIffEmpty
<1>. DEFINE a == Through(cs, m - 1)
            x == cs[m]
            y == SubSeq(x, 1, Len(x) - 1) \o SubSeq(x, Len(x) + 1, Len(x))
            s == FlattenSeq(cs)
<1>9. a \in Seq(ChunkElems) /\ x \in Seq(ChunkElems) /\ s \in Seq(ChunkElems) /\ s = a \o (x \o <<>>)
      /\ <<>> \in Seq(ChunkElems)
  <2>1. cs[m] \in Seq(ChunkElems) /\ Through(cs, m - 1) \in Seq(ChunkElems)
    BY <1>0, <1>5, ThroughNext, ThroughFacts, Zenon
  <2>2. <<>> \in Seq(ChunkElems)
    OBVIOUS
  <2>. QED
    BY <1>0, <1>1, <1>5, <1>8, <2>1, <2>2, OneOfMany, Zenon
<1>. HIDE DEF a, s
<1>10. Len(x) \in 1..Len(x)
    BY <1>4, <1>9
<1>11. y \in Seq(ChunkElems) /\ WithoutAt(a \o (y \o <<>>), s, Len(a) + Len(x))
  <2>1. WithoutAt(y, x, Len(x))
    BY Zenon DEF WithoutAt
  <2>2. PICK e, i : e \in Seq(ChunkElems) /\ e = <<>> /\ i = Len(a) + Len(x)
    BY <1>9, Zenon
  <2>3. s = a \o (x \o e)
    BY <1>9, <2>2, Zenon
  <2>. HIDE DEF x, y
  <2>4. y \in Seq(ChunkElems) /\ WithoutAt(a \o (y \o e), s, i)
    BY <1>9, <1>10, <2>1, <2>2, <2>3, CutInPart, Zenon
  <2>. QED
    BY <2>2, <2>4, Zenon
<1>12. y = Front(x) /\ Len(y) <= Len(x)
  <2>1. SubSeq(x, Len(x) + 1, Len(x)) = <<>>
    BY <1>9
  <2>2. SubSeq(x, 1, Len(x) - 1) \in Seq(ChunkElems) /\ Len(SubSeq(x, 1, Len(x) - 1)) = Len(x) - 1
    BY <1>9, <1>10
  <2>3. SubSeq(x, 1, Len(x) - 1) \o <<>> = SubSeq(x, 1, Len(x) - 1)
    BY <2>2, ConcatEmptySeq, Zenon
  <2>4. Len(x) - 1 <= Len(x)
    BY <1>10
  <2>. QED
    BY <2>1, <2>2, <2>3, <2>4, Zenon DEF Front
<1>. HIDE DEF y
<1>13. ds = [cs EXCEPT ![m] = y]
    BY <1>4, <1>12, Zenon
<1>14. ds \in Seq(Seq(ChunkElems)) /\ Replaced(ds, cs, m, y)
    BY <1>0, <1>5, <1>11, <1>13, OneReplaced, Zenon
<1>15. WellChunked(ds)
  <2>1. Len(ds) = Len(cs) /\ ds[m] = y /\ \A k \in 1..Len(cs) : k # m => ds[k] = cs[k]
    BY <1>14, Zenon DEF Replaced
  <2>2. Len(x) <= ChunkSize
    BY <1>4, Zenon DEF WellChunked
  <2>3. Len(y) <= ChunkSize
    BY <1>9, <1>11, <1>12, <2>2, ChunkAssumption
  <2>. QED
    BY <1>14, <2>1, <2>3, Zenon DEF WellChunked, ChunkLists
<1>16. FlattenSeq(ds) = SubSeq(s, 1, Len(s) - 1)
  <2>1. FlattenSeq(ds) = a \o (y \o <<>>)
    BY <1>8, <1>14, Zenon DEF Replaced, a
  <2>2. Len(s) = Len(a) + Len(x)
  <3>1. x \o <<>> = x
    BY <1>9, ConcatEmptySeq, Zenon
  <3>. QED
    BY <1>9, <3>1, ConcatProperties, Zenon
  <2>3. Len(s) \in Nat
    BY <1>9
  <2>4. SubSeq(s, Len(s) + 1, Len(s)) = <<>>
    BY <1>9
  <2>5. SubSeq(s, 1, Len(s) - 1) \in Seq(ChunkElems)
    BY <1>9
  <2>6. SubSeq(s, 1, Len(s) - 1) \o <<>> = SubSeq(s, 1, Len(s) - 1)
    BY <2>5, ConcatEmptySeq, Zenon
  <2>. QED
    BY <1>11, <2>1, <2>2, <2>4, <2>6, Zenon DEF WithoutAt
<1>. QED
    BY <1>1, <1>15, <1>16, Zenon DEF s

\* Where an element can be put in, and the index that it gets there.
Insertable(es, c, j, cs, i) ==
    /\ WellChunked(es) /\ FlattenSeq(es) = FlattenSeq(cs)
    /\ c \in 1..Len(es) /\ j \in 1..Len(es[c]) + 1 /\ Len(es[c]) < ChunkSize
    /\ i = Len(Through(es, c - 1)) + j

\* Two sequences instead of one.
SplitInTwo(tt, ss, c, x, y) ==
    ss[c] = x \o y /\ tt = SubSeq(ss, 1, c - 1) \o <<x, y>> \o SubSeq(ss, c + 1, Len(ss))

HasTwoFor(tt, ss, c, x, y) ==
    /\ Len(tt) = Len(ss) + 1 /\ tt[c] = x /\ tt[c + 1] = y
    /\ \A k \in 1..c - 1 : tt[k] = ss[k]
    /\ \A k \in c + 2..Len(tt) : tt[k] = ss[k - 1]
    /\ FlattenSeq(tt) = FlattenSeq(ss)
    /\ Through(tt, c - 1) = Through(ss, c - 1) /\ Through(tt, c) = Through(ss, c - 1) \o x

LEMMA TwoForOne ==
    ASSUME NEW X, NEW ss \in Seq(Seq(X)), NEW c \in 1..Len(ss), NEW x \in Seq(X), NEW y \in Seq(X),
           NEW tt, SplitInTwo(tt, ss, c, x, y)
    PROVE  tt \in Seq(Seq(X)) /\ HasTwoFor(tt, ss, c, x, y)
<1>. DEFINE a == SubSeq(ss, 1, c - 1)
            m == <<x, y>>
            b == SubSeq(ss, c + 1, Len(ss))
            d == a \o m
<1>. USE DEF SplitInTwo
<1>0. PICK n \in Nat : n = Len(ss) /\ c \in 1..n
    OBVIOUS
<1>1. /\ c - 1 \in 0..Len(ss) /\ c + 1 \in 1..Len(ss) + 1 /\ Len(ss) \in (c + 1) - 1..Len(ss)
      /\ Len(ss) - (c + 1) + 1 = n - c /\ c \in 0..Len(ss)
      /\ \A i \in 1..n - c : (c + 1) + i - 1 = c + i
    BY <1>0
<1>2. a \in Seq(Seq(X)) /\ Len(a) = c - 1 /\ \A i \in 1..c - 1 : a[i] = ss[i]
    BY <1>1, BeginFacts, Zenon
<1>3. m \in Seq(Seq(X)) /\ Len(m) = 2 /\ m[1] = x /\ m[2] = y
    OBVIOUS
<1>4. b \in Seq(Seq(X)) /\ Len(b) = n - c /\ \A i \in 1..n - c : b[i] = ss[c + i]
  <2>1. /\ b \in Seq(Seq(X)) /\ Len(b) = Len(ss) - (c + 1) + 1
        /\ \A i \in 1..Len(ss) - (c + 1) + 1 : b[i] = ss[(c + 1) + i - 1]
    BY <1>1, PieceFacts
  <2>. HIDE DEF b
  <2>. QED
    BY <1>1, <2>1, Zenon
<1>5. FlattenSeq(m) = x \o y
  <2>1. m = Append(Append(<<>>, x), y) /\ Append(<<>>, x) \in Seq(Seq(X)) /\ <<>> \in Seq(Seq(X))
        /\ Len(<<>>) = 0
    OBVIOUS
  <2>2. FlattenSeq(<<>>) = <<>> /\ FlattenSeq(Append(<<>>, x)) = FlattenSeq(<<>>) \o x
    BY <2>1, FlattenFacts, Zenon
  <2>3. FlattenSeq(Append(Append(<<>>, x), y)) = FlattenSeq(Append(<<>>, x)) \o y
    BY <2>1, FlattenFacts, Zenon
  <2>4. <<>> \o x = x
    BY ConcatEmptySeq, Zenon
  <2>. HIDE DEF m
  <2>. QED
    BY <2>1, <2>2, <2>3, <2>4, Zenon
<1>6. tt = d \o b
    BY Zenon
<1>. HIDE DEF a, b, m
<1>7. d \in Seq(Seq(X)) /\ InARow(d, a, m) /\ FlattenSeq(d) = FlattenSeq(a) \o FlattenSeq(m)
    BY <1>2, <1>3, JoinFacts, FlattenJoined, Zenon
<1>. HIDE DEF d
<1>8. tt \in Seq(Seq(X)) /\ InARow(tt, d, b) /\ FlattenSeq(tt) = FlattenSeq(d) \o FlattenSeq(b)
    BY <1>4, <1>6, <1>7, JoinFacts, FlattenJoined, Zenon
<1>9. /\ Len(d) = c + 1 /\ (\A i \in 1..c - 1 : d[i] = ss[i]) /\ d[c] = x /\ d[c + 1] = y
  <2>1. Len(d) = (c - 1) + 2 /\ (\A i \in 1..c - 1 : d[i] = a[i]) /\ d[(c - 1) + 1] = m[1] /\ d[(c - 1) + 2] = m[2]
    <3>1. 1 \in 1..2 /\ 2 \in 1..2
      OBVIOUS
    <3>. QED
      BY <1>2, <1>3, <1>7, <3>1, Zenon DEF InARow
  <2>2. (c - 1) + 2 = c + 1 /\ (c - 1) + 1 = c
    OBVIOUS
  <2>. QED
    BY <1>2, <1>3, <2>1, <2>2, Zenon
<1>10. /\ Len(tt) = (c + 1) + (n - c) /\ (\A i \in 1..c + 1 : tt[i] = d[i])
       /\ \A i \in 1..n - c : tt[(c + 1) + i] = b[i]
    BY <1>4, <1>8, <1>9, Zenon DEF InARow
<1>11. /\ (c + 1) + (n - c) = n + 1 /\ c \in 1..c + 1 /\ c + 1 \in 1..c + 1
       /\ \A k \in 1..c - 1 : k \in 1..c + 1
       /\ \A k \in c + 2..n + 1 : k - (c + 1) \in 1..n - c /\ (c + 1) + (k - (c + 1)) = k /\ c + (k - (c + 1)) = k - 1
    BY <1>0
<1>11a. ASSUME NEW k \in c + 2..n + 1 PROVE tt[k] = ss[k - 1]
  <2>1. PICK i \in 1..n - c : (c + 1) + i = k /\ c + i = k - 1
    BY <1>11, Zenon
  <2>2. tt[(c + 1) + i] = b[i] /\ b[i] = ss[c + i]
    BY <1>4, <1>10, Zenon
  <2>. QED
    BY <2>1, <2>2, Zenon
<1>12. /\ Len(tt) = n + 1 /\ tt[c] = x /\ tt[c + 1] = y /\ (\A k \in 1..c - 1 : tt[k] = ss[k])
       /\ \A k \in c + 2..n + 1 : tt[k] = ss[k - 1]
    BY <1>9, <1>10, <1>11, <1>11a, Zenon
<1>13. Through(tt, c - 1) = Through(ss, c - 1)
  <2>1. c - 1 \in 0..Len(tt) /\ c - 1 <= Len(ss)
    <3>1. c - 1 \in 0..n + 1 /\ c - 1 <= n
      BY <1>0
    <3>. QED
      BY <1>0, <1>12, <3>1, Zenon
  <2>. QED
    BY <1>8, <1>12, <2>1, ThroughSame
<1>14. Through(tt, c) = Through(ss, c - 1) \o x
  <2>1. c \in 1..Len(tt)
    <3>1. c \in 1..n + 1
      BY <1>0
    <3>. QED
      BY <1>12, <3>1, Zenon
  <2>. QED
    BY <1>8, <1>12, <1>13, <2>1, ThroughNext, Zenon
<1>15. FlattenSeq(tt) = FlattenSeq(ss)
  <2>1. FlattenSeq(tt) = (Through(ss, c - 1) \o (x \o y)) \o Behind(ss, c)
    BY <1>5, <1>7, <1>8, Zenon DEF Through, Behind, a, b
  <2>2. FlattenSeq(ss) = Through(ss, c - 1) \o ((x \o y) \o Behind(ss, c))
    BY OneOfMany, Zenon
  <2>3. Through(ss, c - 1) \in Seq(X) /\ Behind(ss, c) \in Seq(X) /\ x \o y \in Seq(X)
    <3>1. x \o y \in Seq(X)
      BY ConcatProperties, Zenon
    <3>. QED
      BY <1>1, <3>1, ThroughFacts, Zenon
  <2>4. Regrouped(Through(ss, c - 1), x \o y, Behind(ss, c))
    BY <2>3, Regrouping, Zenon
  <2>. QED
    BY <2>1, <2>2, <2>4, Zenon DEF Regrouped
<1>. QED
    BY <1>0, <1>8, <1>12, <1>13, <1>14, <1>15, Zenon DEF HasTwoFor

\* A full chunk is split in two, which have room for one more.
LEMMA FullSplit ==
    ASSUME NEW cs, WellChunked(cs), NEW c \in 1..Len(cs), NEW j \in 1..Len(cs[c]), IsFull(cs[c])
    PROVE  \E es, d, k : /\ InsertPosition(cs, <<c, j>>) = <<es, <<d, k>>>>
                         /\ Insertable(es, d, k, cs, Len(Through(cs, c - 1)) + j)
<1>0. PICK n \in Nat, half \in Nat, l \in Nat, t \in Nat :
          /\ n = Len(cs) /\ half = ChunkSize \div 2 /\ l = ChunkSize /\ l >= 4 /\ 0 < half /\ half < l /\ 0 < l - half
          /\ t = Len(Through(cs, c - 1)) /\ l = Len(cs[c]) /\ cs \in Seq(Seq(ChunkElems))
  <2>1. c - 1 \in 0..Len(cs) /\ cs \in Seq(Seq(ChunkElems)) /\ Len(cs) \in Nat
    BY DEF WellChunked, ChunkLists
  <2>2. Len(Through(cs, c - 1)) \in Nat
    BY <2>1, ThroughCounts, Zenon
  <2>3. ChunkSize \in Nat /\ ChunkSize >= 4 /\ ChunkSize \div 2 \in Nat /\ 0 < ChunkSize \div 2
        /\ ChunkSize \div 2 < ChunkSize /\ 0 < ChunkSize - ChunkSize \div 2
    BY ChunkAssumption
  <2>. QED
    BY <2>1, <2>2, <2>3, Zenon DEF IsFull
<1>1. n # 0 /\ ~(c > n) /\ cs[c] \in Seq(ChunkElems) /\ half \in 0..l /\ half + 1 \in 1..l + 1
      /\ (half + 1) - 1 = half /\ c \in 1..n /\ j \in 1..l
  <2>1. c \in 1..n /\ j \in 1..l /\ half < l /\ cs[c] \in Seq(ChunkElems)
    <3>1. \A k \in 1..Len(cs) : cs[k] \in Seq(ChunkElems)
      BY <1>0, ThroughNext, Zenon
    <3>. QED
      BY <1>0, <3>1, Zenon
  <2>. QED
    BY <2>1
<1>. DEFINE x == SubSeq(cs[c], 1, half)
            y == SubSeq(cs[c], half + 1, l)
            es == SubSeq(cs, 1, c - 1) \o <<x, y>> \o SubSeq(cs, c + 1, n)
<1>2. x \in Seq(ChunkElems) /\ y \in Seq(ChunkElems) /\ Len(x) = half /\ cs[c] = x \o y
  <2>1. \A s \in Seq(ChunkElems) : half + 1 \in 1..Len(s) + 1
            => /\ SubSeq(s, 1, (half + 1) - 1) \in Seq(ChunkElems) /\ SubSeq(s, half + 1, Len(s)) \in Seq(ChunkElems)
               /\ Len(SubSeq(s, 1, (half + 1) - 1)) = (half + 1) - 1
               /\ s = SubSeq(s, 1, (half + 1) - 1) \o SubSeq(s, half + 1, Len(s))
    BY SplitAtPlace, Zenon
  <2>. QED
    BY <1>0, <1>1, <2>1, Zenon
<1>3. Len(y) = l - half
  <2>. HIDE DEF x, y
  <2>1. Len(x \o y) = Len(x) + Len(y)
    BY <1>2, ConcatProperties, Zenon
  <2>2. l = half + Len(y) /\ Len(y) \in Nat
    BY <1>0, <1>2, <2>1
  <2>. QED
    BY <2>2
<1>4. InsertPosition(cs, <<c, j>>) = <<es, IF j - 1 <= half THEN <<c, j>> ELSE <<c + 1, j - half>>>>
  <2>1. <<c, j>>[1] = c /\ <<c, j>>[2] = j
    OBVIOUS
  <2>. DEFINE Position(p, h, m) ==
                 IF m = 0 THEN <<<<(<<>>)>>, <<1, 1>>>>
                 ELSE IF p[1] > m
                 THEN IF IsFull(Last(cs)) THEN <<Append(cs, <<>>), <<m + 1, 1>>>>
                      ELSE <<cs, <<m, Len(Last(cs)) + 1>>>>
                 ELSE IF IsFull(cs[p[1]])
                 THEN <<SubSeq(cs, 1, p[1] - 1)
                          \o <<SubSeq(cs[p[1]], 1, h), SubSeq(cs[p[1]], h + 1, ChunkSize)>>
                          \o SubSeq(cs, p[1] + 1, m),
                        IF p[2] - 1 <= h THEN p ELSE <<p[1] + 1, p[2] - h>>>>
                 ELSE <<cs, p>>
  <2>2. InsertPosition(cs, <<c, j>>) = Position(<<c, j>>, ChunkSize \div 2, Len(cs))
    BY Zenon DEF InsertPosition
  <2>3. Position(<<c, j>>, half, n) = <<es, IF j - 1 <= half THEN <<c, j>> ELSE <<c + 1, j - half>>>>
    BY <1>0, <1>1, <2>1, Zenon
  <2>. HIDE DEF Position
  <2>. QED
    BY <1>0, <2>2, <2>3, Zenon
<1>5. es \in Seq(Seq(ChunkElems)) /\ HasTwoFor(es, cs, c, x, y)
  <2>. HIDE DEF x, y
  <2>1. SplitInTwo(es, cs, c, x, y)
    BY <1>0, <1>2, Zenon DEF SplitInTwo
  <2>. HIDE DEF es
  <2>. QED
    BY <1>0, <1>2, <2>1, TwoForOne, Zenon
<1>. HIDE DEF es, x, y
<1>6. /\ Len(es) = n + 1 /\ es[c] = x /\ es[c + 1] = y /\ FlattenSeq(es) = FlattenSeq(cs)
      /\ (\A k \in 1..c - 1 : es[k] = cs[k]) /\ (\A k \in c + 2..n + 1 : es[k] = cs[k - 1])
      /\ Through(es, c - 1) = Through(cs, c - 1) /\ Through(es, c) = Through(cs, c - 1) \o x
    BY <1>0, <1>5, Zenon DEF HasTwoFor
<1>7. Len(x) < ChunkSize /\ Len(y) < ChunkSize /\ Len(x) <= ChunkSize /\ Len(y) <= ChunkSize
  <2>1. half < l /\ l - half < l /\ half <= l /\ l - half <= l
    <3>1. half < l /\ 0 < half
      BY <1>0, Zenon
    <3>. QED
      BY <3>1
  <2>. QED
    BY <1>0, <1>2, <1>3, <2>1, Zenon
<1>8. WellChunked(es)
  <2>1. ASSUME NEW k \in 1..Len(es) PROVE Len(es[k]) <= ChunkSize
    <3>1. \/ k \in 1..c - 1 /\ k \in 1..n
          \/ k = c \/ k = c + 1
          \/ k \in c + 2..n + 1 /\ k - 1 \in 1..n
      <4>1. k \in 1..n + 1 /\ c \in 1..n
        BY <1>1, <1>6, Zenon
      <4>. QED
        BY <4>1
    <3>. QED
      BY <1>0, <1>6, <1>7, <3>1, Zenon DEF WellChunked
  <2>. QED
    BY <1>5, <2>1, Zenon DEF WellChunked, ChunkLists
<1>9. Len(Through(es, c)) = t + half
  <2>1. c - 1 \in 0..Len(cs)
    BY <1>1, <1>0
  <2>2. Through(cs, c - 1) \in Seq(ChunkElems)
    BY <1>0, <2>1, ThroughFacts, Zenon
  <2>3. Len(Through(cs, c - 1) \o x) = Len(Through(cs, c - 1)) + Len(x)
    BY <1>2, <2>2, ConcatProperties, Zenon
  <2>. QED
    BY <1>0, <1>2, <1>6, <2>3, Zenon
<1>10. CASE j - 1 <= half
  <2>1. c \in 1..n + 1 /\ j \in 1..half + 1
    BY <1>1, <1>10
  <2>2. Insertable(es, c, j, cs, t + j)
    BY <1>0, <1>2, <1>6, <1>7, <1>8, <2>1, Zenon DEF Insertable
  <2>. QED
    BY <1>0, <1>4, <1>10, <2>2, Zenon
<1>11. CASE ~(j - 1 <= half)
  <2>1. c + 1 \in 1..n + 1 /\ j - half \in 1..(l - half) + 1 /\ (c + 1) - 1 = c /\ t + j = (t + half) + (j - half)
    <3>1. c \in 1..n /\ j \in 1..l /\ ~(j - 1 <= half)
      BY <1>1, <1>11, Zenon
    <3>. QED
      BY <3>1
  <2>2. Insertable(es, c + 1, j - half, cs, t + j)
    BY <1>3, <1>6, <1>7, <1>8, <1>9, <2>1, Zenon DEF Insertable
  <2>. QED
    BY <1>0, <1>4, <1>11, <2>2, Zenon
<1>. QED
    BY <1>10, <1>11, Zenon

\* The end is behind the last element, and no other position is.
LEMMA PositionIndex ==
    ASSUME NEW cs, WellChunked(cs), NEW p \in Positions(cs)
    PROVE  \/ /\ p = ListEnd(cs) /\ AtIndex(cs, p, Len(FlattenSeq(cs)) + 1)
              /\ Len(FlattenSeq(cs)) \in Nat
           \/ \E c \in 1..Len(cs) : \E j \in 1..Len(cs[c]) :
                 /\ p = <<c, j>> /\ AtIndex(cs, p, Len(Through(cs, c - 1)) + j)
                 /\ Len(Through(cs, c - 1)) \in Nat
<1>0. cs \in ChunkLists /\ cs \in Seq(Seq(ChunkElems)) /\ ChunkSize \in Nat
      /\ \A c \in 1..Len(cs) : Len(cs[c]) \in Nat
    BY ChunkAssumption DEF WellChunked, ChunkLists
<1>1. CASE p = ListEnd(cs)
  <2>1. Len(FlattenSeq(cs)) \in Nat
    BY <1>0, SizeCounts, Zenon
  <2>. QED
    BY <1>1, <2>1, Zenon DEF AtIndex
<1>2. CASE p \in {q \in (1..Len(cs)) \X (1..ChunkSize) : q[2] <= Len(cs[q[1]])}
  <2>1. PICK c \in 1..Len(cs), j \in 1..ChunkSize : p = <<c, j>> /\ j <= Len(cs[c])
    BY <1>2
  <2>2. c - 1 \in 0..Len(cs)
    OBVIOUS
  <2>3. j \in 1..Len(cs[c])
    BY <1>0, <2>1
  <2>4. Len(Through(cs, c - 1)) \in Nat
    BY <1>0, <2>2, ThroughCounts, Zenon
  <2>. QED
    BY <2>1, <2>3, <2>4, Zenon DEF AtIndex
<1>. QED
    BY <1>1, <1>2, Zenon DEF Positions

\* An element that is put in at the end gets a place in the last chunk or a new one.
LEMMA EndPlaced ==
    ASSUME NEW cs, WellChunked(cs)
    PROVE  \E es, d, k : /\ InsertPosition(cs, ListEnd(cs)) = <<es, <<d, k>>>>
                         /\ Insertable(es, d, k, cs, Len(FlattenSeq(cs)) + 1)
<1>0. PICK n \in Nat : n = Len(cs) /\ (n = 0 <=> cs = <<>>) /\ cs \in Seq(Seq(ChunkElems)) /\ cs \in ChunkLists
    BY DEF WellChunked, ChunkLists
<1>. DEFINE ds == Append(cs, <<>>)
<1>1. /\ WellChunked(ds) /\ FlattenSeq(ds) = FlattenSeq(cs)
      /\ Len(ds) = n + 1 /\ ds[n + 1] = <<>> /\ Through(ds, n) = FlattenSeq(cs)
    BY <1>0, ChunkAdded, Zenon
<1>2. Insertable(ds, n + 1, 1, cs, Len(FlattenSeq(cs)) + 1)
  <2>1. /\ n + 1 \in 1..n + 1 /\ 1 \in 1..Len(<<>>) + 1 /\ Len(<<>>) < ChunkSize /\ (n + 1) - 1 = n
    BY ChunkAssumption
  <2>. HIDE DEF ds
  <2>. QED
    BY <1>1, <2>1, Zenon DEF Insertable
<1>3. ListEnd(cs)[1] = n + 1 /\ n + 1 > n
    BY <1>0 DEF ListEnd
<1>4. CASE n = 0
  <2>1. InsertPosition(cs, ListEnd(cs)) = <<<<(<<>>)>>, <<1, 1>>>>
    BY <1>0, <1>4, Zenon DEF InsertPosition
  <2>2. <<(<<>>)>> = ds /\ n + 1 = 1
    BY <1>0, <1>4
  <2>. HIDE DEF ds
  <2>. QED
    BY <1>2, <2>1, <2>2, Zenon
<1>5. CASE n # 0 /\ IsFull(Last(cs))
  <2>1. InsertPosition(cs, ListEnd(cs)) = <<ds, <<n + 1, 1>>>>
    BY <1>0, <1>3, <1>5, Zenon DEF InsertPosition
  <2>. HIDE DEF ds
  <2>. QED
    BY <1>2, <2>1, Zenon
<1>6. CASE n # 0 /\ ~IsFull(Last(cs))
  <2>0. n \in 1..Len(cs) /\ Last(cs) = cs[n]
    BY <1>0, <1>6 DEF Last
  <2>1. InsertPosition(cs, ListEnd(cs)) = <<cs, <<n, Len(cs[n]) + 1>>>>
    BY <1>0, <1>3, <1>6, <2>0, Zenon DEF InsertPosition
  <2>2. /\ Len(cs[n]) \in Nat /\ Len(Through(cs, n)) = Len(Through(cs, n - 1)) + Len(cs[n])
        /\ n - 1 \in 0..Len(cs)
    <3>1. n - 1 \in 0..n
      BY <2>0, <1>0
    <3>. QED
      BY <1>0, <2>0, <3>1, ThroughCounts, Zenon
  <2>3. Len(Through(cs, n - 1)) \in Nat
    BY <1>0, <2>2, ThroughCounts, Zenon
  <2>4. Through(cs, n) = FlattenSeq(cs)
    BY <1>0, ThroughEnds, Zenon
  <2>5. PICK t, l, f : t \in Nat /\ l \in Nat /\ t = Len(Through(cs, n - 1)) /\ l = Len(cs[n]) /\ f = Len(FlattenSeq(cs)) /\ f = t + l
    BY <2>2, <2>3, <2>4, Zenon
  <2>6. f + 1 = t + (l + 1) /\ l + 1 \in 1..l + 1
    <3>1. f = t + l /\ t \in Nat /\ l \in Nat
      BY <2>5, Zenon
    <3>. QED
      BY <3>1
  <2>7. l < ChunkSize
    <3>1. l <= ChunkSize /\ l # ChunkSize /\ l \in Nat
      BY <1>6, <2>0, <2>5, Zenon DEF WellChunked, IsFull
    <3>. QED
      BY <3>1, ChunkAssumption
  <2>8. Insertable(cs, n, l + 1, cs, f + 1)
    BY <2>0, <2>5, <2>6, <2>7, Zenon DEF Insertable
  <2>. QED
    BY <2>1, <2>5, <2>8, Zenon
<1>. QED
    BY <1>4, <1>5, <1>6, Zenon

\* An element that is put in before another one gets a place in its chunk.
LEMMA PlaceGiven ==
    ASSUME NEW cs, WellChunked(cs), NEW c \in 1..Len(cs), NEW j \in 1..Len(cs[c])
    PROVE  \E es, d, k : /\ InsertPosition(cs, <<c, j>>) = <<es, <<d, k>>>>
                         /\ Insertable(es, d, k, cs, Len(Through(cs, c - 1)) + j)
<1>1. CASE IsFull(cs[c])
    BY <1>1, FullSplit, Zenon
<1>2. CASE ~IsFull(cs[c])
  <2>0. Len(cs) \in Nat /\ Len(cs[c]) \in Nat
    BY DEF WellChunked, ChunkLists
  <2>1. <<c, j>>[1] = c /\ Len(cs) # 0 /\ ~(c > Len(cs)) /\ j \in 1..Len(cs[c]) + 1
    BY <2>0
  <2>2. InsertPosition(cs, <<c, j>>) = <<cs, <<c, j>>>>
    BY <1>2, <2>1, Zenon DEF InsertPosition
  <2>3. Len(cs[c]) < ChunkSize
    <3>1. Len(cs[c]) <= ChunkSize /\ Len(cs[c]) # ChunkSize
      BY <1>2, Zenon DEF WellChunked, IsFull
    <3>. QED
      BY <2>0, <3>1, ChunkAssumption
  <2>4. Insertable(cs, c, j, cs, Len(Through(cs, c - 1)) + j)
    BY <2>1, <2>3, Zenon DEF Insertable
  <2>. QED
    BY <2>2, <2>4, Zenon
<1>. QED
    BY <1>1, <1>2, Zenon

\* An element put in before a position that is there after it, as index i; and
\* one that is cut out, with the position of the one behind it.
PutThere(ds, cs, p, i, v) ==
    WellChunked(ds) /\ PutAt(FlattenSeq(ds), FlattenSeq(cs), i, v) /\ IndexOf(ds, Adjust(ds, p)) = i

CutThere(ds, cs, p, i) ==
    /\ WellChunked(ds) /\ i \in 1..Len(FlattenSeq(cs))
    /\ WithoutAt(FlattenSeq(ds), FlattenSeq(cs), i) /\ IndexOf(ds, Adjust(ds, p)) = i

\* insert puts the element where it was asked to, and returns its position.
LEMMA PutWhereAsked ==
    ASSUME NEW cs, NEW es, NEW c, NEW j, NEW i, Insertable(es, c, j, cs, i), NEW v \in ChunkElems,
           NEW ds, ds = [es EXCEPT ![c] = InsertAt(@, j, v)]
    PROVE  PutThere(ds, cs, <<c, j>>, i, v)
<1>0. /\ es \in Seq(Seq(ChunkElems)) /\ c \in 1..Len(es) /\ c - 1 \in 0..Len(es) /\ c \in 0..Len(es)
      /\ j \in 1..Len(es[c]) + 1 /\ es[c] \in Seq(ChunkElems) /\ Len(es[c]) < ChunkSize
      /\ ChunkSize \in Nat
    BY ChunkAssumption DEF Insertable, WellChunked, ChunkLists
<1>. DEFINE a == Through(es, c - 1)
            x == es[c]
            b == Behind(es, c)
            y == InsertAt(x, j, v)
<1>1. a \in Seq(ChunkElems) /\ b \in Seq(ChunkElems) /\ FlattenSeq(cs) = a \o (x \o b) /\ i = Len(a) + j
  <2>1. Through(es, c - 1) \in Seq(ChunkElems) /\ Behind(es, c) \in Seq(ChunkElems)
    BY <1>0, ThroughFacts, Zenon
  <2>2. FlattenSeq(es) = Through(es, c - 1) \o (es[c] \o Behind(es, c))
    BY <1>0, OneOfMany, Zenon
  <2>. QED
    BY <2>1, <2>2, Zenon DEF Insertable
<1>2. PutAt(y, x, j, v)
    BY Zenon DEF PutAt, InsertAt
<1>3. Len(y) = Len(x) + 1
  <2>. HIDE DEF x, y
  <2>1. x \in Seq(ChunkElems) /\ j \in 1..Len(x) + 1 /\ <<v>> \in Seq(ChunkElems) /\ Len(<<v>>) = 1
    BY <1>0 DEF x
  <2>2. PutIn(y, x, <<v>>, j)
    BY <1>2, <2>1, InsertElements, Zenon DEF PutAt
  <2>. QED
    BY <2>1, <2>2, Zenon DEF PutIn
<1>. HIDE DEF a, b, y
<1>4. y \in Seq(ChunkElems) /\ PutAt(a \o (y \o b), FlattenSeq(cs), i, v)
  <2>1. x \in Seq(ChunkElems) /\ j \in 1..Len(x) + 1
    BY <1>0, Zenon
  <2>. HIDE DEF x
  <2>. QED
    BY <1>1, <1>2, <2>1, PutInPart, Zenon
<1>5. ds = [es EXCEPT ![c] = y]
    BY Zenon DEF y
<1>6. ds \in Seq(Seq(ChunkElems)) /\ Replaced(ds, es, c, y)
    BY <1>0, <1>4, <1>5, OneReplaced, Zenon
<1>7. /\ Len(ds) = Len(es) /\ ds[c] = y /\ \A k \in 1..Len(es) : k # c => ds[k] = es[k]
      /\ Through(ds, c - 1) = a /\ FlattenSeq(ds) = a \o (y \o b)
    BY <1>6, Zenon DEF Replaced, a, b
<1>8. Len(y) <= ChunkSize /\ j \in 1..Len(y) + 1
  <2>1. PICK l \in Nat : l = Len(x)
    BY <1>0
  <2>2. l < ChunkSize /\ j \in 1..l + 1 /\ Len(y) = l + 1
    BY <1>0, <1>3, <2>1, Zenon
  <2>. QED
    BY <2>2, ChunkAssumption
<1>9. WellChunked(ds)
    BY <1>6, <1>7, <1>8, Zenon DEF WellChunked, ChunkLists, Insertable
<1>10. AtIndex(ds, Adjust(ds, <<c, j>>), i)
    BY <1>0, <1>1, <1>7, <1>8, <1>9, AdjustedIndex, Zenon DEF WellChunked
<1>11. IndexOf(ds, Adjust(ds, <<c, j>>)) = i
    BY <1>9, <1>10, IndexCounted, Zenon DEF WellChunked
<1>. QED
    BY <1>4, <1>7, <1>9, <1>11, Zenon DEF PutThere

\* erase cuts out the element, and returns the position of the one behind it.
LEMMA CutWhereAsked ==
    ASSUME NEW cs, WellChunked(cs), NEW c \in 1..Len(cs), NEW j \in 1..Len(cs[c]), NEW i,
           i = Len(Through(cs, c - 1)) + j, NEW ds, ds = [cs EXCEPT ![c] = RemoveAt(@, j)]
    PROVE  CutThere(ds, cs, <<c, j>>, i)
<1>0. /\ cs \in Seq(Seq(ChunkElems)) /\ c - 1 \in 0..Len(cs) /\ c \in 0..Len(cs)
      /\ cs[c] \in Seq(ChunkElems) /\ Len(cs[c]) <= ChunkSize
      /\ ChunkSize \in Nat
    BY ChunkAssumption DEF WellChunked, ChunkLists
<1>. DEFINE a == Through(cs, c - 1)
            x == cs[c]
            b == Behind(cs, c)
            y == RemoveAt(x, j)
<1>1. a \in Seq(ChunkElems) /\ b \in Seq(ChunkElems) /\ FlattenSeq(cs) = a \o (x \o b) /\ i = Len(a) + j
    BY <1>0, ThroughFacts, OneOfMany, Zenon
<1>2. WithoutAt(y, x, j)
    BY Zenon DEF WithoutAt, RemoveAt
<1>. HIDE DEF a, b
<1>3. y \in Seq(ChunkElems) /\ i \in 1..Len(FlattenSeq(cs)) /\ WithoutAt(a \o (y \o b), FlattenSeq(cs), i)
  <2>1. x \in Seq(ChunkElems) /\ j \in 1..Len(x)
    BY <1>0, Zenon
  <2>. HIDE DEF x, y
  <2>. QED
    BY <1>1, <1>2, <2>1, CutInPart, Zenon
<1>4. Len(y) = Len(x) - 1
  <2>1. PICK l \in Nat : l = Len(x) /\ j \in 1..l
    BY <1>0
  <2>2. j \in 1..l + 1 /\ j + 1 \in j..l + 1
    BY <2>1
  <2>. HIDE DEF x, y
  <2>3. CutOut(y, x, j, j + 1)
    BY <1>0, <1>2, <2>1, <2>2, CutElements, Zenon DEF WithoutAt, x
  <2>4. Len(y) = l - ((j + 1) - j)
    BY <2>1, <2>3, Zenon DEF CutOut
  <2>. QED
    BY <2>1, <2>4
<1>. HIDE DEF y
<1>5. ds = [cs EXCEPT ![c] = y]
    BY Zenon DEF y
<1>6. ds \in Seq(Seq(ChunkElems)) /\ Replaced(ds, cs, c, y)
    BY <1>0, <1>3, <1>5, OneReplaced, Zenon
<1>7. /\ Len(ds) = Len(cs) /\ ds[c] = y /\ \A k \in 1..Len(cs) : k # c => ds[k] = cs[k]
      /\ Through(ds, c - 1) = a /\ FlattenSeq(ds) = a \o (y \o b)
    BY <1>6, Zenon DEF Replaced, a, b
<1>8. Len(y) <= ChunkSize /\ j \in 1..Len(y) + 1
  <2>1. PICK l \in Nat : l = Len(x) /\ j \in 1..l
    BY <1>0
  <2>2. l <= ChunkSize /\ Len(y) = l - 1
    BY <1>0, <1>4, <2>1, Zenon
  <2>. QED
    BY <2>1, <2>2, ChunkAssumption
<1>9. WellChunked(ds)
    BY <1>6, <1>7, <1>8, Zenon DEF WellChunked, ChunkLists
<1>10. AtIndex(ds, Adjust(ds, <<c, j>>), i)
    BY <1>0, <1>1, <1>7, <1>8, <1>9, AdjustedIndex, Zenon DEF WellChunked
<1>11. IndexOf(ds, Adjust(ds, <<c, j>>)) = i
    BY <1>9, <1>10, IndexCounted, Zenon DEF WellChunked
<1>. QED
    BY <1>3, <1>7, <1>9, <1>11, Zenon DEF CutThere

\* The parts of a sequence are one function.
LEMMA PartsAgree ==
    ASSUME NEW s, NEW S, NEW n \in Nat, NEW f, NEW g, OneByOne(f, s, S, n), OneByOne(g, s, S, n)
    PROVE  f[n] = g[n]
<1>. DEFINE N == {k \in Nat : k <= n => f[k] = g[k]}
<1>1. 0 \in N
    BY Zenon DEF OneByOne
<1>2. ASSUME NEW k \in Nat, k \in N PROVE k + 1 \in N
  <2>. SUFFICES ASSUME k + 1 <= n PROVE f[k + 1] = g[k + 1]
    OBVIOUS
  <2>1. k + 1 \in 1..n /\ (k + 1) - 1 = k /\ k <= n
    OBVIOUS
  <2>2. f[k] = g[k]
    BY <1>2, <2>1
  <2>. QED
    BY <2>1, <2>2, Zenon DEF OneByOne
<1>. HIDE DEF N
<1>3. n \in N /\ n <= n
    BY <1>1, <1>2, SetInduction
<1>. QED
    BY <1>3, Zenon DEF N

\* What remains of a sequence, one element after the other.
LEMMA RemainingNext ==
    ASSUME NEW X, NEW s \in Seq(X), NEW set, NEW x \in X
    PROVE  /\ Remaining(<<>>, set) = <<>>
           /\ Remaining(Append(s, x), set) = IF x \in set THEN Append(Remaining(s, set), x) ELSE Remaining(s, set)
<1>. DEFINE F(t) == CHOOSE g : Parts(g, t, set, Len(t))
<1>1. ASSUME NEW t \in Seq(X) PROVE Remaining(t, set) = F(t)[Len(t)] /\ OneByOne(F(t), t, set, Len(t))
  <2>1. Len(t) \in 0..Len(t) /\ Len(t) \in Nat
    OBVIOUS
  <2>2. Parts(F(t), t, set, Len(t))
    BY <2>1, PartsExist, Zenon
  <2>3. Remaining(t, set) = F(t)[Len(t)]
    BY Zenon DEF Remaining, Parts
  <2>. HIDE DEF F
  <2>. QED
    BY <2>1, <2>2, <2>3, PartsFacts, Zenon
<1>. HIDE DEF F
<1>2. Remaining(<<>>, set) = <<>>
  <2>1. <<>> \in Seq(X) /\ Len(<<>>) = 0
    OBVIOUS
  <2>. QED
    BY <1>1, <2>1, Zenon DEF OneByOne
<1>3. PICK t : t = Append(s, x)
    OBVIOUS
<1>4. PICK n \in Nat : n = Len(s)
    OBVIOUS
<1>5. t \in Seq(X) /\ Len(t) = n + 1 /\ t[n + 1] = x /\ \A i \in 1..n : t[i] = s[i]
    BY <1>3, <1>4
<1>6. OneByOne(F(t), t, set, n + 1) /\ OneByOne(F(s), s, set, n)
    BY <1>1, <1>4, <1>5, Zenon
<1>7. n + 1 \in 1..n + 1 /\ (n + 1) - 1 = n /\ \A i \in 1..n : i \in 1..n + 1
    OBVIOUS
<1>8. OneByOne(F(t), s, set, n)
    BY <1>5, <1>6, <1>7, Zenon DEF OneByOne
<1>9. F(t)[n] = F(s)[n]
    BY <1>6, <1>8, PartsAgree, Zenon
<1>10. F(t)[n + 1] = IF x \in set THEN Append(F(t)[n], x) ELSE F(t)[n]
    BY <1>5, <1>6, <1>7, Zenon DEF OneByOne
<1>. QED
    BY <1>1, <1>2, <1>3, <1>4, <1>5, <1>9, <1>10, Zenon

\* What remains of two sequences is what remains of each.
LEMMA RemainingJoined ==
    ASSUME NEW X, NEW a \in Seq(X), NEW b \in Seq(X), NEW set
    PROVE  Remaining(a \o b, set) = Remaining(a, set) \o Remaining(b, set)
<1>. DEFINE R(s) == Remaining(s, set)
            S == {s \in Seq(X) : R(a \o s) = R(a) \o R(s)}
<1>0. \A s \in Seq(X) : R(s) \in Seq(X)
    BY RemainingFacts, Zenon
<1>00. R(<<>>) = <<>>
  <2>1. CASE \E x : x \in X
    BY <2>1, RemainingNext, Zenon
  <2>2. CASE ~\E x : x \in X
    <3>1. R(<<>>) \in Seq(X) /\ \A s \in Seq(X) : s = <<>>
      <4>1. <<>> \in Seq(X)
        OBVIOUS
      <4>2. ASSUME NEW s \in Seq(X) PROVE s = <<>>
        <5>1. Len(s) = 0
          BY <2>2
        <5>. QED
          BY <5>1
      <4>. QED
        BY <1>0, <4>1, <4>2, Zenon
    <3>. QED
      BY <3>1, Zenon
  <2>. QED
    BY <2>1, <2>2, Zenon
<1>000. ASSUME NEW s \in Seq(X), NEW x \in X
        PROVE  R(Append(s, x)) = IF x \in set THEN Append(R(s), x) ELSE R(s)
    BY RemainingNext
<1>. HIDE DEF R
<1>1. <<>> \in S
  <2>1. <<>> \in Seq(X) /\ a \o <<>> = a
    OBVIOUS
  <2>2. R(a) \o <<>> = R(a)
    BY <1>0, ConcatEmptySeq, Zenon
  <2>. QED
    BY <1>00, <2>1, <2>2, Zenon
<1>2. ASSUME NEW s \in Seq(X), NEW x \in X, s \in S PROVE Append(s, x) \in S
  <2>1. Append(s, x) \in Seq(X) /\ a \o s \in Seq(X)
    OBVIOUS
  <2>2. a \o Append(s, x) = Append(a \o s, x)
    BY AppendBehind
  <2>3. R(Append(a \o s, x)) = IF x \in set THEN Append(R(a \o s), x) ELSE R(a \o s)
    BY <1>000, <2>1, Zenon
  <2>4. R(Append(s, x)) = IF x \in set THEN Append(R(s), x) ELSE R(s)
    BY <1>000, Zenon
  <2>5. R(a) \o Append(R(s), x) = Append(R(a) \o R(s), x)
    <3>1. PICK p \in Seq(X), q \in Seq(X) : p = R(a) /\ q = R(s)
      BY <1>0, Zenon
    <3>2. p \o Append(q, x) = Append(p \o q, x)
      BY AppendBehind
    <3>. QED
      BY <3>1, <3>2, Zenon
  <2>6. R(a \o s) = R(a) \o R(s)
    BY <1>2, Zenon
  <2>. QED
    BY <2>1, <2>2, <2>3, <2>4, <2>5, <2>6, Zenon
<1>. HIDE DEF S
<1>3. b \in S
    BY <1>1, <1>2, SequenceInduction, Zenon
<1>. QED
    BY <1>3, Zenon DEF S, R

\* What remains of the chunks is what remains of the list.
LEMMA ChunksRemaining ==
    ASSUME NEW cs, WellChunked(cs), NEW set, NEW ds, ds = [c \in DOMAIN cs |-> Remaining(cs[c], set)]
    PROVE  WellChunked(ds) /\ FlattenSeq(ds) = Remaining(FlattenSeq(cs), set)
<1>0. PICK n \in Nat : /\ n = Len(cs) /\ DOMAIN cs = 1..n /\ cs \in Seq(Seq(ChunkElems))
                       /\ \A c \in 1..n : cs[c] \in Seq(ChunkElems) /\ Len(cs[c]) <= ChunkSize
    BY DEF WellChunked, ChunkLists
<1>. DEFINE r(c) == Remaining(cs[c], set)
<1>1. ASSUME NEW c \in 1..n PROVE r(c) \in Seq(ChunkElems) /\ Len(r(c)) <= ChunkSize
  <2>1. r(c) \in Seq(ChunkElems) /\ Len(r(c)) <= Len(cs[c])
    BY <1>0, RemainingFacts, Zenon
  <2>2. Len(cs[c]) \in Nat /\ Len(cs[c]) <= ChunkSize
    BY <1>0
  <2>. HIDE DEF r
  <2>3. Len(r(c)) \in Nat
    BY <2>1
  <2>. QED
    BY <2>1, <2>2, <2>3, ChunkAssumption
<1>2. ds = [c \in 1..n |-> r(c)]
    BY <1>0, Zenon
<1>. HIDE DEF r
<1>3. ds \in Seq(Seq(ChunkElems)) /\ Len(ds) = n /\ \A c \in 1..n : ds[c] = r(c)
  <2>1. \A c \in 1..n : r(c) \in Seq(ChunkElems)
    BY <1>1, Zenon
  <2>2. \A c \in 1..n : ds[c] = r(c)
    BY <1>2, Zenon
  <2>3. ds \in [1..n -> Seq(ChunkElems)]
    BY <1>2, <2>1, Zenon
  <2>4. ds \in Seq(Seq(ChunkElems)) /\ Len(ds) = n
    BY <2>3
  <2>. QED
    BY <2>2, <2>4, Zenon
<1>4. WellChunked(ds)
    BY <1>1, <1>3, Zenon DEF WellChunked, ChunkLists
<1>. DEFINE N == {k \in Nat : k <= n => Through(ds, k) = Remaining(Through(cs, k), set)}
<1>5. 0 \in N
  <2>1. Through(cs, 0) = <<>> /\ Through(ds, 0) = <<>>
    BY <1>0, <1>3, ThroughEnds, Zenon
  <2>2. Remaining(<<>>, set) = <<>>
    <3>. DEFINE X == ChunkElems \cup {0}
    <3>1. <<>> \in Seq(X) /\ 0 \in X
      OBVIOUS
    <3>. QED
      BY <3>1, RemainingNext, Zenon
  <2>. QED
    BY <2>1, <2>2, Zenon
<1>6. ASSUME NEW k \in Nat, k \in N PROVE k + 1 \in N
  <2>. SUFFICES ASSUME k + 1 <= n PROVE Through(ds, k + 1) = Remaining(Through(cs, k + 1), set)
    OBVIOUS
  <2>1. k + 1 \in 1..n /\ (k + 1) - 1 = k /\ k <= n /\ k \in 0..n
    OBVIOUS
  <2>2. Through(ds, k + 1) = Through(ds, k) \o ds[k + 1] /\ Through(cs, k + 1) = Through(cs, k) \o cs[k + 1]
    BY <1>0, <1>3, <2>1, ThroughNext, Zenon
  <2>3. Through(ds, k) = Remaining(Through(cs, k), set) /\ ds[k + 1] = Remaining(cs[k + 1], set)
    BY <1>3, <1>6, <2>1, Zenon DEF r
  <2>4. Through(cs, k) \in Seq(ChunkElems) /\ cs[k + 1] \in Seq(ChunkElems)
    BY <1>0, <2>1, ThroughFacts, Zenon
  <2>5. Remaining(Through(cs, k) \o cs[k + 1], set) = Remaining(Through(cs, k), set) \o Remaining(cs[k + 1], set)
    BY <2>4, RemainingJoined
  <2>. QED
    BY <2>2, <2>3, <2>5, Zenon
<1>. HIDE DEF N
<1>7. n \in N /\ n <= n
    BY <1>5, <1>6, SetInduction
<1>8. Through(ds, n) = Remaining(Through(cs, n), set)
    BY <1>7, Zenon DEF N
<1>9. Through(ds, n) = FlattenSeq(ds) /\ Through(cs, n) = FlattenSeq(cs)
    BY <1>0, <1>3, ThroughEnds, Zenon
<1>. QED
    BY <1>4, <1>8, <1>9, Zenon

\* Removing the last elements keeps the first ones.
LEMMA ShrunkKeepsFirst ==
    ASSUME NEW cs, WellChunked(cs), NEW k \in Nat, k < ListSize(cs)
    PROVE  /\ WellChunked(ShrunkTo(cs, k))
           /\ FlattenSeq(ShrunkTo(cs, k)) = SubSeq(FlattenSeq(cs), 1, k) /\ k \in 0..Len(FlattenSeq(cs))
<1>0. PICK n \in Nat : n = Len(cs) /\ cs \in Seq(Seq(ChunkElems)) /\ cs \in ChunkLists
    BY DEF WellChunked, ChunkLists
<1>. DEFINE T(c) == Len(Through(cs, c))
            cut(c) == (ListSize(cs) - k) - Held(cs, c + 1, Len(cs))
            stays == {c \in 1..Len(cs) : cut(c) <= 0 \/ cut(c) < Len(cs[c])}
            kept(c) == IF cut(c) > 0 THEN SubSeq(cs[c], 1, Len(cs[c]) - cut(c)) ELSE cs[c]
            ds == [c \in 1..Cardinality(stays) |-> kept(c)]
<1>1. /\ \A c \in 0..n : T(c) \in Nat
      /\ T(0) = 0
      /\ \A c \in 1..n : Len(cs[c]) \in Nat /\ T(c) = T(c - 1) + Len(cs[c])
    BY <1>0, ThroughCounts, Zenon
<1>2. T(n) = ListSize(cs) /\ Through(cs, n) = FlattenSeq(cs) /\ k < T(n)
    BY <1>0, ThroughEnds, SizeCounts, Zenon
<1>3. ASSUME NEW c \in 1..n PROVE cut(c) = T(c) - k
  <2>1. c + 1 \in 1..n + 1 /\ n \in 0..n /\ (c + 1) - 1 = c /\ c \in 0..n
    OBVIOUS
  <2>2. Held(cs, c + 1, Len(cs)) = T(n) - T(c)
    BY <1>0, <2>1, HeldCounts, Zenon
  <2>3. cut(c) = (T(n) - k) - (T(n) - T(c)) /\ T(n) \in Nat /\ T(c) \in Nat
    BY <1>1, <1>2, <2>1, <2>2, Zenon
  <2>. HIDE DEF T
  <2>. QED
    BY <2>3
<1>4. ShrunkTo(cs, k) = ds
    BY Zenon DEF ShrunkTo
<1>. HIDE DEF T, cut
<1>5. ASSUME NEW c \in 1..n
      PROVE  /\ c - 1 \in 0..n /\ c \in 0..n
             /\ c \in stays <=> (T(c) <= k \/ T(c - 1) < k)
             /\ T(c) > k => kept(c) = SubSeq(cs[c], 1, k - T(c - 1))
             /\ T(c) <= k => kept(c) = cs[c]
  <2>1. c - 1 \in 0..n /\ c \in 0..n
    OBVIOUS
  <2>2. PICK t \in Nat, u \in Nat, l \in Nat : t = T(c) /\ u = T(c - 1) /\ l = Len(cs[c]) /\ t = u + l
    <3>1. T(c) \in Nat /\ T(c - 1) \in Nat /\ Len(cs[c]) \in Nat /\ T(c) = T(c - 1) + Len(cs[c])
      BY <1>1, <2>1, Zenon
    <3>. QED
      BY <3>1, Zenon
  <2>3. cut(c) = t - k
    BY <1>3, <2>2, Zenon
  <2>4. /\ (t - k <= 0 <=> t <= k) /\ (t - k < l <=> u < k) /\ (t - k > 0 <=> t > k) /\ l - (t - k) = k - u
        /\ t <= k => ~(t > k)
    <3>1. t = u + l /\ t \in Nat /\ u \in Nat /\ l \in Nat
      BY <2>2, Zenon
    <3>. QED
      BY <3>1
  <2>5. c \in stays <=> (t <= k \/ u < k)
    BY <1>0, <2>2, <2>3, <2>4, Zenon
  <2>6. t > k => kept(c) = SubSeq(cs[c], 1, k - u)
    BY <2>2, <2>3, <2>4, Zenon
  <2>7. t <= k => kept(c) = cs[c]
    BY <2>2, <2>3, <2>4, Zenon
  <2>. QED
    BY <2>1, <2>2, <2>5, <2>6, <2>7, Zenon
<1>6. stays \subseteq 1..n
    BY <1>0, Zenon
<1>. HIDE DEF stays, kept
<1>7. ASSUME NEW c \in stays, NEW b \in 1..c - 1 PROVE b \in stays /\ T(b) <= k
  <2>1. c \in 1..n /\ b \in 1..n
    BY <1>6
  <2>2. b \in 0..Len(cs) /\ c - 1 \in b..Len(cs) /\ c \in b..Len(cs)
    BY <1>0, <2>1
  <2>3. T(b) <= T(c - 1) /\ T(b) <= T(c)
    BY <1>0, <2>2, ThroughRises, Zenon DEF T
  <2>4. T(b) \in Nat /\ T(c) \in Nat /\ T(c - 1) \in Nat
    BY <1>1, <1>5, <2>1, Zenon
  <2>5. T(c) <= k \/ T(c - 1) < k
    BY <1>5, <2>1, Zenon
  <2>6. T(b) <= k
    BY <2>3, <2>4, <2>5
  <2>. QED
    BY <1>5, <2>1, <2>6, Zenon
<1>8. PICK m \in 0..n : stays = 1..m /\ Cardinality(stays) = m
  <2>1. CASE stays = {}
    <3>1. stays = 1..0 /\ 0 \in 0..n /\ 0 \in Nat
      BY <2>1
    <3>. QED
      BY <3>1, CountTo, Zenon
  <2>2. CASE stays # {}
    <3>1. PICK m \in stays : \A c \in stays : m >= c
      BY <1>6, <2>2, Greatest, Zenon
    <3>2. m \in 1..n /\ m \in Nat /\ m \in 0..n
      BY <1>6, <3>1
    <3>3. stays \subseteq 1..m
      <4>1. ASSUME NEW c \in stays PROVE c \in 1..m
        <5>1. c \in 1..n /\ m >= c
          BY <1>6, <3>1, Zenon
        <5>. QED
          BY <3>2, <5>1
      <4>. QED
        BY <4>1
    <3>4. 1..m \subseteq stays
      <4>1. ASSUME NEW c \in 1..m PROVE c = m \/ c \in 1..m - 1
        BY <3>2
      <4>2. ASSUME NEW c \in 1..m PROVE c \in stays
        BY <1>7, <4>1, Zenon
      <4>. QED
        BY <4>2, Zenon
    <3>5. stays = 1..m
      BY <3>3, <3>4, Zenon
    <3>. QED
      BY <3>2, <3>5, CountTo, Zenon
  <2>. QED
    BY <2>1, <2>2, Zenon
<1>. DEFINE s == FlattenSeq(cs)
<1>9. ShrunkTo(cs, k) = [c \in 1..m |-> kept(c)] /\ m \in Nat /\ m <= n
    BY <1>4, <1>8
<1>10. \A c \in 1..n : cs[c] \in Seq(ChunkElems)
    BY <1>0
<1>11. ASSUME NEW c \in 1..m, c # m PROVE kept(c) = cs[c]
  <2>1. m \in stays /\ c \in 1..m - 1 /\ c \in 1..n
    BY <1>8, <1>11
  <2>. QED
    BY <1>5, <1>7, <2>1, Zenon
<1>12. CASE m = 0 \/ T(m) <= k
  <2>1. T(m) \in Nat /\ T(m) <= k /\ T(0) = 0 /\ 0 <= k
    BY <1>1, <1>12
  <2>2. m # n
    BY <1>2, <2>1
  <2>3. m + 1 \in 1..n /\ (m + 1) - 1 = m /\ m + 1 \notin 1..m
    BY <1>9, <2>2
  <2>4. ~(T(m) < k)
    BY <1>5, <1>8, <2>3, Zenon
  <2>5. T(m) = k
    BY <2>1, <2>4
  <2>6. \A c \in 1..m : kept(c) = cs[c]
    <3>1. ASSUME NEW c \in 1..m, c = m PROVE kept(c) = cs[c]
      <4>1. c \in 1..n /\ T(c) <= k
        BY <1>9, <2>1, <3>1
      <4>. QED
        BY <1>5, <4>1, Zenon
    <3>. QED
      BY <1>11, <3>1, Zenon
  <2>7. ShrunkTo(cs, k) = [c \in 1..m |-> cs[c]]
    BY <1>9, <2>6
  <2>. DEFINE ss == [c \in 1..m |-> cs[c]]
  <2>8. ss \in Seq(Seq(ChunkElems)) /\ Len(ss) = m /\ \A c \in 1..m : ss[c] = cs[c]
    BY <1>9, <1>10
  <2>. HIDE DEF ss
  <2>9. WellChunked(ss)
    <3>1. \A c \in 1..m : c \in 1..n
      BY <1>9
    <3>. QED
      BY <1>0, <2>8, <3>1, Zenon DEF WellChunked, ChunkLists
  <2>10. Through(ss, m) = Through(cs, m)
    <3>1. m \in 0..Len(ss) /\ m <= Len(cs)
      BY <1>0, <1>9, <2>8
    <3>. QED
      BY <1>0, <2>8, <3>1, ThroughSame
  <2>11. FlattenSeq(ss) = Through(cs, m)
    BY <2>8, <2>10, ThroughEnds, Zenon
  <2>12. Through(cs, m) \in Seq(ChunkElems) /\ Behind(cs, m) \in Seq(ChunkElems) /\ s = Through(cs, m) \o Behind(cs, m)
    BY <1>0, ThroughFacts, Zenon
  <2>13. s \in Seq(ChunkElems) /\ PutTogether(s, Through(cs, m), Behind(cs, m))
    <3>. HIDE DEF s
    <3>. QED
      BY <2>12, TwoParts, Zenon
  <2>14. SubSeq(s, 1, k) = Through(cs, m)
    BY <2>5, <2>13, Zenon DEF PutTogether, T
  <2>15. k \in 0..Len(s)
    <3>1. Len(s) = ListSize(cs) /\ ListSize(cs) \in Nat
      BY <1>0, SizeCounts, Zenon DEF s
    <3>. QED
      BY <3>1
  <2>. QED
    BY <2>7, <2>9, <2>11, <2>14, <2>15, Zenon DEF ss
<1>13. CASE m # 0 /\ ~(T(m) <= k)
  <2>1. m \in 1..n /\ m \in 1..m /\ m - 1 \in 0..n /\ m \in 0..n
    BY <1>9, <1>13
  <2>2. PICK t \in Nat, u \in Nat, l \in Nat : t = T(m) /\ u = T(m - 1) /\ l = Len(cs[m]) /\ t = u + l
    <3>1. T(m) \in Nat /\ T(m - 1) \in Nat /\ Len(cs[m]) \in Nat /\ T(m) = T(m - 1) + Len(cs[m])
      BY <1>1, <2>1, Zenon
    <3>. QED
      BY <3>1, Zenon
  <2>3. t > k /\ u < k
    <3>1. ~(t <= k)
      BY <1>13, <2>2, Zenon
    <3>2. u < k
      BY <1>5, <1>8, <1>13, <2>1, <2>2, Zenon
    <3>. QED
      BY <3>1, <3>2
  <2>. DEFINE x == cs[m]
              y == SubSeq(x, 1, k - u)
              j == (k - u) + 1
              ss == [c \in 1..m |-> kept(c)]
  <2>4. k - u \in 0..l /\ j \in 1..l + 1 /\ j - 1 = k - u /\ u + j = k + 1 /\ (k + 1) - 1 = k /\ k - u <= l
    <3>1. t = u + l /\ t > k /\ u < k
      BY <2>2, <2>3, Zenon
    <3>. QED
      BY <3>1
  <2>5. y \in Seq(ChunkElems) /\ Len(y) = k - u
    <3>1. x \in Seq(ChunkElems) /\ k - u \in 0..Len(x)
      BY <1>10, <2>1, <2>2, <2>4, Zenon
    <3>. HIDE DEF x
    <3>. QED
      BY <3>1, BeginFacts, Zenon
  <2>6. kept(m) = y
    BY <1>5, <2>1, <2>2, <2>3, Zenon
  <2>. HIDE DEF y, j
  <2>7. \A c \in 1..m : kept(c) \in Seq(ChunkElems) /\ (c # m => kept(c) = cs[c])
    <3>1. \A c \in 1..m : c \in 1..n
      BY <1>9
    <3>. QED
      BY <1>10, <1>11, <2>5, <2>6, <3>1, Zenon
  <2>8. ss \in Seq(Seq(ChunkElems)) /\ Len(ss) = m /\ \A c \in 1..m : ss[c] = kept(c)
    BY <1>9, <2>7
  <2>. HIDE DEF ss
  <2>9. WellChunked(ss)
    <3>1. \A c \in 1..m : c \in 1..n
      BY <1>9
    <3>2. Len(y) <= ChunkSize
      <4>1. l <= ChunkSize
        BY <1>0, <2>1, <2>2, Zenon DEF WellChunked
      <4>. QED
        BY <2>4, <2>5, <4>1, ChunkAssumption
    <3>. QED
      BY <1>0, <2>6, <2>7, <2>8, <3>1, <3>2, Zenon DEF WellChunked, ChunkLists
  <2>10. Through(ss, m - 1) = Through(cs, m - 1)
    <3>1. m - 1 \in 0..Len(ss) /\ m - 1 <= Len(cs)
      <4>1. m - 1 \in 0..m /\ m - 1 <= n
        BY <2>1
      <4>. QED
        BY <1>0, <2>8, <4>1, Zenon
    <3>2. \A c \in 1..m - 1 : c \in 1..m /\ c # m
      BY <2>1
    <3>3. \A c \in 1..m - 1 : ss[c] = cs[c]
      BY <2>7, <2>8, <3>2, Zenon
    <3>. QED
      BY <1>0, <2>8, <3>1, <3>3, ThroughSame
  <2>11. FlattenSeq(ss) = Through(cs, m - 1) \o y
    BY <2>1, <2>6, <2>8, <2>10, ThroughEnds, ThroughNext, Zenon
  <2>. DEFINE a == Through(cs, m - 1)
              b == Behind(cs, m)
  <2>12. a \in Seq(ChunkElems) /\ b \in Seq(ChunkElems) /\ s = a \o (x \o b) /\ Len(a) = u
    BY <1>0, <2>1, <2>2, ThroughFacts, OneOfMany, Zenon DEF T
  <2>. HIDE DEF a, b, s
  <2>13. s \in Seq(ChunkElems) /\ PlaceIn(s, k + 1, a, x, j, b)
    <3>1. x \in Seq(ChunkElems) /\ j \in 1..Len(x) + 1 /\ k + 1 = Len(a) + j
      BY <1>10, <2>1, <2>2, <2>4, <2>12, Zenon
    <3>. HIDE DEF x
    <3>. QED
      BY <2>12, <3>1, PlaceInPart, Zenon
  <2>14. SubSeq(s, 1, k) = a \o y
    BY <2>4, <2>13, Zenon DEF PlaceIn, y
  <2>15. k \in 0..Len(s)
    <3>1. Len(s) = ListSize(cs) /\ ListSize(cs) \in Nat
      BY <1>0, SizeCounts, Zenon DEF s
    <3>. QED
      BY <3>1
  <2>. QED
    BY <1>9, <2>9, <2>11, <2>14, <2>15, Zenon DEF ss, s, a
<1>. QED
    BY <1>12, <1>13, Zenon

-----------------------------------------------------------------------------
(* Every call of chunk_list is one of ListSpec.                            *)

\* push_back and emplace_back of chunk_list.
LEMMA ChunkPush ==
    ASSUME WellChunked(chunks), NEW v \in ChunkElems, ChunkPushBack(v)
    PROVE  WellChunked(chunks') /\ AsList!ListNext
<1>1. chunks' = ChunkPushed(chunks, v) /\ chunkCall' = <<"push_back", v>>
    BY Zenon DEF ChunkPushBack, ChunkStep
<1>2. WellChunked(chunks') /\ FlattenSeq(chunks') = Append(FlattenSeq(chunks), v)
    BY <1>1, PushAppends, Zenon DEF Appended
<1>3. chunkCall'[1] = "push_back" /\ chunkCall'[2] = v
    BY <1>1
<1>4. AsList!ListPush(v)
    BY <1>1, <1>2, Zenon DEF AsList!ListPush
<1>. QED
    BY <1>2, <1>3, <1>4, Zenon DEF AsList!ListNext

\* pop_back of chunk_list.
LEMMA ChunkPop ==
    ASSUME WellChunked(chunks), ChunkPopBack
    PROVE  WellChunked(chunks') /\ AsList!ListNext
<1>1. /\ ListSize(chunks) > 0 /\ chunks' = [chunks EXCEPT ![LastFilled(chunks)] = Front(@)]
      /\ chunkCall' = <<"pop_back">>
    BY Zenon DEF ChunkPopBack, ChunkStep
<1>2. /\ WellChunked(chunks') /\ FlattenSeq(chunks) # <<>>
      /\ FlattenSeq(chunks') = SubSeq(FlattenSeq(chunks), 1, Len(FlattenSeq(chunks)) - 1)
    BY <1>1, LastTaken, Zenon
<1>3. chunkCall'[1] = "pop_back"
    BY <1>1
<1>4. AsList!ListPop
    BY <1>1, <1>2, Zenon DEF AsList!ListPop
<1>. QED
    BY <1>2, <1>3, <1>4, Zenon DEF AsList!ListNext

\* resize of chunk_list, to fewer elements and to more.
LEMMA ChunkResized ==
    ASSUME WellChunked(chunks), NEW n \in Nat, NEW fill \in Seq(ChunkElems), ChunkResize(n, fill)
    PROVE  WellChunked(chunks') /\ AsList!ListNext
<1>. DEFINE s == FlattenSeq(chunks)
            t == FlattenSeq(chunks')
            fits == Len(t) = n /\ \A k \in 1..n : IF k <= Len(s) THEN t[k] = s[k] ELSE t[k] \in ChunkElems
<1>1. /\ Len(fill) = (IF n > ListSize(chunks) THEN n - ListSize(chunks) ELSE 0)
      /\ chunks' = IF n < ListSize(chunks) THEN ShrunkTo(chunks, n) ELSE GrownBy(chunks, fill)
      /\ chunkCall' = <<"resize", n>>
    BY Zenon DEF ChunkResize, ChunkStep
<1>2. s \in Seq(ChunkElems) /\ Len(s) = ListSize(chunks) /\ ListSize(chunks) \in Nat
    BY SizeCounts, Zenon DEF WellChunked
<1>3. ASSUME n < ListSize(chunks) PROVE WellChunked(chunks') /\ fits
  <2>1. WellChunked(chunks') /\ t = SubSeq(s, 1, n) /\ n \in 0..Len(s)
    BY <1>1, <1>3, ShrunkKeepsFirst, Zenon
  <2>. HIDE DEF s, t
  <2>2. Len(t) = n /\ \A k \in 1..n : t[k] = s[k] /\ k <= Len(s)
    <3>1. Len(t) = n /\ \A k \in 1..n : t[k] = s[k]
      BY <1>2, <2>1, BeginFacts, Zenon
    <3>2. \A k \in 1..n : k <= Len(s)
      BY <2>1, <1>2, SMT
    <3>. QED
      BY <3>1, <3>2, Zenon
  <2>. QED
    BY <2>1, <2>2, Zenon
<1>4. ASSUME ~(n < ListSize(chunks)) PROVE WellChunked(chunks') /\ fits
  <2>1. WellChunked(chunks') /\ t = s \o fill
    BY <1>1, <1>4, GrownAppends, Zenon
  <2>2. Len(s) + Len(fill) = n
    BY <1>1, <1>2, <1>4, SMT
  <2>. HIDE DEF s, t
  <2>3. t \in Seq(ChunkElems) /\ InARow(t, s, fill)
    BY <1>2, <2>1, JoinFacts, Zenon
  <2>4. Len(t) = n /\ \A k \in 1..n : IF k <= Len(s) THEN t[k] = s[k] ELSE t[k] \in ChunkElems
    <3>1. Len(t) = n /\ \A k \in 1..Len(s) : t[k] = s[k]
      BY <2>2, <2>3, Zenon DEF InARow
    <3>2. \A k \in 1..n : t[k] \in ChunkElems
      BY <3>1, <2>3, ElementOfSeq, Zenon
    <3>3. \A k \in 1..n : k <= Len(s) => k \in 1..Len(s)
      BY <1>2, SMT
    <3>. QED
      BY <3>1, <3>2, <3>3, Zenon
  <2>. QED
    BY <2>1, <2>4, Zenon
<1>. HIDE DEF fits
<1>5. WellChunked(chunks') /\ fits
    BY <1>3, <1>4, Zenon
<1>7. chunkCall'[1] = "resize" /\ chunkCall'[2] = n
    BY <1>1
<1>8. AsList!ListResize(n)
    BY <1>1, <1>5, Zenon DEF fits, AsList!ListResize
<1>. QED
    BY <1>5, <1>7, <1>8, Zenon DEF AsList!ListNext

\* assign and clear of chunk_list.
LEMMA ChunkAssigned ==
    ASSUME WellChunked(chunks), NEW vs \in Seq(ChunkElems), ChunkAssign(vs)
    PROVE  WellChunked(chunks') /\ AsList!ListNext
<1>1. chunks' = Assigned(chunks, vs) /\ chunkCall' = <<"assign", vs>>
    BY Zenon DEF ChunkAssign, ChunkStep
<1>2. WellChunked(chunks') /\ FlattenSeq(chunks') = vs
    BY <1>1, AssignedFacts, Zenon
<1>3. chunkCall'[1] = "assign" /\ chunkCall'[2] = vs
    BY <1>1
<1>4. AsList!ListAssign(vs)
    BY <1>1, <1>2, Zenon DEF AsList!ListAssign
<1>. QED
    BY <1>2, <1>3, <1>4, Zenon DEF AsList!ListNext

\* insert and emplace of chunk_list.
LEMMA ChunkInserted ==
    ASSUME WellChunked(chunks), NEW p \in Positions(chunks), NEW v \in ChunkElems, ChunkInsert(p, v)
    PROVE  WellChunked(chunks') /\ AsList!ListNext
<1>. DEFINE s == FlattenSeq(chunks)
<1>1. PICK es, d, k, i : /\ InsertPosition(chunks, p) = <<es, <<d, k>>>>
                         /\ Insertable(es, d, k, chunks, i) /\ AtIndex(chunks, p, i)
  <2>1. CASE p = ListEnd(chunks) /\ AtIndex(chunks, p, Len(s) + 1)
    BY <2>1, EndPlaced, Zenon
  <2>2. CASE \E c \in 1..Len(chunks) : \E j \in 1..Len(chunks[c]) :
                 p = <<c, j>> /\ AtIndex(chunks, p, Len(Through(chunks, c - 1)) + j)
    <3>1. PICK c \in 1..Len(chunks) : \E j \in 1..Len(chunks[c]) :
                   p = <<c, j>> /\ AtIndex(chunks, p, Len(Through(chunks, c - 1)) + j)
      BY <2>2, Zenon
    <3>2. PICK j, i :
              j \in 1..Len(chunks[c]) /\ p = <<c, j>> /\ AtIndex(chunks, p, i) /\ i = Len(Through(chunks, c - 1)) + j
      BY <3>1, Zenon
    <3>3. \E es, d, k : InsertPosition(chunks, <<c, j>>) = <<es, <<d, k>>>> /\ Insertable(es, d, k, chunks, i)
      BY <3>2, PlaceGiven, Zenon
    <3>. QED
      BY <3>2, <3>3, Zenon
  <2>. QED
    BY <2>1, <2>2, PositionIndex, Zenon
<1>. DEFINE ip == InsertPosition(chunks, p)
            cs == [ip[1] EXCEPT ![ip[2][1]] = InsertAt(@, ip[2][2], v)]
<1>2. /\ chunks' = cs
      /\ chunkCall' = <<"insert", IndexOf(chunks, p), v, IndexOf(cs, Adjust(cs, ip[2]))>>
    BY Zenon DEF ChunkInsert, ChunkStep
<1>3. ip[1] = es /\ ip[2] = <<d, k>> /\ ip[2][1] = d /\ ip[2][2] = k
    BY <1>1, SMT
<1>. HIDE DEF ip
<1>4. PICK ds : ds = [es EXCEPT ![d] = InsertAt(@, k, v)] /\ cs = ds
    BY <1>3, Zenon
<1>5. PutThere(ds, chunks, <<d, k>>, i, v)
    BY <1>1, <1>4, PutWhereAsked, Zenon
<1>6. IndexOf(chunks, p) = i
    BY <1>1, IndexCounted, Zenon DEF WellChunked
<1>. HIDE DEF cs
<1>7. chunkCall' = <<"insert", i, v, i>> /\ chunks' = ds
    BY <1>2, <1>3, <1>4, <1>5, <1>6, Zenon DEF PutThere
<1>8. chunkCall'[1] = "insert" /\ chunkCall'[2] = i /\ chunkCall'[3] = v
    BY <1>7
<1>9. i \in 1..Len(s) + 1
  <2>1. CASE i = Len(s) + 1
    <3>1. Len(s) \in Nat
      BY SizeCounts DEF WellChunked
    <3>. QED
      BY <2>1, <3>1, SMT
  <2>2. CASE \E c \in 1..Len(chunks) : \E j \in 1..Len(chunks[c]) : i = Len(Through(chunks, c - 1)) + j
    <3>1. PICK c \in 1..Len(chunks) : \E j \in 1..Len(chunks[c]) : i = Len(Through(chunks, c - 1)) + j
      BY <2>2, Zenon
    <3>2. PICK j \in 1..Len(chunks[c]) : i = Len(Through(chunks, c - 1)) + j
      BY <3>1, Zenon
    <3>3. PICK e : e = [chunks EXCEPT ![c] = RemoveAt(@, j)]
      OBVIOUS
    <3>4. i \in 1..Len(s)
      BY <3>2, <3>3, CutWhereAsked, Zenon DEF CutThere
    <3>. QED
      BY <3>4, SMT
  <2>. QED
    BY <1>1, <2>1, <2>2, Zenon DEF AtIndex
<1>10. AsList!ListInsert(i, v)
    BY <1>5, <1>7, Zenon DEF PutThere, AsList!ListInsert, PutAt
<1>. QED
    BY <1>5, <1>7, <1>8, <1>9, <1>10, Zenon DEF PutThere, AsList!ListNext

\* erase of chunk_list: the end is passed on, an element is cut out.
LEMMA ChunkErased ==
    ASSUME WellChunked(chunks), NEW p \in Positions(chunks), ChunkErase(p)
    PROVE  WellChunked(chunks') /\ AsList!ListNext
<1>. DEFINE s == FlattenSeq(chunks)
            n == Len(chunks)
            cs == IF p = ListEnd(chunks) THEN chunks ELSE [chunks EXCEPT ![p[1]] = RemoveAt(@, p[2])]
<1>1. chunks' = cs /\ chunkCall' = <<"erase", IndexOf(chunks, p), IndexOf(cs, Adjust(cs, p))>>
    BY Zenon DEF ChunkErase, ChunkStep
<1>2. Len(s) \in Nat /\ n \in Nat
    BY SizeCounts DEF WellChunked, ChunkLists
<1>3. CASE p = ListEnd(chunks) /\ AtIndex(chunks, p, Len(s) + 1)
  <2>1. IndexOf(chunks, p) = Len(s) + 1
    BY <1>3, IndexCounted, Zenon DEF WellChunked
  <2>2. Adjust(chunks, p) = p
    BY <1>2, <1>3, SMT DEF Adjust, ListEnd
  <2>3. chunks' = chunks /\ chunkCall' = <<"erase", Len(s) + 1, Len(s) + 1>>
    BY <1>1, <1>3, <2>1, <2>2, Zenon
  <2>4. PICK i \in Nat : i = Len(s) + 1 /\ ~(i <= Len(s))
    BY <1>2
  <2>5. chunkCall'[1] = "erase" /\ chunkCall'[2] = i
    BY <2>3, <2>4
  <2>6. AsList!ListErase(i)
    BY <2>3, <2>4, Zenon DEF AsList!ListErase
  <2>. QED
    BY <2>3, <2>5, <2>6, Zenon DEF AsList!ListNext
<1>4. CASE \E c \in 1..n : \E j \in 1..Len(chunks[c]) :
               p = <<c, j>> /\ AtIndex(chunks, p, Len(Through(chunks, c - 1)) + j)
  <2>0. PICK c \in 1..n : \E j \in 1..Len(chunks[c]) :
                              p = <<c, j>> /\ AtIndex(chunks, p, Len(Through(chunks, c - 1)) + j)
    BY <1>4, Zenon
  <2>1. PICK j, i :
            j \in 1..Len(chunks[c]) /\ p = <<c, j>> /\ AtIndex(chunks, p, i) /\ i = Len(Through(chunks, c - 1)) + j
    BY <2>0, Zenon
  <2>2. p[1] = c /\ p[2] = j /\ p # ListEnd(chunks)
    BY <1>2, <2>1, SMT DEF ListEnd
  <2>3. PICK ds : ds = [chunks EXCEPT ![c] = RemoveAt(@, j)] /\ cs = ds
    BY <2>2, Zenon
  <2>4. CutThere(ds, chunks, <<c, j>>, i)
    BY <2>1, <2>3, CutWhereAsked, Zenon
  <2>5. IndexOf(chunks, p) = i
    BY <2>1, IndexCounted, Zenon DEF WellChunked
  <2>. HIDE DEF cs
  <2>6. chunks' = ds /\ chunkCall' = <<"erase", i, i>>
    BY <1>1, <2>1, <2>3, <2>4, <2>5, Zenon DEF CutThere
  <2>7. chunkCall'[1] = "erase" /\ chunkCall'[2] = i /\ i <= Len(s)
    BY <2>4, <2>6 DEF CutThere
  <2>8. AsList!ListErase(i)
    BY <2>4, <2>6, <2>7, Zenon DEF CutThere, AsList!ListErase, AsList!Cut, WithoutAt
  <2>. QED
    BY <2>4, <2>6, <2>7, <2>8, Zenon DEF CutThere, AsList!ListNext
<1>. QED
    BY <1>3, <1>4, PositionIndex, Zenon

\* erase_if of chunk_list.
LEMMA ChunkErasedIf ==
    ASSUME WellChunked(chunks), NEW v \in ChunkElems, ChunkEraseIf(v)
    PROVE  WellChunked(chunks') /\ AsList!ListNext
<1>. DEFINE set == ChunkElems \ {v}
            cs == [c \in DOMAIN chunks |-> Remaining(chunks[c], set)]
<1>1. chunks' = cs /\ chunkCall' = <<"erase_if", v, ListSize(chunks) - ListSize(cs)>>
    BY Zenon DEF ChunkEraseIf, ChunkStep
<1>2. WellChunked(cs) /\ FlattenSeq(cs) = Remaining(FlattenSeq(chunks), set)
    BY ChunksRemaining, Zenon
<1>. HIDE DEF cs
<1>3. ListSize(chunks) = Len(FlattenSeq(chunks)) /\ ListSize(cs) = Len(FlattenSeq(cs))
    BY <1>2, SizeCounts, Zenon DEF WellChunked
<1>4. chunkCall'[1] = "erase_if" /\ chunkCall'[2] = v
    BY <1>1
<1>5. AsList!Kept(set) = Remaining(FlattenSeq(chunks), set)
    BY Zenon DEF AsList!Kept, Remaining
<1>6. AsList!ListEraseIf(v)
    BY <1>1, <1>2, <1>3, <1>5, Zenon DEF AsList!ListEraseIf
<1>. QED
    BY <1>1, <1>2, <1>4, <1>6, Zenon DEF AsList!ListNext

\* Every step of the list in chunks is a call of a list.
LEMMA ChunkStepImplemented ==
    ASSUME WellChunked(chunks), ChunkNext \/ UNCHANGED chunkVars
    PROVE  WellChunked(chunks') /\ (AsList!ListNext \/ UNCHANGED <<FlattenSeq(chunks), chunkCall>>)
<1>0. 1 \in Nat /\ 2 \in Nat /\ \A n \in 0..MaxList : n \in Nat
    BY ChunkAssumption
<1>1. CASE \E v \in ChunkElems : ChunkPushBack(v)
    BY <1>1, ChunkPush, Zenon
<1>2. CASE ChunkPopBack
    BY <1>2, ChunkPop, Zenon
<1>3. CASE \E n \in 0..MaxList, fill \in BoundedSeq(ChunkElems, 2) : ChunkResize(n, fill)
    BY <1>0, <1>3, ChunkResized, BoundedSeqFacts, Zenon
<1>4. CASE \E vs \in BoundedSeq(ChunkElems, 1) : ChunkAssign(vs)
    BY <1>0, <1>4, ChunkAssigned, BoundedSeqFacts, Zenon
<1>5. CASE \E p \in Positions(chunks), v \in ChunkElems : ChunkInsert(p, v)
    BY <1>5, ChunkInserted, Zenon
<1>6. CASE \E p \in Positions(chunks) : ChunkErase(p)
    BY <1>6, ChunkErased, Zenon
<1>7. CASE \E v \in ChunkElems : ChunkEraseIf(v)
    BY <1>7, ChunkErasedIf, Zenon
<1>8. CASE UNCHANGED chunkVars
    BY <1>8, Zenon DEF chunkVars
<1>. QED
    BY <1>1, <1>2, <1>3, <1>4, <1>5, <1>6, <1>7, <1>8, Zenon DEF ChunkNext

\* A new list has no chunks.
LEMMA ChunkInitially ==
    ASSUME ChunkInit PROVE WellChunked(chunks) /\ AsList!ListInit
<1>1. chunks = <<>> /\ chunkCall = <<"construct">>
    BY DEF ChunkInit
<1>2. chunks \in ChunkLists /\ \A c \in 1..Len(chunks) : FALSE
    BY <1>1 DEF ChunkLists
<1>3. FlattenSeq(chunks) = <<>>
    BY <1>2, EmptyFlattens, Zenon
<1>. QED
    BY <1>1, <1>2, <1>3, Zenon DEF WellChunked, AsList!ListInit

-----------------------------------------------------------------------------
(* The iterator of chunk_list.                                             *)

\* The first of some numbers, and what is before it.
LEMMA FirstOf ==
    ASSUME NEW a \in Nat, NEW n \in Nat, NEW T, T \subseteq a..n, T # {}
    PROVE  Min(T) \in T /\ \A k \in a..Min(T) - 1 : k \notin T
<1>1. T \subseteq Nat
    OBVIOUS
<1>2. \E m \in T : \A k \in T : m <= k
    BY <1>1, Least, Zenon
<1>3. PICK m : m = Min(T) /\ m \in T /\ \A k \in T : m <= k
    BY <1>2, Zenon DEF Min
<1>4. \A k \in a..m - 1 : ~(m <= k)
    BY <1>1, <1>3
<1>. QED
    BY <1>3, <1>4, Zenon

\* operator+= uses up the rest of the chunk, the chunks behind it, and a part of
\* the one that is reached.
LEMMA PlusIndex ==
    ASSUME NEW cs \in ChunkLists, NEW c \in 1..Len(cs), NEW j \in 1..Len(cs[c]), NEW i,
           i = Len(Through(cs, c - 1)) + j, NEW d \in Nat, i + d <= Len(FlattenSeq(cs)) + 1
    PROVE  AtIndex(cs, Plus(cs, <<c, j>>, d), i + d)
<1>0. PICK n \in Nat, l \in Nat : n = Len(cs) /\ l = Len(cs[c]) /\ c \in 1..n /\ j \in 1..l
    BY DEF ChunkLists
<1>. DEFINE T(x) == Len(Through(cs, x))
<1>1. /\ \A b \in 0..n : T(b) \in Nat
      /\ \A b \in 1..n : Len(cs[b]) \in Nat /\ T(b) = T(b - 1) + Len(cs[b])
    BY <1>0, ThroughCounts, Zenon DEF ChunkLists
<1>2. T(n) = Len(FlattenSeq(cs))
    BY <1>0, ThroughEnds, Zenon DEF ChunkLists
<1>3. \A a \in 1..n + 1, b \in 0..n : Held(cs, a, b) = T(b) - T(a - 1)
    BY <1>0, HeldCounts, Zenon
<1>4. \A m \in 1..n : \A k \in 1..Len(cs[m]) + 1 : AtIndex(cs, Adjust(cs, <<m, k>>), T(m - 1) + k)
    BY <1>0, AdjustedIndex, Zenon
<1>. DEFINE here == l + 1 - j
            behind(b) == here + Held(cs, c + 1, b)
            reached == {b \in c + 1..n : d <= behind(b)}
<1>5. Plus(cs, <<c, j>>, d) = IF d <= here THEN Adjust(cs, <<c, j + d>>)
                              ELSE IF reached = {} THEN ListEnd(cs)
                              ELSE Adjust(cs, <<Min(reached), 1 + d - behind(Min(reached) - 1)>>)
  <2>0. <<c, j>>[1] = c /\ <<c, j>>[2] = j
    OBVIOUS
  <2>1. PICK p : p = <<c, j>> /\ p[1] = c /\ p[2] = j
    BY <2>0, Zenon
  <2>2. Plus(cs, p, d) = IF d <= here THEN Adjust(cs, <<c, j + d>>)
                         ELSE IF reached = {} THEN ListEnd(cs)
                         ELSE Adjust(cs, <<Min(reached), 1 + d - behind(Min(reached) - 1)>>)
    BY <1>0, <2>1, Zenon DEF Plus
  <2>. QED
    BY <2>1, <2>2, Zenon
<1>. HIDE DEF T
<1>6. PICK t \in Nat : t = T(c - 1) /\ T(c) = t + l /\ i = t + j
  <2>1. c - 1 \in 0..n
    BY <1>0
  <2>. QED
    BY <1>0, <1>1, <2>1, Zenon DEF T
<1>7. here = t + l + 1 - i /\ i \in Nat
  <2>1. j \in 1..l /\ i = t + j /\ t \in Nat /\ l \in Nat
    BY <1>0, <1>6, Zenon
  <2>. QED
    BY <2>1
<1>8. \A b \in c..n : T(b) \in Nat /\ behind(b) = T(b) + 1 - i
  <2>. SUFFICES ASSUME NEW b \in c..n PROVE T(b) \in Nat /\ behind(b) = T(b) + 1 - i
    OBVIOUS
  <2>1. c + 1 \in 1..n + 1 /\ b \in 0..n /\ (c + 1) - 1 = c
    BY <1>0
  <2>2. Held(cs, c + 1, b) = T(b) - (t + l) /\ T(b) \in Nat
    BY <1>1, <1>3, <1>6, <2>1, Zenon
  <2>3. behind(b) = here + (T(b) - (t + l))
    BY <2>2, Zenon
  <2>. HIDE DEF behind, here
  <2>. QED
    BY <1>7, <2>2, <2>3
<1>. HIDE DEF here, behind
<1>9. CASE d <= here
  <2>1. j + d \in 1..l + 1 /\ t + (j + d) = i + d
    <3>1. j \in 1..l /\ i = t + j /\ t \in Nat /\ l \in Nat /\ d <= l + 1 - j
      BY <1>0, <1>6, <1>9, Zenon DEF here
    <3>. QED
      BY <3>1
  <2>2. AtIndex(cs, Adjust(cs, <<c, j + d>>), t + (j + d))
    BY <1>0, <1>4, <1>6, <2>1, Zenon
  <2>. QED
    BY <1>5, <1>9, <2>1, <2>2, Zenon
<1>10. CASE ~(d <= here)
  <2>1. T(c) = t + l /\ ~(d <= T(c) + 1 - i)
    BY <1>6, <1>7, <1>10
  <2>2. d <= T(n) + 1 - i /\ T(n) \in Nat
    <3>1. n \in 0..n /\ i + d <= T(n) + 1
      BY <1>2
    <3>2. T(n) \in Nat
      BY <1>1, <3>1, Zenon
    <3>. QED
      BY <1>7, <3>1, <3>2
  <2>3. n \in reached
    <3>1. c # n
      BY <2>1, <2>2, Zenon
    <3>2. n \in c + 1..n /\ n \in c..n
      BY <1>0, <3>1
    <3>3. behind(n) = T(n) + 1 - i
      BY <1>8, <3>2, Zenon
    <3>. QED
      BY <2>2, <3>2, <3>3, Zenon
  <2>4. reached \subseteq c + 1..n /\ c + 1 \in Nat
    BY <1>0
  <2>5. PICK m : m = Min(reached) /\ m \in reached /\ \A k \in c + 1..m - 1 : k \notin reached
    <3>. HIDE DEF reached
    <3>. QED
      BY <2>3, <2>4, FirstOf, Zenon
  <2>6. m \in c + 1..n /\ m \in c..n /\ m - 1 \in c..n /\ m \in 1..n
    BY <1>0, <2>5
  <2>7. d <= T(m) + 1 - i
    BY <1>8, <2>5, <2>6, Zenon
  <2>8. ~(d <= T(m - 1) + 1 - i)
    <3>1. CASE m - 1 = c
      BY <2>1, <3>1, Zenon
    <3>2. CASE m - 1 # c
      <4>1. m - 1 \in c + 1..m - 1 /\ m - 1 \in c + 1..n
        BY <2>6, <3>2
      <4>2. ~(d <= behind(m - 1))
        BY <2>5, <4>1, Zenon
      <4>. QED
        BY <1>8, <2>6, <4>2, Zenon
    <3>. QED
      BY <3>1, <3>2, Zenon
  <2>9. PICK u \in Nat, v \in Nat : u = T(m - 1) /\ v = Len(cs[m]) /\ T(m) = u + v
    BY <1>1, <1>8, <2>6, Zenon
  <2>10. behind(m - 1) = u + 1 - i
    BY <1>8, <2>6, <2>9, Zenon
  <2>11. PICK k : k = 1 + d - (u + 1 - i)
    OBVIOUS
  <2>12. k \in 1..v + 1 /\ u + k = i + d
    <3>1. d <= u + v + 1 - i /\ ~(d <= u + 1 - i)
      BY <2>7, <2>8, <2>9, Zenon
    <3>. QED
      BY <1>7, <2>11, <3>1
  <2>13. AtIndex(cs, Adjust(cs, <<m, k>>), u + k)
    BY <1>4, <2>6, <2>9, <2>12, Zenon
  <2>14. Plus(cs, <<c, j>>, d) = Adjust(cs, <<m, k>>)
    <3>1. reached # {}
      BY <2>3
    <3>. HIDE DEF reached
    <3>. QED
      BY <1>5, <1>10, <2>5, <2>10, <2>11, <3>1, Zenon
  <2>. QED
    BY <2>12, <2>13, <2>14, Zenon
<1>. QED
    BY <1>9, <1>10, Zenon

\* The element at a position is the one that has its index.
LEMMA ElementAt ==
    ASSUME NEW cs \in ChunkLists, NEW c \in 1..Len(cs), NEW j \in 1..Len(cs[c]), NEW i,
           i = Len(Through(cs, c - 1)) + j
    PROVE  At(cs, <<c, j>>) = FlattenSeq(cs)[i] /\ i \in 1..Len(FlattenSeq(cs))
<1>0. cs \in Seq(Seq(ChunkElems)) /\ c - 1 \in 0..Len(cs) /\ c \in 0..Len(cs) /\ cs[c] \in Seq(ChunkElems)
    BY DEF ChunkLists
<1>. DEFINE a == Through(cs, c - 1)
            x == cs[c]
            b == Behind(cs, c)
            s == FlattenSeq(cs)
<1>1. a \in Seq(ChunkElems) /\ x \in Seq(ChunkElems) /\ b \in Seq(ChunkElems) /\ s = a \o (x \o b)
    BY <1>0, ThroughFacts, OneOfMany, Zenon
<1>. HIDE DEF a, b, s
<1>2. At(cs, <<c, j>>) = x[j] /\ j \in 1..Len(x) /\ i = Len(a) + j
    BY DEF At, a
<1>. HIDE DEF x
<1>3. PICK r : r = x \o b /\ r \in Seq(ChunkElems) /\ InARow(r, x, b)
    BY <1>1, JoinFacts, Zenon
<1>4. s = a \o r /\ InARow(s, a, r)
    BY <1>1, <1>3, JoinFacts, Zenon
<1>5. Len(a) \in Nat /\ Len(x) \in Nat /\ Len(b) \in Nat
    BY <1>1
<1>6. Len(r) = Len(x) + Len(b) /\ Len(s) = Len(a) + Len(r) /\ r[j] = x[j]
    BY <1>2, <1>3, <1>4, Zenon DEF InARow
<1>7. j \in 1..Len(r) /\ i \in 1..Len(s)
    BY <1>2, <1>5, <1>6
<1>8. s[i] = r[j]
    BY <1>2, <1>4, <1>7, Zenon DEF InARow
<1>. QED
    BY <1>2, <1>6, <1>7, <1>8, Zenon DEF s

\* From an element the iterator moves on by the index.
LEMMA MovedOn ==
    ASSUME NEW cs \in ChunkLists, NEW p, NEW i \in 1..Len(FlattenSeq(cs)), AtIndex(cs, p, i),
           NEW d \in Nat, i + d <= Len(FlattenSeq(cs)) + 1
    PROVE  AtIndex(cs, Plus(cs, p, d), i + d)
<1>1. Len(FlattenSeq(cs)) \in Nat
    BY SizeCounts, Zenon
<1>2. i # Len(FlattenSeq(cs)) + 1
    BY <1>1
<1>3. PICK c \in 1..Len(cs) : \E j \in 1..Len(cs[c]) : p = <<c, j>> /\ i = Len(Through(cs, c - 1)) + j
    BY <1>2, Zenon DEF AtIndex
<1>4. PICK j \in 1..Len(cs[c]) : p = <<c, j>> /\ i = Len(Through(cs, c - 1)) + j
    BY <1>3, Zenon
<1>5. PICK k : k = i /\ k = Len(Through(cs, c - 1)) + j /\ k + d <= Len(FlattenSeq(cs)) + 1
    BY <1>4, Zenon
<1>6. AtIndex(cs, Plus(cs, <<c, j>>, d), k + d)
    BY <1>5, PlusIndex, Zenon
<1>. QED
    BY <1>4, <1>5, <1>6, Zenon

\* It finds the element that has the index.
LEMMA ElementFound ==
    ASSUME NEW cs \in ChunkLists, NEW p, NEW i \in 1..Len(FlattenSeq(cs)), AtIndex(cs, p, i)
    PROVE  At(cs, p) = FlattenSeq(cs)[i]
<1>1. Len(FlattenSeq(cs)) \in Nat
    BY SizeCounts, Zenon
<1>2. i # Len(FlattenSeq(cs)) + 1
    BY <1>1
<1>3. PICK c \in 1..Len(cs) : \E j \in 1..Len(cs[c]) : p = <<c, j>> /\ i = Len(Through(cs, c - 1)) + j
    BY <1>2, Zenon DEF AtIndex
<1>4. PICK j \in 1..Len(cs[c]) : p = <<c, j>> /\ i = Len(Through(cs, c - 1)) + j
    BY <1>3, Zenon
<1>5. At(cs, <<c, j>>) = FlattenSeq(cs)[i]
    BY <1>4, ElementAt, Zenon
<1>. QED
    BY <1>4, <1>5, Zenon

\* begin has the first index.
LEMMA BeginIndex ==
    ASSUME NEW cs \in ChunkLists
    PROVE  AtIndex(cs, ListBegin(cs), 1)
<1>1. cs \in Seq(Seq(ChunkElems)) /\ Len(cs) \in Nat /\ 1 \in 1..Len(cs) + 1 /\ 1 - 1 = 0
    BY DEF ChunkLists
<1>2. FirstAt(cs, 1, ListBegin(cs))
    BY BeginFound, Zenon
<1>3. AtIndex(cs, ListBegin(cs), Len(Through(cs, 0)) + 1)
    BY <1>1, <1>2, FirstIndex, Zenon
<1>4. Len(Through(cs, 0)) = 0
    BY <1>1, ThroughCounts, Zenon
<1>5. 0 + 1 = 1
    OBVIOUS
<1>. QED
    BY <1>3, <1>4, <1>5, Zenon

-----------------------------------------------------------------------------
(* Bisection from position to position.                                    *)

\* A search over positions keeps to a search over the indices of these.
KeepsTo(cs, np, mi) == np[1] = mi[1] /\ AtIndex(cs, np[2], mi[2])

\* The indices of the elements that are left.
LeftOf(cs, left) == {i \in 1..Len(FlattenSeq(cs)) : FlattenSeq(cs)[i] \in left}

LEMMA PairKeepsTo ==
    ASSUME NEW cs, NEW n, NEW p, NEW q, AtIndex(cs, p, q)
    PROVE  KeepsTo(cs, <<n, p>>, <<n, q>>)
BY DEF KeepsTo

LEMMA ChunkHalvedFacts ==
    ASSUME NEW cs \in ChunkLists, NEW left, NEW np, NEW mi \in Nat \X Nat, KeepsTo(cs, np, mi),
           Searched(1, Len(FlattenSeq(cs)) + 1, LeftOf(cs, left), mi)
    PROVE  KeepsTo(cs, ChunkHalved(cs, left, np), Halved(mi, LeftOf(cs, left)))
<1>1. PICK n \in Nat, q \in Nat : mi = <<n, q>> /\ mi[1] = n /\ mi[2] = q
    BY SMT
<1>2. PICK z \in Nat : z = Len(FlattenSeq(cs))
    BY SizeCounts, Zenon
<1>3. PICK p : p = np[2] /\ np[1] = n /\ AtIndex(cs, p, q)
    BY <1>1, Zenon DEF KeepsTo
<1>4. 1 <= q /\ q + n <= z + 1
    BY <1>1, <1>2, Zenon DEF Searched
<1>. DEFINE s == FlattenSeq(cs)
            I == LeftOf(cs, left)
<1>5. CASE n = 0
  <2>1. ChunkHalved(cs, left, np) = np
    BY <1>3, <1>5, Zenon DEF ChunkHalved
  <2>2. Halved(mi, I) = mi
    BY <1>1, <1>5, Zenon DEF Halved
  <2>. QED
    BY <2>1, <2>2, Zenon
<1>6. CASE n # 0
  <2>1. PICK h \in Nat : h = n \div 2 /\ h < n
    BY <1>6
  <2>2. PICK m : m = q + h /\ m \in 1..z /\ q \in 1..z /\ m <= z + 1 /\ m + 1 <= z + 1
    BY <1>4, <2>1
  <2>3. PICK it : it = Plus(cs, p, h)
    OBVIOUS
  <2>4. AtIndex(cs, it, m)
    BY <1>2, <1>3, <2>2, <2>3, MovedOn, Zenon
  <2>5. At(cs, it) = s[m]
    BY <1>2, <2>2, <2>4, ElementFound, Zenon
  <2>6. At(cs, it) \in left <=> m \in I
    BY <1>2, <2>2, <2>5, Zenon DEF LeftOf
  <2>7. CASE m \in I
    <3>1. ChunkHalved(cs, left, np) = <<n - (h + 1), Plus(cs, it, 1)>>
      BY <1>3, <1>6, <2>1, <2>3, <2>6, <2>7, Zenon DEF ChunkHalved
    <3>2. Halved(mi, I) = <<n - (h + 1), m + 1>>
      BY <1>1, <1>6, <2>1, <2>2, <2>7, Zenon DEF Halved
    <3>3. AtIndex(cs, Plus(cs, it, 1), m + 1)
      <4>1. 1 \in Nat
        OBVIOUS
      <4>. QED
        BY <1>2, <2>2, <2>4, <4>1, MovedOn, Zenon
    <3>4. KeepsTo(cs, <<n - (h + 1), Plus(cs, it, 1)>>, <<n - (h + 1), m + 1>>)
      BY <3>3, PairKeepsTo, Zenon
    <3>. QED
      BY <3>1, <3>2, <3>4, Zenon
  <2>8. CASE m \notin I
    <3>1. ChunkHalved(cs, left, np) = <<h, p>>
      BY <1>3, <1>6, <2>1, <2>3, <2>6, <2>8, Zenon DEF ChunkHalved
    <3>2. Halved(mi, I) = <<h, q>>
      BY <1>1, <1>6, <2>1, <2>2, <2>8, Zenon DEF Halved
    <3>3. KeepsTo(cs, <<h, p>>, <<h, q>>)
      BY <1>3, PairKeepsTo, Zenon
    <3>. QED
      BY <3>1, <3>2, <3>3, Zenon
  <2>. QED
    BY <2>7, <2>8, Zenon
<1>. QED
    BY <1>5, <1>6, Zenon

\* What a search over positions has come to after every turn.
ChunkTurns(f, cs, left, n) ==
    f = [i \in 0..n |-> IF i = 0 THEN <<n, ListBegin(cs)>> ELSE ChunkHalved(cs, left, f[i - 1])]

ChunkTurnByTurn(f, cs, left, k, n) ==
    f[0] = <<n, ListBegin(cs)>> /\ \A i \in 1..k : f[i] = ChunkHalved(cs, left, f[i - 1])

\* Every search has its turns.
LEMMA ChunkTurnsExist ==
    ASSUME NEW cs, NEW left, NEW n, NEW k \in Nat
    PROVE  \E f : f = [i \in 0..k |-> f[i]] /\ ChunkTurnByTurn(f, cs, left, k, n)
<1>. DEFINE N == {i \in Nat : \E f : f = [j \in 0..i |-> f[j]] /\ ChunkTurnByTurn(f, cs, left, i, n)}
<1>1. 0 \in N
  <2>. DEFINE f == [i \in 0..0 |-> <<n, ListBegin(cs)>>]
  <2>1. f = [j \in 0..0 |-> f[j]] /\ f[0] = <<n, ListBegin(cs)>> /\ 1..0 = {}
    OBVIOUS
  <2>. HIDE DEF f
  <2>2. ChunkTurnByTurn(f, cs, left, 0, n)
    BY <2>1 DEF ChunkTurnByTurn
  <2>. QED
    BY <2>1, <2>2, Zenon
<1>2. ASSUME NEW i \in Nat, i \in N PROVE i + 1 \in N
  <2>1. PICK g : g = [j \in 0..i |-> g[j]] /\ ChunkTurnByTurn(g, cs, left, i, n)
    BY <1>2
  <2>. DEFINE f == [j \in 0..(i + 1) |-> IF j = i + 1 THEN ChunkHalved(cs, left, g[i]) ELSE g[j]]
  <2>2. f = [j \in 0..(i + 1) |-> f[j]] /\ f[i + 1] = ChunkHalved(cs, left, g[i]) /\ \A j \in 0..i : f[j] = g[j]
    OBVIOUS
  <2>. HIDE DEF f
  <2>3. ChunkTurnByTurn(f, cs, left, i + 1, n)
    <3>1. f[0] = <<n, ListBegin(cs)>>
      <4>1. 0 \in 0..i
        OBVIOUS
      <4>. QED
        BY <2>1, <2>2, <4>1, Zenon DEF ChunkTurnByTurn
    <3>2. ASSUME NEW j \in 1..(i + 1) PROVE f[j] = ChunkHalved(cs, left, f[j - 1])
      <4>1. CASE j = i + 1
        <5>1. j - 1 = i /\ i \in 0..i
          BY <4>1
        <5>. QED
          BY <2>2, <4>1, <5>1, Zenon
      <4>2. CASE j # i + 1
        <5>1. j \in 1..i /\ j \in 0..i /\ j - 1 \in 0..i
          BY <4>2
        <5>. QED
          BY <2>1, <2>2, <5>1, Zenon DEF ChunkTurnByTurn
      <4>. QED
        BY <4>1, <4>2
    <3>. QED
      BY <3>1, <3>2, Zenon DEF ChunkTurnByTurn
  <2>4. i + 1 \in Nat /\ \E h : h = [j \in 0..(i + 1) |-> h[j]] /\ ChunkTurnByTurn(h, cs, left, i + 1, n)
    BY <2>2, <2>3
  <2>. QED
    BY <2>4, Zenon
<1>. HIDE DEF N
<1>3. Nat \subseteq N
    BY <1>1, <1>2, SetInduction, Zenon
<1>. QED
    BY <1>3 DEF N

\* A search over positions ends between those that are left and the others.
LEMMA ChunkBisectFacts ==
    ASSUME NEW cs \in ChunkLists, NEW left,
           LeftFirst(1, Len(FlattenSeq(cs)) + 1, LeftOf(cs, left))
    PROVE  \E q \in 1..Len(FlattenSeq(cs)) + 1 :
              /\ AtIndex(cs, ChunkBisect(cs, left), q)
              /\ \A i \in 1..Len(FlattenSeq(cs)) : i \in LeftOf(cs, left) <=> i < q
<1>1. PICK n \in Nat : n = Len(FlattenSeq(cs))
    BY SizeCounts, Zenon
<1>2. Distance(cs, ListBegin(cs), ListEnd(cs)) = n
  <2>1. AtIndex(cs, ListEnd(cs), n + 1)
    BY <1>1, Zenon DEF AtIndex
  <2>2. PICK d : d = Distance(cs, ListBegin(cs), ListEnd(cs)) /\ d \in Int /\ d + 1 = n + 1
    BY <2>1, DistanceCounted, Zenon
  <2>3. d = n
    BY <2>2
  <2>. QED
    BY <2>2, <2>3, Zenon
<1>. DEFINE f == CHOOSE g : ChunkTurns(g, cs, left, n)
<1>3. ChunkTurns(f, cs, left, n)
  <2>1. PICK g : g = [i \in 0..n |-> g[i]] /\ ChunkTurnByTurn(g, cs, left, n, n)
    BY ChunkTurnsExist, Zenon
  <2>2. ASSUME NEW i \in 0..n
        PROVE  g[i] = IF i = 0 THEN <<n, ListBegin(cs)>> ELSE ChunkHalved(cs, left, g[i - 1])
    <3>1. i = 0 \/ (i # 0 /\ i \in 1..n)
      OBVIOUS
    <3>. QED
      BY <2>1, <3>1, Zenon DEF ChunkTurnByTurn
  <2>3. g = [i \in 0..n |-> IF i = 0 THEN <<n, ListBegin(cs)>> ELSE ChunkHalved(cs, left, g[i - 1])]
    BY <2>1, <2>2, Zenon
  <2>4. ChunkTurns(g, cs, left, n)
    BY <2>3, Zenon DEF ChunkTurns
  <2>. QED
    BY <2>4, Zenon
<1>4. ChunkBisect(cs, left) = f[n][2]
    BY <1>2, Zenon DEF ChunkBisect, ChunkTurns
<1>. HIDE DEF f
<1>5. ChunkTurnByTurn(f, cs, left, n, n)
  <2>1. \A i \in 0..n : f[i] = IF i = 0 THEN <<n, ListBegin(cs)>> ELSE ChunkHalved(cs, left, f[i - 1])
    BY <1>3, Zenon DEF ChunkTurns
  <2>2. 0 \in 0..n /\ \A i \in 1..n : i \in 0..n /\ i # 0
    OBVIOUS
  <2>. QED
    BY <2>1, <2>2, Zenon DEF ChunkTurnByTurn
<1>. DEFINE I == LeftOf(cs, left)
            Good(mi, i) == Searched(1, n + 1, I, mi) /\ mi[1] <= n - i
            N == {i \in Nat : i <= n => \E mi \in Nat \X Nat : KeepsTo(cs, f[i], mi) /\ Good(mi, i)}
<1>6. 0 \in N
  <2>1. f[0] = <<n, ListBegin(cs)>> /\ f[0][1] = n /\ f[0][2] = ListBegin(cs)
    BY <1>5 DEF ChunkTurnByTurn
  <2>2. Searched(1, n + 1, I, <<n, 1>>)
    BY DEF Searched
  <2>0. <<n, 1>> \in Nat \X Nat /\ <<n, 1>>[1] = n /\ <<n, 1>>[2] = 1 /\ n <= n - 0
    OBVIOUS
  <2>3. PICK mi \in Nat \X Nat : mi = <<n, 1>> /\ mi[1] = n /\ mi[2] = 1 /\ n <= n - 0
    BY <2>0, Zenon
  <2>4. AtIndex(cs, ListBegin(cs), 1)
    BY BeginIndex, Zenon
  <2>5. KeepsTo(cs, f[0], mi)
    BY <2>1, <2>3, <2>4, Zenon DEF KeepsTo
  <2>6. 0 \in Nat
    OBVIOUS
  <2>. HIDE DEF I
  <2>. QED
    BY <2>2, <2>3, <2>5, <2>6, Zenon
<1>7. ASSUME NEW i \in Nat, i \in N PROVE i + 1 \in N
  <2>1. i + 1 \in Nat
    OBVIOUS
  <2>. SUFFICES ASSUME i + 1 <= n PROVE \E mi \in Nat \X Nat : KeepsTo(cs, f[i + 1], mi) /\ Good(mi, i + 1)
    BY <2>1, Zenon
  <2>2. i <= n /\ i + 1 \in 1..n /\ (i + 1) - 1 = i
    OBVIOUS
  <2>3. f[i + 1] = ChunkHalved(cs, left, f[i])
    BY <1>5, <2>2, Zenon DEF ChunkTurnByTurn
  <2>4. PICK mi \in Nat \X Nat : KeepsTo(cs, f[i], mi) /\ Searched(1, n + 1, I, mi) /\ mi[1] <= n - i
    BY <1>7, <2>2, Zenon
  <2>5. KeepsTo(cs, f[i + 1], Halved(mi, I))
    BY <1>1, <2>3, <2>4, ChunkHalvedFacts, Zenon
  <2>6. /\ Halved(mi, I) \in Nat \X Nat /\ Searched(1, n + 1, I, Halved(mi, I))
        /\ Halved(mi, I)[1] <= mi[1] /\ (mi[1] > 0 => Halved(mi, I)[1] < mi[1])
    <3>1. 1 \in Nat /\ n + 1 \in Nat
      OBVIOUS
    <3>2. LeftFirst(1, n + 1, I)
      BY <1>1, Zenon
    <3>. HIDE DEF I
    <3>. QED
      BY <2>4, <3>1, <3>2, HalvedFacts
  <2>. HIDE DEF I
  <2>7. PICK h \in Nat \X Nat : h = Halved(mi, I)
    BY <2>6
  <2>8. h[1] <= n - (i + 1)
    BY <2>4, <2>6, <2>7
  <2>. QED
    BY <2>5, <2>6, <2>7, <2>8, Zenon
<1>. HIDE DEF N
<1>8. Nat \subseteq N
    BY <1>6, <1>7, SetInduction, Zenon
<1>9. PICK mi \in Nat \X Nat : KeepsTo(cs, f[n], mi) /\ Searched(1, n + 1, I, mi) /\ mi[1] <= n - n
  <2>1. n <= n /\ n \in N
    BY <1>8
  <2>. QED
    BY <2>1, Zenon DEF N
<1>10. PICK q \in Nat : q = mi[2] /\ mi[1] = 0
    BY <1>9
<1>11. q \in 1..n + 1 /\ \A i \in 1..n : i \in I <=> i < q
  <2>. HIDE DEF I
  <2>0. Searched(1, n + 1, I, mi)
    BY <1>9, Zenon
  <2>1. \A i \in 1..n + 1 - 1 : (i < mi[2] => i \in I) /\ (i >= mi[2] + mi[1] => i \notin I)
    BY <2>0 DEF Searched
  <2>2. 1 <= q /\ q + 0 <= n + 1
    BY <2>0, <1>10, Zenon DEF Searched
  <2>3. \A i \in 1..n : i \in 1..n + 1 - 1 /\ (i < q \/ i >= q + 0) /\ ~(i < q /\ i >= q + 0)
    OBVIOUS
  <2>4. q \in 1..n + 1
    BY <2>2
  <2>. QED
    BY <1>10, <2>1, <2>3, <2>4, Zenon
<1>12. AtIndex(cs, ChunkBisect(cs, left), q)
    BY <1>4, <1>9, <1>10, Zenon DEF KeepsTo
<1>. QED
    BY <1>1, <1>11, <1>12, Zenon

\* The bound that a search finds counts the elements before it.
LEMMA BoundCounts ==
    ASSUME NEW cs \in ChunkLists, NEW left,
           LeftFirst(1, Len(FlattenSeq(cs)) + 1, LeftOf(cs, left))
    PROVE  IndexOf(cs, ChunkBisect(cs, left)) = Cardinality(LeftOf(cs, left)) + 1
<1>1. PICK n \in Nat : n = Len(FlattenSeq(cs))
    BY SizeCounts, Zenon
<1>2. PICK q \in 1..n + 1 : /\ AtIndex(cs, ChunkBisect(cs, left), q)
                           /\ \A i \in 1..n : i \in LeftOf(cs, left) <=> i < q
    BY <1>1, ChunkBisectFacts, Zenon
<1>3. IndexOf(cs, ChunkBisect(cs, left)) = q
    BY <1>2, IndexCounted, Zenon
<1>4. LeftOf(cs, left) = 1..q - 1
  <2>1. \A i \in LeftOf(cs, left) : i \in 1..n
    BY <1>1, Zenon DEF LeftOf
  <2>2. \A i \in 1..n : i < q => i \in 1..q - 1
    OBVIOUS
  <2>3. \A i \in 1..q - 1 : i \in 1..n /\ i < q
    OBVIOUS
  <2>. QED
    BY <1>2, <2>1, <2>2, <2>3, Zenon
<1>5. q - 1 \in Nat /\ (q - 1) + 1 = q
    OBVIOUS
<1>6. Cardinality(1..q - 1) = q - 1
    BY <1>5, CountTo, Zenon
<1>. QED
    BY <1>3, <1>4, <1>5, <1>6, Zenon

\* Numbers that do not fall from one to the next do not fall at all.
LEMMA NeverFalls ==
    ASSUME NEW n \in Nat, NEW s, \A i \in 1..n : s[i] \in Int, \A i \in 1..n - 1 : s[i] <= s[i + 1]
    PROVE  \A i, j \in 1..n : i < j => s[i] <= s[j]
<1>. DEFINE N == {d \in Nat : \A i \in 1..n : i + d <= n => s[i] <= s[i + d]}
<1>1. 0 \in N
  <2>1. ASSUME NEW i \in 1..n PROVE i + 0 = i /\ s[i] <= s[i]
    <3>1. i + 0 = i /\ s[i] \in Int
      OBVIOUS
    <3>2. \A x \in Int : x <= x
      OBVIOUS
    <3>. QED
      BY <3>1, <3>2, Zenon
  <2>2. 0 \in Nat
    OBVIOUS
  <2>. QED
    BY <2>1, <2>2, Zenon
<1>2. ASSUME NEW d \in Nat, d \in N PROVE d + 1 \in N
  <2>1. ASSUME NEW i \in 1..n, i + (d + 1) <= n PROVE s[i] <= s[i + (d + 1)]
    <3>1. i + d <= n /\ i + d \in 1..n /\ i + d \in 1..n - 1 /\ (i + d) + 1 = i + (d + 1) /\ i + (d + 1) \in 1..n
      BY <2>1
    <3>2. PICK x, y, z : /\ x = s[i] /\ y = s[i + d] /\ z = s[i + (d + 1)] /\ x \in Int /\ y \in Int /\ z \in Int
                         /\ x <= y /\ y <= z
      BY <1>2, <3>1, Zenon
    <3>3. x <= z
      BY <3>2
    <3>. QED
      BY <3>2, <3>3, Zenon
  <2>2. d + 1 \in Nat
    OBVIOUS
  <2>. QED
    BY <2>1, <2>2, Zenon
<1>3. Nat \subseteq N
  <2>. HIDE DEF N
  <2>. QED
    BY <1>1, <1>2, SetInduction, Zenon
<1>4. ASSUME NEW i \in 1..n, NEW j \in 1..n, i < j PROVE s[i] <= s[j]
  <2>1. PICK d : d = j - i /\ d \in Nat /\ i + d = j /\ i + d <= n
    BY <1>4
  <2>2. d \in N
    BY <1>3, <2>1, Zenon
  <2>3. s[i] <= s[i + d]
    BY <2>1, <2>2, Zenon
  <2>. QED
    BY <2>1, <2>3, Zenon
<1>. QED
    BY <1>4, Zenon

\* front and back are the ends of the list.
LEMMA EndsFound ==
    ASSUME NEW cs \in ChunkLists, FlattenSeq(cs) # <<>>
    PROVE  ListFront(cs) = Head(FlattenSeq(cs)) /\ ListBack(cs) = Last(FlattenSeq(cs))
<1>0. PICK n \in Nat : n = Len(cs) /\ cs \in Seq(Seq(ChunkElems)) /\ \A c \in 1..n : cs[c] \in Seq(ChunkElems)
    BY DEF ChunkLists
<1>1. FlattenSeq(cs) \in Seq(ChunkElems)
    BY SizeCounts, Zenon
<1>2. PICK z \in Nat : z = Len(FlattenSeq(cs)) /\ 1 \in 1..z /\ z \in 1..z
    BY <1>1
<1>3. ListFront(cs) = FlattenSeq(cs)[1]
  <2>1. 1 \in 1..Len(cs) + 1
    BY <1>0
  <2>2. PICK p : p = FirstFrom(cs, 1) /\ FirstAt(cs, 1, p)
    BY <2>1, FirstFound, Zenon
  <2>3. ~\A k \in 1..Len(cs) : cs[k] = <<>>
    BY EmptyFlattens, Zenon
  <2>4. PICK m \in 1..Len(cs) : p = <<m, 1>> /\ cs[m] # <<>> /\ \A k \in 1..m - 1 : cs[k] = <<>>
    BY <2>2, <2>3, Zenon DEF FirstAt
  <2>5. AtIndex(cs, p, Len(Through(cs, 1 - 1)) + 1)
    BY <2>1, <2>2, FirstIndex, Zenon
  <2>6. Len(Through(cs, 1 - 1)) + 1 = 1
    <3>1. Len(Through(cs, 0)) = 0
      BY <1>0, ThroughCounts, Zenon
    <3>2. 1 - 1 = 0 /\ 0 + 1 = 1
      OBVIOUS
    <3>. QED
      BY <3>1, <3>2, Zenon
  <2>7. At(cs, p) = FlattenSeq(cs)[1]
    BY <1>2, <2>5, <2>6, ElementFound, Zenon
  <2>8. p[1] = m /\ p[2] = 1
    BY <2>4
  <2>9. Head(cs[m]) = cs[m][1]
    BY <1>0, <2>4
  <2>. QED
    BY <2>2, <2>7, <2>8, <2>9, Zenon DEF ListFront, At
<1>4. ListBack(cs) = FlattenSeq(cs)[z]
  <2>1. PICK m : /\ m = LastFilled(cs) /\ m \in 1..Len(cs) /\ cs[m] # <<>>
                 /\ Through(cs, m) = FlattenSeq(cs)
    BY LastFound, Zenon
  <2>2. PICK l \in Nat : l = Len(cs[m]) /\ l \in 1..l
    BY <1>0, <2>1
  <2>3. Len(Through(cs, m)) = Len(Through(cs, m - 1)) + l
    BY <1>0, <2>1, <2>2, ThroughCounts, Zenon
  <2>4. At(cs, <<m, l>>) = FlattenSeq(cs)[z]
    BY <1>2, <2>1, <2>2, <2>3, ElementAt, Zenon
  <2>5. <<m, l>>[1] = m /\ <<m, l>>[2] = l
    OBVIOUS
  <2>6. PICK p : p = <<m, l>> /\ p[1] = m /\ p[2] = l
    BY <2>5, Zenon
  <2>7. ListBack(cs) = cs[m][l]
    BY <2>1, <2>2, Zenon DEF ListBack, Last
  <2>8. cs[m][l] = FlattenSeq(cs)[z]
    BY <2>4, <2>6, Zenon DEF At
  <2>. QED
    BY <2>7, <2>8, Zenon
<1>5. Head(FlattenSeq(cs)) = FlattenSeq(cs)[1] /\ Last(FlattenSeq(cs)) = FlattenSeq(cs)[z]
  <2>1. Head(FlattenSeq(cs)) = FlattenSeq(cs)[1]
    BY <1>1
  <2>. QED
    BY <1>2, <2>1, Zenon DEF Last
<1>. QED
    BY <1>3, <1>4, <1>5, Zenon

\* lower_bound and upper_bound of a list that is sorted.
LEMMA BoundsFound ==
    ASSUME NEW cs \in ChunkLists, NEW v \in ChunkElems,
           \A i \in 1..Len(FlattenSeq(cs)) - 1 : FlattenSeq(cs)[i] <= FlattenSeq(cs)[i + 1]
    PROVE  /\ IndexOf(cs, ChunkLowerBound(cs, v))
                = Cardinality({i \in DOMAIN FlattenSeq(cs) : FlattenSeq(cs)[i] < v}) + 1
           /\ IndexOf(cs, ChunkUpperBound(cs, v))
                = Cardinality({i \in DOMAIN FlattenSeq(cs) : FlattenSeq(cs)[i] <= v}) + 1
<1>1. PICK s \in Seq(ChunkElems) : s = FlattenSeq(cs) /\ DOMAIN s = 1..Len(s)
    BY SizeCounts
<1>2. PICK n \in Nat : n = Len(s)
    OBVIOUS
<1>3. v \in Int /\ \A i \in 1..n : s[i] \in ChunkElems /\ s[i] \in Int
  <2>1. \A i \in 1..Len(s) : s[i] \in ChunkElems
    OBVIOUS
  <2>2. \A x \in ChunkElems : x \in Int
    BY ChunkAssumption
  <2>. QED
    BY <1>2, <2>1, <2>2, Zenon
<1>4. \A i, j \in 1..n : i < j => s[i] <= s[j]
    BY <1>1, <1>2, <1>3, NeverFalls, Zenon
<1>5. \A i, j \in 1..(n + 1) - 1 : i \in 1..n /\ j \in 1..n
    OBVIOUS
<1>6. \A x, y \in Int : x <= y /\ y < v => x < v
    BY <1>3
<1>7. \A x, y \in Int : x <= y /\ ~(v < y) => ~(v < x)
    BY <1>3
<1>8. \A x \in Int : ~(v < x) <=> x <= v
    BY <1>3
<1>. DEFINE below == {x \in ChunkElems : x < v}
            to == {x \in ChunkElems : ~(v < x)}
<1>9. \A i : i \in LeftOf(cs, below) <=> i \in 1..n /\ s[i] < v
    BY <1>1, <1>2, <1>3, Zenon DEF LeftOf
<1>10. \A i : i \in LeftOf(cs, to) <=> i \in 1..n /\ ~(v < s[i])
    BY <1>1, <1>2, <1>3, Zenon DEF LeftOf
<1>11. ChunkLowerBound(cs, v) = ChunkBisect(cs, below) /\ ChunkUpperBound(cs, v) = ChunkBisect(cs, to)
    BY Zenon DEF ChunkLowerBound, ChunkUpperBound
<1>. HIDE DEF below, to
<1>12. LeftFirst(1, n + 1, LeftOf(cs, below)) /\ LeftFirst(1, n + 1, LeftOf(cs, to))
    BY <1>3, <1>4, <1>5, <1>6, <1>7, <1>9, <1>10, Zenon DEF LeftFirst
<1>13. LeftOf(cs, below) = {i \in DOMAIN s : s[i] < v}
    BY <1>1, <1>2, <1>9, Zenon
<1>14. LeftOf(cs, to) = {i \in DOMAIN s : s[i] <= v}
    BY <1>1, <1>2, <1>3, <1>8, <1>10, Zenon
<1>15. IndexOf(cs, ChunkBisect(cs, below)) = Cardinality(LeftOf(cs, below)) + 1
    BY <1>1, <1>2, <1>12, BoundCounts, Zenon
<1>16. IndexOf(cs, ChunkBisect(cs, to)) = Cardinality(LeftOf(cs, to)) + 1
    BY <1>1, <1>2, <1>12, BoundCounts, Zenon
<1>. QED
    BY <1>1, <1>11, <1>13, <1>14, <1>15, <1>16, Zenon

\* So the iterator counts the elements of every list that is well chunked.
LEMMA ChunkPositionsHold ==
    ASSUME WellChunked(chunks)
    PROVE  ChunkPositionsCount
<1>1. chunks \in ChunkLists /\ DOMAIN chunks = 1..Len(chunks) /\ \A c \in 1..Len(chunks) : Len(chunks[c]) <= ChunkSize
    BY DEF WellChunked, ChunkLists
<1>2. PICK n \in Nat : n = Len(FlattenSeq(chunks))
    BY <1>1, SizeCounts, Zenon
<1>3. Distance(chunks, ListBegin(chunks), ListEnd(chunks)) = n
  <2>1. AtIndex(chunks, ListEnd(chunks), n + 1)
    BY <1>2, Zenon DEF AtIndex
  <2>2. PICK d : d = Distance(chunks, ListBegin(chunks), ListEnd(chunks)) /\ d \in Int /\ d + 1 = n + 1
    BY <1>1, <2>1, DistanceCounted, Zenon
  <2>3. d = n
    BY <2>2
  <2>. QED
    BY <2>2, <2>3, Zenon
<1>4. ASSUME NEW i \in 1..n
      PROVE  At(chunks, Plus(chunks, ListBegin(chunks), i - 1)) = FlattenSeq(chunks)[i]
  <2>1. i - 1 \in Nat /\ 1 + (i - 1) = i /\ 1 + (i - 1) <= n + 1 /\ 1 \in 1..n
    OBVIOUS
  <2>2. AtIndex(chunks, ListBegin(chunks), 1)
    BY <1>1, BeginIndex, Zenon
  <2>3. AtIndex(chunks, Plus(chunks, ListBegin(chunks), i - 1), 1 + (i - 1))
    BY <1>1, <1>2, <2>1, <2>2, MovedOn, Zenon
  <2>4. AtIndex(chunks, Plus(chunks, ListBegin(chunks), i - 1), i)
    BY <2>1, <2>3, Zenon
  <2>. QED
    BY <1>1, <1>2, <2>4, ElementFound, Zenon
<1>5. FlattenSeq(chunks) # <<>> => /\ ListFront(chunks) = Head(FlattenSeq(chunks))
                                  /\ ListBack(chunks) = Last(FlattenSeq(chunks))
    BY <1>1, EndsFound, Zenon
<1>6. (\A i \in 1..Len(FlattenSeq(chunks)) - 1 : FlattenSeq(chunks)[i] <= FlattenSeq(chunks)[i + 1])
      => \A v \in ChunkElems :
           /\ IndexOf(chunks, ChunkLowerBound(chunks, v))
                = Cardinality({i \in DOMAIN FlattenSeq(chunks) : FlattenSeq(chunks)[i] < v}) + 1
           /\ IndexOf(chunks, ChunkUpperBound(chunks, v))
                = Cardinality({i \in DOMAIN FlattenSeq(chunks) : FlattenSeq(chunks)[i] <= v}) + 1
    BY <1>1, BoundsFound, Zenon
<1>. QED
    BY <1>1, <1>2, <1>3, <1>4, <1>5, <1>6, Zenon DEF ChunkPositionsCount

-----------------------------------------------------------------------------
(* Loops that are taken turn by turn.                                      *)

\* What a loop has come to after every turn.
LoopTurns(g, step, x, n) == g = [i \in 0..n |-> IF i = 0 THEN x ELSE step[g[i - 1]]]

LoopTurnByTurn(g, step, x, n) == g[0] = x /\ \A i \in 1..n : g[i] = step[g[i - 1]]

\* Every loop has its turns.
LEMMA LoopTurnsExist ==
    ASSUME NEW step, NEW x, NEW k \in Nat
    PROVE  \E g : g = [i \in 0..k |-> g[i]] /\ LoopTurnByTurn(g, step, x, k)
<1>. DEFINE N == {i \in Nat : \E f : f = [j \in 0..i |-> f[j]] /\ LoopTurnByTurn(f, step, x, i)}
<1>1. 0 \in N
  <2>. DEFINE f == [i \in 0..0 |-> x]
  <2>1. f = [j \in 0..0 |-> f[j]] /\ f[0] = x /\ 1..0 = {}
    OBVIOUS
  <2>. HIDE DEF f
  <2>2. LoopTurnByTurn(f, step, x, 0)
    BY <2>1 DEF LoopTurnByTurn
  <2>. QED
    BY <2>1, <2>2, Zenon
<1>2. ASSUME NEW i \in Nat, i \in N PROVE i + 1 \in N
  <2>1. PICK g : g = [j \in 0..i |-> g[j]] /\ LoopTurnByTurn(g, step, x, i)
    BY <1>2
  <2>. DEFINE f == [j \in 0..(i + 1) |-> IF j = i + 1 THEN step[g[i]] ELSE g[j]]
  <2>2. f = [j \in 0..(i + 1) |-> f[j]] /\ f[i + 1] = step[g[i]] /\ \A j \in 0..i : f[j] = g[j]
    OBVIOUS
  <2>. HIDE DEF f
  <2>3. LoopTurnByTurn(f, step, x, i + 1)
    <3>1. f[0] = x
      <4>1. 0 \in 0..i
        OBVIOUS
      <4>. QED
        BY <2>1, <2>2, <4>1, Zenon DEF LoopTurnByTurn
    <3>2. ASSUME NEW j \in 1..(i + 1) PROVE f[j] = step[f[j - 1]]
      <4>1. CASE j = i + 1
        <5>1. j - 1 = i /\ i \in 0..i
          BY <4>1
        <5>. QED
          BY <2>2, <4>1, <5>1, Zenon
      <4>2. CASE j # i + 1
        <5>1. j \in 1..i /\ j \in 0..i /\ j - 1 \in 0..i
          BY <4>2
        <5>. QED
          BY <2>1, <2>2, <5>1, Zenon DEF LoopTurnByTurn
      <4>. QED
        BY <4>1, <4>2
    <3>. QED
      BY <3>1, <3>2, Zenon DEF LoopTurnByTurn
  <2>4. i + 1 \in Nat /\ \E h : h = [j \in 0..(i + 1) |-> h[j]] /\ LoopTurnByTurn(h, step, x, i + 1)
    BY <2>2, <2>3
  <2>. QED
    BY <2>4, Zenon
<1>. HIDE DEF N
<1>3. Nat \subseteq N
    BY <1>1, <1>2, SetInduction, Zenon
<1>. QED
    BY <1>3 DEF N

\* What holds at the start of a loop, and after a turn when it held before, holds
\* at its end.
LEMMA AfterStays ==
    ASSUME NEW step, NEW x, NEW n \in Nat, NEW S, <<0, x>> \in S,
           \A i \in 0..n - 1 : \A y : <<i, y>> \in S => <<i + 1, step[y]>> \in S
    PROVE  <<n, After(step, x, n)>> \in S
<1>. DEFINE f == CHOOSE g : LoopTurns(g, step, x, n)
<1>1. LoopTurns(f, step, x, n)
  <2>1. PICK g : g = [i \in 0..n |-> g[i]] /\ LoopTurnByTurn(g, step, x, n)
    BY LoopTurnsExist, Zenon
  <2>2. ASSUME NEW i \in 0..n
        PROVE  g[i] = IF i = 0 THEN x ELSE step[g[i - 1]]
    <3>1. i = 0 \/ (i # 0 /\ i \in 1..n)
      OBVIOUS
    <3>. QED
      BY <2>1, <3>1, Zenon DEF LoopTurnByTurn
  <2>3. g = [i \in 0..n |-> IF i = 0 THEN x ELSE step[g[i - 1]]]
    BY <2>1, <2>2, Zenon
  <2>4. LoopTurns(g, step, x, n)
    BY <2>3, Zenon DEF LoopTurns
  <2>. QED
    BY <2>4, Zenon
<1>2. After(step, x, n) = f[n]
    BY Zenon DEF After, LoopTurns
<1>. HIDE DEF f
<1>3. f[0] = x /\ \A i \in 1..n : f[i] = step[f[i - 1]]
  <2>1. \A i \in 0..n : f[i] = IF i = 0 THEN x ELSE step[f[i - 1]]
    BY <1>1, Zenon DEF LoopTurns
  <2>2. 0 \in 0..n /\ \A i \in 1..n : i \in 0..n /\ i # 0
    OBVIOUS
  <2>. QED
    BY <2>1, <2>2, Zenon
<1>. DEFINE N == {i \in Nat : i <= n => <<i, f[i]>> \in S}
<1>4. 0 \in N
    BY <1>3
<1>5. ASSUME NEW i \in Nat, i \in N PROVE i + 1 \in N
  <2>1. i + 1 \in Nat
    OBVIOUS
  <2>. SUFFICES ASSUME i + 1 <= n PROVE <<i + 1, f[i + 1]>> \in S
    BY <2>1, Zenon
  <2>2. i <= n /\ i + 1 \in 1..n /\ (i + 1) - 1 = i /\ i \in 0..n - 1
    OBVIOUS
  <2>3. f[i + 1] = step[f[i]]
    BY <1>3, <2>2, Zenon
  <2>. QED
    BY <1>5, <2>2, <2>3, Zenon
<1>. HIDE DEF N
<1>6. n \in N /\ n <= n
    BY <1>4, <1>5, SetInduction
<1>. QED
    BY <1>2, <1>6, Zenon DEF N

-----------------------------------------------------------------------------
(* Characters.                                                             *)

\* A part of the alphabet that is still to be searched for c after i turns, or
\* the place where it has been found.
PartLeft(c, i, ofs, len) ==
    /\ ofs + len <= Len(Alphabet)
    /\ \/ len = 1 /\ Alphabet[ofs + 1] = c
       \/ /\ len <= Len(Alphabet) - i
          /\ \A k \in 1..Len(Alphabet) : Alphabet[k] = c => k \in ofs + 1..ofs + len

LEMMA PartHalved ==
    ASSUME NEW c \in Nat, NEW i \in 0..Len(Alphabet) - 1, NEW ofs \in Nat, NEW len \in Nat,
           PartLeft(c, i, ofs, len)
    PROVE  \E o \in Nat : \E l \in Nat :
              CharHalved(c)[<<ofs, len>>] = <<o, l>> /\ PartLeft(c, i + 1, o, l)
<1>0. PICK n \in Nat : n = Len(Alphabet) /\ \A k \in 1..n : Alphabet[k] \in Nat
    BY TrieAssumption
<1>1. \A k, m \in 1..n : k < m => Alphabet[k] <= Alphabet[m]
  <2>1. DOMAIN Alphabet = 1..n
    BY <1>0, TrieAssumption
  <2>. QED
    BY <2>1, TrieAssumption, Zenon
<1>2. PICK piv \in Nat : piv = len \div 2 /\ (len # 0 => piv < len) /\ (len = 1 => piv = 0)
    OBVIOUS
<1>. DEFINE at == Alphabet[ofs + piv + 1]
<1>3. CharHalved(c)[<<ofs, len>>]
        = IF len = 0 THEN <<ofs, len>>
          ELSE IF c < at THEN <<ofs, piv>>
          ELSE IF c > at THEN <<ofs + piv + 1, len - piv - 1>>
          ELSE <<ofs + piv, 1>>
  <2>1. <<ofs, len>> \in Nat \X Nat /\ <<ofs, len>>[1] = ofs /\ <<ofs, len>>[2] = len
    OBVIOUS
  <2>2. PICK p \in Nat \X Nat : p = <<ofs, len>> /\ p[1] = ofs /\ p[2] = len
    BY <2>1, Zenon
  <2>3. CharHalved(c)[p]
        = IF len = 0 THEN p
          ELSE IF c < at THEN <<ofs, piv>>
          ELSE IF c > at THEN <<ofs + piv + 1, len - piv - 1>>
          ELSE <<ofs + piv, 1>>
    BY <1>2, <2>2, Zenon DEF CharHalved
  <2>. QED
    BY <2>2, <2>3, Zenon
<1>. HIDE DEF at
<1>4. i \in 0..n - 1 /\ ofs + len <= n
    BY <1>0, Zenon DEF PartLeft
<1>5. CASE len = 0
  <2>1. ~(len = 1) /\ len <= n - (i + 1)
    BY <1>4, <1>5
  <2>2. PartLeft(c, i + 1, ofs, len)
    BY <1>0, <2>1, Zenon DEF PartLeft
  <2>. QED
    BY <1>3, <1>5, <2>2, Zenon
<1>6. CASE len # 0
  <2>1. PICK k0 \in 1..n : k0 = ofs + piv + 1 /\ at = Alphabet[k0] /\ at \in Nat
    <3>1. ofs + piv + 1 \in 1..n
      BY <1>2, <1>4, <1>6
    <3>. QED
      BY <1>0, <3>1, Zenon DEF at
  <2>2. CASE len = 1 /\ Alphabet[ofs + 1] = c
    <3>1. k0 = ofs + 1 /\ ofs + piv = ofs
      BY <1>2, <2>1, <2>2
    <3>2. at = c /\ ~(c < at) /\ ~(c > at)
      <4>1. at = c
        BY <2>1, <2>2, <3>1, Zenon
      <4>. QED
        BY <4>1
    <3>3. CharHalved(c)[<<ofs, len>>] = <<ofs, 1>>
      BY <1>3, <1>6, <3>1, <3>2, Zenon
    <3>4. PartLeft(c, i + 1, ofs, 1)
      BY <1>4, <1>0, <2>2, Zenon DEF PartLeft
    <3>5. 1 \in Nat
      OBVIOUS
    <3>. QED
      BY <3>3, <3>4, <3>5, Zenon
  <2>3. CASE len <= n - i /\ \A k \in 1..n : Alphabet[k] = c => k \in ofs + 1..ofs + len
    <3>1. CASE c < at
      <4>1. \A k \in 1..n : k > k0 => ~(Alphabet[k] = c)
        <5>1. ASSUME NEW k \in 1..n, k > k0 PROVE at <= Alphabet[k] /\ Alphabet[k] \in Nat
          <6>1. k0 < k
            BY <5>1
          <6>. QED
            BY <1>0, <1>1, <2>1, <6>1, Zenon
        <5>2. \A a \in Nat : at <= a => ~(a = c)
          BY <2>1, <3>1
        <5>. QED
          BY <5>1, <5>2, Zenon
      <4>2. ~(Alphabet[k0] = c)
        BY <2>1, <3>1
      <4>3. \A k \in 1..n : Alphabet[k] = c => k \in ofs + 1..ofs + len /\ ~(k > k0) /\ k # k0
        BY <2>3, <4>1, <4>2, Zenon
      <4>4. \A k \in 1..n : k \in ofs + 1..ofs + len /\ ~(k > k0) /\ k # k0 => k \in ofs + 1..ofs + piv
        BY <2>1
      <4>5. piv <= n - (i + 1) /\ ofs + piv <= n
        BY <1>2, <1>4, <1>6, <2>3
      <4>6. PartLeft(c, i + 1, ofs, piv)
        BY <1>0, <4>3, <4>4, <4>5, Zenon DEF PartLeft
      <4>. QED
        BY <1>3, <1>6, <3>1, <4>6, Zenon
    <3>2. CASE c > at /\ ~(c < at)
      <4>1. \A k \in 1..n : k < k0 => ~(Alphabet[k] = c)
        <5>1. ASSUME NEW k \in 1..n, k < k0 PROVE Alphabet[k] <= at /\ Alphabet[k] \in Nat
          BY <1>0, <1>1, <2>1, <5>1, Zenon
        <5>2. \A a \in Nat : a <= at => ~(a = c)
          BY <2>1, <3>2
        <5>. QED
          BY <5>1, <5>2, Zenon
      <4>2. ~(Alphabet[k0] = c)
        BY <2>1, <3>2
      <4>3. \A k \in 1..n : Alphabet[k] = c => k \in ofs + 1..ofs + len /\ ~(k < k0) /\ k # k0
        BY <2>3, <4>1, <4>2, Zenon
      <4>0. PICK o \in Nat, l \in Nat : o = ofs + piv + 1 /\ l = len - piv - 1
        BY <1>2, <1>6
      <4>4. \A k \in 1..n : k \in ofs + 1..ofs + len /\ ~(k < k0) /\ k # k0 => k \in o + 1..o + l
        BY <2>1, <4>0
      <4>5. l <= n - (i + 1) /\ o + l <= n
        BY <1>2, <1>4, <1>6, <2>3, <4>0
      <4>6. PartLeft(c, i + 1, o, l)
        BY <1>0, <4>3, <4>4, <4>5, Zenon DEF PartLeft
      <4>. QED
        BY <1>3, <1>6, <3>2, <4>0, <4>6, Zenon
    <3>3. CASE ~(c > at) /\ ~(c < at)
      <4>1. at = c
        BY <2>1, <3>3
      <4>2. PICK o \in Nat : o = ofs + piv /\ o + 1 = k0 /\ o + 1 <= n
        BY <2>1
      <4>3. PartLeft(c, i + 1, o, 1)
        BY <1>0, <2>1, <4>1, <4>2, Zenon DEF PartLeft
      <4>4. 1 \in Nat
        OBVIOUS
      <4>. QED
        BY <1>3, <1>6, <3>3, <4>2, <4>3, <4>4, Zenon
    <3>. QED
      BY <3>1, <3>2, <3>3, Zenon
  <2>. QED
    BY <1>0, <2>2, <2>3, Zenon DEF PartLeft
<1>. QED
    BY <1>5, <1>6, Zenon

\* The index of a character, when it is in the alphabet.
LEMMA CharIndexFacts ==
    ASSUME NEW c \in Nat
    PROVE  /\ CharIndex(c) \in 0..Len(Alphabet)
           /\ CharIndex(c) # NoIndex => CharIndex(c) \in 1..Len(Alphabet) /\ Alphabet[CharIndex(c)] = c
           /\ CharIndex(c) = NoIndex => c \notin ToSet(Alphabet)
<1>0. PICK n \in Nat : n = Len(Alphabet) /\ DOMAIN Alphabet = 1..n
    BY TrieAssumption
<1>. DEFINE S == {ip \in Nat \X (Nat \X Nat) : PartLeft(c, ip[1], ip[2][1], ip[2][2])}
<1>1. \A i \in Nat, o \in Nat, l \in Nat : PartLeft(c, i, o, l) => <<i, <<o, l>>>> \in S
    OBVIOUS
<1>2. ASSUME NEW i, NEW y, <<i, y>> \in S
      PROVE  \E o \in Nat : \E l \in Nat : y = <<o, l>> /\ PartLeft(c, i, o, l)
  <2>1. y \in Nat \X Nat /\ PartLeft(c, i, y[1], y[2])
    BY <1>2
  <2>2. y = <<y[1], y[2]>> /\ y[1] \in Nat /\ y[2] \in Nat
    BY <2>1
  <2>. QED
    BY <2>1, <2>2, Zenon
<1>. HIDE DEF S
<1>3. <<0, <<0, n>>>> \in S
  <2>1. 0 \in Nat /\ 0 + n <= n /\ n <= n - 0 /\ \A k \in 1..n : k \in 0 + 1..0 + n
    OBVIOUS
  <2>2. PartLeft(c, 0, 0, n)
    BY <1>0, <2>1, Zenon DEF PartLeft
  <2>. QED
    BY <1>1, <2>1, <2>2, Zenon
<1>4. ASSUME NEW i \in 0..n - 1, NEW y, <<i, y>> \in S PROVE <<i + 1, CharHalved(c)[y]>> \in S
  <2>1. PICK o \in Nat, l \in Nat : y = <<o, l>> /\ PartLeft(c, i, o, l)
    BY <1>2, <1>4, Zenon
  <2>2. \E p \in Nat : \E m \in Nat : CharHalved(c)[<<o, l>>] = <<p, m>> /\ PartLeft(c, i + 1, p, m)
    BY <1>0, <2>1, PartHalved, Zenon
  <2>3. i + 1 \in Nat
    OBVIOUS
  <2>. QED
    BY <1>1, <2>1, <2>2, <2>3, Zenon
<1>5. <<n, After(CharHalved(c), <<0, n>>, n)>> \in S
    BY <1>3, <1>4, AfterStays, Zenon
<1>6. PICK o \in Nat, l \in Nat : After(CharHalved(c), <<0, n>>, n) = <<o, l>> /\ PartLeft(c, n, o, l)
    BY <1>2, <1>5, Zenon
<1>7. CharIndex(c) = IF l = 0 THEN NoIndex ELSE o + 1
  <2>1. <<o, l>>[1] = o /\ <<o, l>>[2] = l
    OBVIOUS
  <2>2. PICK p : p = <<o, l>> /\ p[1] = o /\ p[2] = l
    BY <2>1, Zenon
  <2>3. After(CharHalved(c), <<0, n>>, n) = p
    BY <1>6, <2>2, Zenon
  <2>. QED
    BY <1>0, <2>2, <2>3, Zenon DEF CharIndex
<1>8. CASE l = 1 /\ Alphabet[o + 1] = c
  <2>1. o + l <= n
    BY <1>0, <1>6, Zenon DEF PartLeft
  <2>2. o + 1 \in 1..n /\ o + 1 \in 0..n /\ o + 1 # NoIndex
    BY <1>8, <2>1 DEF NoIndex
  <2>3. CharIndex(c) = o + 1
    BY <1>7, <1>8
  <2>. QED
    BY <1>0, <1>8, <2>2, <2>3, Zenon
<1>9. CASE l <= n - n /\ \A k \in 1..n : Alphabet[k] = c => k \in o + 1..o + l
  <2>1. l = 0 /\ o + 1..o + l = {}
    BY <1>9
  <2>2. CharIndex(c) = NoIndex /\ \A k \in 1..n : Alphabet[k] # c
    BY <1>7, <1>9, <2>1, Zenon
  <2>3. c \notin ToSet(Alphabet)
    BY <1>0, <2>2, Zenon DEF ToSet
  <2>4. NoIndex \in 0..n
    BY DEF NoIndex
  <2>. QED
    BY <1>0, <2>2, <2>3, <2>4, Zenon
<1>. QED
    BY <1>0, <1>6, <1>8, <1>9, Zenon DEF PartLeft

-----------------------------------------------------------------------------
(* The nodes of the trie and their texts.                                  *)

\* A child is behind its node, and its text is one character longer.
ChildrenRight(ns, P) ==
    \A q \in 1..Len(ns) : \A c \in 1..Len(Alphabet) : ns[q].next[c] # 0 =>
        /\ ns[q].next[c] \in q..Len(ns) - 1
        /\ P[ns[q].next[c] + 1] = Append(P[q], Alphabet[c])
        /\ CharIndex(Alphabet[c]) = c

\* Every node but the root is a child.
HaveParents(ns) ==
    \A r \in 2..Len(ns) : \E q \in 1..r - 1 : \E c \in 1..Len(Alphabet) : ns[q].next[c] = r - 1

\* Texts, one for each node.
PathsDiffer(ns, P) ==
    /\ P \in Seq(Seq(ToSet(Alphabet))) /\ Len(P) = Len(ns) /\ P[1] = <<>>
    /\ \A q, r \in 1..Len(ns) : P[q] = P[r] => q = r

TrieShape(ns, P) ==
    /\ ns \in Seq(TrieNodes) /\ Len(ns) >= 1
    /\ ChildrenRight(ns, P) /\ HaveParents(ns) /\ PathsDiffer(ns, P)

\* The nodes have the values of the texts, and there is a node for every key.
TrieHolds(ns, P, st) ==
    /\ \A q \in 1..Len(ns) : ns[q].object = IF P[q] \in DOMAIN st THEN <<st[P[q]]>> ELSE <<>>
    /\ \A k \in DOMAIN st : \E q \in 1..Len(ns) : P[q] = k

\* The root alone is an empty trie.
LEMMA RootAlone ==
    TrieShape(<<EmptyNode>>, << <<>> >>) /\ TrieHolds(<<EmptyNode>>, << <<>> >>, [k \in {} |-> 0])
<1>. DEFINE ns == <<EmptyNode>>
            P == << <<>> >>
<1>1. EmptyNode \in TrieNodes
    BY DEF EmptyNode, TrieNodes
<1>2. ns \in Seq(TrieNodes) /\ Len(ns) = 1 /\ ns[1] = EmptyNode /\ 1..Len(ns) = {1} /\ 2..Len(ns) = {}
    BY <1>1
<1>3. <<>> \in Seq(ToSet(Alphabet))
    OBVIOUS
<1>4. P \in Seq(Seq(ToSet(Alphabet))) /\ Len(P) = 1 /\ P[1] = <<>>
    BY <1>3
<1>. HIDE DEF ns, P
<1>5. \A c \in 1..Len(Alphabet) : EmptyNode.next[c] = 0
  <2>1. DOMAIN Alphabet = 1..Len(Alphabet)
    BY TrieAssumption
  <2>. QED
    BY <2>1 DEF EmptyNode
<1>6. ChildrenRight(ns, P) /\ HaveParents(ns) /\ PathsDiffer(ns, P)
    BY <1>2, <1>4, <1>5, Zenon DEF ChildrenRight, HaveParents, PathsDiffer
<1>7. EmptyNode.object = <<>>
    BY DEF EmptyNode
<1>8. DOMAIN [k \in {} |-> 0] = {}
    OBVIOUS
<1>9. TrieHolds(ns, P, [k \in {} |-> 0])
    BY <1>2, <1>7, <1>8, Zenon DEF TrieHolds
<1>10. Len(ns) >= 1
    BY <1>2
<1>. QED
    BY <1>2, <1>6, <1>9, <1>10, Zenon DEF TrieShape, ns, P

\* The beginnings of a text are texts.
HasNode(ns, P, t) == \E r \in 1..Len(ns) : P[r] = t

LEMMA PrefixesHaveNodes ==
    ASSUME NEW ns, NEW P, TrieShape(ns, P), NEW q \in 1..Len(ns), NEW m \in 0..Len(P[q])
    PROVE  HasNode(ns, P, SubSeq(P[q], 1, m))
<1>0. PICK n \in Nat : /\ n = Len(ns) /\ q \in 1..n /\ 1 \in 1..n /\ P[1] = <<>>
                       /\ \A r \in 1..n : P[r] \in Seq(ToSet(Alphabet))
    BY DEF TrieShape, PathsDiffer
<1>. DEFINE Begins(r) == \A j \in 0..Len(P[r]) : \E s \in 1..n : P[s] = SubSeq(P[r], 1, j)
            N == {k \in Nat : \A r \in 1..n : r <= k => Begins(r)}
<1>1. 0 \in N
    OBVIOUS
<1>2. ASSUME NEW k \in Nat, k \in N PROVE k + 1 \in N
  <2>. SUFFICES ASSUME NEW r \in 1..n, r <= k + 1 PROVE Begins(r)
    OBVIOUS
  <2>1. CASE r = 1
    <3>1. SubSeq(<<>>, 1, 0) = <<>> /\ Len(<<>>) = 0 /\ \A j \in 0..0 : j = 0
      OBVIOUS
    <3>. QED
      BY <1>0, <2>1, <3>1, Zenon
  <2>2. CASE r # 1
    <3>1. r \in 2..n
      BY <2>2
    <3>2. PICK p \in 1..r - 1 : \E c \in 1..Len(Alphabet) : ns[p].next[c] = r - 1
      BY <1>0, <3>1, Zenon DEF TrieShape, HaveParents
    <3>3. PICK c \in 1..Len(Alphabet) : ns[p].next[c] = r - 1
      BY <3>2, Zenon
    <3>4. p \in 1..n /\ p <= k /\ r - 1 # 0 /\ (r - 1) + 1 = r
      BY <2>2
    <3>5. P[r] = Append(P[p], Alphabet[c])
      <4>1. ns[p].next[c] # 0
        BY <3>3, <3>4, Zenon
      <4>2. P[ns[p].next[c] + 1] = Append(P[p], Alphabet[c])
        BY <1>0, <3>4, <4>1, Zenon DEF TrieShape, ChildrenRight
      <4>. QED
        BY <3>3, <3>4, <4>2, Zenon
    <3>6. Begins(p)
      <4>. HIDE DEF Begins
      <4>. QED
        BY <1>2, <3>4, Zenon
    <3>7. PICK s, x : s = P[p] /\ x = Alphabet[c] /\ s \in Seq(ToSet(Alphabet)) /\ x \in ToSet(Alphabet)
      <4>1. DOMAIN Alphabet = 1..Len(Alphabet)
        BY TrieAssumption
      <4>2. Alphabet[c] \in ToSet(Alphabet)
        BY <4>1, Zenon DEF ToSet
      <4>. QED
        BY <1>0, <3>4, <4>2, Zenon
    <3>8. ASSUME NEW j \in 0..Len(P[r]) PROVE \E t \in 1..n : P[t] = SubSeq(P[r], 1, j)
      <4>1. P[r] = Append(s, x)
        BY <3>5, <3>7, Zenon
      <4>2. CASE j = Len(P[r])
        <5>1. SubSeq(Append(s, x), 1, Len(Append(s, x))) = Append(s, x)
          BY <3>7
        <5>2. SubSeq(P[r], 1, j) = P[r]
          BY <4>1, <4>2, <5>1, Zenon
        <5>. QED
          BY <5>2, Zenon
      <4>3. CASE j # Len(P[r])
        <5>1. Len(Append(s, x)) = Len(s) + 1
          BY <3>7
        <5>2. PICK l \in Nat : l = Len(s)
          BY <3>7
        <5>3. j \in 0..l /\ j \in Int
          <6>1. j \in 0..(l + 1) /\ j # l + 1
            BY <4>1, <4>3, <5>1, <5>2, Zenon
          <6>. QED
            BY <6>1
        <5>4. SubSeq(Append(s, x), 1, j) = SubSeq(s, 1, j)
          BY <3>7, <5>2, <5>3
        <5>5. PICK t \in 1..n : P[t] = SubSeq(s, 1, j)
          BY <3>6, <3>7, <5>2, <5>3, Zenon
        <5>. QED
          BY <4>1, <5>4, <5>5, Zenon
      <4>. QED
        BY <4>2, <4>3, Zenon
    <3>. QED
      BY <3>8, Zenon
  <2>. QED
    BY <2>1, <2>2, Zenon
<1>3. Nat \subseteq N
  <2>. HIDE DEF N
  <2>. QED
    BY <1>1, <1>2, SetInduction, Zenon
<1>4. q \in N /\ q <= q
  <2>. HIDE DEF N
  <2>. QED
    BY <1>0, <1>3
<1>. QED
    BY <1>0, <1>4, Zenon DEF HasNode

\* A node whose object is replaced keeps its place.
ObjectSet(ms, ns, q, o) == ms = [ns EXCEPT ![q].object = o]

OnlyObject(ms, ns, q, o) ==
    Len(ms) = Len(ns) /\ ms[q].object = o /\ \A r \in 1..Len(ns) : r # q => ms[r] = ns[r]

LEMMA ShapeKept ==
    ASSUME NEW ns, NEW P, TrieShape(ns, P), NEW q \in 1..Len(ns), NEW o \in Seq(TrieVals), NEW ms,
           ObjectSet(ms, ns, q, o)
    PROVE  TrieShape(ms, P) /\ OnlyObject(ms, ns, q, o)
<1>0. ns \in Seq(TrieNodes) /\ Len(ns) \in Nat /\ Len(ns) >= 1
    BY DEF TrieShape
<1>1. ns[q] \in TrieNodes
    BY <1>0
<1>2. [ns[q] EXCEPT !.object = o] \in TrieNodes
    BY <1>1 DEF TrieNodes
<1>3. ms = [ns EXCEPT ![q] = [ns[q] EXCEPT !.object = o]]
    BY DEF ObjectSet
<1>4. PICK nd : nd = [ns[q] EXCEPT !.object = o] /\ nd \in TrieNodes /\ nd.next = ns[q].next /\ nd.object = o
  <2>1. [ns[q] EXCEPT !.object = o].next = ns[q].next /\ [ns[q] EXCEPT !.object = o].object = o
    BY <1>1 DEF TrieNodes
  <2>. QED
    BY <1>2, <2>1, Zenon
<1>5. ms = [ns EXCEPT ![q] = nd]
    BY <1>3, <1>4, Zenon
<1>6. /\ ms \in Seq(TrieNodes) /\ Len(ms) = Len(ns) /\ ms[q] = nd
      /\ \A r \in 1..Len(ns) : r # q => ms[r] = ns[r]
    BY <1>0, <1>4, <1>5
<1>7. \A r \in 1..Len(ns) : ms[r].next = ns[r].next
    BY <1>4, <1>6, Zenon
<1>8. \A r \in 2..Len(ns) : \A p \in 1..r - 1 : p \in 1..Len(ns)
    BY <1>0
<1>9. ChildrenRight(ms, P)
  <2>1. ASSUME NEW r \in 1..Len(ns), NEW c \in 1..Len(Alphabet), ms[r].next[c] # 0
        PROVE  /\ ms[r].next[c] \in r..Len(ns) - 1
               /\ P[ms[r].next[c] + 1] = Append(P[r], Alphabet[c])
               /\ CharIndex(Alphabet[c]) = c
    <3>1. PICK k : k = ms[r].next[c] /\ k = ns[r].next[c] /\ k # 0
      BY <1>7, <2>1, Zenon
    <3>2. ns[r].next[c] \in r..Len(ns) - 1 /\ P[ns[r].next[c] + 1] = Append(P[r], Alphabet[c]) /\ CharIndex(Alphabet[c]) = c
      BY <3>1, Zenon DEF ChildrenRight, TrieShape
    <3>. QED
      BY <3>1, <3>2, Zenon
  <2>. QED
    BY <1>6, <2>1, Zenon DEF ChildrenRight
<1>10. HaveParents(ms)
  <2>1. ASSUME NEW r \in 2..Len(ns) PROVE \E p \in 1..r - 1 : \E c \in 1..Len(Alphabet) : ms[p].next[c] = r - 1
    <3>1. PICK p \in 1..r - 1 : \E c \in 1..Len(Alphabet) : ns[p].next[c] = r - 1
      BY Zenon DEF TrieShape, HaveParents
    <3>2. ms[p].next = ns[p].next
      BY <1>7, <1>8, Zenon
    <3>. QED
      BY <3>1, <3>2, Zenon
  <2>. QED
    BY <1>6, <2>1, Zenon DEF HaveParents
<1>11. PathsDiffer(ms, P)
    BY <1>6, Zenon DEF PathsDiffer, TrieShape
<1>. QED
    BY <1>0, <1>4, <1>6, <1>9, <1>10, <1>11, Zenon DEF TrieShape, OnlyObject

\* A node that is added for a character.
WithChild(ns, q, c) == Append([ns EXCEPT ![q].next[c] = Len(ns)], EmptyNode)

HasChild(ms, ns, q, c) ==
    /\ Len(ms) = Len(ns) + 1 /\ ms[Len(ns) + 1] = EmptyNode
    /\ \A r \in 1..Len(ns) : r # q => ms[r] = ns[r]
    /\ ms[q].object = ns[q].object /\ ms[q].next[c] = Len(ns)
    /\ \A d \in 1..Len(Alphabet) : d # c => ms[q].next[d] = ns[q].next[d]

LEMMA ChildAdded ==
    ASSUME NEW ns \in Seq(TrieNodes), NEW q \in 1..Len(ns), NEW c \in 1..Len(Alphabet), NEW ms,
           ms = WithChild(ns, q, c)
    PROVE  ms \in Seq(TrieNodes) /\ HasChild(ms, ns, q, c)
<1>0. PICK n \in Nat : n = Len(ns) /\ q \in 1..n /\ ns[q] \in TrieNodes
    OBVIOUS
<1>1. DOMAIN Alphabet = 1..Len(Alphabet)
    BY TrieAssumption
<1>. DEFINE nx == [ns[q].next EXCEPT ![c] = n]
<1>2. ns[q].next \in [1..Len(Alphabet) -> Nat] /\ ns[q].object \in Seq(TrieVals)
    BY <1>0, <1>1 DEF TrieNodes
<1>3. /\ nx \in [1..Len(Alphabet) -> Nat] /\ nx[c] = n
      /\ \A d \in 1..Len(Alphabet) : d # c => nx[d] = ns[q].next[d]
    BY <1>2
<1>. HIDE DEF nx
<1>4. PICK nd : /\ nd = [ns[q] EXCEPT !.next = nx] /\ nd \in TrieNodes /\ nd.next = nx
                /\ nd.object = ns[q].object
  <2>1. /\ [ns[q] EXCEPT !.next = nx] \in TrieNodes /\ [ns[q] EXCEPT !.next = nx].next = nx
        /\ [ns[q] EXCEPT !.next = nx].object = ns[q].object
    BY <1>0, <1>1, <1>3 DEF TrieNodes
  <2>. QED
    BY <2>1, Zenon
<1>5. EmptyNode \in TrieNodes
    BY DEF EmptyNode, TrieNodes
<1>6. ms = Append([ns EXCEPT ![q] = nd], EmptyNode)
    BY <1>0, <1>4 DEF WithChild, nx
<1>7. PICK ks : /\ ks = [ns EXCEPT ![q] = nd] /\ ks \in Seq(TrieNodes) /\ Len(ks) = n /\ ks[q] = nd
                /\ \A r \in 1..n : r # q => ks[r] = ns[r]
  <2>1. /\ [ns EXCEPT ![q] = nd] \in Seq(TrieNodes) /\ Len([ns EXCEPT ![q] = nd]) = n
        /\ [ns EXCEPT ![q] = nd][q] = nd /\ \A r \in 1..n : r # q => [ns EXCEPT ![q] = nd][r] = ns[r]
    BY <1>0, <1>4
  <2>. QED
    BY <2>1, Zenon
<1>8. /\ ms \in Seq(TrieNodes) /\ Len(ms) = n + 1 /\ ms[n + 1] = EmptyNode /\ \A r \in 1..n : ms[r] = ks[r]
  <2>1. ms = Append(ks, EmptyNode)
    BY <1>6, <1>7, Zenon
  <2>. QED
    BY <1>5, <1>7, <2>1
<1>9. ms[q] = nd
    BY <1>0, <1>7, <1>8, Zenon
<1>10. \A r \in 1..Len(ns) : r # q => ms[r] = ns[r]
    BY <1>0, <1>7, <1>8, Zenon
<1>11. ms[q].object = ns[q].object /\ ms[q].next[c] = Len(ns)
    BY <1>0, <1>3, <1>4, <1>9, Zenon
<1>12. ASSUME NEW d \in 1..Len(Alphabet), d # c PROVE ms[q].next[d] = ns[q].next[d]
    BY <1>3, <1>4, <1>9, <1>12, Zenon
<1>13. ms \in Seq(TrieNodes) /\ Len(ms) = Len(ns) + 1 /\ ms[Len(ns) + 1] = EmptyNode
    BY <1>0, <1>8, Zenon
<1>. QED
    BY <1>10, <1>11, <1>12, <1>13, Zenon DEF HasChild

\* It gets the text of its parent and the character.
IsAppended(t, s, x) == t = Append(s, x)

EndsWith(t, s, x) == Len(t) = Len(s) + 1 /\ t[Len(s) + 1] = x /\ \A i \in 1..Len(s) : t[i] = s[i]

LEMMA AppendedFacts ==
    ASSUME NEW X, NEW s \in Seq(X), NEW x \in X, NEW t, IsAppended(t, s, x)
    PROVE  t \in Seq(X) /\ EndsWith(t, s, x)
BY DEF IsAppended, EndsWith

SameParts(s, x, r, y) == s = r /\ x = y

LEMMA AppendedOnce ==
    ASSUME NEW X, NEW s \in Seq(X), NEW x \in X, NEW r \in Seq(X), NEW y \in X, NEW t,
           IsAppended(t, s, x), IsAppended(t, r, y)
    PROVE  SameParts(s, x, r, y)
<1>1. EndsWith(t, s, x) /\ EndsWith(t, r, y)
    BY AppendedFacts, Zenon
<1>2. Len(s) = Len(r)
    BY <1>1 DEF EndsWith
<1>3. x = y
    BY <1>1, <1>2, Zenon DEF EndsWith
<1>4. \A i \in 1..Len(s) : s[i] = r[i]
    BY <1>1, <1>2, Zenon DEF EndsWith
<1>5. s = r
    BY <1>2, <1>4, SeqEqual, Zenon
<1>. QED
    BY <1>3, <1>5, Zenon DEF SameParts

NoChild(ns, q, c) == CharIndex(Alphabet[c]) = c /\ ns[q].next[c] = 0

TextAdded(Q, P, n, t) == Q[n + 1] = t /\ \A r \in 1..n : Q[r] = P[r] /\ P[r] # t

LEMMA TrieGrows ==
    ASSUME NEW ns, NEW P, TrieShape(ns, P), NEW q \in 1..Len(ns), NEW c \in 1..Len(Alphabet),
           NoChild(ns, q, c), NEW ms, ms = WithChild(ns, q, c)
    PROVE  \E Q : TrieShape(ms, Q) /\ TextAdded(Q, P, Len(ns), Append(P[q], Alphabet[c]))
<1>. DEFINE Q == Append(P, Append(P[q], Alphabet[c]))
<1>. HIDE DEF Q
<1>16. CharIndex(Alphabet[c]) = c /\ ns[q].next[c] = 0
    BY Zenon DEF NoChild
<1>0. PICK n \in Nat : n = Len(ns) /\ q \in 1..n /\ ns \in Seq(TrieNodes) /\ n >= 1 /\ n # 0
    BY DEF TrieShape
<1>1. /\ ms \in Seq(TrieNodes) /\ Len(ms) = n + 1 /\ ms[n + 1] = EmptyNode
      /\ \A r \in 1..n : r # q => ms[r] = ns[r]
      /\ ms[q].next[c] = n /\ \A d \in 1..Len(Alphabet) : d # c => ms[q].next[d] = ns[q].next[d]
  <2>1. ms \in Seq(TrieNodes) /\ HasChild(ms, ns, q, c)
    BY <1>0, ChildAdded, Zenon
  <2>. QED
    BY <1>0, <2>1, Zenon DEF HasChild
<1>2. DOMAIN Alphabet = 1..Len(Alphabet) /\ Alphabet[c] \in ToSet(Alphabet)
  <2>1. DOMAIN Alphabet = 1..Len(Alphabet)
    BY TrieAssumption
  <2>. QED
    BY <2>1, Zenon DEF ToSet
<1>3. P \in Seq(Seq(ToSet(Alphabet))) /\ Len(P) = n /\ P[1] = <<>> /\ \A r, s \in 1..n : P[r] = P[s] => r = s
    BY <1>0, Zenon DEF TrieShape, PathsDiffer
<1>4. P[q] \in Seq(ToSet(Alphabet)) /\ \A r \in 1..n : P[r] \in Seq(ToSet(Alphabet))
    BY <1>0, <1>3
<1>5. PICK t : t = Append(P[q], Alphabet[c]) /\ t \in Seq(ToSet(Alphabet)) /\ t # <<>>
    BY <1>2, <1>4, AppendProperties, Zenon
<1>6. /\ Q \in Seq(Seq(ToSet(Alphabet))) /\ Len(Q) = n + 1 /\ Q[n + 1] = t
      /\ \A r \in 1..n : Q[r] = P[r]
  <2>1. IsAppended(Q, P, t)
    BY <1>5, Zenon DEF IsAppended, Q
  <2>2. P \in Seq(Seq(ToSet(Alphabet))) /\ t \in Seq(ToSet(Alphabet))
    BY <1>3, <1>5, Zenon
  <2>3. Q \in Seq(Seq(ToSet(Alphabet))) /\ EndsWith(Q, P, t)
    BY <2>1, <2>2, AppendedFacts, Zenon
  <2>. QED
    BY <1>3, <2>3, Zenon DEF EndsWith
<1>7. ASSUME NEW r \in 1..n PROVE P[r] # t
  <2>. SUFFICES ASSUME P[r] = t PROVE FALSE
    OBVIOUS
  <2>1. r # 1
    BY <1>3, <1>5, Zenon
  <2>2. r \in 2..n
    BY <2>1
  <2>3. PICK p \in 1..r - 1 : \E d \in 1..Len(Alphabet) : ns[p].next[d] = r - 1
    BY <1>0, <2>2, Zenon DEF TrieShape, HaveParents
  <2>4. PICK d \in 1..Len(Alphabet) : ns[p].next[d] = r - 1
    BY <2>3, Zenon
  <2>5. p \in 1..n /\ r - 1 # 0 /\ (r - 1) + 1 = r
    BY <2>2
  <2>6. ns[p].next[d] # 0
    BY <2>4, <2>5, Zenon
  <2>7. P[ns[p].next[d] + 1] = Append(P[p], Alphabet[d]) /\ CharIndex(Alphabet[d]) = d
    BY <1>0, <2>5, <2>6, Zenon DEF TrieShape, ChildrenRight
  <2>8. P[r] = Append(P[p], Alphabet[d])
    BY <2>4, <2>5, <2>7, Zenon
  <2>9. P[p] = P[q] /\ Alphabet[d] = Alphabet[c]
    <3>1. PICK x, y, z, w : /\ x = P[p] /\ y = Alphabet[d] /\ z = P[q] /\ w = Alphabet[c]
                            /\ x \in Seq(ToSet(Alphabet)) /\ z \in Seq(ToSet(Alphabet))
                            /\ y \in ToSet(Alphabet) /\ w \in ToSet(Alphabet)
      BY <1>2, <1>4, <2>5, Zenon DEF ToSet
    <3>2. IsAppended(t, x, y) /\ IsAppended(t, z, w)
      BY <1>5, <2>8, <3>1, Zenon DEF IsAppended
    <3>3. SameParts(x, y, z, w)
      BY <3>1, <3>2, AppendedOnce, Zenon
    <3>. QED
      BY <3>1, <3>3, Zenon DEF SameParts
  <2>10. p = q
    BY <1>0, <1>3, <2>5, <2>9, Zenon
  <2>11. d = c
    BY <1>16, <2>7, <2>9, Zenon
  <2>. QED
    BY <1>16, <2>6, <2>10, <2>11, Zenon
<1>8. PathsDiffer(ms, Q)
  <2>1. \A r \in 1..n + 1 : r \in 1..n \/ r = n + 1
    OBVIOUS
  <2>2. 1 \in 1..n
    BY <1>0
  <2>3. ASSUME NEW r \in 1..n + 1, NEW s \in 1..n + 1, Q[r] = Q[s] PROVE r = s
    <3>1. CASE r \in 1..n /\ s \in 1..n
      BY <1>3, <1>6, <2>3, <3>1, Zenon
    <3>2. CASE r \in 1..n /\ s = n + 1
      BY <1>6, <1>7, <2>3, <3>2, Zenon
    <3>3. CASE r = n + 1 /\ s \in 1..n
      BY <1>6, <1>7, <2>3, <3>3, Zenon
    <3>. QED
      BY <2>1, <3>1, <3>2, <3>3, Zenon
  <2>4. ASSUME NEW r \in 1..Len(ms), NEW s \in 1..Len(ms), Q[r] = Q[s] PROVE r = s
    BY <1>1, <2>3, <2>4, Zenon
  <2>5. Q[1] = <<>> /\ Len(Q) = Len(ms) /\ Q \in Seq(Seq(ToSet(Alphabet)))
    BY <1>1, <1>3, <1>6, <2>2, Zenon
  <2>. QED
    BY <2>4, <2>5, Zenon DEF PathsDiffer
<1>9. HaveParents(ms)
  <2>1. ASSUME NEW r \in 2..n + 1
        PROVE \E p \in 1..r - 1 : \E d \in 1..Len(Alphabet) : ms[p].next[d] = r - 1
    <3>1. CASE r = n + 1
      <4>1. q \in 1..r - 1 /\ r - 1 = n
        BY <3>1, <1>0
      <4>. QED
        BY <1>1, <4>1, Zenon
    <3>2. CASE r # n + 1
      <4>1. r \in 2..n /\ r - 1 # 0 /\ \A p \in 1..r - 1 : p \in 1..n
        BY <3>2
      <4>2. PICK p \in 1..r - 1 : \E d \in 1..Len(Alphabet) : ns[p].next[d] = r - 1
        BY <1>0, <4>1, Zenon DEF TrieShape, HaveParents
      <4>3. PICK d \in 1..Len(Alphabet) : ns[p].next[d] = r - 1
        BY <4>2, Zenon
      <4>4. CASE p = q
        <5>1. d # c
          BY <1>16, <4>1, <4>3, <4>4, Zenon
        <5>2. ms[q].next[d] = ns[q].next[d]
          BY <1>1, <5>1, Zenon
        <5>. QED
          BY <4>3, <4>4, <5>2, Zenon
      <4>5. CASE p # q
        <5>1. ms[p] = ns[p]
          BY <1>1, <4>1, <4>5, Zenon
        <5>. QED
          BY <4>3, <5>1, Zenon
      <4>. QED
        BY <4>4, <4>5, Zenon
    <3>. QED
      BY <3>1, <3>2, Zenon
  <2>. QED
    BY <1>1, <2>1, Zenon DEF HaveParents
<1>10. ChildrenRight(ms, Q)
  <2>1. ASSUME NEW r \in 1..n + 1, NEW d \in 1..Len(Alphabet), ms[r].next[d] # 0
        PROVE  /\ ms[r].next[d] \in r..(n + 1) - 1
               /\ Q[ms[r].next[d] + 1] = Append(Q[r], Alphabet[d])
               /\ CharIndex(Alphabet[d]) = d
    <3>1. CASE r = n + 1
      <4>1. EmptyNode.next[d] = 0
        BY <1>2 DEF EmptyNode
      <4>. QED
        BY <1>1, <2>1, <3>1, <4>1, Zenon
    <3>2. CASE r = q /\ d = c
      <4>1. ms[r].next[d] = n
        BY <1>1, <3>2, Zenon
      <4>2. n \in r..(n + 1) - 1
        BY <1>0, <3>2
      <4>3. Q[n + 1] = Append(Q[r], Alphabet[d])
        BY <1>0, <1>5, <1>6, <3>2, Zenon
      <4>. QED
        BY <1>16, <3>2, <4>1, <4>2, <4>3, Zenon
    <3>3. CASE r # n + 1 /\ ~(r = q /\ d = c)
      <4>1. r \in 1..n
        BY <3>3
      <4>2. PICK k : k = ms[r].next[d] /\ k = ns[r].next[d] /\ k # 0
        <5>1. CASE r = q
          BY <1>1, <2>1, <3>3, <5>1, Zenon
        <5>2. CASE r # q
          BY <1>1, <2>1, <4>1, <5>2, Zenon
        <5>. QED
          BY <5>1, <5>2, Zenon
      <4>3. /\ ns[r].next[d] \in r..n - 1
            /\ P[ns[r].next[d] + 1] = Append(P[r], Alphabet[d]) /\ CharIndex(Alphabet[d]) = d
        BY <1>0, <4>1, <4>2, Zenon DEF TrieShape, ChildrenRight
      <4>4. k \in r..n - 1 /\ P[k + 1] = Append(P[r], Alphabet[d])
        BY <4>2, <4>3, Zenon
      <4>5. k \in r..(n + 1) - 1 /\ k + 1 \in 1..n
        BY <4>4
      <4>6. Q[k + 1] = Append(Q[r], Alphabet[d])
        BY <1>6, <4>1, <4>4, <4>5, Zenon
      <4>. QED
        BY <4>2, <4>3, <4>5, <4>6, Zenon
    <3>. QED
      BY <3>1, <3>2, <3>3, Zenon
  <2>2. ASSUME NEW r \in 1..Len(ms), NEW d \in 1..Len(Alphabet), ms[r].next[d] # 0
        PROVE  /\ ms[r].next[d] \in r..Len(ms) - 1
               /\ Q[ms[r].next[d] + 1] = Append(Q[r], Alphabet[d])
               /\ CharIndex(Alphabet[d]) = d
    BY <1>1, <2>1, <2>2, Zenon
  <2>. QED
    BY <2>2, Zenon DEF ChildrenRight
<1>11. n + 1 >= 1
    OBVIOUS
<1>13. TrieShape(ms, Q)
    BY <1>0, <1>1, <1>8, <1>9, <1>10, <1>11, Zenon DEF TrieShape
<1>14. TextAdded(Q, P, Len(ns), Append(P[q], Alphabet[c]))
    BY <1>0, <1>5, <1>6, <1>7, Zenon DEF TextAdded
<1>. QED
    BY <1>13, <1>14, Zenon

-----------------------------------------------------------------------------
(* The way to the node of a key.                                           *)

\* The text of the node is what has been read of the key.
AtNode(ns, P, key, node, done) ==
    node + 1 \in 1..Len(ns) /\ done \in 0..Len(key) /\ P[node + 1] = SubSeq(key, 1, done)

\* The next character has no child, or is not in the alphabet.
Blocked(ns, key, node, done, ok) ==
    /\ done < Len(key)
    /\ \/ ok /\ CharIndex(key[done + 1]) # NoIndex /\ ns[node + 1].next[CharIndex(key[done + 1])] = 0
       \/ ~ok /\ CharIndex(key[done + 1]) = NoIndex

WalkedTo(P, key, i, node, done, ok) ==
    AtNode(nodes, P, key, node, done) /\ ((ok /\ done = i) \/ Blocked(nodes, key, node, done, ok))

LEMMA SubSeqGrows ==
    ASSUME NEW X, NEW s \in Seq(X), NEW d \in 0..Len(s) - 1
    PROVE  /\ SubSeq(s, 1, d) \in Seq(X) /\ s[d + 1] \in X
           /\ IsAppended(SubSeq(s, 1, d + 1), SubSeq(s, 1, d), s[d + 1])
<1>1. d + 1 \in 1..Len(s) /\ d \in 0..Len(s)
    OBVIOUS
<1>2. s[d + 1] \in X
    BY <1>1
<1>3. SubSeq(s, 1, d) \in Seq(X) /\ Len(SubSeq(s, 1, d)) = d /\ \A i \in 1..d : SubSeq(s, 1, d)[i] = s[i]
    BY <1>1
<1>4. /\ SubSeq(s, 1, d + 1) \in Seq(X) /\ Len(SubSeq(s, 1, d + 1)) = d + 1
      /\ \A i \in 1..d + 1 : SubSeq(s, 1, d + 1)[i] = s[i]
    BY <1>1
<1>5. PICK a, b : a = SubSeq(s, 1, d) /\ b = SubSeq(s, 1, d + 1)
    OBVIOUS
<1>6. b = Append(a, s[d + 1])
  <2>1. a \in Seq(X) /\ Len(a) = d /\ \A i \in 1..d : a[i] = s[i]
    BY <1>3, <1>5, Zenon
  <2>2. b \in Seq(X) /\ Len(b) = d + 1 /\ \A i \in 1..d + 1 : b[i] = s[i]
    BY <1>4, <1>5, Zenon
  <2>. HIDE <1>3, <1>4, <1>5
  <2>3. PICK e : e = Append(a, s[d + 1])
    OBVIOUS
  <2>4. e \in Seq(X) /\ EndsWith(e, a, s[d + 1])
    BY <1>2, <2>1, <2>3, AppendedFacts, Zenon DEF IsAppended
  <2>5. Len(e) = d + 1 /\ e[d + 1] = s[d + 1] /\ \A i \in 1..d : e[i] = s[i]
    BY <2>1, <2>4, Zenon DEF EndsWith
  <2>6. \A i \in 1..Len(b) : b[i] = e[i]
    <3>1. \A i \in 1..d + 1 : i \in 1..d \/ i = d + 1
      OBVIOUS
    <3>. QED
      BY <2>2, <2>5, <3>1, Zenon
  <2>7. b = e
    BY <2>2, <2>4, <2>5, <2>6, SeqEqual, Zenon
  <2>. QED
    BY <2>3, <2>7, Zenon
<1>. QED
    BY <1>2, <1>3, <1>5, <1>6, Zenon DEF IsAppended

\* What a turn of the walk does.
TurnIs(y, p, q, key, done, ok, c, m) ==
    y = IF done = Len(key) \/ ~ok THEN p ELSE IF c = NoIndex THEN q
        ELSE IF m = 0 THEN p ELSE Pos(m, done + 1, TRUE)

LEMMA WalkOnIs ==
    ASSUME NEW key, NEW node \in Nat, NEW done \in Nat, NEW ok \in BOOLEAN, NEW c, c = CharIndex(key[done + 1]),
           NEW m, m = nodes[node + 1].next[c]
    PROVE  TurnIs(WalkOn(key)[Pos(node, done, ok)], Pos(node, done, ok), Pos(node, done, FALSE), key, done, ok, c, m)
<1>1. /\ Pos(node, done, ok) \in [node : Nat, done : Nat, ok : BOOLEAN]
      /\ Pos(node, done, ok).node = node /\ Pos(node, done, ok).done = done
      /\ Pos(node, done, ok).ok = ok
    BY DEF Pos
<1>2. PICK p : /\ p = Pos(node, done, ok) /\ p \in [node : Nat, done : Nat, ok : BOOLEAN]
               /\ p.node = node /\ p.done = done /\ p.ok = ok
    BY <1>1, Zenon
<1>3. WalkOn(key)[p]
        = IF done = Len(key) \/ ~ok THEN p
          ELSE IF c = NoIndex THEN Pos(node, done, FALSE)
          ELSE IF m = 0 THEN p
          ELSE Pos(m, done + 1, TRUE)
    BY <1>2, Zenon DEF WalkOn
<1>. QED
    BY <1>2, <1>3, Zenon DEF TurnIs

TurnsTo(key, y, i, P) ==
    \E m \in Nat : \E d \in Nat : \E o \in BOOLEAN : y = Pos(m, d, o) /\ WalkedTo(P, key, i, m, d, o)

LEMMA WalkTurn ==
    ASSUME NEW P, TrieShape(nodes, P), NEW key \in Seq(Nat), NEW i \in 0..Len(key) - 1,
           NEW node \in Nat, NEW done \in Nat, NEW ok \in BOOLEAN, WalkedTo(P, key, i, node, done, ok)
    PROVE  TurnsTo(key, WalkOn(key)[Pos(node, done, ok)], i + 1, P)
<1>. SUFFICES \E m \in Nat : \E d \in Nat : \E o \in BOOLEAN :
                 WalkOn(key)[Pos(node, done, ok)] = Pos(m, d, o) /\ WalkedTo(P, key, i + 1, m, d, o)
    BY Zenon DEF TurnsTo
<1>0. PICK n \in Nat : n = Len(nodes)
    BY DEF TrieShape
<1>1. node + 1 \in 1..n /\ done \in 0..Len(key) /\ P[node + 1] = SubSeq(key, 1, done)
    BY <1>0, Zenon DEF WalkedTo, AtNode
<1>2. PICK c, m : c = CharIndex(key[done + 1]) /\ m = nodes[node + 1].next[c]
    OBVIOUS
<1>3. WalkOn(key)[Pos(node, done, ok)]
        = IF done = Len(key) \/ ~ok THEN Pos(node, done, ok)
          ELSE IF c = NoIndex THEN Pos(node, done, FALSE)
          ELSE IF m = 0 THEN Pos(node, done, ok)
          ELSE Pos(m, done + 1, TRUE)
  <2>1. node \in Nat /\ TurnIs(WalkOn(key)[Pos(node, done, ok)], Pos(node, done, ok), Pos(node, done, FALSE),
                              key, done, ok, c, m)
    BY <1>2, WalkOnIs, Zenon
  <2>. QED
    BY <2>1, Zenon DEF TurnIs
<1>4. CASE Blocked(nodes, key, node, done, ok)
  <2>1. \/ ok /\ c # NoIndex /\ m = 0
        \/ ~ok
    BY <1>2, <1>4, Zenon DEF Blocked
  <2>2. WalkOn(key)[Pos(node, done, ok)] = Pos(node, done, ok)
    BY <1>3, <2>1, Zenon
  <2>3. WalkedTo(P, key, i + 1, node, done, ok)
    BY <1>4, Zenon DEF WalkedTo
  <2>. QED
    BY <2>2, <2>3, Zenon
<1>5. CASE ok /\ done = i
  <2>1. done # Len(key) /\ done < Len(key) /\ done + 1 \in 1..Len(key) /\ done \in 0..Len(key) - 1
    BY <1>5
  <2>2. key[done + 1] \in Nat
    BY <2>1
  <2>3. CASE c = NoIndex
    <3>1. WalkOn(key)[Pos(node, done, ok)] = Pos(node, done, FALSE)
      BY <1>3, <1>5, <2>1, <2>3, Zenon
    <3>2. WalkedTo(P, key, i + 1, node, done, FALSE)
      BY <1>2, <2>1, <2>3, Zenon DEF WalkedTo, Blocked
    <3>. QED
      BY <3>1, <3>2, Zenon
  <2>4. CASE c # NoIndex /\ m = 0
    <3>1. WalkOn(key)[Pos(node, done, ok)] = Pos(node, done, ok)
      BY <1>3, <1>5, <2>1, <2>4, Zenon
    <3>2. WalkedTo(P, key, i + 1, node, done, ok)
      BY <1>2, <1>5, <2>1, <2>4, Zenon DEF WalkedTo, Blocked
    <3>. QED
      BY <3>1, <3>2, Zenon
  <2>5. CASE c # NoIndex /\ m # 0
    <3>1. WalkOn(key)[Pos(node, done, ok)] = Pos(m, done + 1, TRUE)
      BY <1>3, <1>5, <2>1, <2>5, Zenon
    <3>2. c \in 1..Len(Alphabet) /\ Alphabet[c] = key[done + 1]
      BY <1>2, <2>2, <2>5, CharIndexFacts, Zenon
    <3>3. m \in node + 1..n - 1 /\ P[m + 1] = Append(P[node + 1], Alphabet[c])
      <4>1. /\ nodes[node + 1].next[c] \in node + 1..n - 1
            /\ P[nodes[node + 1].next[c] + 1] = Append(P[node + 1], Alphabet[c])
        BY <1>0, <1>1, <1>2, <2>5, <3>2, Zenon DEF TrieShape, ChildrenRight
      <4>. QED
        BY <1>2, <4>1, Zenon
    <3>4. P[m + 1] = SubSeq(key, 1, done + 1)
      <4>1. IsAppended(SubSeq(key, 1, done + 1), SubSeq(key, 1, done), key[done + 1])
        BY <2>1, SubSeqGrows, Zenon
      <4>. QED
        BY <1>1, <3>2, <3>3, <4>1, Zenon DEF IsAppended
    <3>5. m \in Nat /\ m + 1 \in 1..n /\ done + 1 \in 0..Len(key) /\ done + 1 \in Nat
      BY <2>1, <3>3
    <3>6. WalkedTo(P, key, i + 1, m, done + 1, TRUE)
      BY <1>0, <1>5, <3>4, <3>5, Zenon DEF WalkedTo, AtNode
    <3>7. TRUE \in BOOLEAN
      OBVIOUS
    <3>. QED
      BY <3>1, <3>5, <3>6, <3>7, Zenon
  <2>. QED
    BY <2>3, <2>4, <2>5, Zenon
<1>. QED
    BY <1>4, <1>5, Zenon DEF WalkedTo

\* The walk comes to the node of the key, or as far as there are nodes.
LEMMA WalkFacts ==
    ASSUME NEW P, TrieShape(nodes, P), NEW key \in Seq(Nat)
    PROVE  \E node \in Nat : \E done \in Nat : \E ok \in BOOLEAN :
              FindInsertPos(key) = Pos(node, done, ok) /\ WalkedTo(P, key, Len(key), node, done, ok)
<1>0. PICK n \in Nat : n = Len(key)
    OBVIOUS
<1>. DEFINE S == {ip \in Nat \X [node : Nat, done : Nat, ok : BOOLEAN] :
                    WalkedTo(P, key, ip[1], ip[2].node, ip[2].done, ip[2].ok)}
<1>1. \A i \in Nat, m \in Nat, d \in Nat, o \in BOOLEAN :
        WalkedTo(P, key, i, m, d, o) => <<i, Pos(m, d, o)>> \in S
  <2>. SUFFICES ASSUME NEW i \in Nat, NEW m \in Nat, NEW d \in Nat, NEW o \in BOOLEAN, WalkedTo(P, key, i, m, d, o)
                PROVE  <<i, Pos(m, d, o)>> \in S
    BY Zenon
  <2>1. /\ Pos(m, d, o) \in [node : Nat, done : Nat, ok : BOOLEAN]
        /\ Pos(m, d, o).node = m /\ Pos(m, d, o).done = d /\ Pos(m, d, o).ok = o
    BY DEF Pos
  <2>2. PICK p : /\ p = Pos(m, d, o) /\ p \in [node : Nat, done : Nat, ok : BOOLEAN]
                 /\ p.node = m /\ p.done = d /\ p.ok = o
    BY <2>1, Zenon
  <2>3. <<i, p>> \in Nat \X [node : Nat, done : Nat, ok : BOOLEAN] /\ <<i, p>>[1] = i /\ <<i, p>>[2] = p
    BY <2>2
  <2>4. PICK ip : /\ ip = <<i, p>> /\ ip \in Nat \X [node : Nat, done : Nat, ok : BOOLEAN]
                  /\ ip[1] = i /\ ip[2] = p
    BY <2>3, Zenon
  <2>5. ip \in S
    BY <2>2, <2>4, Zenon
  <2>. QED
    BY <2>2, <2>4, <2>5, Zenon
<1>2. ASSUME NEW i, NEW y, <<i, y>> \in S
      PROVE  \E m \in Nat : \E d \in Nat : \E o \in BOOLEAN : y = Pos(m, d, o) /\ WalkedTo(P, key, i, m, d, o)
  <2>0. <<i, y>>[1] = i /\ <<i, y>>[2] = y
    OBVIOUS
  <2>1. PICK ip : ip = <<i, y>> /\ ip[1] = i /\ ip[2] = y
    BY <2>0, Zenon
  <2>2. ip \in S
    BY <1>2, <2>1, Zenon
  <2>3. WalkedTo(P, key, i, y.node, y.done, y.ok) /\ ip \in Nat \X [node : Nat, done : Nat, ok : BOOLEAN]
    BY <2>1, <2>2, Zenon
  <2>4. y \in [node : Nat, done : Nat, ok : BOOLEAN]
    BY <2>1, <2>3
  <2>5. y = Pos(y.node, y.done, y.ok) /\ y.node \in Nat /\ y.done \in Nat /\ y.ok \in BOOLEAN
    BY <2>4 DEF Pos
  <2>. QED
    BY <2>3, <2>5, Zenon
<1>. HIDE DEF S
<1>3. <<0, Pos(0, 0, TRUE)>> \in S
  <2>1. 0 + 1 \in 1..Len(nodes) /\ P[1] = <<>> /\ 0 + 1 = 1
    BY DEF TrieShape, PathsDiffer
  <2>2. SubSeq(key, 1, 0) = <<>>
    OBVIOUS
  <2>3. 0 \in 0..Len(key) /\ 0 \in Nat /\ TRUE \in BOOLEAN
    OBVIOUS
  <2>4. WalkedTo(P, key, 0, 0, 0, TRUE)
    BY <2>1, <2>2, <2>3, Zenon DEF WalkedTo, AtNode
  <2>. QED
    BY <1>1, <2>3, <2>4, Zenon
<1>4. ASSUME NEW i \in 0..n - 1, NEW y, <<i, y>> \in S PROVE <<i + 1, WalkOn(key)[y]>> \in S
  <2>1. PICK m \in Nat, d \in Nat, o \in BOOLEAN : y = Pos(m, d, o) /\ WalkedTo(P, key, i, m, d, o)
    BY <1>2, <1>4, Zenon
  <2>2. \E a \in Nat : \E b \in Nat : \E e \in BOOLEAN :
           WalkOn(key)[Pos(m, d, o)] = Pos(a, b, e) /\ WalkedTo(P, key, i + 1, a, b, e)
    <3>1. i \in 0..Len(key) - 1
      BY <1>0, Zenon
    <3>2. TurnsTo(key, WalkOn(key)[Pos(m, d, o)], i + 1, P)
      BY <2>1, <3>1, WalkTurn, Zenon
    <3>. QED
      BY <3>2, Zenon DEF TurnsTo
  <2>3. i + 1 \in Nat
    OBVIOUS
  <2>. QED
    BY <1>1, <2>1, <2>2, <2>3, Zenon
<1>5. <<n, After(WalkOn(key), Pos(0, 0, TRUE), n)>> \in S
    BY <1>3, <1>4, AfterStays, Zenon
<1>6. PICK m \in Nat, d \in Nat, o \in BOOLEAN :
         After(WalkOn(key), Pos(0, 0, TRUE), n) = Pos(m, d, o) /\ WalkedTo(P, key, n, m, d, o)
    BY <1>2, <1>5, Zenon
<1>7. FindInsertPos(key) = Pos(m, d, o)
    BY <1>0, <1>6, Zenon DEF FindInsertPos, Pos
<1>. QED
    BY <1>0, <1>6, <1>7, Zenon

\* Beyond a place that is blocked there is no key.
LEMMA NothingBeyond ==
    ASSUME NEW ns, NEW P, TrieShape(ns, P), NEW key \in Seq(Nat), NEW node \in Nat, NEW done \in Nat,
           NEW ok \in BOOLEAN, AtNode(ns, P, key, node, done), Blocked(ns, key, node, done, ok),
           NEW r \in 1..Len(ns)
    PROVE  P[r] # key
<1>0. PICK n \in Nat : /\ n = Len(ns) /\ P[1] = <<>> /\ \A q, s \in 1..n : P[q] = P[s] => q = s
                       /\ \A q \in 1..n : P[q] \in Seq(ToSet(Alphabet))
  <2>1. P \in Seq(Seq(ToSet(Alphabet))) /\ Len(P) = Len(ns) /\ Len(ns) \in Nat
    BY DEF TrieShape, PathsDiffer
  <2>2. \A q \in 1..Len(ns) : P[q] \in Seq(ToSet(Alphabet))
    BY <2>1
  <2>. QED
    BY <2>1, <2>2, Zenon DEF TrieShape, PathsDiffer
<1>. SUFFICES ASSUME P[r] = key PROVE FALSE
    OBVIOUS
<1>1. key \in Seq(ToSet(Alphabet))
    BY <1>0, Zenon
<1>2. done < Len(key) /\ node + 1 \in 1..n /\ P[node + 1] = SubSeq(key, 1, done)
    BY <1>0, Zenon DEF Blocked, AtNode
<1>3. done \in 0..Len(key) - 1 /\ done + 1 \in 0..Len(key) /\ Len(key) \in Nat
    BY <1>2
<1>4. /\ SubSeq(key, 1, done) \in Seq(ToSet(Alphabet)) /\ key[done + 1] \in ToSet(Alphabet)
      /\ IsAppended(SubSeq(key, 1, done + 1), SubSeq(key, 1, done), key[done + 1])
    BY <1>1, <1>3, SubSeqGrows, Zenon
<1>5. PICK s \in 1..n : P[s] = SubSeq(key, 1, done + 1)
  <2>1. done + 1 \in 0..Len(P[r])
    BY <1>3, Zenon
  <2>2. \E s \in 1..Len(ns) : P[s] = SubSeq(P[r], 1, done + 1)
    <3>1. HasNode(ns, P, SubSeq(P[r], 1, done + 1))
      BY <2>1, PrefixesHaveNodes, Zenon
    <3>. QED
      BY <3>1, Zenon DEF HasNode
  <2>. QED
    BY <1>0, <2>2, Zenon
<1>6. s # 1
  <2>1. P[s] \in Seq(ToSet(Alphabet)) /\ EndsWith(P[s], SubSeq(key, 1, done), key[done + 1])
    BY <1>4, <1>5, AppendedFacts, Zenon
  <2>2. Len(P[s]) = Len(SubSeq(key, 1, done)) + 1 /\ Len(SubSeq(key, 1, done)) \in Nat
    BY <1>4, <2>1 DEF EndsWith
  <2>3. Len(P[s]) # 0 /\ Len(<<>>) = 0
    BY <2>2
  <2>. QED
    BY <1>0, <2>3, Zenon
<1>7. s \in 2..n /\ s - 1 # 0 /\ (s - 1) + 1 = s
    BY <1>6
<1>8. PICK p \in 1..s - 1 : \E c \in 1..Len(Alphabet) : ns[p].next[c] = s - 1
    BY <1>0, <1>7, Zenon DEF TrieShape, HaveParents
<1>9. PICK c \in 1..Len(Alphabet) : ns[p].next[c] = s - 1
    BY <1>8, Zenon
<1>10. p \in 1..n /\ ns[p].next[c] # 0
  <2>1. p \in 1..n
    OBVIOUS
  <2>. QED
    BY <1>7, <1>9, <2>1, Zenon
<1>11. P[ns[p].next[c] + 1] = Append(P[p], Alphabet[c]) /\ CharIndex(Alphabet[c]) = c
    BY <1>0, <1>10, Zenon DEF TrieShape, ChildrenRight
<1>12. IsAppended(P[s], P[p], Alphabet[c]) /\ IsAppended(P[s], P[node + 1], key[done + 1])
    BY <1>2, <1>4, <1>5, <1>7, <1>9, <1>11, Zenon DEF IsAppended
<1>13. Alphabet[c] \in ToSet(Alphabet)
  <2>1. DOMAIN Alphabet = 1..Len(Alphabet)
    BY TrieAssumption
  <2>. QED
    BY <2>1, Zenon DEF ToSet
<1>14. SameParts(P[p], Alphabet[c], P[node + 1], key[done + 1])
    BY <1>0, <1>2, <1>4, <1>10, <1>12, <1>13, AppendedOnce, Zenon
<1>15. p = node + 1
    BY <1>0, <1>2, <1>10, <1>14, Zenon DEF SameParts
<1>16. CharIndex(key[done + 1]) = c
    BY <1>11, <1>14, Zenon DEF SameParts
<1>17. c # NoIndex
    BY DEF NoIndex
<1>. QED
    BY <1>10, <1>15, <1>16, <1>17, Zenon DEF Blocked

\* The whole of a key.
LEMMA WholeKey ==
    ASSUME NEW key \in Seq(Nat)
    PROVE  SubSeq(key, 1, Len(key)) = key /\ Len(key) \in Nat
OBVIOUS

\* find finds what is stored.
LEMMA ObjectFound ==
    ASSUME NEW P, TrieShape(nodes, P), TrieHolds(nodes, P, stored), NEW key \in Seq(Nat)
    PROVE  \/ key \in DOMAIN stored /\ FindObject(key) = <<stored[key]>>
           \/ key \notin DOMAIN stored /\ FindObject(key) = <<>>
<1>1. PICK node \in Nat, done \in Nat, ok \in BOOLEAN :
        FindInsertPos(key) = Pos(node, done, ok) /\ WalkedTo(P, key, Len(key), node, done, ok)
    BY WalkFacts, Zenon
<1>2. FindObject(key) = IF ok /\ done = Len(key) THEN nodes[node + 1].object ELSE <<>>
  <2>1. Pos(node, done, ok).node = node /\ Pos(node, done, ok).done = done /\ Pos(node, done, ok).ok = ok
    BY DEF Pos
  <2>2. PICK p : p = Pos(node, done, ok) /\ p.node = node /\ p.done = done /\ p.ok = ok
    BY <2>1, Zenon
  <2>. QED
    BY <1>1, <2>2, Zenon DEF FindObject
<1>3. CASE ok /\ done = Len(key)
  <2>1. P[node + 1] = key /\ node + 1 \in 1..Len(nodes)
    BY <1>1, <1>3, WholeKey, Zenon DEF WalkedTo, AtNode
  <2>2. nodes[node + 1].object = IF key \in DOMAIN stored THEN <<stored[key]>> ELSE <<>>
    BY <2>1, Zenon DEF TrieHolds
  <2>. QED
    BY <1>2, <1>3, <2>2, Zenon
<1>4. CASE Blocked(nodes, key, node, done, ok)
  <2>1. done # Len(key)
    <3>1. done < Len(key) /\ Len(key) \in Nat
      BY <1>4, WholeKey, Zenon DEF Blocked
    <3>. QED
      BY <3>1
  <2>2. FindObject(key) = <<>>
    BY <1>2, <2>1, Zenon
  <2>3. \A r \in 1..Len(nodes) : P[r] # key
    BY <1>1, <1>4, NothingBeyond, Zenon DEF WalkedTo
  <2>4. key \notin DOMAIN stored
    BY <2>3, Zenon DEF TrieHolds
  <2>. QED
    BY <2>2, <2>4, Zenon
<1>. QED
    BY <1>1, <1>3, <1>4, Zenon DEF WalkedTo

-----------------------------------------------------------------------------
(* The nodes that insert adds.                                             *)

\* Where the next node of the key is added after i turns, or where it cannot be.
CanGrow(ns, key, i, node, done, ok) ==
    \/ /\ ok /\ done = i
       /\ (done < Len(key) /\ CharIndex(key[done + 1]) # NoIndex)
             => ns[node + 1].next[CharIndex(key[done + 1])] = 0
    \/ ~ok /\ done < Len(key) /\ CharIndex(key[done + 1]) = NoIndex

GrownTo(key, st, i, ns, node, done, ok) ==
    \E P : TrieShape(ns, P) /\ TrieHolds(ns, P, st) /\ AtNode(ns, P, key, node, done)
           /\ CanGrow(ns, key, i, node, done, ok)

GrowsTo(key, st, i, y) ==
    \E ns \in Seq(TrieNodes) : \E m \in Nat : \E d \in Nat : \E o \in BOOLEAN :
        y = Growth(ns, m, d, o) /\ GrownTo(key, st, i, ns, m, d, o)

\* What a turn of the loop does.
GrowthIs(y, p, q, key, ns, node, done, ok, c) ==
    y = IF done = Len(key) \/ ~ok THEN p ELSE IF c = NoIndex THEN q
        ELSE Growth(WithChild(ns, node + 1, c), Len(ns), done + 1, TRUE)

LEMMA GrowIs ==
    ASSUME NEW key, NEW ns \in Seq(TrieNodes), NEW node \in Nat, NEW done \in Nat, NEW ok \in BOOLEAN,
           NEW c, c = CharIndex(key[done + 1])
    PROVE  GrowthIs(Grow(key)[Growth(ns, node, done, ok)], Growth(ns, node, done, ok),
                    Growth(ns, node, done, FALSE), key, ns, node, done, ok, c)
<1>1. /\ Growth(ns, node, done, ok) \in [nodes : Seq(TrieNodes), node : Nat, done : Nat, ok : BOOLEAN]
      /\ Growth(ns, node, done, ok).nodes = ns /\ Growth(ns, node, done, ok).node = node
      /\ Growth(ns, node, done, ok).done = done /\ Growth(ns, node, done, ok).ok = ok
  <2>. PICK X : X = Seq(TrieNodes) /\ ns \in X
    OBVIOUS
  <2>. QED
    BY DEF Growth
<1>2. PICK g : /\ g = Growth(ns, node, done, ok)
               /\ g \in [nodes : Seq(TrieNodes), node : Nat, done : Nat, ok : BOOLEAN]
               /\ g.nodes = ns /\ g.node = node /\ g.done = done /\ g.ok = ok
    BY <1>1, Zenon
<1>3. Grow(key)[g]
        = IF done = Len(key) \/ ~ok THEN g
          ELSE IF c = NoIndex THEN Growth(ns, node, done, FALSE)
          ELSE Growth(Append([ns EXCEPT ![node + 1].next[c] = Len(ns)], EmptyNode), Len(ns), done + 1, TRUE)
    BY <1>2, Zenon DEF Grow
<1>. QED
    BY <1>2, <1>3, Zenon DEF GrowthIs, WithChild

\* The trie with a node that is added holds what it held.
LEMMA HoldsGrown ==
    ASSUME NEW ns \in Seq(TrieNodes), NEW P, NEW st, TrieHolds(ns, P, st), NEW q \in 1..Len(ns), NEW c,
           NEW ms, HasChild(ms, ns, q, c), NEW Q, NEW t, TextAdded(Q, P, Len(ns), t)
    PROVE  TrieHolds(ms, Q, st)
<1>0. PICK n \in Nat : n = Len(ns)
    OBVIOUS
<1>1. /\ Len(ms) = n + 1 /\ ms[n + 1] = EmptyNode /\ ms[q].object = ns[q].object
      /\ \A r \in 1..n : r # q => ms[r] = ns[r]
    BY <1>0, Zenon DEF HasChild
<1>2. Q[n + 1] = t /\ \A r \in 1..n : Q[r] = P[r] /\ P[r] # t
    BY <1>0, Zenon DEF TextAdded
<1>3. \A r \in 1..n + 1 : r \in 1..n \/ r = n + 1
    OBVIOUS
<1>4. \A r \in 1..n : r \in 1..n + 1
    OBVIOUS
<1>5. ASSUME NEW r \in 1..n + 1
      PROVE  ms[r].object = IF Q[r] \in DOMAIN st THEN <<st[Q[r]]>> ELSE <<>>
  <2>1. CASE r \in 1..n
    <3>1. ms[r].object = ns[r].object
      BY <1>1, <2>1, Zenon
    <3>. QED
      BY <1>0, <1>2, <2>1, <3>1, Zenon DEF TrieHolds
  <2>2. CASE r = n + 1
    <3>1. t \notin DOMAIN st
      BY <1>0, <1>2, Zenon DEF TrieHolds
    <3>2. EmptyNode.object = <<>>
      BY DEF EmptyNode
    <3>. QED
      BY <1>1, <1>2, <2>2, <3>1, <3>2, Zenon
  <2>. QED
    BY <1>3, <2>1, <2>2
<1>6. ASSUME NEW k \in DOMAIN st PROVE \E r \in 1..n + 1 : Q[r] = k
  <2>1. PICK r \in 1..n : P[r] = k
    BY <1>0, Zenon DEF TrieHolds
  <2>. QED
    BY <1>2, <1>4, <2>1, Zenon
<1>. QED
    BY <1>1, <1>5, <1>6, Zenon DEF TrieHolds

LEMMA GrowTurn ==
    ASSUME NEW key \in Seq(Nat), NEW st, NEW i \in 0..Len(key) - 1, NEW ns \in Seq(TrieNodes),
           NEW node \in Nat, NEW done \in Nat, NEW ok \in BOOLEAN, GrownTo(key, st, i, ns, node, done, ok)
    PROVE  GrowsTo(key, st, i + 1, Grow(key)[Growth(ns, node, done, ok)])
<1>0. PICK P : /\ TrieShape(ns, P) /\ TrieHolds(ns, P, st) /\ AtNode(ns, P, key, node, done)
               /\ CanGrow(ns, key, i, node, done, ok)
    BY Zenon DEF GrownTo
<1>1. PICK n \in Nat : n = Len(ns) /\ node + 1 \in 1..n /\ P[node + 1] = SubSeq(key, 1, done)
    BY <1>0 DEF AtNode
<1>2. PICK c : c = CharIndex(key[done + 1])
    OBVIOUS
<1>3. GrowthIs(Grow(key)[Growth(ns, node, done, ok)], Growth(ns, node, done, ok),
               Growth(ns, node, done, FALSE), key, ns, node, done, ok, c)
    BY <1>2, GrowIs, Zenon
<1>4. CASE ~ok
  <2>1. Grow(key)[Growth(ns, node, done, ok)] = Growth(ns, node, done, ok)
    BY <1>3, <1>4, Zenon DEF GrowthIs
  <2>2. CanGrow(ns, key, i + 1, node, done, ok)
    BY <1>0, <1>4, Zenon DEF CanGrow
  <2>. QED
    BY <1>0, <2>1, <2>2, Zenon DEF GrowsTo, GrownTo
<1>5. CASE ok /\ done = i
  <2>1. done # Len(key) /\ done < Len(key) /\ done + 1 \in 1..Len(key) /\ done \in 0..Len(key) - 1
    BY <1>5
  <2>2. key[done + 1] \in Nat
    BY <2>1
  <2>3. CASE c = NoIndex
    <3>1. Grow(key)[Growth(ns, node, done, ok)] = Growth(ns, node, done, FALSE)
      BY <1>3, <1>5, <2>1, <2>3, Zenon DEF GrowthIs
    <3>2. CanGrow(ns, key, i + 1, node, done, FALSE) /\ FALSE \in BOOLEAN
      BY <1>2, <2>1, <2>3, Zenon DEF CanGrow
    <3>. QED
      BY <1>0, <3>1, <3>2, Zenon DEF GrowsTo, GrownTo
  <2>4. CASE c # NoIndex
    <3>1. PICK ms : ms = WithChild(ns, node + 1, c)
      OBVIOUS
    <3>2. Grow(key)[Growth(ns, node, done, ok)] = Growth(ms, n, done + 1, TRUE)
      BY <1>1, <1>3, <1>5, <2>1, <2>4, <3>1, Zenon DEF GrowthIs
    <3>3. c \in 1..Len(Alphabet) /\ Alphabet[c] = key[done + 1] /\ CharIndex(Alphabet[c]) = c
      <4>1. c \in 1..Len(Alphabet) /\ Alphabet[c] = key[done + 1]
        BY <1>2, <2>2, <2>4, CharIndexFacts, Zenon
      <4>. QED
        BY <1>2, <4>1, Zenon
    <3>4. ns[node + 1].next[c] = 0
      BY <1>0, <1>2, <1>5, <2>1, <2>4, Zenon DEF CanGrow
    <3>5. NoChild(ns, node + 1, c) /\ node + 1 \in 1..Len(ns)
      BY <1>1, <3>3, <3>4, Zenon DEF NoChild
    <3>6. PICK Q : TrieShape(ms, Q) /\ TextAdded(Q, P, Len(ns), Append(P[node + 1], Alphabet[c]))
      BY <1>0, <3>1, <3>3, <3>5, TrieGrows, Zenon
    <3>7. ms \in Seq(TrieNodes) /\ HasChild(ms, ns, node + 1, c)
      BY <3>1, <3>3, <3>5, ChildAdded, Zenon
    <3>8. TrieHolds(ms, Q, st)
      BY <1>0, <3>5, <3>6, <3>7, HoldsGrown, Zenon
    <3>9. AtNode(ms, Q, key, n, done + 1)
      <4>1. IsAppended(SubSeq(key, 1, done + 1), SubSeq(key, 1, done), key[done + 1])
        BY <2>1, SubSeqGrows, Zenon
      <4>2. Q[n + 1] = SubSeq(key, 1, done + 1)
        BY <1>1, <3>3, <3>6, <4>1, Zenon DEF IsAppended, TextAdded
      <4>3. Len(ms) = n + 1
        BY <1>1, <3>7, Zenon DEF HasChild
      <4>4. n + 1 \in 1..n + 1 /\ done + 1 \in 0..Len(key)
        BY <2>1
      <4>. QED
        BY <4>2, <4>3, <4>4, Zenon DEF AtNode
    <3>10. CanGrow(ms, key, i + 1, n, done + 1, TRUE)
      <4>1. \A d \in 1..Len(Alphabet) : ms[n + 1].next[d] = 0
        <5>1. ms[n + 1] = EmptyNode
          BY <1>1, <3>7, Zenon DEF HasChild
        <5>2. DOMAIN Alphabet = 1..Len(Alphabet)
          BY TrieAssumption
        <5>3. \A d \in 1..Len(Alphabet) : EmptyNode.next[d] = 0
          BY <5>2 DEF EmptyNode
        <5>. QED
          BY <5>1, <5>3, Zenon
      <4>2. ASSUME done + 1 < Len(key), CharIndex(key[(done + 1) + 1]) # NoIndex
            PROVE  ms[n + 1].next[CharIndex(key[(done + 1) + 1])] = 0
        <5>1. key[(done + 1) + 1] \in Nat
          <6>1. (done + 1) + 1 \in 1..Len(key)
            BY <4>2
          <6>. QED
            BY <6>1
        <5>2. CharIndex(key[(done + 1) + 1]) \in 1..Len(Alphabet)
          BY <4>2, <5>1, CharIndexFacts, Zenon
        <5>. QED
          BY <4>1, <5>2, Zenon
      <4>3. done + 1 = i + 1
        BY <1>5
      <4>. QED
        BY <4>2, <4>3, Zenon DEF CanGrow
    <3>11. done + 1 \in Nat /\ TRUE \in BOOLEAN
      OBVIOUS
    <3>12. GrownTo(key, st, i + 1, ms, n, done + 1, TRUE)
      BY <3>6, <3>8, <3>9, <3>10, Zenon DEF GrownTo
    <3>. QED
      BY <3>2, <3>7, <3>11, <3>12, Zenon DEF GrowsTo
  <2>. QED
    BY <2>3, <2>4, Zenon
<1>. QED
    BY <1>0, <1>4, <1>5, Zenon DEF CanGrow

\* The loop of insert ends at the node of the key, or at a character that is not
\* in the alphabet.
LEMMA GrownFacts ==
    ASSUME NEW P, TrieShape(nodes, P), NEW st, TrieHolds(nodes, P, st), NEW key \in Seq(Nat)
    PROVE  GrowsTo(key, st, Len(key), Grown(key, FindInsertPos(key)))
<1>1. PICK node \in Nat, done \in Nat, ok \in BOOLEAN :
        FindInsertPos(key) = Pos(node, done, ok) /\ WalkedTo(P, key, Len(key), node, done, ok)
    BY WalkFacts, Zenon
<1>2. AtNode(nodes, P, key, node, done) /\ ((ok /\ done = Len(key)) \/ Blocked(nodes, key, node, done, ok))
    BY <1>1, Zenon DEF WalkedTo
<1>3. PICK n \in Nat : n = Len(key) - done /\ done + n = Len(key)
  <2>1. done \in 0..Len(key) /\ Len(key) \in Nat
    BY <1>2, Zenon, WholeKey DEF AtNode
  <2>. QED
    BY <2>1
<1>4. nodes \in Seq(TrieNodes)
    BY Zenon DEF TrieShape
<1>5. CanGrow(nodes, key, done, node, done, ok)
  <2>1. ~(Len(key) < Len(key))
    BY WholeKey
  <2>. QED
    BY <1>2, <2>1, Zenon DEF CanGrow, Blocked
<1>6. GrownTo(key, st, done, nodes, node, done, ok)
    BY <1>2, <1>5, Zenon DEF GrownTo
<1>. DEFINE x == Growth(nodes, node, done, ok)
            S == {iy \in Nat \X {y \in [nodes : Seq(TrieNodes), node : Nat, done : Nat, ok : BOOLEAN] : TRUE} :
                    GrowsTo(key, st, done + iy[1], iy[2])}
<1>7. \A i \in Nat : \A y : GrowsTo(key, st, done + i, y) => <<i, y>> \in S
  <2>. SUFFICES ASSUME NEW i \in Nat, NEW y, GrowsTo(key, st, done + i, y) PROVE <<i, y>> \in S
    BY Zenon
  <2>1. PICK ns \in Seq(TrieNodes), m \in Nat, d \in Nat, o \in BOOLEAN : y = Growth(ns, m, d, o)
    BY Zenon DEF GrowsTo
  <2>2. y \in [nodes : Seq(TrieNodes), node : Nat, done : Nat, ok : BOOLEAN]
    <3>. PICK X : X = Seq(TrieNodes) /\ ns \in X
      OBVIOUS
    <3>. QED
      BY <2>1 DEF Growth
  <2>3. PICK G : G = {z \in [nodes : Seq(TrieNodes), node : Nat, done : Nat, ok : BOOLEAN] : TRUE} /\ y \in G
    BY <2>2, Zenon
  <2>4. <<i, y>> \in Nat \X G /\ <<i, y>>[1] = i /\ <<i, y>>[2] = y
    BY <2>3
  <2>5. PICK iy : iy = <<i, y>> /\ iy \in Nat \X G /\ iy[1] = i /\ iy[2] = y
    BY <2>4, Zenon
  <2>6. GrowsTo(key, st, done + iy[1], iy[2])
    BY <2>5, Zenon
  <2>7. iy \in S
    BY <2>3, <2>5, <2>6, Zenon
  <2>. QED
    BY <2>5, <2>7, Zenon
<1>8. ASSUME NEW i, NEW y, <<i, y>> \in S PROVE GrowsTo(key, st, done + i, y)
  <2>0. <<i, y>>[1] = i /\ <<i, y>>[2] = y
    OBVIOUS
  <2>1. PICK iy : iy = <<i, y>> /\ iy[1] = i /\ iy[2] = y
    BY <2>0, Zenon
  <2>2. iy \in S
    BY <1>8, <2>1, Zenon
  <2>. QED
    BY <2>1, <2>2, Zenon
<1>. HIDE DEF S
<1>9. <<0, x>> \in S
  <2>1. done + 0 = done /\ 0 \in Nat
    OBVIOUS
  <2>2. GrowsTo(key, st, done + 0, x)
    BY <1>4, <1>6, <2>1, Zenon DEF GrowsTo
  <2>. QED
    BY <1>7, <2>1, <2>2, Zenon
<1>10. ASSUME NEW i \in 0..n - 1, NEW y, <<i, y>> \in S PROVE <<i + 1, Grow(key)[y]>> \in S
  <2>1. GrowsTo(key, st, done + i, y)
    BY <1>8, <1>10, Zenon
  <2>2. PICK ns \in Seq(TrieNodes), m \in Nat, d \in Nat, o \in BOOLEAN :
           y = Growth(ns, m, d, o) /\ GrownTo(key, st, done + i, ns, m, d, o)
    BY <2>1, Zenon DEF GrowsTo
  <2>3. PICK j \in 0..Len(key) - 1 : j = done + i /\ j + 1 = done + (i + 1)
    <3>1. Len(key) \in Nat
      BY WholeKey
    <3>. QED
      BY <1>3, <3>1
  <2>4. GrownTo(key, st, j, ns, m, d, o)
    BY <2>2, <2>3, Zenon
  <2>5. GrowsTo(key, st, j + 1, Grow(key)[Growth(ns, m, d, o)])
    BY <2>4, GrowTurn, Zenon
  <2>6. GrowsTo(key, st, done + (i + 1), Grow(key)[y]) /\ i + 1 \in Nat
    <3>1. i + 1 \in Nat
      OBVIOUS
    <3>. QED
      BY <2>2, <2>3, <2>5, <3>1, Zenon
  <2>. QED
    BY <1>7, <2>6, Zenon
<1>11. <<n, After(Grow(key), x, n)>> \in S
  <2>. HIDE DEF x
  <2>. QED
    BY <1>9, <1>10, AfterStays, Zenon
<1>12. GrowsTo(key, st, Len(key), After(Grow(key), x, n))
    BY <1>3, <1>8, <1>11, Zenon
<1>13. Grown(key, FindInsertPos(key)) = After(Grow(key), x, n)
  <2>1. Pos(node, done, ok).node = node /\ Pos(node, done, ok).done = done /\ Pos(node, done, ok).ok = ok
    BY DEF Pos
  <2>2. PICK p : p = Pos(node, done, ok) /\ p.node = node /\ p.done = done /\ p.ok = ok
    BY <2>1, Zenon
  <2>. QED
    BY <1>1, <1>3, <2>2, Zenon DEF Grown
<1>. QED
    BY <1>12, <1>13, Zenon

\* A key that is put in.
KeyPut(t, st, key, v) == t = [k \in DOMAIN st \cup {key} |-> IF k = key THEN v ELSE st[k]]

LEMMA HoldsPut ==
    ASSUME NEW ns, NEW P, TrieShape(ns, P), NEW st, TrieHolds(ns, P, st), NEW q \in 1..Len(ns), NEW v,
           NEW ms, OnlyObject(ms, ns, q, <<v>>), NEW t, KeyPut(t, st, P[q], v)
    PROVE  TrieHolds(ms, P, t)
<1>0. /\ Len(ms) = Len(ns) /\ ms[q].object = <<v>>
      /\ \A r \in 1..Len(ns) : r # q => ms[r] = ns[r] /\ P[r] # P[q]
    BY Zenon DEF OnlyObject, TrieShape, PathsDiffer
<1>1. DOMAIN t = DOMAIN st \cup {P[q]} /\ t[P[q]] = v /\ \A k \in DOMAIN st : k # P[q] => t[k] = st[k]
  <2>1. P[q] \in DOMAIN st \cup {P[q]} /\ \A k \in DOMAIN st : k \in DOMAIN st \cup {P[q]}
    OBVIOUS
  <2>. QED
    BY <2>1, Zenon DEF KeyPut
<1>2. ASSUME NEW r \in 1..Len(ns)
      PROVE  ms[r].object = IF P[r] \in DOMAIN t THEN <<t[P[r]]>> ELSE <<>>
  <2>1. CASE r = q
    BY <1>0, <1>1, <2>1, Zenon
  <2>2. CASE r # q
    <3>1. ms[r] = ns[r] /\ P[r] # P[q]
      BY <1>0, <2>2, Zenon
    <3>2. ns[r].object = IF P[r] \in DOMAIN st THEN <<st[P[r]]>> ELSE <<>>
      BY Zenon DEF TrieHolds
    <3>. QED
      BY <1>1, <3>1, <3>2, Zenon
  <2>. QED
    BY <2>1, <2>2
<1>3. ASSUME NEW k \in DOMAIN t PROVE \E r \in 1..Len(ns) : P[r] = k
    BY <1>1, Zenon DEF TrieHolds
<1>. QED
    BY <1>0, <1>2, <1>3, Zenon DEF TrieHolds

\* A key that is taken away.
TakenAway(t, st, key) == t = [k \in DOMAIN st \ {key} |-> st[k]]

LEMMA HoldsTaken ==
    ASSUME NEW ns, NEW P, TrieShape(ns, P), NEW st, TrieHolds(ns, P, st), NEW q \in 1..Len(ns),
           NEW ms, OnlyObject(ms, ns, q, <<>>), NEW t, TakenAway(t, st, P[q])
    PROVE  TrieHolds(ms, P, t)
<1>0. /\ Len(ms) = Len(ns) /\ ms[q].object = <<>>
      /\ \A r \in 1..Len(ns) : r # q => ms[r] = ns[r] /\ P[r] # P[q]
    BY Zenon DEF OnlyObject, TrieShape, PathsDiffer
<1>1. DOMAIN t = DOMAIN st \ {P[q]} /\ \A k \in DOMAIN st : k # P[q] => t[k] = st[k]
  <2>1. P[q] \notin DOMAIN st \ {P[q]} /\ \A k \in DOMAIN st : k # P[q] => k \in DOMAIN st \ {P[q]}
    OBVIOUS
  <2>. QED
    BY <2>1, Zenon DEF TakenAway
<1>2. ASSUME NEW r \in 1..Len(ns)
      PROVE  ms[r].object = IF P[r] \in DOMAIN t THEN <<t[P[r]]>> ELSE <<>>
  <2>1. CASE r = q
    BY <1>0, <1>1, <2>1, Zenon
  <2>2. CASE r # q
    <3>1. ms[r] = ns[r] /\ P[r] # P[q]
      BY <1>0, <2>2, Zenon
    <3>2. ns[r].object = IF P[r] \in DOMAIN st THEN <<st[P[r]]>> ELSE <<>>
      BY Zenon DEF TrieHolds
    <3>3. P[r] \in DOMAIN t <=> P[r] \in DOMAIN st
      BY <1>1, <3>1, Zenon
    <3>. QED
      BY <1>1, <3>1, <3>2, <3>3, Zenon
  <2>. QED
    BY <2>1, <2>2
<1>3. ASSUME NEW k \in DOMAIN t PROVE \E r \in 1..Len(ns) : P[r] = k
    BY <1>1, Zenon DEF TrieHolds
<1>. QED
    BY <1>0, <1>2, <1>3, Zenon DEF TrieHolds

\* A key that was not there.
LEMMA HoldsSame ==
    ASSUME NEW ns, NEW P, NEW st, TrieHolds(ns, P, st), NEW key, key \notin DOMAIN st, NEW t, TakenAway(t, st, key)
    PROVE  TrieHolds(ns, P, t)
<1>1. DOMAIN t = DOMAIN st /\ \A k \in DOMAIN st : t[k] = st[k]
  <2>1. DOMAIN st \ {key} = DOMAIN st
    OBVIOUS
  <2>. QED
    BY <2>1, Zenon DEF TakenAway
<1>2. ASSUME NEW r \in 1..Len(ns)
      PROVE  ns[r].object = IF P[r] \in DOMAIN t THEN <<t[P[r]]>> ELSE <<>>
  <2>1. ns[r].object = IF P[r] \in DOMAIN st THEN <<st[P[r]]>> ELSE <<>>
    BY Zenon DEF TrieHolds
  <2>. QED
    BY <1>1, <2>1, Zenon
<1>. QED
    BY <1>1, <1>2, Zenon DEF TrieHolds

-----------------------------------------------------------------------------
(* The calls.                                                              *)

TrieInv ==
    /\ answer[1] = answer[2]
    /\ \E P : TrieShape(nodes, P) /\ TrieHolds(nodes, P, stored)

LEMMA TrieInsertRight ==
    ASSUME TrieInv, NEW key \in Seq(Nat), NEW v \in TrieVals, TrieInsert(key, v)
    PROVE  TrieInv'
<1>0. PICK P : TrieShape(nodes, P) /\ TrieHolds(nodes, P, stored)
    BY Zenon DEF TrieInv
<1>1. PICK ns \in Seq(TrieNodes), m \in Nat, d \in Nat, o \in BOOLEAN :
        /\ Grown(key, FindInsertPos(key)) = Growth(ns, m, d, o)
        /\ GrownTo(key, stored, Len(key), ns, m, d, o)
  <2>1. GrowsTo(key, stored, Len(key), Grown(key, FindInsertPos(key)))
    BY <1>0, GrownFacts, Zenon
  <2>. QED
    BY <2>1, Zenon DEF GrowsTo
<1>2. PICK Q : /\ TrieShape(ns, Q) /\ TrieHolds(ns, Q, stored) /\ AtNode(ns, Q, key, m, d)
               /\ CanGrow(ns, key, Len(key), m, d, o)
    BY <1>1, Zenon DEF GrownTo
<1>3. /\ nodes' = IF o THEN [ns EXCEPT ![m + 1].object = <<v>>] ELSE ns
      /\ stored' = IF Valid(key) THEN [k \in DOMAIN stored \cup {key} |-> IF k = key THEN v ELSE stored[k]]
                   ELSE stored
      /\ answer' = <<o, Valid(key)>>
  <2>1. Growth(ns, m, d, o).nodes = ns /\ Growth(ns, m, d, o).node = m /\ Growth(ns, m, d, o).ok = o
    BY DEF Growth
  <2>2. PICK g : g = Grown(key, FindInsertPos(key)) /\ g.nodes = ns /\ g.node = m /\ g.ok = o
    BY <1>1, <2>1, Zenon
  <2>. QED
    BY <2>2, Zenon DEF TrieInsert
<1>4. CASE o /\ d = Len(key)
  <2>1. Q[m + 1] = key /\ m + 1 \in 1..Len(ns)
    BY <1>2, <1>4, WholeKey, Zenon DEF AtNode
  <2>2. Valid(key)
    <3>1. key \in Seq(ToSet(Alphabet))
      <4>1. Q \in Seq(Seq(ToSet(Alphabet))) /\ Len(Q) = Len(ns)
        BY <1>2, Zenon DEF TrieShape, PathsDiffer
      <4>2. Q[m + 1] \in Seq(ToSet(Alphabet))
        BY <2>1, <4>1
      <4>. QED
        BY <2>1, <4>2, Zenon
    <3>. QED
      BY <3>1 DEF Valid
  <2>3. ObjectSet(nodes', ns, m + 1, <<v>>) /\ KeyPut(stored', stored, Q[m + 1], v)
    BY <1>3, <1>4, <2>1, <2>2, Zenon DEF ObjectSet, KeyPut
  <2>4. <<v>> \in Seq(TrieVals)
    OBVIOUS
  <2>5. TrieShape(nodes', Q) /\ OnlyObject(nodes', ns, m + 1, <<v>>)
    BY <1>2, <2>1, <2>3, <2>4, ShapeKept, Zenon
  <2>6. TrieHolds(nodes', Q, stored')
    BY <1>2, <2>1, <2>3, <2>5, HoldsPut, Zenon
  <2>7. answer'[1] = answer'[2]
    <3>1. answer' = <<TRUE, TRUE>>
      BY <1>3, <1>4, <2>2, Zenon
    <3>. QED
      BY <3>1
  <2>. QED
    BY <2>5, <2>6, <2>7, Zenon DEF TrieInv
<1>5. CASE ~o /\ d < Len(key) /\ CharIndex(key[d + 1]) = NoIndex
  <2>1. d + 1 \in DOMAIN key /\ key[d + 1] \in Nat
    BY <1>5
  <2>2. ~Valid(key)
    BY <1>5, <2>1, CharIndexFacts, Zenon DEF Valid
  <2>3. nodes' = ns /\ stored' = stored
    BY <1>3, <1>5, <2>2, Zenon
  <2>4. answer'[1] = answer'[2]
    <3>1. answer' = <<FALSE, FALSE>>
      <4>1. (Valid(key) <=> FALSE) /\ (o <=> FALSE)
        BY <1>5, <2>2, Zenon
      <4>2. Valid(key) = FALSE /\ o = FALSE
        BY <4>1 DEF Valid
      <4>. QED
        BY <1>3, <4>2, Zenon
    <3>. QED
      BY <3>1
  <2>. QED
    BY <1>2, <2>3, <2>4, Zenon DEF TrieInv
<1>. QED
    BY <1>2, <1>4, <1>5, Zenon DEF CanGrow

\* Where the object is that remove takes away.
LEMMA ObjectPlace ==
    ASSUME NEW P, TrieShape(nodes, P), NEW key \in Seq(Nat), FindObject(key) # <<>>
    PROVE  FindInsertPos(key).node + 1 \in 1..Len(nodes) /\ P[FindInsertPos(key).node + 1] = key
<1>1. PICK node \in Nat, done \in Nat, ok \in BOOLEAN :
        FindInsertPos(key) = Pos(node, done, ok) /\ WalkedTo(P, key, Len(key), node, done, ok)
    BY WalkFacts, Zenon
<1>2. Pos(node, done, ok).node = node /\ Pos(node, done, ok).done = done /\ Pos(node, done, ok).ok = ok
    BY DEF Pos
<1>3. PICK p : p = FindInsertPos(key) /\ p.node = node /\ p.done = done /\ p.ok = ok
    BY <1>1, <1>2, Zenon
<1>4. ok /\ done = Len(key)
    BY <1>3, Zenon DEF FindObject
<1>5. P[node + 1] = key /\ node + 1 \in 1..Len(nodes)
    BY <1>1, <1>4, WholeKey, Zenon DEF WalkedTo, AtNode
<1>. QED
    BY <1>3, <1>5, Zenon

LEMMA TrieRemoveRight ==
    ASSUME TrieInv, NEW key \in Seq(Nat), TrieRemove(key)
    PROVE  TrieInv'
<1>0. PICK P : TrieShape(nodes, P) /\ TrieHolds(nodes, P, stored)
    BY Zenon DEF TrieInv
<1>1. TakenAway(stored', stored, key)
    BY Zenon DEF TrieRemove, TakenAway
<1>2. CASE key \in DOMAIN stored
  <2>1. FindObject(key) # <<>>
    <3>1. FindObject(key) = <<stored[key]>>
      BY <1>0, <1>2, ObjectFound, Zenon
    <3>. QED
      BY <3>1
  <2>2. PICK q : q = FindInsertPos(key).node + 1 /\ q \in 1..Len(nodes) /\ P[q] = key
    BY <1>0, <2>1, ObjectPlace, Zenon
  <2>3. ObjectSet(nodes', nodes, q, <<>>) /\ answer' = <<TRUE, TRUE>>
    BY <1>2, <2>1, <2>2, Zenon DEF TrieRemove, ObjectSet
  <2>4. <<>> \in Seq(TrieVals)
    OBVIOUS
  <2>5. TrieShape(nodes', P) /\ OnlyObject(nodes', nodes, q, <<>>)
    BY <1>0, <2>2, <2>3, <2>4, ShapeKept, Zenon
  <2>6. TrieHolds(nodes', P, stored')
    <3>1. TakenAway(stored', stored, P[q])
      BY <1>1, <2>2, Zenon
    <3>. QED
      BY <1>0, <2>2, <2>5, <3>1, HoldsTaken, Zenon
  <2>7. answer'[1] = answer'[2]
    BY <2>3
  <2>. QED
    BY <2>5, <2>6, <2>7, Zenon DEF TrieInv
<1>3. CASE key \notin DOMAIN stored
  <2>1. FindObject(key) = <<>>
    BY <1>0, <1>3, ObjectFound, Zenon
  <2>2. nodes' = nodes /\ answer' = <<FALSE, FALSE>>
    <3>1. nodes' = nodes
      BY <2>1, Zenon DEF TrieRemove
    <3>2. (FindObject(key) # <<>>) = FALSE /\ (key \in DOMAIN stored) = FALSE
      BY <1>3, <2>1
    <3>3. answer' = <<FindObject(key) # <<>>, key \in DOMAIN stored>>
      BY Zenon DEF TrieRemove
    <3>. QED
      BY <3>1, <3>2, <3>3, Zenon
  <2>3. TrieHolds(nodes, P, stored')
    BY <1>0, <1>1, <1>3, HoldsSame, Zenon
  <2>4. answer'[1] = answer'[2]
    BY <2>2
  <2>. QED
    BY <1>0, <2>2, <2>3, <2>4, Zenon DEF TrieInv
<1>. QED
    BY <1>2, <1>3

LEMMA KeysAreTexts == Keys \subseteq Seq(Nat)
<1>1. ASSUME NEW key \in Keys PROVE key \in Seq(Nat)
  <2>1. key \in Seq(Chars)
    BY <1>1, TrieAssumption, BoundedSeqFacts, Zenon DEF Keys
  <2>2. \A i \in 1..Len(key) : key[i] \in Nat
    <3>1. \A i \in 1..Len(key) : key[i] \in Chars
      BY <2>1
    <3>2. Chars \subseteq Nat
      BY TrieAssumption DEF CharMapSize
    <3>. QED
      BY <3>1, <3>2, Zenon
  <2>3. Len(key) \in Nat /\ key = [i \in 1..Len(key) |-> key[i]]
    BY <2>1
  <2>. QED
    BY <2>2, <2>3
<1>. QED
    BY <1>1, Zenon

LEMMA TrieKeeps ==
    /\ TrieInit => TrieInv
    /\ TrieInv /\ TrieNext => TrieInv'
    /\ TrieInv /\ UNCHANGED trieVars => TrieInv'
<1>1. ASSUME TrieInit PROVE TrieInv
  <2>1. answer[1] = answer[2]
    BY <1>1 DEF TrieInit
  <2>. QED
    BY <1>1, <2>1, RootAlone, Zenon DEF TrieInit, TrieInv
<1>2. ASSUME TrieInv, TrieNext PROVE TrieInv'
  <2>1. ASSUME NEW key \in Keys, NEW v \in TrieVals, TrieInsert(key, v) PROVE TrieInv'
    BY <1>2, <2>1, KeysAreTexts, TrieInsertRight, Zenon
  <2>2. ASSUME NEW key \in Keys, TrieRemove(key) PROVE TrieInv'
    BY <1>2, <2>2, KeysAreTexts, TrieRemoveRight, Zenon
  <2>. QED
    BY <1>2, <2>1, <2>2, Zenon DEF TrieNext
<1>3. ASSUME TrieInv, UNCHANGED trieVars PROVE TrieInv'
  <2>1. nodes' = nodes /\ stored' = stored /\ answer' = answer
    BY <1>3 DEF trieVars
  <2>. QED
    BY <1>3, <2>1, Zenon DEF TrieInv
<1>. QED
    BY <1>1, <1>2, <1>3, Zenon

-----------------------------------------------------------------------------
(* What the trie says of its keys.                                         *)

\* There are as many values as keys.
LEMMA ValuesCounted ==
    ASSUME NEW P, TrieShape(nodes, P), TrieHolds(nodes, P, stored)
    PROVE  ValueNodeCount = Cardinality(DOMAIN stored)
<1>0. PICK n \in Nat : n = Len(nodes) /\ DOMAIN nodes = 1..n
    BY DEF TrieShape
<1>. DEFINE A == {i \in DOMAIN nodes : nodes[i].object # <<>>}
            f == [i \in A |-> P[i]]
<1>1. IsFiniteSet(A)
  <2>1. IsFiniteSet(1..n) /\ A \in SUBSET (1..n)
    BY <1>0, CountTo, Zenon
  <2>. HIDE DEF A
  <2>. QED
    BY <2>1, FS_Subset, Zenon
<1>2. \A i \in A : i \in 1..n /\ P[i] \in DOMAIN stored
  <2>1. ASSUME NEW i \in 1..n, nodes[i].object # <<>> PROVE P[i] \in DOMAIN stored
    BY <1>0, <2>1, Zenon DEF TrieHolds
  <2>. QED
    BY <1>0, <2>1, Zenon
<1>3. ASSUME NEW k \in DOMAIN stored PROVE \E i \in A : f[i] = k
  <2>1. PICK i \in 1..n : P[i] = k
    BY <1>0, Zenon DEF TrieHolds
  <2>2. nodes[i].object = <<stored[k]>>
    BY <1>0, <2>1, Zenon DEF TrieHolds
  <2>3. nodes[i].object # <<>>
    BY <2>2
  <2>4. i \in A
    BY <1>0, <2>3, Zenon
  <2>. QED
    BY <2>1, <2>4, Zenon
<1>4. \A i, j \in 1..n : P[i] = P[j] => i = j
    BY <1>0, Zenon DEF TrieShape, PathsDiffer
<1>5. f \in [A -> DOMAIN stored]
    BY <1>2, Zenon
<1>6. \A i, j \in A : f[i] = f[j] => i = j
    BY <1>2, <1>4, Zenon
<1>. HIDE DEF A, f
<1>7. f \in Bijection(A, DOMAIN stored)
    BY <1>3, <1>5, <1>6, Fun_IsBij, Zenon
<1>8. ExistsBijection(A, DOMAIN stored)
    BY <1>7, Zenon DEF ExistsBijection
<1>9. Cardinality(DOMAIN stored) = Cardinality(A)
    BY <1>1, <1>8, FS_Bijection, Zenon
<1>. QED
    BY <1>9, Zenon DEF ValueNodeCount, A

\* A node is the child of one node, for one character.
ChildOf(ns, q, c, i) == q \in 1..Len(ns) /\ c \in 1..Len(Alphabet) /\ ns[q].next[c] = i

LEMMA ChildText ==
    ASSUME NEW ns, NEW P, TrieShape(ns, P), NEW i \in 1..Len(ns) - 1, NEW q, NEW c, ChildOf(ns, q, c, i)
    PROVE  /\ q \in 1..i /\ IsAppended(P[i + 1], P[q], Alphabet[c]) /\ CharIndex(Alphabet[c]) = c
           /\ P[q] \in Seq(ToSet(Alphabet)) /\ Alphabet[c] \in ToSet(Alphabet)
<1>1. q \in 1..Len(ns) /\ c \in 1..Len(Alphabet) /\ ns[q].next[c] = i /\ i # 0
    BY DEF ChildOf
<1>2. /\ ns[q].next[c] \in q..Len(ns) - 1 /\ P[ns[q].next[c] + 1] = Append(P[q], Alphabet[c])
      /\ CharIndex(Alphabet[c]) = c
    BY <1>1, Zenon DEF TrieShape, ChildrenRight
<1>3. i \in q..Len(ns) - 1
    BY <1>1, <1>2, Zenon
<1>4. q \in 1..i
    BY <1>1, <1>3
<1>5. IsAppended(P[i + 1], P[q], Alphabet[c])
    BY <1>1, <1>2, Zenon DEF IsAppended
<1>6. P[q] \in Seq(ToSet(Alphabet))
  <2>1. P \in Seq(Seq(ToSet(Alphabet))) /\ Len(P) = Len(ns)
    BY Zenon DEF TrieShape, PathsDiffer
  <2>. QED
    BY <1>1, <2>1
<1>7. Alphabet[c] \in ToSet(Alphabet)
  <2>1. DOMAIN Alphabet = 1..Len(Alphabet)
    BY TrieAssumption
  <2>. QED
    BY <1>1, <2>1, Zenon DEF ToSet
<1>. QED
    BY <1>2, <1>4, <1>5, <1>6, <1>7, Zenon

LEMMA OneParent ==
    ASSUME NEW P, TrieShape(nodes, P), NEW i \in 1..Len(nodes) - 1
    PROVE  Cardinality({pc \in (1..i) \X DOMAIN Alphabet : nodes[pc[1]].next[pc[2]] = i}) = 1
<1>0. DOMAIN Alphabet = 1..Len(Alphabet) /\ Len(nodes) \in Nat
  <2>1. DOMAIN Alphabet = 1..Len(Alphabet)
    BY TrieAssumption
  <2>2. Len(nodes) \in Nat
    BY DEF TrieShape
  <2>. QED
    BY <2>1, <2>2
<1>1. i + 1 \in 2..Len(nodes) /\ (i + 1) - 1 = i /\ 1..i \subseteq 1..Len(nodes)
    BY <1>0
<1>2. PICK q \in 1..i, c \in 1..Len(Alphabet) : nodes[q].next[c] = i
  <2>1. PICK q \in 1..(i + 1) - 1 : \E c \in 1..Len(Alphabet) : nodes[q].next[c] = (i + 1) - 1
    BY <1>1, Zenon DEF TrieShape, HaveParents
  <2>. QED
    BY <1>1, <2>1, Zenon
<1>. DEFINE S == {pc \in (1..i) \X DOMAIN Alphabet : nodes[pc[1]].next[pc[2]] = i}
<1>3. ASSUME NEW r \in 1..i, NEW d \in 1..Len(Alphabet), nodes[r].next[d] = i PROVE r = q /\ d = c
  <2>1. ChildOf(nodes, q, c, i) /\ ChildOf(nodes, r, d, i)
    BY <1>1, <1>2, <1>3, Zenon DEF ChildOf
  <2>2. /\ IsAppended(P[i + 1], P[q], Alphabet[c]) /\ CharIndex(Alphabet[c]) = c
        /\ P[q] \in Seq(ToSet(Alphabet)) /\ Alphabet[c] \in ToSet(Alphabet)
    BY <2>1, ChildText, Zenon
  <2>3. /\ IsAppended(P[i + 1], P[r], Alphabet[d]) /\ CharIndex(Alphabet[d]) = d
        /\ P[r] \in Seq(ToSet(Alphabet)) /\ Alphabet[d] \in ToSet(Alphabet)
    BY <2>1, ChildText, Zenon
  <2>4. SameParts(P[q], Alphabet[c], P[r], Alphabet[d])
    BY <2>2, <2>3, AppendedOnce, Zenon
  <2>5. q = r
    BY <1>1, <2>4, Zenon DEF SameParts, TrieShape, PathsDiffer
  <2>6. c = d
    BY <2>2, <2>3, <2>4, Zenon DEF SameParts
  <2>. QED
    BY <2>5, <2>6, Zenon
<1>4. <<q, c>> \in S
    BY <1>0, <1>2
<1>5. ASSUME NEW pc \in S PROVE pc = <<q, c>>
  <2>1. pc = <<pc[1], pc[2]>> /\ pc[1] \in 1..i /\ pc[2] \in 1..Len(Alphabet) /\ nodes[pc[1]].next[pc[2]] = i
    BY <1>0, <1>5
  <2>2. pc[1] = q /\ pc[2] = c
    BY <1>3, <2>1, Zenon
  <2>. QED
    BY <2>1, <2>2, Zenon
<1>. HIDE DEF S
<1>6. S = {<<q, c>>}
    BY <1>4, <1>5
<1>7. Cardinality(S) = 1
    BY <1>6, FS_Singleton, Zenon
<1>. QED
    BY <1>7, Zenon DEF S

\* The walk of the whole trie keeps the texts of the nodes.
ParentOf(i) == CHOOSE q \in 1..Len(nodes) : \E c \in DOMAIN Alphabet : nodes[q].next[c] = i

CharOf(i) == CHOOSE d \in DOMAIN Alphabet : nodes[ParentOf(i)].next[d] = i

TextsAre(g) == g = [i \in 0..Len(nodes) - 1 |->
                       IF i = 0 THEN <<>> ELSE Append(g[ParentOf(i) - 1], Alphabet[CharOf(i)])]

LEMMA ParentFound ==
    ASSUME NEW P, TrieShape(nodes, P), NEW i \in 1..Len(nodes) - 1
    PROVE  ParentOf(i) \in 1..i /\ IsAppended(P[i + 1], P[ParentOf(i)], Alphabet[CharOf(i)])
<1>0. DOMAIN Alphabet = 1..Len(Alphabet) /\ Len(nodes) \in Nat
  <2>1. DOMAIN Alphabet = 1..Len(Alphabet)
    BY TrieAssumption
  <2>2. Len(nodes) \in Nat
    BY DEF TrieShape
  <2>. QED
    BY <2>1, <2>2
<1>1. i + 1 \in 2..Len(nodes) /\ (i + 1) - 1 = i /\ 1..i \subseteq 1..Len(nodes)
    BY <1>0
<1>2. \E q \in 1..Len(nodes) : \E c \in DOMAIN Alphabet : nodes[q].next[c] = i
  <2>1. PICK q \in 1..(i + 1) - 1 : \E c \in 1..Len(Alphabet) : nodes[q].next[c] = (i + 1) - 1
    BY <1>1, Zenon DEF TrieShape, HaveParents
  <2>. QED
    BY <1>0, <1>1, <2>1, Zenon
<1>3. ParentOf(i) \in 1..Len(nodes) /\ \E c \in DOMAIN Alphabet : nodes[ParentOf(i)].next[c] = i
    BY <1>2, Zenon DEF ParentOf
<1>4. CharOf(i) \in DOMAIN Alphabet /\ nodes[ParentOf(i)].next[CharOf(i)] = i
    BY <1>3, Zenon DEF CharOf
<1>5. ChildOf(nodes, ParentOf(i), CharOf(i), i)
    BY <1>0, <1>3, <1>4, Zenon DEF ChildOf
<1>. QED
    BY <1>5, ChildText, Zenon

LEMMA PathsAreTexts ==
    ASSUME NEW P, TrieShape(nodes, P)
    PROVE  \A i \in 0..Len(nodes) - 1 : Paths[i] = P[i + 1]
<1>0. PICK n \in Nat : n = Len(nodes) /\ P[1] = <<>>
    BY DEF TrieShape, PathsDiffer
<1>1. \A i \in 1..n - 1 : ParentOf(i) \in 1..i /\ P[i + 1] = Append(P[ParentOf(i)], Alphabet[CharOf(i)])
    BY <1>0, ParentFound, Zenon DEF IsAppended
<1>2. \A i \in 0..n - 1 : i = 0 \/ (i # 0 /\ i \in 1..n - 1)
    OBVIOUS
<1>3. \A i \in 1..n - 1 : \A q \in 1..i : q - 1 \in 0..n - 1 /\ q - 1 \in 0..i - 1 /\ (q - 1) + 1 = q
    OBVIOUS
<1>. DEFINE g == [i \in 0..n - 1 |-> P[i + 1]]
<1>4. TextsAre(g)
  <2>1. ASSUME NEW i \in 0..n - 1
        PROVE  g[i] = IF i = 0 THEN <<>> ELSE Append(g[ParentOf(i) - 1], Alphabet[CharOf(i)])
    <3>1. CASE i = 0
      <4>1. i + 1 = 1
        BY <3>1
      <4>. QED
        BY <1>0, <3>1, <4>1, Zenon
    <3>2. CASE i # 0
      <4>1. i \in 1..n - 1
        BY <3>2
      <4>2. g[ParentOf(i) - 1] = P[ParentOf(i)] /\ g[i] = P[i + 1]
        BY <1>1, <1>3, <4>1, Zenon
      <4>. QED
        BY <1>1, <3>2, <4>1, <4>2, Zenon
    <3>. QED
      BY <3>1, <3>2, Zenon
  <2>2. g = [i \in 0..n - 1 |-> g[i]]
    OBVIOUS
  <2>. HIDE DEF g
  <2>3. g = [i \in 0..n - 1 |-> IF i = 0 THEN <<>> ELSE Append(g[ParentOf(i) - 1], Alphabet[CharOf(i)])]
    BY <2>1, <2>2, Zenon
  <2>. QED
    BY <1>0, <2>3, Zenon DEF TextsAre
<1>5. PICK h : h = Paths /\ TextsAre(h)
  <2>1. Paths = CHOOSE h : TextsAre(h)
    BY Zenon DEF Paths, TextsAre, ParentOf, CharOf
  <2>. QED
    BY <1>4, <2>1, Zenon
<1>6. \A i \in 0..n - 1 : h[i] = IF i = 0 THEN <<>> ELSE Append(h[ParentOf(i) - 1], Alphabet[CharOf(i)])
    BY <1>0, <1>5, Zenon DEF TextsAre
<1>. DEFINE N == {k \in Nat : \A i \in 0..n - 1 : i < k => h[i] = P[i + 1]}
<1>7. 0 \in N
    OBVIOUS
<1>8. ASSUME NEW k \in Nat, k \in N PROVE k + 1 \in N
  <2>1. k + 1 \in Nat
    OBVIOUS
  <2>. SUFFICES ASSUME NEW i \in 0..n - 1, i < k + 1 PROVE h[i] = P[i + 1]
    BY <2>1, Zenon
  <2>2. CASE i = 0
    <3>1. i + 1 = 1
      BY <2>2
    <3>. QED
      BY <1>0, <1>6, <2>2, <3>1, Zenon
  <2>3. CASE i # 0
    <3>1. i \in 1..n - 1
      BY <2>3
    <3>2. PICK q \in 1..i : q = ParentOf(i)
      BY <1>1, <3>1, Zenon
    <3>3. q - 1 \in 0..n - 1 /\ q - 1 < k /\ (q - 1) + 1 = q
      BY <3>2
    <3>4. h[q - 1] = P[q]
      BY <1>8, <3>3, Zenon
    <3>. QED
      BY <1>1, <1>6, <2>3, <3>1, <3>2, <3>4, Zenon
  <2>. QED
    BY <2>2, <2>3
<1>. HIDE DEF N
<1>9. n \in N
    BY <1>7, <1>8, SetInduction
<1>10. \A i \in 0..n - 1 : i < n
    OBVIOUS
<1>. QED
    BY <1>0, <1>5, <1>9, <1>10, Zenon DEF N

\* The walk of the whole trie comes to the keys with their values.
LEMMA TraverseRight ==
    ASSUME NEW P, TrieShape(nodes, P), TrieHolds(nodes, P, stored)
    PROVE  {<<v[1], v[2]>> : v \in Traverse} = {<<KeyTold(k), stored[k]>> : k \in DOMAIN stored}
<1>0. PICK n \in Nat : n = Len(nodes)
    BY DEF TrieShape
<1>. DEFINE Children(i) == {c \in DOMAIN Alphabet : nodes[i + 1].next[c] # 0}
            Visits(i, str) == IF nodes[i + 1].object = <<>> THEN {}
                              ELSE {<<KeyTold(str), nodes[i + 1].object[1], Cardinality(Children(i)) + 1>>}
<1>1. Traverse = UNION {Visits(i, Paths[i]) : i \in 0..n - 1}
    BY <1>0, Zenon DEF Traverse
<1>2. \A i \in 0..n - 1 : i + 1 \in 1..n
    OBVIOUS
<1>3. ASSUME NEW i \in 0..n - 1
      PROVE  \/ P[i + 1] \notin DOMAIN stored /\ Visits(i, Paths[i]) = {}
             \/ /\ P[i + 1] \in DOMAIN stored
                /\ \E x : Visits(i, Paths[i]) = {<<KeyTold(P[i + 1]), stored[P[i + 1]], x>>}
  <2>1. nodes[i + 1].object = IF P[i + 1] \in DOMAIN stored THEN <<stored[P[i + 1]]>> ELSE <<>>
    BY <1>0, <1>2, Zenon DEF TrieHolds
  <2>2. Paths[i] = P[i + 1]
    BY <1>0, PathsAreTexts, Zenon
  <2>3. CASE P[i + 1] \in DOMAIN stored
    <3>1. nodes[i + 1].object = <<stored[P[i + 1]]>>
      BY <2>1, <2>3, Zenon
    <3>2. nodes[i + 1].object # <<>> /\ nodes[i + 1].object[1] = stored[P[i + 1]]
      BY <3>1
    <3>. QED
      BY <2>2, <2>3, <3>2, Zenon
  <2>4. CASE P[i + 1] \notin DOMAIN stored
    BY <2>1, <2>4, Zenon
  <2>. QED
    BY <2>3, <2>4
<1>. HIDE DEF Visits
<1>4. ASSUME NEW v \in Traverse PROVE \E k \in DOMAIN stored : <<v[1], v[2]>> = <<KeyTold(k), stored[k]>>
  <2>1. PICK i \in 0..n - 1 : v \in Visits(i, Paths[i])
    BY <1>1, Zenon
  <2>2. PICK x : P[i + 1] \in DOMAIN stored /\ v = <<KeyTold(P[i + 1]), stored[P[i + 1]], x>>
    BY <1>3, <2>1, Zenon
  <2>3. v[1] = KeyTold(P[i + 1]) /\ v[2] = stored[P[i + 1]]
    BY <2>2
  <2>. QED
    BY <2>2, <2>3, Zenon
<1>5. ASSUME NEW k \in DOMAIN stored PROVE \E v \in Traverse : <<v[1], v[2]>> = <<KeyTold(k), stored[k]>>
  <2>1. PICK q \in 1..n : P[q] = k
    BY <1>0, Zenon DEF TrieHolds
  <2>2. PICK i \in 0..n - 1 : i + 1 = q
    <3>1. q - 1 \in 0..n - 1 /\ (q - 1) + 1 = q
      OBVIOUS
    <3>. QED
      BY <3>1, Zenon
  <2>3. PICK x : Visits(i, Paths[i]) = {<<KeyTold(k), stored[k], x>>}
    BY <1>3, <2>1, <2>2, Zenon
  <2>4. <<KeyTold(k), stored[k], x>> \in Traverse
    BY <1>1, <2>3, Zenon
  <2>5. <<KeyTold(k), stored[k], x>>[1] = KeyTold(k) /\ <<KeyTold(k), stored[k], x>>[2] = stored[k]
    OBVIOUS
  <2>6. PICK v : v = <<KeyTold(k), stored[k], x>> /\ v[1] = KeyTold(k) /\ v[2] = stored[k]
    BY <2>5, Zenon
  <2>. QED
    BY <2>4, <2>6, Zenon
<1>. DEFINE L == {<<v[1], v[2]>> : v \in Traverse}
            R == {<<KeyTold(k), stored[k]>> : k \in DOMAIN stored}
<1>6. \A y \in L : y \in R
    BY <1>4, Zenon
<1>7. \A y \in R : y \in L
    BY <1>5, Zenon
<1>. HIDE DEF L, R
<1>8. L = R
    BY <1>6, <1>7, Zenon
<1>. QED
    BY <1>8, Zenon DEF L, R

\* The trie is the map that the calls describe.
LEMMA TrieHasItsMap ==
    ASSUME TrieInv
    PROVE  TrieIsAMap
<1>0. PICK P : TrieShape(nodes, P) /\ TrieHolds(nodes, P, stored)
    BY Zenon DEF TrieInv
<1>1. answer[1] = answer[2]
    BY Zenon DEF TrieInv
<1>2. ASSUME NEW key \in Keys
      PROVE  FindObject(key) = IF key \in DOMAIN stored THEN <<stored[key]>> ELSE <<>>
    BY <1>0, KeysAreTexts, ObjectFound, Zenon
<1>3. ValueNodeCount = Cardinality(DOMAIN stored)
    BY <1>0, ValuesCounted, Zenon
<1>4. ASSUME NEW i \in 1..Len(nodes) - 1
      PROVE  Cardinality({pc \in (1..i) \X DOMAIN Alphabet : nodes[pc[1]].next[pc[2]] = i}) = 1
    BY <1>0, OneParent, Zenon
<1>5. {<<v[1], v[2]>> : v \in Traverse} = {<<KeyTold(k), stored[k]>> : k \in DOMAIN stored}
    BY <1>0, TraverseRight, Zenon
<1>. QED
    BY <1>1, <1>2, <1>3, <1>4, <1>5, Zenon DEF TrieIsAMap
=============================================================================
