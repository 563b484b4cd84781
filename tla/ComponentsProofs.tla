-------------------------- MODULE ComponentsProofs --------------------------
(***************************************************************************)
(* Proofs about the components of MCComponents for every value of their    *)
(* constants: the blocks of a stack allocator never overlap, whatever the  *)
(* caller does; whatever else is handed out has one owner; the timers, the *)
(* histories, the context and its configuration are up to date.            *)
(***************************************************************************)
EXTENDS MCComponents, ContainersProofs

PositiveSizes == 0 \notin Sizes

Above == {x \in Used : x >= min}

(***************************************************************************)
(* The inductive invariant adds to the bookkeeping property DifCountsUsed  *)
(* that _min never points into a block, that the lost cells lie below _pos *)
(* and in no block, and that _pos is at _min when nothing is used above.   *)
(***************************************************************************)
StackInv ==
    /\ PositiveSizes
    /\ TypeOK
    /\ BlocksDisjoint
    /\ DifCountsUsed
    /\ \A b \in blocks : b.size > 0
    /\ \A b \in blocks : End(b) <= min \/ b.at >= min
    /\ \A x \in lost : x < pos /\ \A b \in blocks : x \notin Cells(b)
    /\ dif = 0 => pos = min

-----------------------------------------------------------------------------
(* Counting with intervals of cells.                                       *)

\* The number of cells of a range.
LEMMA IntervalSize ==
    ASSUME NEW i \in Int, NEW j \in Int, i <= j
    PROVE  IsFiniteSet(i..(j - 1)) /\ Cardinality(i..(j - 1)) = j - i
<1>1. j - 1 \in Int
    OBVIOUS
<1>2. /\ IsFiniteSet(i..(j - 1))
      /\ Cardinality(i..(j - 1)) = IF i > j - 1 THEN 0 ELSE (j - 1) - i + 1
    BY <1>1, FS_Interval, Zenon
<1>. QED
    BY <1>2

\* Taking the free cells i..j-1 adds j - i used cells.
LEMMA AddInterval ==
    ASSUME NEW X, IsFiniteSet(X), NEW i \in Int, NEW j \in Int, i <= j,
           X \cap (i..(j - 1)) = {}
    PROVE  Cardinality(X \cup (i..(j - 1))) = Cardinality(X) + (j - i)
<1>. DEFINE T == i..(j - 1)
<1>1. IsFiniteSet(T) /\ Cardinality(T) = j - i
    BY IntervalSize
<1>2. X \cap T = {} /\ Cardinality({}) = 0
    BY FS_EmptySet
<1>0. Cardinality(X) \in Nat
    BY FS_CardinalityType
<1>. HIDE DEF T
<1>3. Cardinality(X \cup T) = Cardinality(X) + Cardinality(T) - Cardinality(X \cap T)
    BY <1>1, FS_Union
<1>4. Cardinality(X \cup T) = Cardinality(X) + (j - i)
    BY <1>0, <1>1, <1>2, <1>3
<1>. QED
    BY <1>4 DEF T

\* Returning the used cells i..j-1 removes j - i used cells.
LEMMA RemoveInterval ==
    ASSUME NEW X, IsFiniteSet(X), NEW i \in Int, NEW j \in Int, i <= j,
           (i..(j - 1)) \subseteq X
    PROVE  Cardinality(X \ (i..(j - 1))) = Cardinality(X) - (j - i)
<1>. DEFINE T == i..(j - 1)
<1>1. Cardinality(T) = j - i
    BY IntervalSize
<1>2. X \cap T = T
    OBVIOUS
<1>. HIDE DEF T
<1>3. Cardinality(X \ T) = Cardinality(X) - Cardinality(X \cap T)
    BY FS_Difference
<1>4. Cardinality(X \ T) = Cardinality(X) - (j - i)
    BY <1>1, <1>2, <1>3
<1>. QED
    BY <1>4 DEF T

-----------------------------------------------------------------------------
(* Facts about blocks.                                                     *)

\* The blocks the callers own are well typed and not empty.
LEMMA BlockFacts ==
    ASSUME StackInv, NEW b \in blocks
    PROVE  /\ b.at \in Int /\ b.size \in Int /\ b.at >= 0 /\ b.size > 0
           /\ End(b) = b.at + b.size /\ End(b) <= pos
           /\ Cells(b) = b.at..(End(b) - 1)
           /\ Cells(b) \subseteq Used
           /\ End(b) <= min \/ b.at >= min
<1>0. b \in Block
    BY DEF StackInv, TypeOK
<1>1. /\ b.at \in Int /\ b.size \in Int /\ b.at >= 0 /\ b.size > 0
      /\ End(b) = b.at + b.size /\ End(b) <= pos
    BY <1>0, StackAssumption DEF StackInv, Block, End, BlocksDisjoint
<1>2. Cells(b) = b.at..(End(b) - 1)
    BY <1>1 DEF Cells
<1>3. Cells(b) \subseteq 0..(Capacity - 1)
    BY <1>1, <1>2, StackAssumption DEF StackInv, TypeOK
<1>. QED
    BY <1>1, <1>2, <1>3 DEF StackInv, Used

\* Two different blocks are apart, one ends before the other begins.
LEMMA BlocksApart ==
    ASSUME StackInv, NEW b \in blocks, NEW c \in blocks, b # c
    PROVE  End(c) <= b.at \/ End(b) <= c.at
<1>1. Cells(b) \cap Cells(c) = {}
    BY DEF StackInv, BlocksDisjoint
<1>2. CASE b.at >= c.at /\ b.at < End(c)
    <2>1. b.at \in Cells(b) \cap Cells(c)
        BY <1>2, BlockFacts
    <2>. QED
        BY <1>1, <2>1
<1>3. CASE c.at >= b.at /\ c.at < End(b)
    <2>1. c.at \in Cells(b) \cap Cells(c)
        BY <1>3, BlockFacts
    <2>. QED
        BY <1>1, <2>1
<1>. QED
    BY <1>2, <1>3, BlockFacts

\* The used cells from some cell on are finitely many.
LEMMA AboveFacts ==
    ASSUME StackInv
    PROVE  /\ IsFiniteSet(Above) /\ dif = Cardinality(Above) /\ dif \in Nat
           /\ Used \subseteq 0..(pos - 1)
           /\ pos \in Int /\ min \in Int /\ 0 <= min /\ min <= pos /\ pos <= Capacity
<1>1. IsFiniteSet(0..(Capacity - 1))
    BY FS_Interval, StackAssumption
<1>2. IsFiniteSet(Above)
    BY <1>1, FS_Subset DEF Above, Used
<1>3. dif = Cardinality(Above)
    BY DEF StackInv, DifCountsUsed, Above
<1>4. pos \in Int /\ min \in Int /\ 0 <= min /\ min <= pos /\ pos <= Capacity
    BY StackAssumption DEF StackInv, TypeOK, DifCountsUsed
<1>5. ASSUME NEW x \in Used PROVE x \in 0..(pos - 1)
    BY <1>4, <1>5, BlockFacts, StackAssumption DEF Used, StackInv
<1>. QED
    BY <1>2, <1>3, <1>4, <1>5, FS_CardinalityType

\* What leaves the arena alone keeps the invariant.
LEMMA StackSame == StackInv /\ UNCHANGED <<pos, min, dif, blocks, lost>> => StackInv'
BY DEF StackInv, PositiveSizes, TypeOK, BlocksDisjoint, DifCountsUsed, Used, Cells, End

-----------------------------------------------------------------------------
(* One lemma per operation.                                                *)

\* allocate puts a block on top of everything that is used.
LEMMA AllocateStep ==
    ASSUME StackInv, NEW n \in Sizes, NEW a \in Aligns, Allocate(n, a)
    PROVE  StackInv'
<1>. DEFINE m == Pad(a)
            k == m + n
            nb == [at |-> pos, pad |-> m, size |-> k]
<1>1. CASE ~Fits(k)
    BY <1>1, StackSame DEF Allocate
<1>2. CASE Fits(k)
  <2>1. /\ blocks' = blocks \cup {nb} /\ lost' = lost /\ pos' = pos + k
        /\ min = pos => min' = min + k /\ dif' = dif
        /\ min # pos => dif' = dif + k /\ min' = min
    BY <1>2 DEF Allocate, MoveUp
  <2>2. n \in Nat /\ n > 0 /\ m \in Nat
    <3>1. n \in Nat /\ n > 0 /\ a \in Nat /\ a > 0 /\ pos \in Nat
      BY StackAssumption DEF StackInv, PositiveSizes, TypeOK
    <3>2. pos % a \in 0..(a - 1)
      BY <3>1
    <3>3. (a - (pos % a)) \in Nat /\ (a - (pos % a)) % a \in Nat
      BY <3>1, <3>2
    <3>. QED
      BY <3>1, <3>3, StackAssumption DEF Pad
  <2>3. pos \in Int /\ min \in Int /\ 0 <= min /\ min <= pos /\ pos + k <= Capacity
    BY <1>2, <2>2, AboveFacts, StackAssumption DEF Fits
  <2>. HIDE DEF m
  <2>4. /\ nb \in Block /\ End(nb) = pos + k /\ Cells(nb) = pos..(pos + k - 1)
        /\ nb.at = pos /\ nb.size = k /\ k \in Nat /\ k > 0
    BY <2>2, <2>3, StackAssumption DEF Block, End, Cells
  <2>. HIDE DEF nb, k
  <2>5. \A b \in blocks : b.at >= 0 /\ End(b) <= pos /\ Cells(b) = b.at..(End(b) - 1)
    BY BlockFacts
  <2>6. Used' = Used \cup (pos..(pos + k - 1))
    BY <2>1, <2>3, <2>4, StackAssumption DEF Used, Cells
  <2>7. TypeOK'
    BY <2>1, <2>3, <2>4, AboveFacts, StackAssumption DEF StackInv, TypeOK
  <2>8. BlocksDisjoint'
    <3>1. \A b \in blocks' : End(b) <= pos'
      BY <2>1, <2>3, <2>4, <2>5, BlockFacts
    <3>2. \A b \in blocks : Cells(b) \cap Cells(nb) = {}
      BY <2>3, <2>4, <2>5, BlockFacts
    <3>. QED
      BY <2>1, <3>1, <3>2 DEF BlocksDisjoint, StackInv, End, Cells
  <2>9. DifCountsUsed' /\ (dif' = 0 => pos' = min')
    <3>1. CASE min = pos
      <4>1. Above = {}
        BY <3>1, AboveFacts DEF Above
      <4>2. {x \in Used' : x >= min'} = {}
        BY <2>1, <2>3, <2>4, <2>6, <3>1, AboveFacts
      <4>3. \A x \in 0..(min' - 1) : x \in Used'
        BY <2>1, <2>3, <2>4, <2>6, <3>1 DEF StackInv, DifCountsUsed
      <4>. QED
        BY <2>1, <2>3, <3>1, <4>1, <4>2, <4>3, AboveFacts DEF DifCountsUsed
    <3>2. CASE min # pos
      <4>1. {x \in Used' : x >= min'} = Above \cup (pos..(pos + k - 1))
        BY <2>1, <2>3, <2>4, <2>6, <3>2 DEF Above
      <4>2. Above \cap (pos..(pos + k - 1)) = {}
        BY <2>3, <2>4, AboveFacts DEF Above
      <4>0. pos + k \in Int /\ pos <= pos + k /\ (pos + k) - pos = k
        BY <2>3, <2>4
      <4>3. Cardinality(Above \cup (pos..(pos + k - 1))) = Cardinality(Above) + ((pos + k) - pos)
        <5>1. IsFiniteSet(Above)
          BY AboveFacts
        <5>. QED
          BY <2>3, <4>0, <4>2, <5>1, AddInterval
      <4>4. \A x \in 0..(min' - 1) : x \in Used'
        BY <2>1, <2>6, <3>2 DEF StackInv, DifCountsUsed
      <4>5. min' <= pos' /\ dif' = Cardinality({x \in Used' : x >= min'}) /\ dif' # 0
        <5>1. dif = Cardinality(Above) /\ dif \in Nat
          BY AboveFacts
        <5>2. Cardinality({x \in Used' : x >= min'}) = dif + k
          BY <4>0, <4>1, <4>3, <5>1
        <5>. QED
          BY <2>1, <2>3, <2>4, <3>2, <5>1, <5>2
      <4>. QED
        BY <4>4, <4>5 DEF DifCountsUsed
    <3>. QED
      BY <3>1, <3>2
  <2>10. /\ \A b \in blocks' : b.size > 0
         /\ \A b \in blocks' : End(b) <= min' \/ b.at >= min'
    BY <2>1, <2>3, <2>4, <2>5, BlockFacts
  <2>11. \A x \in lost' : x < pos' /\ \A b \in blocks' : x \notin Cells(b)
    BY <2>1, <2>3, <2>4 DEF StackInv, TypeOK
  <2>. QED
    BY <2>7, <2>8, <2>9, <2>10, <2>11 DEF StackInv, PositiveSizes, End, Cells
<1>. QED
    BY <1>1, <1>2

\* stack_byte_allocator_only::deallocate loses the block's cells.
LEMMA ForgetStep ==
    ASSUME StackInv, NEW b \in blocks, Forget(b), blocks' = blocks \ {b}
    PROVE  StackInv'
<1>1. lost' = lost \cup Cells(b) /\ UNCHANGED <<pos, min, dif>>
    BY DEF Forget
<1>2. Used' = Used
    BY <1>1, BlockFacts DEF Used, Cells
<1>3. \A x \in Cells(b) : x \in 0..(Capacity - 1) /\ x < pos
    BY BlockFacts, AboveFacts, StackAssumption
<1>4. \A c \in blocks' : Cells(b) \cap Cells(c) = {}
    BY DEF StackInv, BlocksDisjoint
<1>5. TypeOK'
    BY <1>1, <1>3 DEF StackInv, TypeOK
<1>6. BlocksDisjoint'
    BY <1>1 DEF StackInv, BlocksDisjoint, End, Cells
<1>8. DifCountsUsed'
    BY <1>1, <1>2 DEF StackInv, DifCountsUsed
<1>7. \A x \in lost' : x < pos' /\ \A c \in blocks' : x \notin Cells(c)
    BY <1>1, <1>3, <1>4 DEF StackInv
<1>. QED
    BY <1>1, <1>5, <1>6, <1>7, <1>8 DEF StackInv, PositiveSizes, End, Cells

\* base_stack_allocator::deallocate, for any block of any age.
LEMMA ReturnStep ==
    ASSUME StackInv, NEW b \in blocks, Return(b), blocks' = blocks \ {b}
    PROVE  StackInv'
<1>1. /\ b.at \in Int /\ b.size \in Int /\ b.at >= 0 /\ b.size > 0
      /\ End(b) = b.at + b.size /\ End(b) <= pos
      /\ Cells(b) = b.at..(End(b) - 1) /\ Cells(b) \subseteq Used
      /\ End(b) <= min \/ b.at >= min
    BY BlockFacts
<1>2. /\ IsFiniteSet(Above) /\ dif = Cardinality(Above) /\ dif \in Nat
      /\ Used \subseteq 0..(pos - 1)
      /\ pos \in Int /\ min \in Int /\ 0 <= min /\ min <= pos /\ pos <= Capacity
    BY AboveFacts
<1>3. Used' = Used \ Cells(b) /\ lost' = lost
  <2>1. lost' = lost /\ \A x \in lost : x \notin Cells(b)
    BY DEF Return, StackInv
  <2>2. \A c \in blocks : c # b => Cells(c) \cap Cells(b) = {}
    BY DEF StackInv, BlocksDisjoint
  <2>. QED
    BY <2>1, <2>2 DEF Used, Cells
<1>4. \A c \in blocks' : c \in blocks /\ (End(c) <= b.at \/ End(b) <= c.at)
    BY BlocksApart
<1>5. \A x \in 0..(min - 1) : x \in Used
    BY DEF StackInv, DifCountsUsed
<1>. DEFINE Left == {x \in Used' : x >= min'}
\* The new _min and _dif.
<1>6. /\ min' \in Int /\ 0 <= min' /\ min' <= min
      /\ IsFiniteSet(Left) /\ dif' = Cardinality(Left) /\ dif' \in Int
      /\ \A x \in 0..(min' - 1) : x \in Used'
      /\ \A c \in blocks' : End(c) <= min' \/ c.at >= min'
      /\ End(b) = pos => min' <= b.at
  <2>1. CASE End(b) = min
    <3>1. min' = b.at /\ dif' = dif
      BY <1>1, <1>2, <2>1 DEF Return, LowerMin, AdjustDif
    <3>2. Left = Above
      <4>1. ASSUME NEW x \in Left PROVE x \in Above
        BY <1>1, <1>2, <1>3, <2>1, <3>1, <4>1 DEF Above
      <4>2. ASSUME NEW x \in Above PROVE x \in Left
        BY <1>1, <1>2, <1>3, <2>1, <3>1, <4>2 DEF Above
      <4>. QED
        BY <4>1, <4>2
    <3>5. IsFiniteSet(Left) /\ dif' = Cardinality(Left) /\ dif' \in Int
      BY <1>2, <3>1, <3>2
    <3>3. \A x \in 0..(min' - 1) : x \in Used'
      BY <1>1, <1>2, <1>3, <1>5, <2>1, <3>1
    <3>4. \A c \in blocks' : End(c) <= min' \/ c.at >= min'
      BY <1>1, <1>4, <2>1, <3>1, BlockFacts
    <3>. QED
      BY <1>1, <1>2, <2>1, <3>1, <3>3, <3>4, <3>5
  <2>2. CASE End(b) > min
    <3>1. min' = min /\ dif' = dif - b.size /\ b.at >= min
      BY <1>1, <1>2, <2>2 DEF Return, LowerMin, AdjustDif
    <3>2. Left = Above \ Cells(b)
      BY <1>3, <3>1 DEF Above
    <3>8. \A x \in Cells(b) : x >= min
      BY <1>1, <1>2, <3>1
    <3>9. Cells(b) \subseteq Above
      BY <1>1, <3>8 DEF Above
    <3>3. End(b) \in Int /\ b.at <= End(b) /\ End(b) - b.at = b.size
      BY <1>1
    <3>4. Cardinality(Left) = Cardinality(Above) - b.size
      <4>1. b.at \in Int /\ Cells(b) = b.at..(End(b) - 1) /\ IsFiniteSet(Above)
        BY <1>1, <1>2
      <4>2. Cardinality(Above \ (b.at..(End(b) - 1))) = Cardinality(Above) - (End(b) - b.at)
        BY <3>3, <3>9, <4>1, RemoveInterval
      <4>. QED
        BY <3>2, <3>3, <4>1, <4>2
    <3>5. IsFiniteSet(Left)
      BY <1>2, <3>2, FS_Difference
    <3>6. \A x \in 0..(min' - 1) : x \in Used'
      BY <1>2, <1>3, <1>5, <3>1, <3>8
    <3>7. \A c \in blocks' : End(c) <= min' \/ c.at >= min'
      BY <3>1 DEF StackInv
    <3>. QED
      BY <1>1, <1>2, <3>1, <3>4, <3>5, <3>6, <3>7
  <2>3. CASE End(b) < min
    <3>1. min' = b.at /\ dif' = dif + (min - b.at) - b.size
      BY <1>1, <1>2, <2>3 DEF Return, LowerMin, AdjustDif
    <3>2. Left = Above \cup (End(b)..(min - 1))
      <4>1. ASSUME NEW x \in Left PROVE x \in Above \cup (End(b)..(min - 1))
        BY <1>1, <1>2, <1>3, <3>1, <4>1 DEF Above
      <4>2. ASSUME NEW x \in Above PROVE x \in Left
        BY <1>1, <1>2, <1>3, <2>3, <3>1, <4>2 DEF Above
      <4>3. ASSUME NEW x \in End(b)..(min - 1) PROVE x \in Left
        BY <1>1, <1>2, <1>3, <1>5, <2>3, <3>1, <4>3
      <4>. QED
        BY <4>1, <4>2, <4>3
    <3>3. Above \cap (End(b)..(min - 1)) = {} /\ End(b) \in Int /\ End(b) <= min
      BY <1>1, <1>2, <2>3 DEF Above
    <3>4. Cardinality(Left) = Cardinality(Above) + (min - End(b))
      BY <1>2, <3>2, <3>3, AddInterval
    <3>5. IsFiniteSet(Left)
      <4>1. IsFiniteSet(End(b)..(min - 1)) /\ IsFiniteSet(Above)
        BY <1>2, <3>3, IntervalSize
      <4>. QED
        BY <3>2, <4>1, FS_Union
    <3>6. \A x \in 0..(min' - 1) : x \in Used'
      BY <1>1, <1>2, <1>3, <1>5, <2>3, <3>1
    <3>7. \A c \in blocks' : End(c) <= min' \/ c.at >= min'
      BY <1>1, <1>4, <3>1, BlockFacts
    <3>. QED
      BY <1>1, <1>2, <2>3, <3>1, <3>4, <3>5, <3>6, <3>7
  <2>. QED
    BY <1>1, <1>2, <2>1, <2>2, <2>3
\* The new _pos is above everything that is still used.
<1>7. /\ pos' \in Int /\ min' <= pos' /\ pos' <= pos /\ (dif' = 0 => pos' = min')
      /\ \A x \in Used' : x < pos'
  <2>1. CASE dif' = 0
    <3>1. pos' = min'
      BY <2>1 DEF Return, Settle
    <3>2. Left = {}
      BY <1>6, <2>1, FS_EmptySet
    <3>. QED
      BY <1>2, <1>3, <1>6, <3>1, <3>2
  <2>2. CASE dif' # 0 /\ End(b) = pos
    <3>1. pos' = b.at
      BY <1>1, <1>2, <2>2 DEF Return, Settle
    <3>. QED
      BY <1>1, <1>2, <1>3, <1>6, <2>2, <3>1
  <2>3. CASE dif' # 0 /\ End(b) # pos
    <3>1. pos' = pos
      BY <2>3 DEF Return, Settle
    <3>. QED
      BY <1>2, <1>3, <1>6, <2>3, <3>1
  <2>. QED
    BY <2>1, <2>2, <2>3
<1>8. ASSUME NEW c \in blocks' PROVE End(c) <= pos'
  <2>1. /\ c \in blocks /\ c # b /\ c.at \in Int /\ c.size > 0 /\ c.size \in Int
        /\ End(c) = c.at + c.size /\ Cells(c) = c.at..(End(c) - 1) /\ Cells(c) \subseteq Used
    BY BlockFacts
  <2>2. End(c) - 1 \in Cells(c)
    BY <2>1
  <2>3. End(c) - 1 \in Used'
    BY <1>3, <2>1, <2>2 DEF StackInv, BlocksDisjoint
  <2>. QED
    BY <1>7, <2>1, <2>3
<1>9. \A x \in lost' : x < pos' /\ \A c \in blocks' : x \notin Cells(c)
    BY <1>3, <1>7 DEF Used, StackInv, TypeOK
<1>10. TypeOK'
    BY <1>2, <1>3, <1>6, <1>7, StackAssumption DEF StackInv, TypeOK
<1>11. BlocksDisjoint'
    BY <1>8 DEF StackInv, BlocksDisjoint, End, Cells
<1>12. DifCountsUsed'
    BY <1>6, <1>7 DEF DifCountsUsed
<1>. QED
    BY <1>6, <1>7, <1>9, <1>10, <1>11, <1>12 DEF StackInv, PositiveSizes, End, Cells

\* truncate: only the tail of the topmost block is given back.
LEMMA TruncateStep ==
    ASSUME StackInv, NEW b \in blocks, NEW n \in Sizes, Truncate(b, n)
    PROVE  StackInv'
<1>. DEFINE nb == [b EXCEPT !.size = n]
            cut == b.at + n
            T == cut..(End(b) - 1)
<1>1. /\ b \in Block
      /\ b.at \in Int /\ b.size \in Int /\ b.at >= 0 /\ b.size > 0
      /\ End(b) = b.at + b.size /\ End(b) <= pos
      /\ Cells(b) = b.at..(End(b) - 1) /\ Cells(b) \subseteq Used
      /\ End(b) <= min \/ b.at >= min
    BY BlockFacts DEF StackInv, TypeOK
<1>2. /\ IsFiniteSet(Above) /\ dif = Cardinality(Above) /\ dif \in Nat
      /\ Used \subseteq 0..(pos - 1)
      /\ pos \in Int /\ min \in Int /\ 0 <= min /\ min <= pos /\ pos <= Capacity
    BY AboveFacts
<1>3. n \in Int /\ n > 0 /\ n <= b.size /\ blocks' = (blocks \ {b}) \cup {nb}
    BY StackAssumption DEF StackInv, PositiveSizes, Truncate
<1>4. /\ nb \in Block /\ nb.at = b.at /\ nb.size = n
      /\ End(nb) = cut /\ Cells(nb) = b.at..(cut - 1)
  <2>1. nb \in Block /\ nb.at = b.at /\ nb.size = n
    <3>1. b = [at |-> b.at, pad |-> b.pad, size |-> b.size] /\ b.size \in 0..Capacity
      BY <1>1 DEF Block
    <3>2. nb = [at |-> b.at, pad |-> b.pad, size |-> n] /\ n \in 0..Capacity
      BY <1>3, <3>1, StackAssumption
    <3>. QED
      BY <1>1, <3>2 DEF Block
  <2>. QED
    BY <1>1, <1>3, <2>1 DEF End, Cells
<1>5. cut \in Int /\ b.at < cut /\ cut <= End(b) /\ End(b) - cut = b.size - n
    BY <1>1, <1>3
<1>6. \A c \in blocks \ {b} : /\ c.at \in Int /\ c.size > 0 /\ End(c) <= pos
                              /\ c.at < End(c) /\ End(c) \in Int /\ Cells(c) = c.at..(End(c) - 1)
                              /\ End(c) <= b.at \/ End(b) <= c.at
    BY BlocksApart, BlockFacts
<1>7. /\ Cells(b) = Cells(nb) \cup T /\ Cells(nb) \cap T = {}
      /\ b.at \in Cells(nb) /\ T \subseteq Used
  <2>. HIDE DEF cut
  <2>1. Cells(b) = b.at..(End(b) - 1) /\ Cells(nb) = b.at..(cut - 1) /\ T = cut..(End(b) - 1)
    BY <1>1, <1>4
  <2>2. /\ b.at \in Int /\ End(b) \in Int /\ cut \in Int /\ b.at < cut /\ cut <= End(b)
    BY <1>1, <1>5
  <2>3. Cells(b) = Cells(nb) \cup T /\ Cells(nb) \cap T = {} /\ b.at \in Cells(nb)
    BY <2>1, <2>2
  <2>. QED
    BY <1>1, <2>3
<1>8. /\ \A x \in lost : x \notin Cells(b) /\ x < pos /\ x \in Used /\ x \in Int
      /\ \A c \in blocks \ {b} : Cells(c) \cap Cells(b) = {}
    BY DEF StackInv, BlocksDisjoint, TypeOK, Used
<1>. HIDE DEF nb, cut
\* The blocks themselves, whatever happens to _pos and _min.
<1>9. \A c, d \in blocks' : c # d => Cells(c) \cap Cells(d) = {}
  <2>1. \A c \in blocks \ {b} : Cells(c) \cap Cells(nb) = {}
    BY <1>7, <1>8
  <2>2. \A c, d \in blocks \ {b} : c # d => Cells(c) \cap Cells(d) = {}
    BY DEF StackInv, BlocksDisjoint
  <2>. QED
    BY <1>3, <2>1, <2>2
<1>10. \A c \in blocks' : c \in Block /\ c.size > 0
    BY <1>3, <1>4 DEF StackInv, TypeOK
<1>11. CASE End(b) # pos
  <2>1. lost' = lost \cup T /\ UNCHANGED <<pos, min, dif>>
    BY <1>11 DEF Truncate, T, cut
  <2>2. Used' = Used
    <3>1. ASSUME NEW x PROVE (x \in lost \cup T \/ \E c \in blocks' : x \in Cells(c))
                               <=> (x \in lost \/ \E c \in blocks : x \in Cells(c))
      BY <1>3, <1>7
    <3>. QED
      BY <2>1, <3>1 DEF Used, Cells
  <2>3. DifCountsUsed'
    BY <2>1, <2>2 DEF StackInv, DifCountsUsed
  <2>4. TypeOK'
    <3>1. T \subseteq 0..(Capacity - 1)
      BY <1>7 DEF Used
    <3>. QED
      BY <1>10, <2>1, <3>1 DEF StackInv, TypeOK
  <2>5. \A c \in blocks' : End(c) <= pos' /\ (End(c) <= min' \/ c.at >= min')
    <3>1. \A c \in blocks \ {b} : End(c) <= pos /\ (End(c) <= min \/ c.at >= min)
      BY DEF StackInv, BlocksDisjoint
    <3>2. End(nb) <= pos /\ (End(nb) <= min \/ nb.at >= min)
      BY <1>1, <1>2, <1>4, <1>5
    <3>. QED
      BY <1>3, <2>1, <3>1, <3>2
  <2>6. \A x \in lost' : x < pos' /\ \A c \in blocks' : x \notin Cells(c)
    <3>1. ASSUME NEW x \in lost PROVE x < pos /\ \A c \in blocks' : x \notin Cells(c)
      BY <1>3, <1>7, <1>8, <3>1 DEF StackInv
    <3>2. ASSUME NEW x \in T PROVE \A c \in blocks' : x \notin Cells(c)
      BY <1>3, <1>7, <1>8, <3>2
    <3>3. ASSUME NEW x \in T PROVE x < pos
      BY <1>2, <1>7, <3>3
    <3>. QED
      BY <2>1, <3>1, <3>2, <3>3
  <2>7. dif' = 0 => pos' = min'
    BY <2>1 DEF StackInv
  <2>8. BlocksDisjoint'
    BY <1>9, <2>5 DEF BlocksDisjoint, End, Cells
  <2>. QED
    BY <1>10, <2>3, <2>4, <2>5, <2>6, <2>7, <2>8 DEF StackInv, PositiveSizes, End, Cells
<1>12. CASE End(b) = pos
  <2>1. /\ lost' = lost /\ pos' = cut
        /\ min = pos => min' = cut /\ dif' = dif
        /\ min # pos => min' = min /\ dif' = dif - (b.size - n)
    BY <1>1, <1>3, <1>12 DEF Truncate, cut
  <2>2. Used' = Used \ T
    <3>1. ASSUME NEW x PROVE (x \in lost \/ \E c \in blocks' : x \in Cells(c))
                 <=> (x \in lost \/ \E c \in blocks : x \in Cells(c)) /\ x \notin T
      BY <1>3, <1>7, <1>8
    <3>. QED
      BY <2>1, <3>1 DEF Used, Cells
  <2>3. \A c \in blocks \ {b} : End(c) <= b.at
    BY <1>1, <1>2, <1>6, <1>12
  <2>4. \A x \in Used' : x < cut
    BY <1>2, <1>5, <1>12, <2>2
  <2>5. DifCountsUsed' /\ (dif' = 0 => pos' = min') /\ min' \in Int /\ dif' \in Int
    <3>1. CASE min = pos
      <4>1. Above = {}
        <5>1. \A x \in Used : x \in Int /\ x < min
          <6>1. Used \subseteq 0..(pos - 1) /\ pos \in Int
            BY <1>2
          <6>. QED
            BY <3>1, <6>1
        <5>2. min \in Int
          BY <1>2
        <5>3. \A x \in Used : ~(x >= min)
          BY <5>1, <5>2
        <5>. QED
          BY <5>3, Zenon DEF Above
      <4>2. {x \in Used' : x >= min'} = {}
        <5>1. \A x \in Used' : x \in Int /\ x < min'
          BY <1>2, <2>1, <2>2, <2>4, <3>1
        <5>2. min' \in Int
          BY <1>5, <2>1, <3>1
        <5>. QED
          BY <5>1, <5>2
      <4>3. \A x \in 0..(min' - 1) : x \in Used'
        BY <1>1, <1>2, <1>5, <1>12, <2>1, <2>2, <3>1 DEF StackInv, DifCountsUsed
      <4>4. dif' = Cardinality({x \in Used' : x >= min'})
        BY <1>2, <2>1, <3>1, <4>1, <4>2
      <4>5. min' <= pos'
        BY <1>5, <2>1, <3>1
      <4>. QED
        BY <1>2, <1>5, <2>1, <3>1, <4>3, <4>4, <4>5 DEF DifCountsUsed
    <3>2. CASE min # pos
      <4>1. b.at >= min
        BY <1>1, <1>2, <1>12, <3>2
      <4>2. {x \in Used' : x >= min'} = Above \ T
        BY <2>1, <2>2, <3>2 DEF Above
      <4>3. T \subseteq Above
        BY <1>2, <1>5, <1>7, <4>1, <1>1 DEF Above
      <4>4. Cardinality(Above \ T) = Cardinality(Above) - (End(b) - cut)
        <5>1. End(b) \in Int /\ IsFiniteSet(Above)
          BY <1>1, <1>2
        <5>. QED
          BY <1>5, <4>3, <5>1, RemoveInterval
      <4>5. b.at \in Above \ T
        BY <1>1, <1>7, <4>1 DEF Above
      <4>6. Cardinality(Above \ T) # 0
        BY <1>2, <4>5, FS_Difference, FS_EmptySet
      <4>7. dif' = Cardinality({x \in Used' : x >= min'}) /\ dif' # 0 /\ dif' \in Int
        <5>1. dif' = dif - (b.size - n) /\ dif = Cardinality(Above)
          BY <1>2, <2>1, <3>2
        <5>2. dif' = Cardinality(Above \ T)
          BY <1>5, <4>4, <5>1
        <5>3. dif' \in Int
          BY <1>1, <1>2, <1>3, <5>1
        <5>. QED
          BY <4>2, <4>6, <5>2, <5>3
      <4>8. \A x \in 0..(min' - 1) : x \in Used'
        BY <1>1, <1>2, <1>5, <2>1, <2>2, <3>2, <4>1 DEF StackInv, DifCountsUsed
      <4>9. min' <= pos' /\ min' \in Int
        BY <1>1, <1>2, <1>5, <2>1, <3>2, <4>1
      <4>. QED
        BY <4>7, <4>8, <4>9 DEF DifCountsUsed
    <3>. QED
      BY <3>1, <3>2
  <2>6. TypeOK'
    <3>1. pos' \in 0..Capacity /\ min' \in 0..Capacity
      BY <1>1, <1>2, <1>5, <1>12, <2>1, StackAssumption
    <3>. QED
      BY <1>10, <2>1, <2>5, <3>1 DEF StackInv, TypeOK
  <2>7. \A c \in blocks' : End(c) <= pos' /\ (End(c) <= min' \/ c.at >= min')
    <3>1. \A c \in blocks \ {b} : c.at \in Int /\ End(c) <= b.at /\ (End(c) <= min \/ c.at >= min)
      BY <1>6, <2>3 DEF StackInv
    <3>2. ASSUME NEW c \in blocks \ {b} PROVE End(c) <= cut /\ (End(c) <= min' \/ c.at >= min')
      <4>1. End(c) \in Int
        BY BlockFacts
      <4>. QED
        BY <1>1, <1>2, <1>5, <2>1, <3>1, <4>1
    <3>3. End(nb) <= pos' /\ (End(nb) <= min' \/ nb.at >= min')
      BY <1>1, <1>2, <1>4, <1>5, <1>12, <2>1
    <3>. QED
      BY <1>3, <2>1, <3>2, <3>3
  <2>8. \A x \in lost' : x < pos' /\ \A c \in blocks' : x \notin Cells(c)
    <3>1. ASSUME NEW x \in lost PROVE x < cut
      BY <1>7, <1>8, <2>2, <2>4, <3>1
    <3>2. ASSUME NEW x \in lost PROVE \A c \in blocks' : x \notin Cells(c)
      BY <1>3, <1>7, <1>8, <3>2 DEF StackInv
    <3>. QED
      BY <2>1, <3>1, <3>2
  <2>9. BlocksDisjoint'
    BY <1>9, <2>7 DEF BlocksDisjoint, End, Cells
  <2>. QED
    BY <1>10, <2>5, <2>6, <2>7, <2>8, <2>9 DEF StackInv, PositiveSizes, End, Cells
<1>. QED
    BY <1>11, <1>12

-----------------------------------------------------------------------------
(* The theorems.                                                           *)

\* Whatever is allocated, truncated and returned, in whatever order, the
\* bookkeeping of base_stack_allocator stays consistent.
LEMMA StackInvHolds == PositiveSizes /\ Spec => []StackInv
<1>1. PositiveSizes /\ Init => StackInv
  <2>1. SUFFICES ASSUME PositiveSizes, Init PROVE StackInv
    OBVIOUS
  <2>2. Used = {}
    BY <2>1 DEF Init, Used
  <2>3. DifCountsUsed
    BY <2>1, <2>2, FS_EmptySet DEF Init, DifCountsUsed
  <2>. QED
    BY <2>1, <2>3, StackAssumption DEF Init, StackInv, TypeOK, BlocksDisjoint
<1>2. StackInv /\ [Next]_vars => StackInv'
  <2>1. SUFFICES ASSUME StackInv, [Next]_vars PROVE StackInv'
    OBVIOUS
  <2>2. CASE UNCHANGED vars
    BY <2>1, <2>2, StackSame DEF vars
  <2>3. ASSUME NEW n \in Sizes, NEW a \in Aligns, Allocate(n, a) PROVE StackInv'
    BY <2>1, <2>3, AllocateStep
  <2>4. ASSUME NEW b \in blocks, Deallocate(b) PROVE StackInv'
    BY <2>1, <2>4, ForgetStep, ReturnStep DEF Deallocate
  <2>5. ASSUME NEW b \in blocks, NEW n \in Sizes, Truncate(b, n) PROVE StackInv'
    BY <2>1, <2>5, TruncateStep
  <2>. QED
    BY <2>1, <2>2, <2>3, <2>4, <2>5 DEF Next
<1>. QED
    BY <1>1, <1>2, PTL DEF Spec

\* Every reachable state is well typed: allocate never takes more cells than
\* the arena has and deallocate never moves _pos or _min below it.
THEOREM StackTypeCorrect == PositiveSizes /\ Spec => []TypeOK
<1>1. StackInv => TypeOK
    BY DEF StackInv
<1>. QED
    BY <1>1, StackInvHolds, PTL

\* The blocks the callers of allocate own never overlap.
THEOREM BlocksNeverOverlap == PositiveSizes /\ Spec => []BlocksDisjoint
<1>1. StackInv => BlocksDisjoint
    BY DEF StackInv
<1>. QED
    BY <1>1, StackInvHolds, PTL

\* _dif is the exact number of used cells from _min on.
THEOREM BookkeepingIsExact == PositiveSizes /\ Spec => []DifCountsUsed
<1>1. StackInv => DifCountsUsed
    BY DEF StackInv
<1>. QED
    BY <1>1, StackInvHolds, PTL

\* When every block was returned the destructor's assertion holds.
THEOREM ReturnedArenaIsEmpty == PositiveSizes /\ Spec => []AllReturnedAllFree
<1>1. StackInv => AllReturnedAllFree
  <2>1. SUFFICES ASSUME StackInv, blocks = {}, lost = {} PROVE pos = 0 /\ min = 0 /\ dif = 0
    BY DEF AllReturnedAllFree
  <2>2. Used = {}
    BY <2>1 DEF Used
  <2>3. dif = 0
    <3>1. {x \in Used : x >= min} = {}
      BY <2>2
    <3>. QED
      BY <2>1, <3>1, FS_EmptySet DEF StackInv, DifCountsUsed
  <2>4. min = 0
    <3>1. min \in Int /\ min >= 0 /\ \A x \in 0..(min - 1) : FALSE
      BY <2>1, <2>2, StackAssumption DEF StackInv, TypeOK, DifCountsUsed
    <3>. QED
      BY <3>1
  <2>. QED
    BY <2>1, <2>3, <2>4 DEF StackInv
<1>. QED
    BY <1>1, StackInvHolds, PTL

-----------------------------------------------------------------------------
(* The assertions, for callers that ask max_size.                          *)

\* A multiple of a leaves no remainder.
LEMMA MultipleMod ==
    ASSUME NEW a \in Nat \ {0}, NEW k \in Int
    PROVE  (a * k) % a = 0
OBVIOUS

\* Division with remainder.
LEMMA DivMod ==
    ASSUME NEW a \in Nat \ {0}, NEW x \in Int
    PROVE  \E y \in Int : x = a * y + (x % a) /\ x % a \in 0..(a - 1)
<1>1. x = a * (x \div a) + (x % a) /\ x \div a \in Int /\ x % a \in 0..(a - 1)
    OBVIOUS
<1>. QED
    BY <1>1

\* The padding of stack_byte_allocator leads to an aligned address when the
\* address of the buffer is.
LEMMA PaddedIsAligned ==
    ASSUME NEW a \in Nat \ {0}, NEW base \in Nat, NEW p \in Nat, base % a = 0
    PROVE  (base + (p + (a - (p % a)))) % a = 0
<1>0. base \in Int /\ p \in Int /\ a \in Int
    OBVIOUS
<1>1. PICK x \in Int : base = a * x
  <2>1. PICK x \in Int : base = a * x + (base % a)
    BY <1>0, DivMod, Zenon
  <2>2. a * x \in Int
    BY <1>0
  <2>3. base = a * x
    BY <2>1, <2>2
  <2>. QED
    BY <2>3
<1>2. PICK y \in Int : p = a * y + (p % a) /\ p % a \in 0..(a - 1)
    BY <1>0, DivMod, Zenon
<1>3. PICK r \in Int : r = p % a
    BY <1>2
<1>4. p = a * y + r
    BY <1>2, <1>3, Zenon
<1>5. base + (p + (a - r)) = a * (x + y + 1)
  <2>1. a * (x + y + 1) = a * x + a * y + a
    BY <1>0
  <2>2. PICK u \in Int, v \in Int : u = a * x /\ v = a * y
    BY <1>0
  <2>. QED
    BY <1>0, <1>1, <1>4, <2>1, <2>2
<1>6. x + y + 1 \in Int
    OBVIOUS
<1>7. (a * (x + y + 1)) % a = 0
    BY <1>6, MultipleMod, Zenon
<1>. QED
    BY <1>3, <1>5, <1>7, Zenon

(***************************************************************************)
(* The callers of stack_byte_allocator ask for no more than max_size, the  *)
(* buffer begins at a multiple of every alignment, and no alignment is so  *)
(* large that the padding would not fit into the byte where it is noted.   *)
(***************************************************************************)
PoliteCallers == Polite /\ \A a \in Aligns : a < 255 /\ Base % a = 0

PoliteInv == PoliteCallers /\ PoliteCallersAreServed

\* A polite request passes every assertion of allocate.
LEMMA PoliteRequest ==
    ASSUME StackInv, PoliteCallers, kind \in {"base", "byte"},
           NEW n \in Sizes, NEW a \in Aligns, Allocate(n, a)
    PROVE  Violated(Pad(a), n, a) = "none"
<1>1. /\ a \in Nat \ {0} /\ a < 255 /\ Base \in Nat /\ Base % a = 0
      /\ n \in Nat /\ Capacity \in Nat /\ pos \in Nat /\ pos <= Capacity
    BY StackAssumption, AboveFacts DEF PoliteCallers
<1>2. CASE kind = "base"
  <2>1. Pad(a) = 0
    BY <1>2 DEF Pad
  <2>. QED
    BY <1>2, <2>1 DEF Violated, Aligned
<1>3. CASE kind = "byte"
  <2>1. PICK r \in 0..(a - 1) : r = pos % a
    BY <1>1
  <2>2. PICK m \in 1..a : m = a - r /\ Pad(a) = m
    <3>1. Pad(a) = a - r
        BY <1>3, <2>1 DEF Pad
    <3>2. a - r \in 1..a
        BY <1>1
    <3>. QED
        BY <3>1, <3>2
  <2>3. n > 0 /\ n <= MaxSize(a)
    BY <1>3 DEF Allocate, PoliteCallers
  <2>4. MaxSize(a) = IF Capacity - pos > a THEN Capacity - pos - a ELSE 0
    BY <1>3 DEF MaxSize
  <2>5. Fits(m + n)
    BY <1>1, <2>3, <2>4 DEF Fits
  <2>6. (Base + (pos + (a - (pos % a)))) % a = 0
    BY <1>1, PaddedIsAligned, Zenon
  <2>7. Aligned(pos + m, a)
    BY <2>1, <2>2, <2>6, Zenon DEF Aligned
  <2>8. ~(m >= 255)
    BY <1>1
  <2>. QED
    BY <2>2, <2>5, <2>7, <2>8 DEF Violated
<1>. QED
    BY <1>2, <1>3

\* No assertion fails for callers of base_stack_allocator and of
\* stack_byte_allocator that respect max_size, in whatever order they
\* allocate, truncate and return their blocks.
THEOREM PoliteCallersStayServed ==
    PositiveSizes /\ PoliteCallers /\ Spec => []PoliteCallersAreServed
<1>1. PoliteCallers /\ Init => PoliteInv
    BY DEF Init, PoliteInv, PoliteCallersAreServed
<1>2. StackInv /\ PoliteInv /\ [Next]_vars => PoliteInv'
  <2>. SUFFICES ASSUME StackInv, PoliteInv, [Next]_vars PROVE PoliteCallersAreServed'
    BY DEF PoliteInv, PoliteCallers
  <2>. USE DEF PoliteInv, PoliteCallersAreServed
  <2>1. ASSUME NEW n \in Sizes, NEW a \in Aligns, Allocate(n, a) PROVE PoliteCallersAreServed'
    <3>1. kind' = kind /\ failed' = Violated(Pad(a), n, a)
        BY <2>1 DEF Allocate
    <3>. QED
        BY <2>1, <3>1, PoliteRequest
  <2>2. ASSUME NEW b \in blocks, Deallocate(b) PROVE PoliteCallersAreServed'
    BY <2>2 DEF Deallocate, Return, StackInv, BlocksDisjoint
  <2>3. ASSUME NEW b \in blocks, NEW n \in Sizes, Truncate(b, n) PROVE PoliteCallersAreServed'
    BY <2>3 DEF Truncate
  <2>4. CASE UNCHANGED vars
    BY <2>4 DEF vars
  <2>. QED
    BY <2>1, <2>2, <2>3, <2>4 DEF Next
<1>3. PoliteInv => PoliteCallersAreServed
    BY DEF PoliteInv
<1>. QED
    BY <1>1, <1>2, <1>3, StackInvHolds, PTL DEF Spec

-----------------------------------------------------------------------------
(* One component runs, the others stay as they are.                        *)

\* One component takes a step and the others do not.
LEMMA OthersStay ==
    ASSUME [ComponentsNext]_ComponentsVars
    PROVE  /\ UNCHANGED which
           /\ TimeoutsNext \/ UNCHANGED timeoutVars
           /\ HistoriesNext \/ UNCHANGED historyVars
           /\ ConfigNext \/ UNCHANGED configVars
           /\ MainNext \/ UNCHANGED mainVars
           /\ BuffersNext \/ UNCHANGED bufferVars
           /\ PoolNext \/ UNCHANGED poolVars
           /\ StorageNext \/ UNCHANGED storageVars
           /\ NodeNext \/ UNCHANGED treeVars
           /\ ChunkNext \/ UNCHANGED chunkVars
           /\ SmallNext \/ UNCHANGED smallVars
           /\ FlatNext \/ UNCHANGED flatVars
           /\ TrieNext \/ UNCHANGED trieVars
BY Zenon DEF FlatNext, ComponentsNext, ComponentsVars, RunStack, RunChunk, RunSmall, RunMap, RunSet, RunBuffer, RunPool,
   RunStorage, RunTrie, RunTimeouts, RunHistory, RunConfig, RunMain, RunNodes, RunTiling

-----------------------------------------------------------------------------
(* The watchdog and the timeout that backs off.                            *)

(***************************************************************************)
(* What is left of a timeout and the time since it was last set add up to  *)
(* no more than its period, unless it has expired, and then no more time   *)
(* has passed since than the main loop let go by.                          *)
(***************************************************************************)
OnTime(rest, since, longest) ==
    IF rest > 0 THEN since + rest <= longest ELSE since <= longest + unpolled

TimeoutsTypeOK ==
    /\ phase \in {"starting", "watched", "stopped"}
    /\ feedIn \in 0..FeedPeriod /\ heartIn \in 0..HeartbeatPeriod
    /\ unfed \in Nat /\ unpolled \in Nat /\ unlogged \in Nat
    /\ curPeriod \in Nat /\ backIn \in Nat /\ extended \in Nat

Announcements ==
    /\ phase = "starting" => announced = <<>>
    /\ phase = "watched" => announced \in {<<"READY=1">>, <<"READY=1", "WATCHDOG=1">>}
    /\ phase = "stopped" => announced \in {<<"READY=1", "STOPPING=1">>, <<"READY=1", "WATCHDOG=1", "STOPPING=1">>}

TimeoutsInv ==
    /\ TimeoutsTypeOK
    /\ Announcements
    /\ phase = "starting" => feedIn = 0 /\ heartIn = 0 /\ unlogged = 0
    /\ phase = "watched" =>
         /\ unpolled <= NotifyPeriod
         /\ OnTime(feedIn, unfed, FeedPeriod)
         /\ OnTime(heartIn, unlogged, HeartbeatPeriod)
    /\ BackOffDoubles

\* The interval leaves time for one feeding and one late call of notify().
LEMMA FeedPeriodFacts ==
    /\ FeedPeriod \in Nat /\ FeedPeriod > 0 /\ FeedPeriod + NotifyPeriod <= WatchdogInterval
    /\ WatchdogInterval \in Nat /\ NotifyPeriod \in Nat /\ HeartbeatPeriod \in Nat /\ HeartbeatPeriod > 0
    /\ MinPeriod \in Nat /\ MaxPeriod \in Nat /\ MinPeriod <= MaxPeriod
<1>1. /\ WatchdogInterval \in Nat /\ NotifyPeriod \in Nat /\ NotifyPeriod > 0 /\ 2 * NotifyPeriod <= WatchdogInterval
      /\ HeartbeatPeriod \in Nat /\ HeartbeatPeriod > 0
      /\ MinPeriod \in Nat /\ MaxPeriod \in Nat /\ MinPeriod <= MaxPeriod
    BY TimeoutsAssumption DEF TimeoutsAssumption
<1>. QED
    BY <1>1 DEF FeedPeriod

\* The timers begin consistently.
LEMMA TimeoutsInitially ==
    TimeoutsInit => TimeoutsInv
<1>. SUFFICES ASSUME TimeoutsInit PROVE TimeoutsInv
    OBVIOUS
<1>1. MinPeriod * 2^0 = MinPeriod
    BY FeedPeriodFacts, PowerOfZero
<1>. QED
    BY <1>1, FeedPeriodFacts
    DEF TimeoutsInit, NewTimeout, TimeoutsInv, TimeoutsTypeOK, Announcements, BackOffDoubles

\* The period after one more extend() is twice the one before, or the longest.
LEMMA ExtendKeeps ==
    ASSUME TimeoutsInv, Extend
    PROVE  BackOffDoubles'
<1>1. PICK p \in Nat : p = 2^extended /\ 2^(extended + 1) = 2 * p
    BY PowerCounts, PowerDoubles DEF TimeoutsInv, TimeoutsTypeOK
<1>2. /\ curPeriod = (IF MinPeriod * p < MaxPeriod THEN MinPeriod * p ELSE MaxPeriod)
      /\ curPeriod' = (IF curPeriod * 2 < MaxPeriod THEN curPeriod * 2 ELSE MaxPeriod)
      /\ extended' = extended + 1 /\ backIn' = curPeriod'
    BY <1>1 DEF TimeoutsInv, BackOffDoubles, Extend, NewTimeout
<1>3. PICK m \in Nat : m = MinPeriod * p /\ MinPeriod * (2 * p) = 2 * m
    BY FeedPeriodFacts
<1>4. curPeriod' = (IF 2 * m < MaxPeriod THEN 2 * m ELSE MaxPeriod) /\ curPeriod' \in Nat
    BY <1>2, <1>3, FeedPeriodFacts
<1>5. MinPeriod * 2^extended' = 2 * m
    BY <1>1, <1>2, <1>3, Zenon
<1>. QED
    BY <1>2, <1>4, <1>5 DEF BackOffDoubles

\* One more announcement, and the last one.
LEMMA AnnouncedThen ==
    ASSUME NEW a, NEW b, NEW c
    PROVE  /\ Append(<<a>>, b) = <<a, b>> /\ Append(<<a, b>>, c) = <<a, b, c>>
           /\ Len(<<a>>) = 1 /\ Len(<<a, b>>) = 2
<1>. DEFINE Z == {a, b, c}
<1>1. <<a>> \in Seq(Z) /\ <<a, b>> \in Seq(Z) /\ <<a, b, c>> \in Seq(Z) /\ b \in Z /\ c \in Z
    OBVIOUS
<1>2. Append(<<a>>, b) \in Seq(Z) /\ Append(<<a, b>>, c) \in Seq(Z)
    BY <1>1
<1>3. Append(<<a>>, b) = <<a, b>>
  <2>1. Len(<<a, b>>) = 2 /\ Len(Append(<<a>>, b)) = 2
    BY <1>1
  <2>2. \A i \in 1..2 : Append(<<a>>, b)[i] = <<a, b>>[i]
    BY <1>1
  <2>. QED
    BY <1>1, <1>2, <2>1, <2>2, SeqEqual
<1>4. Append(<<a, b>>, c) = <<a, b, c>>
  <2>1. Len(<<a, b, c>>) = 3 /\ Len(Append(<<a, b>>, c)) = 3
    BY <1>1
  <2>2. \A i \in 1..3 : Append(<<a, b>>, c)[i] = <<a, b, c>>[i]
    BY <1>1
  <2>. QED
    BY <1>1, <1>2, <2>1, <2>2, SeqEqual
<1>. QED
    BY <1>3, <1>4

\* Every step of the timers keeps the invariant.
LEMMA TimeoutsStepKeeps ==
    ASSUME TimeoutsInv, TimeoutsNext \/ UNCHANGED timeoutVars
    PROVE  TimeoutsInv'
<1>. USE FeedPeriodFacts DEF TimeoutsInv, TimeoutsTypeOK, OnTime
<1>1. CASE UNCHANGED timeoutVars
    BY <1>1 DEF timeoutVars, Announcements, BackOffDoubles
<1>2. CASE StartWatch
  <2>1. Announcements'
    BY <1>2 DEF StartWatch, Announcements
  <2>2. BackOffDoubles'
    BY <1>2 DEF StartWatch, BackOffDoubles
  <2>. QED
    BY <1>2, <2>1, <2>2 DEF StartWatch
<1>3. CASE NotifyAlive
  <2>1. Announcements'
    <3>1. CASE announced' = announced
      BY <1>3, <3>1 DEF NotifyAlive, Announcements
    <3>2. CASE announced' # announced
      <4>1. announced' = Append(announced, "WATCHDOG=1") /\ announced[Len(announced)] # "WATCHDOG=1"
        BY <1>3, <3>2 DEF NotifyAlive
      <4>2. announced = <<"READY=1">>
        BY <1>3, <4>1, AnnouncedThen DEF NotifyAlive, Announcements
      <4>3. announced' = <<"READY=1", "WATCHDOG=1">>
        BY <4>1, <4>2, AnnouncedThen, Zenon
      <4>. QED
        BY <1>3, <4>3 DEF NotifyAlive, Announcements
    <3>. QED
      BY <3>1, <3>2
  <2>2. BackOffDoubles'
    BY <1>3 DEF NotifyAlive, BackOffDoubles
  <2>. QED
    BY <1>3, <2>1, <2>2 DEF NotifyAlive, Polled, IsExpired, NewTimeout
<1>4. CASE AnnounceShutdown
  <2>1. Announcements'
    <3>1. announced' = Append(announced, "STOPPING=1") /\ phase' = "stopped"
      BY <1>4 DEF AnnounceShutdown
    <3>2. announced \in {<<"READY=1">>, <<"READY=1", "WATCHDOG=1">>}
      BY <1>4 DEF AnnounceShutdown, Announcements
    <3>3. announced' \in {<<"READY=1", "STOPPING=1">>, <<"READY=1", "WATCHDOG=1", "STOPPING=1">>}
      BY <3>1, <3>2, AnnouncedThen, Zenon
    <3>. QED
      BY <3>1, <3>3 DEF Announcements
  <2>2. BackOffDoubles'
    BY <1>4 DEF AnnounceShutdown, BackOffDoubles
  <2>. QED
    BY <1>4, <2>1, <2>2 DEF AnnounceShutdown
<1>5. CASE BackReset
    BY <1>5 DEF BackReset, NewTimeout, Announcements, BackOffDoubles
<1>6. CASE RewindBackOff
  <2>1. MinPeriod * 2^0 = MinPeriod
    BY PowerOfZero
  <2>. QED
    BY <1>6, <2>1 DEF RewindBackOff, NewTimeout, Announcements, BackOffDoubles
<1>7. CASE Extend
  <2>1. BackOffDoubles'
    BY <1>7, ExtendKeeps
  <2>. QED
    BY <1>7, <2>1 DEF Extend, NewTimeout, Announcements
<1>8. CASE Tick
  <2>1. Announcements'
    BY <1>8 DEF Tick, Announcements
  <2>2. BackOffDoubles'
    BY <1>8 DEF Tick, AfterTick, BackOffDoubles
  <2>. QED
    BY <1>8, <2>1, <2>2 DEF Tick, AfterTick
<1>. QED
    BY <1>1, <1>2, <1>3, <1>4, <1>5, <1>6, <1>7, <1>8 DEF TimeoutsNext

\* The watchdog is fed in time and the back-off is a power of two.
LEMMA TimeoutsInvSuffices ==
    TimeoutsInv => WatchdogFed /\ BackOffDoubles
BY FeedPeriodFacts DEF TimeoutsInv, TimeoutsTypeOK, OnTime, WatchdogFed, Announcements

-----------------------------------------------------------------------------
(* The histories.                                                          *)

\* The revisions are sequences of numbers, and the last of what has passed.
HistoriesInv ==
    /\ revisions \in Seq(Int) /\ Len(revisions) = Revisions
    /\ past \in Seq(Int) /\ Len(past) >= Revisions
    /\ \A i \in 1..Revisions : revisions[i] = past[Len(past) - Revisions + i]

\* SumOf is the last of the sums of a sequence.
LEMMA SumOfFacts ==
    ASSUME NEW s \in Seq(Int)
    PROVE  \E f : Sums(f, s, Len(s)) /\ SumOf(s) = f[Len(s)]
<1>. DEFINE sum == CHOOSE f : f = [i \in 0..Len(s) |-> IF i = 0 THEN 0 ELSE f[i - 1] + s[i]]
<1>1. SumOf(s) = sum[Len(s)]
    BY Zenon DEF SumOf
<1>2. \E f : f = [i \in 0..Len(s) |-> IF i = 0 THEN 0 ELSE f[i - 1] + s[i]]
  <2>1. Len(s) \in 0..Len(s)
    OBVIOUS
  <2>. QED
    BY <2>1, SumsExist, Zenon DEF Sums
<1>3. sum = [i \in 0..Len(s) |-> IF i = 0 THEN 0 ELSE sum[i - 1] + s[i]]
    BY <1>2, Zenon
<1>. QED
    BY <1>1, <1>3, Zenon DEF Sums

\* The steps from each number of a sequence to the next.
LEMMA DeltasFacts ==
    ASSUME NEW vs \in Seq(Int), Len(vs) >= 2
    PROVE  /\ StoredDeltas(vs) \in Seq(Int) /\ Len(StoredDeltas(vs)) = Len(vs) - 1
           /\ \A i \in 1..(Len(vs) - 1) : StoredDeltas(vs)[i] = vs[i + 1] - vs[i]
<1>1. Len(vs) - 1 \in Nat /\ \A i \in 1..(Len(vs) - 1) : vs[i + 1] - vs[i] \in Int
    OBVIOUS
<1>. QED
    BY <1>1 DEF StoredDeltas

\* add up to the way from the first to the last.
LEMMA DeltasTelescope ==
    ASSUME NEW vs \in Seq(Int), Len(vs) >= 2
    PROVE  SumOf(StoredDeltas(vs)) = vs[Len(vs)] - vs[1]
<1>. DEFINE n == Len(vs) - 1
            ds == StoredDeltas(vs)
<1>1. n \in Nat /\ ds \in Seq(Int) /\ Len(ds) = n /\ \A i \in 1..n : ds[i] = vs[i + 1] - vs[i]
    BY DeltasFacts
<1>. HIDE DEF ds
<1>2. PICK f : Sums(f, ds, n) /\ SumOf(ds) = f[n]
    BY <1>1, SumOfFacts, Zenon
<1>3. f[0] = 0 /\ \A i \in 1..n : f[i] = f[i - 1] + ds[i]
    BY <1>1, <1>2, SumsFacts, Zenon
<1>. DEFINE Z == {k \in Nat : k <= n => f[k] = vs[k + 1] - vs[1]}
<1>4. 0 \in Z
    BY <1>3
<1>5. ASSUME NEW k \in Nat, k \in Z PROVE k + 1 \in Z
  <2>. SUFFICES ASSUME k + 1 <= n PROVE f[k + 1] = vs[k + 2] - vs[1]
    OBVIOUS
  <2>0. k + 1 \in 1..n /\ k <= n /\ (k + 1) - 1 = k /\ (k + 1) + 1 = k + 2
    BY <1>1
  <2>1. f[k + 1] = f[k] + ds[k + 1]
    BY <1>3, <2>0
  <2>3. ds[k + 1] = vs[k + 2] - vs[k + 1]
    BY <1>1, <2>0
  <2>4. f[k] = vs[k + 1] - vs[1]
    BY <1>5, <2>0
  <2>2. vs[k + 1] \in Int /\ vs[k + 2] \in Int /\ vs[1] \in Int
    OBVIOUS
  <2>. QED
    BY <2>1, <2>2, <2>3, <2>4
<1>. HIDE DEF Z
<1>6. Nat \subseteq Z
    BY <1>4, <1>5, SetInduction, Zenon
<1>7. n \in Z
    BY <1>1, <1>6
<1>. QED
    BY <1>1, <1>2, <1>7 DEF Z, ds

\* All revisions begin as the initial value.
LEMMA HistoriesInitially ==
    HistoriesInit => HistoriesInv
BY HistoriesAssumption DEF HistoriesInit, HistoriesInv, HistoriesAssumption

\* A value that becomes current is the last of the revisions and of the past.
LEMMA BecomesKeeps ==
    ASSUME HistoriesInv, NEW v \in Int, Becomes(SetCurrent(Shift(revisions), v))
    PROVE  HistoriesInv'
<1>. DEFINE N == Revisions
<1>0. N \in Nat /\ N >= 2
    BY HistoriesAssumption DEF HistoriesAssumption
<1>1. /\ Tail(revisions) \in Seq(Int) /\ Len(Tail(revisions)) = N - 1 /\ Head(revisions) \in Int
      /\ \A i \in 1..(N - 1) : Tail(revisions)[i] = revisions[i + 1]
    BY <1>0 DEF HistoriesInv
<1>2. /\ Shift(revisions) \in Seq(Int) /\ Len(Shift(revisions)) = N
      /\ \A i \in 1..(N - 1) : Shift(revisions)[i] = revisions[i + 1]
    BY <1>0, <1>1 DEF Shift
<1>3. /\ revisions' \in Seq(Int) /\ Len(revisions') = N /\ revisions'[N] = v
      /\ \A i \in 1..(N - 1) : revisions'[i] = revisions[i + 1]
    BY <1>0, <1>2 DEF Becomes, SetCurrent
<1>4. Last(revisions') = v
    BY <1>3 DEF Last
<1>5. /\ past' \in Seq(Int) /\ Len(past') = Len(past) + 1 /\ past'[Len(past) + 1] = v
      /\ \A i \in 1..Len(past) : past'[i] = past[i]
  <2>1. past' = Append(past, v)
    BY <1>4 DEF Becomes
  <2>. QED
    BY <2>1 DEF HistoriesInv
<1>. DEFINE m == Len(past)
<1>6. m \in Nat /\ m >= N /\ \A i \in 1..N : revisions[i] = past[m - N + i]
    BY DEF HistoriesInv
<1>. HIDE DEF m
<1>7. ASSUME NEW i \in 1..N PROVE revisions'[i] = past'[(m + 1) - N + i]
  <2>1. CASE i = N
    <3>1. (m + 1) - N + i = m + 1
      BY <1>0, <1>6, <2>1
    <3>. QED
      BY <1>3, <1>5, <2>1, <3>1, Zenon DEF m
  <2>2. CASE i # N
    <3>1. i \in 1..(N - 1) /\ i + 1 \in 1..N /\ (m + 1) - N + i = m - N + (i + 1) /\ m - N + (i + 1) \in 1..m
      BY <1>0, <1>6, <2>2
    <3>2. revisions'[i] = past[m - N + (i + 1)]
      BY <1>3, <1>6, <3>1, Zenon
    <3>. QED
      BY <1>5, <3>1, <3>2, Zenon DEF m
  <2>. QED
    BY <2>1, <2>2
<1>. QED
    BY <1>0, <1>3, <1>5, <1>6, <1>7 DEF HistoriesInv, m

\* Every step of a history keeps the invariant.
LEMMA HistoriesStepKeeps ==
    ASSUME HistoriesInv, HistoriesNext \/ UNCHANGED historyVars
    PROVE  HistoriesInv'
<1>1. CASE UNCHANGED historyVars
    BY <1>1 DEF historyVars, HistoriesInv
<1>2. ASSUME NEW v \in HistVals, PushValue(v) PROVE HistoriesInv'
  <2>1. v \in Int
    BY HistoriesAssumption DEF HistoriesAssumption
  <2>. QED
    BY <1>2, <2>1, BecomesKeeps DEF PushValue
<1>3. ASSUME NEW d \in Deltas, Advance(d) PROVE HistoriesInv'
  <2>1. Last(Shift(revisions)) + d \in Int
    BY <1>3, HistoriesAssumption DEF HistoriesAssumption, Advance
  <2>. QED
    BY <1>3, <2>1, BecomesKeeps DEF Advance
<1>4. CASE Sync
  <2>1. Revisions \in Nat /\ Revisions >= 2 /\ Last(revisions) \in Int
    BY HistoriesAssumption DEF HistoriesInv, HistoriesAssumption, Last
  <2>2. /\ revisions' = [i \in 1..Revisions |-> Last(revisions)]
        /\ past' = [i \in 1..Revisions |-> Last(revisions)]
    BY <1>4 DEF Sync
  <2>3. revisions' \in Seq(Int) /\ Len(revisions') = Revisions /\ past' = revisions'
    BY <2>1, <2>2
  <2>4. \A i \in 1..Revisions : Len(past') - Revisions + i = i
    BY <2>1, <2>3
  <2>5. /\ past' \in Seq(Int) /\ Len(past') = Revisions
        /\ \A i \in 1..Revisions : revisions'[i] = past'[Len(past') - Revisions + i]
    BY <2>1, <2>3, <2>4
  <2>6. Len(past') >= Revisions
    BY <2>1, <2>5
  <2>. QED
    BY <2>3, <2>5, <2>6 DEF HistoriesInv
<1>. QED
    BY <1>1, <1>2, <1>3, <1>4 DEF HistoriesNext, AssignValue

\* Revision, delta and distance are those of the last values.
LEMMA HistoriesInvSuffices ==
    HistoriesInv => HistoryRemembers
<1>. SUFFICES ASSUME HistoriesInv PROVE HistoryRemembers
    OBVIOUS
<1>. DEFINE N == Revisions
<1>0. N \in Nat /\ N >= 2 /\ revisions \in Seq(Int) /\ Len(revisions) = N
    BY HistoriesAssumption DEF HistoriesAssumption, HistoriesInv
<1>1. revisions = SubSeq(past, Len(past) - N + 1, Len(past))
  <2>. DEFINE s == SubSeq(past, Len(past) - N + 1, Len(past))
  <2>0. past \in Seq(Int) /\ Len(past) \in Nat /\ Len(past) >= N
    BY DEF HistoriesInv
  <2>1. s \in Seq(Int) /\ Len(s) = N /\ \A i \in 1..N : s[i] = past[Len(past) - N + i]
    <3>1. /\ Len(past) - N + 1 \in 1..Len(past) + 1 /\ Len(past) \in (Len(past) - N)..Len(past)
          /\ Len(past) - (Len(past) - N + 1) + 1 = N
      BY <1>0, <2>0
    <3>2. s \in Seq(Int) /\ Len(s) = N
      BY <1>0, <2>0, <3>1
    <3>3. \A i \in 1..N : s[i] = past[(Len(past) - N + 1) + i - 1] /\ (Len(past) - N + 1) + i - 1 = Len(past) - N + i
      BY <1>0, <2>0, <3>1
    <3>. QED
      BY <3>2, <3>3
  <2>. HIDE DEF s
  <2>2. \A i \in 1..N : revisions[i] = s[i]
    BY <2>1 DEF HistoriesInv
  <2>3. revisions = s
    BY <1>0, <2>1, <2>2, SeqEqual
  <2>. QED
    BY <2>3 DEF s
<1>2. SumOf(StoredDeltas(revisions)) = Last(revisions) - Head(revisions)
    BY <1>0, DeltasTelescope DEF Last
<1>3. Delta(revisions) = revisions[N] - revisions[N - 1]
    BY <1>0 DEF Delta, HistGet
<1>4. Last(StoredDeltas(revisions)) = Delta(revisions)
  <2>1. N - 1 \in 1..(N - 1) /\ (N - 1) + 1 = N
    BY <1>0
  <2>2. Len(StoredDeltas(revisions)) = N - 1 /\ StoredDeltas(revisions)[N - 1] = revisions[N] - revisions[N - 1]
    BY <1>0, <2>1, DeltasFacts
  <2>. QED
    BY <1>3, <2>2 DEF Last
<1>5. HasChanged(revisions) = (Delta(revisions) # 0)
    BY <1>0, <1>3 DEF HasChanged, HistGet
<1>6. TransformHistory(revisions, revisions, [ab \in ToSet(revisions) \X ToSet(revisions) |-> ab[1] - ab[2]]) = [i \in 1..N |-> 0]
  <2>1. \A i \in 1..N : revisions[i] \in ToSet(revisions) /\ revisions[i] - revisions[i] = 0
    BY <1>0 DEF ToSet
  <2>2. DOMAIN revisions = 1..N
    BY <1>0
  <2>. DEFINE op == [ab \in ToSet(revisions) \X ToSet(revisions) |-> ab[1] - ab[2]]
  <2>3. \A i \in 1..N : op[<<revisions[i], revisions[i]>>] = 0
    BY <2>1
  <2>. HIDE DEF op
  <2>4. TransformHistory(revisions, revisions, op) = [i \in 1..N |-> 0]
    BY <2>2, <2>3 DEF TransformHistory
  <2>. QED
    BY <2>4 DEF op
<1>. QED
    BY <1>1, <1>2, <1>4, <1>5, <1>6 DEF HistoryRemembers

-----------------------------------------------------------------------------
(* The life of the main context.                                           *)

MemberCount == 15

MemberNames == {Members[i] : i \in 1..MemberCount}

\* Where the members are that the others rely on.
LEMMA MembersFacts ==
    /\ Members \in Seq(MemberNames) /\ Len(Members) = MemberCount
    /\ MemberCount \in Nat /\ MemberCount > 14
    /\ Members[13] = "app_name" /\ Members[14] = "services" /\ Members[MemberCount] = "random"
    /\ \A i \in 1..MemberCount :
         /\ Members[i] = "log" => i = 3
         /\ Members[i] = "workers" => i = 12
         /\ Members[i] = "app_name" => i = 13
         /\ Members[i] = "services" => i = 14
         /\ Members[i] = "random" => i = MemberCount
<1>1. Members \in Seq(MemberNames) /\ Len(Members) = 15
    BY DEF Members, MemberNames, MemberCount
<1>2. /\ Members[1] = "args" /\ Members[2] = "console" /\ Members[3] = "log" /\ Members[4] = "progress"
      /\ Members[5] = "system" /\ Members[6] = "user" /\ Members[7] = "watchdog" /\ Members[8] = "config"
      /\ Members[9] = "buffers" /\ Members[10] = "compressor" /\ Members[11] = "scheduler"
      /\ Members[12] = "workers" /\ Members[13] = "app_name" /\ Members[14] = "services" /\ Members[15] = "random"
    BY DEF Members
<1>3. \A i \in 1..15 : \/ i = 1 \/ i = 2 \/ i = 3 \/ i = 4 \/ i = 5 \/ i = 6 \/ i = 7 \/ i = 8
                         \/ i = 9 \/ i = 10 \/ i = 11 \/ i = 12 \/ i = 13 \/ i = 14 \/ i = 15
    OBVIOUS
<1>. QED
    BY <1>1, <1>2, <1>3 DEF MemberCount

\* The name the storage has, by the number of its members.
NameAfter(n) == IF n >= 13 /\ AppNameGiven THEN "given" ELSE "empty"

FirstName == IF AppNameGiven THEN "given" ELSE "stem"

\* The members that exist are the first ones.
AliveInOrder ==
    /\ alive \in Seq(MemberNames) /\ Len(alive) <= MemberCount
    /\ \A i \in 1..Len(alive) : alive[i] = Members[i]

(***************************************************************************)
(* What each stage knows: which members exist, whether the context is      *)
(* published, what was logged, and what the process will return.           *)
(***************************************************************************)
MainInv ==
    /\ stage \in {"start", "storage", "main", "down", "failed", "exit", "terminated"}
    /\ theCtx \in BOOLEAN
    /\ AliveInOrder
    /\ stage = "start" =>
         /\ ~theCtx /\ tags = <<>> /\ appName = NameAfter(Len(alive))
         /\ Len(alive) = MemberCount => seedAsked = NameAfter(MemberCount)
    /\ stage = "storage" =>
         /\ ~theCtx /\ tags = <<>> /\ Len(alive) = MemberCount
         /\ appName = FirstName /\ (AppNameGiven => seedAsked = FirstName)
    /\ stage = "main" =>
         /\ theCtx /\ tags = <<"mainStart">> /\ Len(alive) = MemberCount
         /\ AppNameGiven => seedAsked = appName
    /\ stage = "down" =>
         /\ tags = <<"mainStart", "mainFinish">> /\ result \in {0, 1, 123, 124}
         /\ theCtx => Len(alive) = MemberCount
    /\ stage = "failed" => theCtx /\ tags = <<>> /\ result \in {121, 122, 125}
    /\ stage = "exit" =>
         \/ theCtx /\ tags = <<>> /\ result \in {121, 122, 125}
         \/ ~theCtx /\ tags = <<"mainStart", "mainFinish">> /\ result \in {0, 1, 123, 124}
    /\ (stage = "terminated" /\ theCtx) => Len(alive) = MemberCount
    /\ injected # {} => stage \notin {"start", "storage", "failed"} /\ Len(alive) >= 14

\* Nothing is alive before main_impl.
LEMMA MainInitially ==
    MainInit => MainInv
<1>. SUFFICES ASSUME MainInit PROVE MainInv
    OBVIOUS
<1>1. alive = <<>> /\ Len(alive) = 0 /\ alive \in Seq(MemberNames)
    BY DEF MainInit
<1>2. AliveInOrder
    BY <1>1, MembersFacts DEF AliveInOrder
<1>3. /\ stage = "start" /\ theCtx = FALSE /\ tags = <<>> /\ appName = "empty" /\ injected = {}
      /\ Len(alive) = 0
    BY <1>1 DEF MainInit
<1>4. NameAfter(Len(alive)) = "empty" /\ Len(alive) # MemberCount
    BY <1>3, MembersFacts DEF NameAfter
<1>. QED
    BY <1>2, <1>3, <1>4 DEF MainInv

\* A member that comes up is the next one in the order.
LEMMA ConstructKeeps ==
    ASSUME MainInv, ConstructMember
    PROVE  MainInv'
<1>. DEFINE n == Len(alive)
            m == Members[n + 1]
<1>1. /\ n \in Nat /\ n < MemberCount /\ alive \in Seq(MemberNames) /\ m \in MemberNames
      /\ \A i \in 1..n : alive[i] = Members[i]
    BY MembersFacts DEF ConstructMember, MainInv, AliveInOrder
<1>2. /\ alive' = Append(alive, m)
      /\ appName' = (IF m = "app_name" THEN (IF AppNameGiven THEN "given" ELSE "empty") ELSE appName)
      /\ seedAsked' = (IF m = "random" THEN appName ELSE seedAsked)
      /\ stage = "start" /\ UNCHANGED <<stage, theCtx, tags, result, injected, updates>>
    BY DEF ConstructMember
<1>3. /\ alive' \in Seq(MemberNames) /\ Len(alive') = n + 1
      /\ \A i \in 1..(n + 1) : alive'[i] = Members[i]
    BY <1>1, <1>2
<1>. HIDE DEF n
<1>4. n + 1 \in 1..MemberCount
    BY <1>1, MembersFacts
<1>5. appName = NameAfter(n) /\ injected = {} /\ ~theCtx /\ tags = <<>>
    BY <1>2 DEF MainInv, n
<1>6. appName' = NameAfter(n + 1)
    BY <1>1, <1>2, <1>4, <1>5, MembersFacts DEF NameAfter
<1>7. n + 1 = MemberCount => seedAsked' = NameAfter(MemberCount)
    BY <1>1, <1>2, <1>5, MembersFacts DEF NameAfter
<1>8. AliveInOrder'
    BY <1>1, <1>3, <1>4 DEF AliveInOrder
<1>. QED
    BY <1>2, <1>3, <1>5, <1>6, <1>7, <1>8 DEF MainInv

\* A member that goes is the last one, and the services take what was
\* injected with them.
LEMMA DestroyKeeps ==
    ASSUME MainInv, DestroyMember
    PROVE  MainInv'
<1>1. CASE alive = <<>>
  <2>1. stage' = "exit" /\ alive' = alive /\ injected' = injected /\ UNCHANGED <<theCtx, appName, seedAsked, tags, result, updates>>
    BY <1>1 DEF DestroyMember
  <2>2. injected = {}
    BY <1>1 DEF MainInv
  <2>. QED
    BY <1>1, <2>1, <2>2 DEF DestroyMember, MainInv, AliveInOrder
<1>2. CASE alive # <<>>
  <2>. DEFINE n == Len(alive)
  <2>0. alive \in Seq(MemberNames) /\ Len(alive) <= MemberCount /\ \A i \in 1..Len(alive) : alive[i] = Members[i]
    BY DEF MainInv, AliveInOrder
  <2>1. n \in 1..MemberCount /\ alive \in Seq(MemberNames) /\ \A i \in 1..n : alive[i] = Members[i]
    <3>1. n \in Nat \ {0}
      BY <1>2, <2>0, EmptySeq
    <3>. QED
      BY <2>0, <3>1, MembersFacts
  <2>2. /\ alive' = Front(alive) /\ stage' = stage /\ UNCHANGED <<theCtx, appName, seedAsked, tags, result, updates>>
        /\ injected' = (IF Last(alive) = "services" THEN {} ELSE injected)
        /\ stage = "failed" \/ (stage = "down" /\ ~theCtx)
    BY <1>2 DEF DestroyMember
  <2>3. alive' \in Seq(MemberNames) /\ Len(alive') = n - 1 /\ \A i \in 1..(n - 1) : alive'[i] = Members[i]
    <3>1. alive' = SubSeq(alive, 1, n - 1)
      BY <2>2, Zenon DEF Front
    <3>2. n \in Nat /\ n >= 1 /\ n = Len(alive)
      BY <2>1, MembersFacts
    <3>3. SubSeq(alive, 1, n - 1) \in Seq(MemberNames) /\ Len(SubSeq(alive, 1, n - 1)) = n - 1
      <4>. HIDE DEF n
      <4>1. alive \in Seq(MemberNames) /\ 1 \in 1..(Len(alive) + 1) /\ n - 1 \in 0..Len(alive)
        BY <2>1, <3>2
      <4>. QED
        BY <3>2, <4>1
    <3>4. \A i \in 1..(n - 1) : SubSeq(alive, 1, n - 1)[i] = alive[i] /\ i \in 1..n
      BY <2>1, <3>2
    <3>. QED
      BY <2>1, <3>1, <3>3, <3>4, Zenon
  <2>4. Last(alive) = Members[n]
    BY <2>1 DEF Last
  <2>. HIDE DEF n
  <2>5. AliveInOrder'
    BY <2>1, <2>3, MembersFacts DEF AliveInOrder
  <2>6. injected' # {} => stage \notin {"start", "storage", "failed"} /\ n >= 14 /\ n # 14
    <3>1. injected # {} => stage \notin {"start", "storage", "failed"} /\ n >= 14
      BY DEF MainInv, n
    <3>2. n = 14 => Last(alive) = "services"
      BY <2>4, MembersFacts, Zenon
    <3>. QED
      BY <2>2, <3>1, <3>2, Zenon
  <2>7. injected' # {} => n - 1 >= 14
    BY <2>1, <2>6, MembersFacts
  <2>. QED
    BY <2>2, <2>3, <2>5, <2>6, <2>7 DEF MainInv
<1>. QED
    BY <1>1, <1>2

\* Every step of a process keeps the invariant.
LEMMA MainStepKeeps ==
    ASSUME MainInv, MainNext \/ UNCHANGED mainVars
    PROVE  MainInv'
<1>. USE DEF MainInv, AliveInOrder
<1>1. CASE UNCHANGED mainVars
    BY <1>1 DEF mainVars
<1>2. CASE FinishStorage
  <2>1. Len(alive) = MemberCount
    BY <1>2, MembersFacts DEF FinishStorage
  <2>. QED
    BY <1>2, <2>1, MembersFacts DEF FinishStorage, NameAfter, FirstName
<1>3. CASE EnterMain
  <2>1. tags' = <<"mainStart">>
    BY <1>3 DEF EnterMain
  <2>. QED
    BY <1>3, <2>1 DEF EnterMain
<1>4. CASE Update
    BY <1>4 DEF Update
<1>5. CASE ThrowOther
    BY <1>5, MembersFacts DEF ThrowOther
<1>6. CASE StorageThrows
    BY <1>6 DEF StorageThrows
<1>7. ASSUME NEW c \in {121, 122, 125}, ConfigureFails(c) PROVE MainInv'
    BY <1>7 DEF ConfigureFails
<1>8. ASSUME NEW s \in Services, Inject(s) PROVE MainInv'
  <2>1. /\ stage = "main" /\ stage' = stage /\ injected' = injected \cup {s}
        /\ UNCHANGED <<alive, theCtx, appName, seedAsked, tags, result>>
    BY <1>8 DEF Inject
  <2>. QED
    BY <2>1, MembersFacts
<1>9. ASSUME NEW c \in {0, 1, 123, 124}, LeaveMain(c) PROVE MainInv'
  <2>1. tags' = Append(<<"mainStart">>, "mainFinish")
    BY <1>9 DEF LeaveMain
  <2>2. tags' = <<"mainStart", "mainFinish">>
    BY <2>1, AnnouncedThen, Zenon
  <2>. QED
    BY <1>9, <2>2 DEF LeaveMain
<1>10. CASE DestroyContext
    BY <1>10 DEF DestroyContext
<1>. QED
    BY <1>1, <1>2, <1>3, <1>4, <1>5, <1>6, <1>7, <1>8, <1>9, <1>10, ConstructKeeps, DestroyKeeps DEF MainNext

\* Whoever uses a member of the context finds it alive.
LEMMA MainInvSuffices ==
    MainInv => ContextOutlivesItsUsers
<1>. SUFFICES ASSUME MainInv PROVE ContextOutlivesItsUsers
    OBVIOUS
<1>1. /\ alive \in Seq(MemberNames) /\ Len(alive) \in Nat /\ Len(alive) <= MemberCount
      /\ \A i \in DOMAIN alive : i \in 1..MemberCount /\ alive[i] = Members[i]
  <2>1. alive \in Seq(MemberNames) /\ Len(alive) <= MemberCount /\ \A i \in 1..Len(alive) : alive[i] = Members[i]
    BY DEF MainInv, AliveInOrder
  <2>2. DOMAIN alive = 1..Len(alive) /\ Len(alive) \in Nat
    BY <2>1
  <2>. QED
    BY <2>1, <2>2, MembersFacts
<1>2. Len(alive) = MemberCount => alive = Members
    BY <1>1, MembersFacts, SeqEqual DEF MainInv, AliveInOrder
<1>3. theCtx /\ stage \notin {"failed", "exit", "terminated"} => alive = Members
    BY <1>2 DEF MainInv
<1>4. \A i, j \in DOMAIN alive : alive[i] = "log" /\ alive[j] \in {"workers", "services"} => i < j
    BY <1>1, MembersFacts
<1>5. Len(alive) >= 14 => \E i \in DOMAIN alive : alive[i] = "services"
  <2>1. Len(alive) >= 14 => 14 \in DOMAIN alive
    BY <1>1
  <2>. QED
    BY <1>1, <2>1, MembersFacts
<1>6. injected # {} => \E i \in DOMAIN alive : alive[i] = "services"
    BY <1>5 DEF MainInv
<1>7. \A s \in Services : stage = "main" /\ s \in injected => Located(s)
    BY <1>6 DEF Located
<1>8. stage = "exit" => tags \in {<<>>, <<"mainStart", "mainFinish">>}
    BY DEF MainInv
<1>9. stage = "exit" => (tags = <<>> <=> result \in {121, 122, 125}) /\ (tags = <<>> <=> theCtx)
  <2>1. <<"mainStart", "mainFinish">> # <<>>
    BY AnnouncedThen
  <2>. SUFFICES ASSUME stage = "exit"
                PROVE  (tags = <<>> <=> result \in {121, 122, 125}) /\ (tags = <<>> <=> theCtx)
    OBVIOUS
  <2>2. CASE theCtx /\ tags = <<>> /\ result \in {121, 122, 125}
    BY <2>2
  <2>3. CASE ~theCtx /\ tags = <<"mainStart", "mainFinish">> /\ result \in {0, 1, 123, 124}
    <3>1. tags # <<>>
      BY <2>1, <2>3, Zenon
    <3>2. result \notin {121, 122, 125}
      BY <2>3
    <3>. QED
      BY <2>3, <3>1, <3>2, Zenon
  <2>. QED
    BY <2>2, <2>3 DEF MainInv
<1>10. AppNameGiven /\ stage = "main" => seedAsked = appName
    BY DEF MainInv
<1>. QED
    BY <1>3, <1>4, <1>6, <1>7, <1>8, <1>9, <1>10 DEF ContextOutlivesItsUsers

-----------------------------------------------------------------------------
(* The configuration.                                                      *)

ConfigTypeOK ==
    /\ disk \in [Places -> FileContent \cup {NoFile}]
    /\ values \in [Loaders -> {NoValue} \cup [key : ConfigKeys, val : ConfigVals]]

ConfigInv == ConfigTypeOK /\ ReloadedValuesAreCurrent

\* The places whose files say something of a key, by their position.
Having(key) == {n \in DOMAIN SearchOrder : disk[SearchOrder[n]] # NoFile /\ disk[SearchOrder[n]][key] # None}

\* The positions in the order of the search are numbers.
LEMMA SearchOrderFacts ==
    /\ DOMAIN SearchOrder \subseteq Nat \ {0}
    /\ \A n \in DOMAIN SearchOrder : SearchOrder[n] \in Places
    /\ \A p \in Places : \E n \in DOMAIN SearchOrder : SearchOrder[n] = p
<1>1. DOMAIN SearchOrder \subseteq Nat \ {0}
  <2>1. \A x : DOMAIN SearchOrder = 1..(Len(Groups) * 3 * Len(TagOrNone) * 2 + 1)
    BY Zenon DEF SearchOrder
  <2>. DEFINE m == Len(Groups) * 3 * Len(TagOrNone) * 2 + 1
  <2>2. DOMAIN SearchOrder = 1..m
    BY <2>1
  <2>. HIDE DEF m
  <2>. QED
    BY <2>2
<1>. QED
    BY <1>1, Zenon DEF Places

\* When no file is open the search finds the first place that has the key.
LEMMA FoundFirst ==
    ASSUME NEW key, NEW empty, empty = [p \in Places |-> NoFile]
    PROVE  LET n == FoundAt(key, disk, empty)
           IN  \/ Having(key) = {} /\ FromFiles(key, disk, empty) = None
               \/ /\ n \in Having(key) /\ \A m \in Having(key) : n <= m
                  /\ FromFiles(key, disk, empty) = disk[SearchOrder[n]][key]
<1>. DEFINE n == FoundAt(key, disk, empty)
<1>1. \A m \in DOMAIN SearchOrder : ConfigAt(SearchOrder[m], disk, empty) = disk[SearchOrder[m]]
    BY SearchOrderFacts, Zenon DEF ConfigAt
<1>2. n = IF Having(key) = {} THEN 0 ELSE CHOOSE m \in Having(key) : \A k \in Having(key) : m <= k
  <2>. DEFINE has == {m \in DOMAIN SearchOrder :
                        LET c == ConfigAt(SearchOrder[m], disk, empty) IN c # NoFile /\ c[key] # None}
  <2>1. has = Having(key)
    BY <1>1, Zenon DEF Having
  <2>2. n = IF has = {} THEN 0 ELSE CHOOSE m \in has : \A k \in has : m <= k
    BY DEF FoundAt
  <2>. QED
    BY <2>1, <2>2, Zenon
<1>3. Having(key) \subseteq Nat \ {0}
    BY SearchOrderFacts DEF Having
<1>4. FromFiles(key, disk, empty) = IF n = 0 THEN None ELSE ConfigAt(SearchOrder[n], disk, empty)[key]
    BY Zenon DEF FromFiles
<1>. HIDE DEF n
<1>5. CASE Having(key) = {}
    BY <1>2, <1>4, <1>5, Zenon DEF n
<1>6. CASE Having(key) # {}
  <2>1. \E m \in Having(key) : \A k \in Having(key) : m <= k
    BY <1>3, <1>6, Least
  <2>2. n = CHOOSE m \in Having(key) : \A k \in Having(key) : m <= k
    BY <1>2, <1>6, Zenon
  <2>3. n \in Having(key) /\ \A m \in Having(key) : n <= m
    BY <2>1, <2>2, Zenon
  <2>4. n # 0
    BY <1>3, <2>3
  <2>5. n \in DOMAIN SearchOrder
    BY <2>3 DEF Having
  <2>6. FromFiles(key, disk, empty) = disk[SearchOrder[n]][key]
    BY <1>1, <1>4, <2>4, <2>5, Zenon
  <2>. QED
    BY <2>3, <2>6, Zenon DEF n
<1>. QED
    BY <1>5, <1>6

\* The first of the files that have a key comes before all the others.
LEMMA FirstPrecedes ==
    ASSUME NEW key, NEW n \in Having(key), \A m \in Having(key) : n <= m,
           NEW q \in Places, disk[q] # NoFile, disk[q][key] # None, q # SearchOrder[n]
    PROVE  Precedes(SearchOrder[n], q)
<1>1. PICK m \in DOMAIN SearchOrder : SearchOrder[m] = q
    BY SearchOrderFacts
<1>2. m \in Having(key) /\ n \in DOMAIN SearchOrder
    BY <1>1 DEF Having
<1>3. n < m
  <2>1. n <= m /\ n # m
    BY <1>1, <1>2
  <2>2. n \in Nat /\ m \in Nat
    BY <1>1, <1>2, SearchOrderFacts
  <2>. QED
    BY <2>1, <2>2
<1>. QED
    BY <1>1, <1>2, <1>3, Zenon DEF Precedes

\* What a linked value is after it was fetched anew.
CurrentOf(k, v) ==
    \/ v = argOf[k]
    \/ argOf[k] \notin ConfigVals /\ v = envOf[k]
    \/ /\ {argOf[k], envOf[k]} \cap ConfigVals = {}
       /\ LET having == {p \in Places : disk[p] # NoFile /\ disk[p][k] # None}
          IN  \/ having = {}
              \/ \E p \in having : /\ \A q \in having \ {p} : Precedes(p, q)
                                   /\ disk[p][k] \in {v, Unreadable}

\* As long as the sources stay what they are.
LEMMA CurrentStays ==
    ASSUME NEW k, NEW v, CurrentOf(k, v), UNCHANGED <<argOf, envOf, disk>>
    PROVE  CurrentOf(k, v)'
BY Zenon DEF CurrentOf

\* A value that is fetched from its sources is current, and so is any other
\* one for which they have nothing.
LEMMA FetchedIsCurrent ==
    ASSUME ConfigTypeOK, NEW k \in ConfigKeys, NEW empty, empty = [p \in Places |-> NoFile], NEW old,
           NEW v, v = Fetched(k, argOf, envOf, disk, empty)
    PROVE  CurrentOf(k, IF v = None THEN old ELSE v)
<1>. DEFINE now == IF v = None THEN old ELSE v
<1>0. None \notin ConfigVals /\ Unreadable \notin ConfigVals
    BY ConfigAssumption DEF ConfigAssumption
<1>1. CASE argOf[k] \in ConfigVals
  <2>1. v = argOf[k]
    BY <1>1, Zenon DEF Fetched
  <2>. QED
    BY <1>0, <1>1, <2>1, Zenon DEF CurrentOf
<1>2. CASE argOf[k] \notin ConfigVals /\ envOf[k] \in ConfigVals
  <2>1. v = envOf[k]
    BY <1>2, Zenon DEF Fetched
  <2>. QED
    BY <1>0, <1>2, <2>1, Zenon DEF CurrentOf
<1>3. CASE argOf[k] \notin ConfigVals /\ envOf[k] \notin ConfigVals
  <2>. DEFINE w == FromFiles(k, disk, empty)
              having == {p \in Places : disk[p] # NoFile /\ disk[p][k] # None}
              n == FoundAt(k, disk, empty)
  <2>1. v = IF w \in ConfigVals THEN w ELSE None
    BY <1>3, Zenon DEF Fetched
  <2>2. {argOf[k], envOf[k]} \cap ConfigVals = {}
    BY <1>3
  <2>3. CASE Having(k) = {}
    <3>1. having = {}
      BY <2>3, SearchOrderFacts DEF Having
    <3>. QED
      BY <2>2, <3>1, Zenon DEF CurrentOf
  <2>4. CASE Having(k) # {}
    <3>1. n \in Having(k) /\ (\A m \in Having(k) : n <= m) /\ w = disk[SearchOrder[n]][k]
      BY <2>4, FoundFirst, Zenon
    <3>. DEFINE p == SearchOrder[n]
    <3>. HIDE DEF n, w
    <3>2. p \in having /\ w # None
      BY <3>1, SearchOrderFacts DEF Having
    <3>3. \A q \in having \ {p} : Precedes(p, q)
      <4>. SUFFICES ASSUME NEW q \in having, q # p PROVE Precedes(p, q)
        BY Zenon
      <4>1. q \in Places /\ disk[q] # NoFile /\ disk[q][k] # None
        OBVIOUS
      <4>. QED
        BY <3>1, <4>1, FirstPrecedes, Zenon
    <3>4. w \in ConfigVals \cup {Unreadable}
      <4>1. disk[p] \in FileContent
        BY <3>2 DEF ConfigTypeOK
      <4>. QED
        BY <3>1, <3>2, <4>1 DEF FileContent
    <3>5. w \in {now, Unreadable}
      BY <1>0, <2>1, <3>4, Zenon
    <3>. QED
      BY <2>2, <3>1, <3>2, <3>3, <3>5, Zenon DEF CurrentOf
  <2>. QED
    BY <2>3, <2>4
<1>. QED
    BY <1>1, <1>2, <1>3

\* No value is linked at first.
LEMMA ConfigInitially ==
    ConfigInit => ConfigInv
BY DEF ConfigInit, ConfigInv, ConfigTypeOK, ReloadedValuesAreCurrent

\* What is fetched is a value of the configuration.
LEMMA FetchedIsValue ==
    ASSUME NEW k, NEW onDisk, NEW cache
    PROVE  Fetched(k, argOf, envOf, onDisk, cache) \in ConfigVals \cup {None}
BY Zenon DEF Fetched

\* reload() leaves every linked value current.
LEMMA ReloadKeeps ==
    ASSUME ConfigTypeOK, Reload
    PROVE  ConfigInv'
<1>. DEFINE empty == [p \in Places |-> NoFile]
            Again(l) == Fetched(values[l].key, argOf, envOf, disk, empty)
<1>0. None \notin ConfigVals
    BY ConfigAssumption DEF ConfigAssumption
<1>1. /\ values' = [l \in Loaders |-> IF l \notin Linked \/ Again(l) = None THEN values[l]
                                      ELSE [values[l] EXCEPT !.val = Again(l)]]
      /\ UNCHANGED <<argOf, envOf, disk, edits>>
    BY Zenon DEF Reload
<1>2. \A l \in Loaders : Again(l) \in ConfigVals \cup {None}
    BY FetchedIsValue, Zenon
<1>3. ASSUME NEW l \in Linked
      PROVE  /\ values[l] \in [key : ConfigKeys, val : ConfigVals]
             /\ CurrentOf(values[l].key, IF Again(l) = None THEN values[l].val ELSE Again(l))
  <2>1. values[l] \in [key : ConfigKeys, val : ConfigVals]
    BY DEF Linked, ConfigTypeOK
  <2>2. values[l].key \in ConfigKeys
    BY <2>1
  <2>. QED
    BY <2>1, <2>2, FetchedIsCurrent, Zenon
<1>. HIDE DEF Again
<1>4. ASSUME NEW l \in Loaders
      PROVE  /\ values'[l] \in {NoValue} \cup [key : ConfigKeys, val : ConfigVals]
             /\ l \in Linked => values'[l].key = values[l].key
                              /\ values'[l].val = IF Again(l) = None THEN values[l].val ELSE Again(l)
             /\ l \notin Linked => values'[l] = NoValue
  <2>1. CASE l \notin Linked
    BY <1>1, <2>1 DEF Linked
  <2>2. CASE l \in Linked /\ Again(l) = None
    BY <1>1, <1>3, <2>2
  <2>3. CASE l \in Linked /\ Again(l) # None
    <3>1. values'[l] = [values[l] EXCEPT !.val = Again(l)] /\ Again(l) \in ConfigVals
      BY <1>1, <1>2, <2>3
    <3>. QED
      BY <1>3, <2>3, <3>1
  <2>. QED
    BY <2>1, <2>2, <2>3
<1>5. ConfigTypeOK'
  <2>1. values' \in [Loaders -> {NoValue} \cup [key : ConfigKeys, val : ConfigVals]]
    BY <1>1, <1>4
  <2>. QED
    BY <1>1, <2>1 DEF ConfigTypeOK
<1>6. ReloadedValuesAreCurrent'
  <2>. SUFFICES ASSUME NEW l \in Linked', NEW k, NEW v, k = values'[l].key, v = values'[l].val
                PROVE  CurrentOf(k, v)'
    BY Zenon DEF ReloadedValuesAreCurrent, CurrentOf
  <2>1. l \in Loaders /\ l \in Linked
    BY <1>4 DEF Linked
  <2>2. CurrentOf(k, v)
    BY <1>3, <1>4, <2>1, Zenon
  <2>. QED
    BY <1>1, <2>2, CurrentStays, Zenon
<1>. QED
    BY <1>5, <1>6 DEF ConfigInv

\* Every step of the configuration keeps the invariant.
LEMMA ConfigStepKeeps ==
    ASSUME ConfigInv, ConfigNext \/ UNCHANGED configVars
    PROVE  ConfigInv'
<1>1. CASE UNCHANGED configVars
  <2>1. UNCHANGED <<argOf, envOf, disk, values, fresh>>
    BY <1>1 DEF configVars
  <2>. QED
    BY <2>1, Zenon DEF ConfigInv, ConfigTypeOK, ReloadedValuesAreCurrent, Linked
<1>2. ASSUME NEW n \in EditPlaces, NEW c \in FileContent \cup {NoFile}, EditFile(SearchOrder[n], c)
      PROVE  ConfigInv'
  <2>1. disk' = [disk EXCEPT ![SearchOrder[n]] = c] /\ fresh' = FALSE /\ UNCHANGED values
    BY <1>2 DEF EditFile
  <2>2. ConfigTypeOK'
    BY <2>1 DEF ConfigInv, ConfigTypeOK
  <2>. QED
    BY <2>1, <2>2 DEF ConfigInv, ReloadedValuesAreCurrent
<1>3. ASSUME NEW l \in Loaders, DestroyValue(l) PROVE ConfigInv'
  <2>1. values' = [values EXCEPT ![l] = NoValue] /\ UNCHANGED <<argOf, envOf, disk, opened, fresh, edits>>
    BY <1>3 DEF DestroyValue
  <2>2. ConfigTypeOK'
    BY <2>1 DEF ConfigInv, ConfigTypeOK
  <2>3. \A m \in Linked' : m \in Linked /\ values'[m] = values[m]
    BY <2>1 DEF Linked, ConfigInv, ConfigTypeOK
  <2>4. ReloadedValuesAreCurrent'
    <3>. SUFFICES ASSUME fresh', NEW m \in Linked', NEW k, NEW v, k = values'[m].key, v = values'[m].val
                  PROVE  CurrentOf(k, v)'
      BY Zenon DEF ReloadedValuesAreCurrent, CurrentOf
    <3>1. fresh /\ m \in Linked /\ k = values[m].key /\ v = values[m].val
      BY <2>1, <2>3, Zenon
    <3>2. CurrentOf(k, v)
      BY <3>1, Zenon DEF ConfigInv, ReloadedValuesAreCurrent, CurrentOf
    <3>. QED
      BY <2>1, <3>2, CurrentStays, Zenon
  <2>. QED
    BY <2>2, <2>4 DEF ConfigInv
<1>4. ASSUME NEW l \in Loaders, NEW k \in ConfigKeys, NEW v \in ConfigVals, CreateValue(l, k, v) PROVE ConfigInv'
  <2>. DEFINE w == Fetched(k, argOf, envOf, disk, opened)
  <2>1. /\ values' = [values EXCEPT ![l] = [key |-> k, val |-> IF w = None THEN v ELSE w]]
        /\ fresh' = FALSE /\ UNCHANGED disk
    BY <1>4 DEF CreateValue
  <2>2. w \in ConfigVals \cup {None}
    BY FetchedIsValue
  <2>. HIDE DEF w
  <2>3. [key |-> k, val |-> IF w = None THEN v ELSE w] \in [key : ConfigKeys, val : ConfigVals]
    BY <2>2
  <2>4. ConfigTypeOK'
    BY <2>1, <2>3 DEF ConfigInv, ConfigTypeOK
  <2>. QED
    BY <2>1, <2>4 DEF ConfigInv, ReloadedValuesAreCurrent
<1>5. CASE Reload
    BY <1>5, ReloadKeeps DEF ConfigInv
<1>. QED
    BY <1>1, <1>2, <1>3, <1>4, <1>5, Zenon DEF ConfigNext

-----------------------------------------------------------------------------
(* The blocks of the buffers.                                              *)

BufferRecord == [block : Nat, size : Nat]

\* The owners of buffers, and what they own, for any buffers and pool.
OwnersOf(pool) == ({"caller"} \X Buffers) \cup ({"pool"} \X DOMAIN pool)

OwnedOf(bufs, pool, o) == IF o[1] = "caller" THEN bufs[o[2]] ELSE pool[o[2]]

\* What an owner may rely on: the block is live, large enough, and worth it
\* when it is in the pool.
Relies(cs, lost0, o, r) ==
    /\ r.block # NoBlock => r.block \in DOMAIN cs \ lost0
    /\ r.size <= BufferCapacity(cs, r)
    /\ o[1] = "pool" => BufferCapacity(cs, r) >= MinKept

Sound(cs, lost0, bufs, pool) ==
    /\ \A b \in DOMAIN cs \ lost0 : \E o \in OwnersOf(pool) : OwnedOf(bufs, pool, o).block = b
    /\ \A o \in OwnersOf(pool) : Relies(cs, lost0, o, OwnedOf(bufs, pool, o))
    /\ \A o, p \in OwnersOf(pool) :
          o # p /\ OwnedOf(bufs, pool, o).block = OwnedOf(bufs, pool, p).block
            => OwnedOf(bufs, pool, o).block = NoBlock

BlocksTypeOK ==
    /\ IsFiniteSet(DOMAIN live) /\ Cardinality(DOMAIN live) <= MaxBlocks
    /\ DOMAIN live \subseteq Nat \ {0} /\ live \in [DOMAIN live -> Nat]
    /\ overwritten \subseteq DOMAIN live
    /\ buffer \in [Buffers -> BufferRecord]
    /\ bufferPool \in Seq(BufferRecord)
    /\ DOMAIN stats = {"gets", "hits", "eats", "discards", "most", "largest"}
    /\ stats.gets \in Nat /\ stats.hits \in Nat /\ stats.gets >= stats.hits

BuffersInv ==
    /\ BlocksTypeOK
    /\ Sound(live, overwritten, buffer, bufferPool)
    /\ Len(bufferPool) <= PoolMax

\* The owners, one by one.
LEMMA OwnersFacts ==
    ASSUME NEW bufs, NEW pool
    PROVE  /\ \A u \in Buffers : /\ <<"caller", u>> \in OwnersOf(pool)
                                 /\ OwnedOf(bufs, pool, <<"caller", u>>) = bufs[u]
           /\ \A i \in DOMAIN pool : /\ <<"pool", i>> \in OwnersOf(pool)
                                     /\ OwnedOf(bufs, pool, <<"pool", i>>) = pool[i]
           /\ \A o \in OwnersOf(pool) : \/ \E u \in Buffers : o = <<"caller", u>>
                                        \/ \E i \in DOMAIN pool : o = <<"pool", i>>
           /\ \A u, i : <<"caller", u>> # <<"pool", i>>
BY DEF OwnersOf, OwnedOf

(***************************************************************************)
(* One owner o gives up what it had for what another one, c, which may be  *)
(* the same, has then; the others keep what they have, or have nothing.    *)
(* So the blocks go from those of the capacities cs that are not lost0 to  *)
(* those of cs2 that are not lost2.                                        *)
(***************************************************************************)
HandsOver(o, c, cs, lost0, bufs, pool, cs2, lost2, bufs2, pool2) ==
    LET had == OwnedOf(bufs, pool, o).block
        has == OwnedOf(bufs2, pool2, c).block
    IN  /\ o \in OwnersOf(pool) /\ c \in OwnersOf(pool2)
        /\ Relies(cs2, lost2, c, OwnedOf(bufs2, pool2, c))
        /\ \A p \in OwnersOf(pool2) \ {c} :
              \/ p[1] = "caller" /\ OwnedOf(bufs2, pool2, p) = Empty
              \/ p \in OwnersOf(pool) \ {o} /\ OwnedOf(bufs2, pool2, p) = OwnedOf(bufs, pool, p)
        /\ \A p \in OwnersOf(pool) \ {o} :
              \/ OwnedOf(bufs, pool, p).block = NoBlock
              \/ p \in OwnersOf(pool2) \ {c} /\ OwnedOf(bufs2, pool2, p) = OwnedOf(bufs, pool, p)
        /\ \A b \in DOMAIN cs2 \ lost2 : b = has \/ b \in (DOMAIN cs \ lost0) \ {had}
        /\ \A b \in (DOMAIN cs \ lost0) \ {had} : b \in DOMAIN cs2 \ lost2 /\ cs2[b] = cs[b] /\ b # has

\* The owners rely on the blocks after that as well.
LEMMA HandedOver ==
    ASSUME NEW o, NEW c, NEW cs, NEW lost0, NEW bufs, NEW pool, NEW cs2, NEW lost2, NEW bufs2, NEW pool2,
           Sound(cs, lost0, bufs, pool), NoBlock \notin DOMAIN cs,
           HandsOver(o, c, cs, lost0, bufs, pool, cs2, lost2, bufs2, pool2)
    PROVE  Sound(cs2, lost2, bufs2, pool2)
<1>. DEFINE x == OwnedOf(bufs, pool, o)
            y == OwnedOf(bufs2, pool2, c)
<1>0. /\ o \in OwnersOf(pool) /\ c \in OwnersOf(pool2) /\ Relies(cs2, lost2, c, y)
      /\ \A p \in OwnersOf(pool2) \ {c} :
            \/ p[1] = "caller" /\ OwnedOf(bufs2, pool2, p) = Empty
            \/ p \in OwnersOf(pool) \ {o} /\ OwnedOf(bufs2, pool2, p) = OwnedOf(bufs, pool, p)
      /\ \A p \in OwnersOf(pool) \ {o} :
            \/ OwnedOf(bufs, pool, p).block = NoBlock
            \/ p \in OwnersOf(pool2) \ {c} /\ OwnedOf(bufs2, pool2, p) = OwnedOf(bufs, pool, p)
      /\ \A b \in DOMAIN cs2 \ lost2 : b = y.block \/ b \in (DOMAIN cs \ lost0) \ {x.block}
      /\ \A b \in (DOMAIN cs \ lost0) \ {x.block} :
            b \in DOMAIN cs2 \ lost2 /\ cs2[b] = cs[b] /\ b # y.block
    BY Zenon DEF HandsOver
<1>00. x = OwnedOf(bufs, pool, o) /\ y = OwnedOf(bufs2, pool2, c)
    OBVIOUS
<1>. HIDE DEF x, y
<1>1. ASSUME NEW p \in OwnersOf(pool) \ {o}, OwnedOf(bufs, pool, p).block # NoBlock
      PROVE  OwnedOf(bufs, pool, p).block \in (DOMAIN cs \ lost0) \ {x.block}
    BY <1>0, <1>00, <1>1, Zenon DEF Sound, Relies
<1>2. ASSUME NEW b \in DOMAIN cs2 \ lost2 PROVE \E p \in OwnersOf(pool2) : OwnedOf(bufs2, pool2, p).block = b
  <2>1. CASE b = y.block
    BY <1>0, <1>00, <2>1, Zenon
  <2>2. CASE b \in (DOMAIN cs \ lost0) \ {x.block}
    <3>1. PICK p \in OwnersOf(pool) : OwnedOf(bufs, pool, p).block = b
      BY <1>0, <2>2, Zenon DEF Sound
    <3>2. p # o /\ b # NoBlock
      BY <1>0, <1>00, <2>2, <3>1, Zenon
    <3>3. p \in OwnersOf(pool2) /\ OwnedOf(bufs2, pool2, p) = OwnedOf(bufs, pool, p)
      BY <1>0, <3>1, <3>2, Zenon
    <3>. QED
      BY <1>0, <3>1, <3>3, Zenon
  <2>. QED
    BY <1>0, <2>1, <2>2, Zenon
<1>3. ASSUME NEW p \in OwnersOf(pool2) PROVE Relies(cs2, lost2, p, OwnedOf(bufs2, pool2, p))
  <2>1. CASE p = c
    BY <1>0, <1>00, <2>1, Zenon
  <2>2. CASE p[1] = "caller" /\ OwnedOf(bufs2, pool2, p) = Empty
    <3>1. Empty.block = NoBlock /\ Empty.size = 0 /\ BufferCapacity(cs2, Empty) = 0
      BY DEF Empty, BufferCapacity
    <3>2. p[1] # "pool"
      BY <2>2
    <3>3. Empty.size <= BufferCapacity(cs2, Empty)
      BY <3>1
    <3>. QED
      BY <1>0, <2>2, <3>1, <3>2, <3>3, Zenon DEF Relies
  <2>3. CASE p \in OwnersOf(pool) \ {o} /\ OwnedOf(bufs2, pool2, p) = OwnedOf(bufs, pool, p)
    <3>. DEFINE r == OwnedOf(bufs, pool, p)
    <3>1. Relies(cs, lost0, p, r)
      BY <1>0, <2>3, Zenon DEF Sound
    <3>2. r.block # NoBlock => r.block \in DOMAIN cs2 \ lost2 /\ cs2[r.block] = cs[r.block]
      BY <1>0, <1>1, <2>3, Zenon
    <3>3. BufferCapacity(cs2, r) = BufferCapacity(cs, r)
      BY <1>0, <3>2, Zenon DEF BufferCapacity
    <3>. QED
      BY <1>0, <2>3, <3>1, <3>2, <3>3, Zenon DEF Relies
  <2>. QED
    BY <1>0, <2>1, <2>2, <2>3, Zenon
<1>4. ASSUME NEW p \in OwnersOf(pool2), NEW q \in OwnersOf(pool2), p # q,
             OwnedOf(bufs2, pool2, p).block = OwnedOf(bufs2, pool2, q).block,
             OwnedOf(bufs2, pool2, p).block # NoBlock
      PROVE  FALSE
  <2>1. Empty.block = NoBlock
    BY DEF Empty
  <2>2. CASE p # c /\ q # c
    <3>1. /\ p \in OwnersOf(pool) /\ OwnedOf(bufs2, pool2, p) = OwnedOf(bufs, pool, p)
          /\ q \in OwnersOf(pool) /\ OwnedOf(bufs2, pool2, q) = OwnedOf(bufs, pool, q)
      BY <1>0, <1>4, <2>1, <2>2, Zenon
    <3>. QED
      BY <1>0, <1>4, <3>1, Zenon DEF Sound
  <2>3. ASSUME NEW r \in OwnersOf(pool2), r # c, OwnedOf(bufs2, pool2, r).block = y.block, y.block # NoBlock
        PROVE  FALSE
    <3>1. r \in OwnersOf(pool) \ {o} /\ OwnedOf(bufs, pool, r).block = y.block
      BY <1>0, <2>1, <2>3, Zenon
    <3>2. y.block \in (DOMAIN cs \ lost0) \ {x.block}
      BY <1>0, <1>1, <2>3, <3>1, Zenon
    <3>. QED
      BY <1>0, <3>2, Zenon
  <2>. QED
    BY <1>00, <1>4, <2>2, <2>3, Zenon
<1>. QED
    BY <1>0, <1>2, <1>3, <1>4, Zenon DEF Sound

\* There is always a number for one more block.
LEMMA FreshFacts ==
    ASSUME BlocksTypeOK
    PROVE  Fresh(live) \in Nat \ {0} /\ Fresh(live) \notin DOMAIN live
<1>. DEFINE Z == (1..MaxBlocks + 1) \ DOMAIN live
<1>0. MaxBlocks \in Nat
    BY BuffersAssumption DEF BuffersAssumption
<1>1. Z # {}
  <2>. SUFFICES ASSUME 1..MaxBlocks + 1 \subseteq DOMAIN live PROVE FALSE
    OBVIOUS
  <2>1. Cardinality(1..MaxBlocks + 1) <= Cardinality(DOMAIN live)
    BY FS_Subset, Zenon DEF BlocksTypeOK
  <2>3. Cardinality(1..MaxBlocks + 1) = MaxBlocks + 1
    <3>1. MaxBlocks + 1 \in Nat
      BY <1>0
    <3>. QED
      BY <3>1, CountTo, Zenon
  <2>4. Cardinality(DOMAIN live) \in Nat /\ Cardinality(DOMAIN live) <= MaxBlocks
    BY FS_CardinalityType, Zenon DEF BlocksTypeOK
  <2>. QED
    BY <1>0, <2>1, <2>3, <2>4
<1>2. Z \subseteq Nat
    BY <1>0
<1>3. \E x \in Z : \A y \in Z : x <= y
    BY <1>1, <1>2, Least, Zenon
<1>4. Fresh(live) \in Z
    BY <1>3, Zenon DEF Fresh, Min
<1>. QED
    BY <1>0, <1>4

\* What became of the buffer x and of its block, when it is y now: the block is
\* the one x had or a new one, has room for y, and the others are as they were.
BlockHeld(cs, x, cs2, y) ==
    /\ DOMAIN cs2 = DOMAIN cs \cup {y.block} \/ (y = x /\ cs2 = cs)
    /\ cs2 \in [DOMAIN cs2 -> Nat]
    /\ y \in BufferRecord
    /\ y.block # NoBlock => y.block \in DOMAIN cs2
    /\ NoBlock \notin DOMAIN cs2
    /\ \A b \in DOMAIN cs \ {y.block} : cs2[b] = cs[b]
    /\ y.block = x.block \/ (x.block = NoBlock /\ y.block = Fresh(cs))
    /\ y.size <= BufferCapacity(cs2, y)
    /\ BufferCapacity(cs, x) <= BufferCapacity(cs2, y)

\* buffer::reserve: the block is the old one or a new one, and large enough.
LEMMA ReservedFacts ==
    ASSUME BlocksTypeOK, NEW x \in BufferRecord, x.block # NoBlock => x.block \in DOMAIN live,
           x.size <= BufferCapacity(live, x), NEW n \in Nat
    PROVE  /\ BlockHeld(live, x, Reserved(live, x, n)[1], Reserved(live, x, n)[2])
           /\ n <= BufferCapacity(Reserved(live, x, n)[1], Reserved(live, x, n)[2])
<1>0. NoBlock = 0 /\ BufferCapacity(live, x) \in Nat
    BY DEF NoBlock, BufferCapacity, BlocksTypeOK, BufferRecord
<1>1. CASE BufferCapacity(live, x) < n
  <2>. DEFINE b == IF x.block = NoBlock THEN Fresh(live) ELSE x.block
              cs2 == [c \in DOMAIN live \cup {b} |-> IF c = b THEN n ELSE live[c]]
              y == [x EXCEPT !.block = b]
  <2>1. Reserved(live, x, n) = <<cs2, y>>
    BY <1>1 DEF Reserved, Reallocated
  <2>2. b \in Nat \ {0} /\ (x.block = NoBlock => b = Fresh(live)) /\ (x.block # NoBlock => b = x.block)
    BY <1>0, FreshFacts DEF BufferRecord
  <2>3. y \in BufferRecord /\ y.block = b /\ y.size = x.size
    BY <2>2 DEF BufferRecord
  <2>4. DOMAIN cs2 = DOMAIN live \cup {b} /\ cs2[b] = n /\ cs2 \in [DOMAIN cs2 -> Nat]
    BY DEF BlocksTypeOK
  <2>5. \A c \in DOMAIN live \ {b} : cs2[c] = live[c]
    OBVIOUS
  <2>6. NoBlock \notin DOMAIN cs2
    BY <1>0, <2>2, <2>4 DEF BlocksTypeOK
  <2>7. BufferCapacity(cs2, y) = n
    BY <1>0, <2>2, <2>3, <2>4 DEF BufferCapacity
  <2>8. x.size \in Nat
    BY DEF BufferRecord
  <2>9. y.size <= n /\ BufferCapacity(live, x) <= n /\ n <= n
    BY <1>0, <1>1, <2>3, <2>8
  <2>10. y.block = x.block \/ (x.block = NoBlock /\ y.block = Fresh(live))
    BY <2>2, <2>3, Zenon
  <2>11. y.block \in DOMAIN cs2
    BY <2>3, <2>4
  <2>. HIDE DEF b, cs2, y
  <2>12. Reserved(live, x, n)[1] = cs2 /\ Reserved(live, x, n)[2] = y
    BY <2>1
  <2>13. BlockHeld(live, x, cs2, y)
    <3>1. DOMAIN cs2 = DOMAIN live \cup {y.block}
      BY <2>3, <2>4, Zenon
    <3>2. \A c \in DOMAIN live \ {y.block} : cs2[c] = live[c]
      BY <2>3, <2>5, Zenon
    <3>3. y.size <= BufferCapacity(cs2, y) /\ BufferCapacity(live, x) <= BufferCapacity(cs2, y)
      BY <2>7, <2>9, Zenon
    <3>. QED
      BY <2>3, <2>4, <2>6, <2>10, <2>11, <3>1, <3>2, <3>3, Zenon DEF BlockHeld
  <2>. QED
    BY <2>7, <2>9, <2>12, <2>13, Zenon
<1>2. CASE ~(BufferCapacity(live, x) < n)
  <2>1. Reserved(live, x, n)[1] = live /\ Reserved(live, x, n)[2] = x
    BY <1>2 DEF Reserved
  <2>2. n <= BufferCapacity(live, x) /\ BufferCapacity(live, x) <= BufferCapacity(live, x)
    BY <1>0, <1>2
  <2>3. NoBlock \notin DOMAIN live /\ live \in [DOMAIN live -> Nat]
    BY <1>0 DEF BlocksTypeOK
  <2>4. BlockHeld(live, x, live, x)
    BY <2>2, <2>3, Zenon DEF BlockHeld
  <2>. QED
    BY <2>1, <2>2, <2>4, Zenon
<1>. QED
    BY <1>1, <1>2, Zenon

\* buffer::resize: the same, and it has the size asked for.
LEMMA ResizedFacts ==
    ASSUME BlocksTypeOK, NEW x \in BufferRecord, x.block # NoBlock => x.block \in DOMAIN live,
           x.size <= BufferCapacity(live, x), NEW n \in Nat
    PROVE  BlockHeld(live, x, Resized(live, x, n)[1], Resized(live, x, n)[2])
<1>. DEFINE cs2 == Reserved(live, x, n)[1]
            y == Reserved(live, x, n)[2]
            z == [y EXCEPT !.size = n]
<1>1. BlockHeld(live, x, cs2, y) /\ n <= BufferCapacity(cs2, y)
    BY ReservedFacts, Zenon
<1>2. Resized(live, x, n)[1] = cs2 /\ Resized(live, x, n)[2] = z
    BY DEF Resized
<1>3. y \in BufferRecord
    BY <1>1, Zenon DEF BlockHeld
<1>4. z \in BufferRecord /\ z.block = y.block /\ z.size = n
    BY <1>3 DEF BufferRecord
<1>5. BufferCapacity(cs2, z) = BufferCapacity(cs2, y)
  <2>. HIDE DEF cs2, y, z
  <2>. QED
    BY <1>4 DEF BufferCapacity
<1>6. CASE y.block # NoBlock
  <2>1. DOMAIN cs2 = DOMAIN live \cup {z.block}
    BY <1>1, <1>4, <1>6 DEF BlockHeld
  <2>. HIDE DEF cs2, y, z
  <2>. QED
    BY <1>1, <1>2, <1>4, <1>5, <1>6, <2>1, Zenon DEF BlockHeld
<1>7. CASE y.block = NoBlock
  <2>1. n <= 0 /\ BufferCapacity(cs2, y) = 0
    BY <1>1, <1>7 DEF BufferCapacity
  <2>2. Fresh(live) # NoBlock
    BY FreshFacts DEF NoBlock
  <2>3. x.block = NoBlock /\ BufferCapacity(live, x) = 0 /\ x.size <= 0
    BY <1>1, <1>7, <2>2 DEF BlockHeld, BufferCapacity
  <2>4. y = x /\ cs2 = live
    BY <2>1, <2>3 DEF Reserved
  <2>5. z = x
    BY <2>1, <2>3, <2>4, <1>4 DEF BufferRecord
  <2>. QED
    BY <1>1, <1>2, <2>4, <2>5, <1>4, <1>5, Zenon DEF BlockHeld
<1>. QED
    BY <1>6, <1>7, Zenon

\* A caller's buffer is one among the owners.
LEMMA CallerFacts ==
    ASSUME BuffersInv, NEW u \in Buffers
    PROVE  /\ <<"caller", u>> \in OwnersOf(bufferPool)
           /\ OwnedOf(buffer, bufferPool, <<"caller", u>>) = buffer[u]
           /\ buffer[u] \in BufferRecord
           /\ buffer[u].block # NoBlock => buffer[u].block \in DOMAIN live \ overwritten
           /\ buffer[u].size <= BufferCapacity(live, buffer[u])
<1>1. buffer[u] \in BufferRecord
    BY DEF BuffersInv, BlocksTypeOK
<1>2. <<"caller", u>> \in OwnersOf(bufferPool) /\ OwnedOf(buffer, bufferPool, <<"caller", u>>) = buffer[u]
    BY OwnersFacts, Zenon
<1>3. Relies(live, overwritten, <<"caller", u>>, buffer[u])
    BY <1>2, Zenon DEF BuffersInv, Sound
<1>. QED
    BY <1>1, <1>2, <1>3, Zenon DEF Relies

\* When a caller's buffer changes, and nothing but its block with it, all is sound.
LEMMA ChangedAlone ==
    ASSUME BuffersInv, NEW u \in Buffers, NEW cs2, NEW y,
           NEW bufs2, bufs2 = [buffer EXCEPT ![u] = y],
           y.block # NoBlock => y.block \in DOMAIN cs2 \ overwritten,
           y.size <= BufferCapacity(cs2, y),
           \A b \in DOMAIN cs2 \ overwritten :
              b = y.block \/ b \in (DOMAIN live \ overwritten) \ {buffer[u].block},
           \A b \in (DOMAIN live \ overwritten) \ {buffer[u].block} :
              b \in DOMAIN cs2 /\ cs2[b] = live[b] /\ b # y.block
    PROVE  Sound(cs2, overwritten, bufs2, bufferPool)
<1>. DEFINE o == <<"caller", u>>
<1>1. o \in OwnersOf(bufferPool) /\ OwnedOf(buffer, bufferPool, o) = buffer[u]
    BY CallerFacts, Zenon
<1>2. /\ bufs2[u] = y /\ \A v \in Buffers \ {u} : bufs2[v] = buffer[v]
    BY DEF BuffersInv, BlocksTypeOK
<1>3. OwnedOf(bufs2, bufferPool, o) = y
    BY <1>2 DEF OwnedOf
<1>4. \A p \in OwnersOf(bufferPool) \ {o} :
         OwnedOf(bufs2, bufferPool, p) = OwnedOf(buffer, bufferPool, p)
  <2>. SUFFICES ASSUME NEW p \in OwnersOf(bufferPool) \ {o}
                PROVE  OwnedOf(bufs2, bufferPool, p) = OwnedOf(buffer, bufferPool, p)
    OBVIOUS
  <2>1. CASE \E v \in Buffers : p = <<"caller", v>>
    <3>1. PICK v \in Buffers : p = <<"caller", v>>
      BY <2>1
    <3>2. v # u
      BY <3>1
    <3>. QED
      BY <1>2, <3>1, <3>2 DEF OwnedOf
  <2>2. CASE \E i \in DOMAIN bufferPool : p = <<"pool", i>>
    BY <2>2 DEF OwnedOf
  <2>. QED
    BY <2>1, <2>2 DEF OwnersOf
<1>5. o[1] # "pool"
    OBVIOUS
<1>6. Relies(cs2, overwritten, o, y)
    BY <1>5, Zenon DEF Relies
<1>7. NoBlock \notin DOMAIN live
    BY DEF BuffersInv, BlocksTypeOK, NoBlock
<1>8. Sound(live, overwritten, buffer, bufferPool)
    BY Zenon DEF BuffersInv
<1>9. \A b \in (DOMAIN live \ overwritten) \ {buffer[u].block} :
         b \in DOMAIN cs2 \ overwritten /\ cs2[b] = live[b] /\ b # y.block
    OBVIOUS
<1>10. \A b \in DOMAIN cs2 \ overwritten : b = y.block \/ b \in (DOMAIN live \ overwritten) \ {buffer[u].block}
    OBVIOUS
<1>. HIDE DEF o
<1>11. HandsOver(o, o, live, overwritten, buffer, bufferPool, cs2, overwritten, bufs2, bufferPool)
    BY <1>1, <1>3, <1>4, <1>6, <1>9, <1>10, Zenon DEF HandsOver
<1>. QED
    BY <1>7, <1>8, <1>11, HandedOver, Zenon

\* The caller's buffer with the block that reserve or resize left it.
LEMMA StoredKeeps ==
    ASSUME BuffersInv, NEW u \in Buffers, NEW r, Stored(u, r), BlockHeld(live, buffer[u], r[1], r[2])
    PROVE  BuffersInv'
<1>. DEFINE x == buffer[u]
            y == r[2]
            cs2 == r[1]
<1>0. BlocksTypeOK /\ Len(bufferPool) <= PoolMax
    BY Zenon DEF BuffersInv
<1>1. /\ live' = cs2 /\ buffer' = [buffer EXCEPT ![u] = y] /\ Cardinality(DOMAIN cs2) <= MaxBlocks
      /\ bufferPool' = bufferPool /\ stats' = stats /\ overwritten' = overwritten
    BY DEF Stored
<1>2. /\ x.block # NoBlock => x.block \in DOMAIN live \ overwritten
      /\ x \in BufferRecord
    BY CallerFacts, Zenon
<1>3. /\ cs2 \in [DOMAIN cs2 -> Nat] /\ y \in BufferRecord /\ NoBlock \notin DOMAIN cs2
      /\ y.block # NoBlock => y.block \in DOMAIN cs2
      /\ y.size <= BufferCapacity(cs2, y)
    BY Zenon DEF BlockHeld
<1>4. DOMAIN cs2 = DOMAIN live \cup {y.block} \/ DOMAIN cs2 = DOMAIN live
    BY Zenon DEF BlockHeld
<1>5. \A b \in DOMAIN live \ {y.block} : cs2[b] = live[b]
    BY Zenon DEF BlockHeld
<1>6. y.block = x.block \/ (x.block = NoBlock /\ y.block = Fresh(live))
    BY Zenon DEF BlockHeld
<1>7. Fresh(live) \notin DOMAIN live
    BY <1>0, FreshFacts
<1>8. overwritten \subseteq DOMAIN live /\ NoBlock \notin DOMAIN live /\ IsFiniteSet(DOMAIN live)
      /\ DOMAIN live \subseteq Nat \ {0}
    BY <1>0 DEF BlocksTypeOK, NoBlock
<1>9. y.block # NoBlock => y.block \in DOMAIN cs2 \ overwritten
    BY <1>2, <1>3, <1>6, <1>7, <1>8, Zenon
<1>10. \A b \in DOMAIN cs2 \ overwritten :
          b = y.block \/ b \in (DOMAIN live \ overwritten) \ {x.block}
    BY <1>3, <1>4, <1>6, <1>8, Zenon
<1>11. \A b \in (DOMAIN live \ overwritten) \ {x.block} :
          b \in DOMAIN cs2 /\ cs2[b] = live[b] /\ b # y.block
    BY <1>4, <1>5, <1>6, <1>7, Zenon
<1>12. Sound(live', overwritten', buffer', bufferPool')
    BY <1>1, <1>3, <1>9, <1>10, <1>11, ChangedAlone, Zenon
<1>13. BlocksTypeOK'
  <2>1. IsFiniteSet(DOMAIN cs2)
    <3>1. IsFiniteSet(DOMAIN live \cup {y.block})
      BY <1>8, FS_AddElement, Zenon
    <3>. QED
      BY <1>4, <1>8, <3>1, Zenon
  <2>2. y.block \in Nat
    BY <1>3 DEF BufferRecord
  <2>3. DOMAIN cs2 \subseteq Nat \ {0}
    BY <1>3, <1>4, <1>8, <2>2 DEF NoBlock
  <2>4. overwritten \subseteq DOMAIN cs2
    BY <1>4, <1>8, Zenon
  <2>5. buffer' \in [Buffers -> BufferRecord]
    BY <1>0, <1>1, <1>3 DEF BlocksTypeOK
  <2>. HIDE DEF cs2, y, x
  <2>. QED
    BY <1>0, <1>1, <1>3, <2>1, <2>3, <2>4, <2>5, Zenon DEF BlocksTypeOK
<1>14. Len(bufferPool') <= PoolMax
    BY <1>0, <1>1, Zenon
<1>. QED
    BY <1>12, <1>13, <1>14, Zenon DEF BuffersInv

\* Giving a block back, the caller's buffer is empty.
LEMMA FreedFacts ==
    ASSUME BuffersInv, NEW u \in Buffers
    PROVE  /\ Sound(BlockFreed(live, buffer[u]), overwritten, [buffer EXCEPT ![u] = Empty], bufferPool)
           /\ IsFiniteSet(DOMAIN BlockFreed(live, buffer[u]))
           /\ Cardinality(DOMAIN BlockFreed(live, buffer[u])) <= MaxBlocks
           /\ DOMAIN BlockFreed(live, buffer[u]) \subseteq Nat \ {0}
           /\ BlockFreed(live, buffer[u]) \in [DOMAIN BlockFreed(live, buffer[u]) -> Nat]
           /\ overwritten \subseteq DOMAIN BlockFreed(live, buffer[u])
<1>. DEFINE cs2 == BlockFreed(live, buffer[u])
            bufs2 == [buffer EXCEPT ![u] = Empty]
<1>1. DOMAIN cs2 = DOMAIN live \ {buffer[u].block} /\ \A b \in DOMAIN cs2 : cs2[b] = live[b]
    BY DEF BlockFreed
<1>2. BlocksTypeOK
    BY Zenon DEF BuffersInv
<1>3. buffer[u].block # NoBlock => buffer[u].block \in DOMAIN live \ overwritten
    BY CallerFacts, Zenon
<1>4. DOMAIN live \subseteq Nat \ {0} /\ overwritten \subseteq DOMAIN live /\ live \in [DOMAIN live -> Nat]
    BY <1>2 DEF BlocksTypeOK
<1>5. cs2 \in [DOMAIN cs2 -> Nat]
    BY <1>1, <1>4 DEF BlockFreed
<1>6. NoBlock \notin DOMAIN live
    BY <1>4 DEF NoBlock
<1>7. overwritten \subseteq DOMAIN cs2
    BY <1>1, <1>3, <1>4, <1>6, Zenon
<1>8. IsFiniteSet(DOMAIN cs2) /\ Cardinality(DOMAIN cs2) <= MaxBlocks
  <2>1. IsFiniteSet(DOMAIN live) /\ Cardinality(DOMAIN live) <= MaxBlocks /\ DOMAIN cs2 \subseteq DOMAIN live
    BY <1>1, <1>2 DEF BlocksTypeOK
  <2>. HIDE DEF cs2
  <2>2. IsFiniteSet(DOMAIN cs2) /\ Cardinality(DOMAIN cs2) <= Cardinality(DOMAIN live)
    BY <2>1, FS_Subset, Zenon
  <2>3. Cardinality(DOMAIN cs2) \in Nat /\ Cardinality(DOMAIN live) \in Nat
    BY <2>1, <2>2, FS_CardinalityType, Zenon
  <2>4. MaxBlocks \in Nat
    BY BuffersAssumption DEF BuffersAssumption
  <2>. QED
    BY <2>1, <2>2, <2>3, <2>4
<1>9. Empty.block = NoBlock /\ Empty.size <= BufferCapacity(cs2, Empty)
    BY DEF Empty, BufferCapacity
<1>10. \A b \in DOMAIN cs2 \ overwritten :
          b = Empty.block \/ b \in (DOMAIN live \ overwritten) \ {buffer[u].block}
    BY <1>1, Zenon
<1>11. \A b \in (DOMAIN live \ overwritten) \ {buffer[u].block} :
          b \in DOMAIN cs2 /\ cs2[b] = live[b] /\ b # Empty.block
    BY <1>1, <1>6, <1>9, Zenon
<1>12. Sound(cs2, overwritten, bufs2, bufferPool)
  <2>. HIDE DEF cs2
  <2>. QED
    BY <1>9, <1>10, <1>11, ChangedAlone, Zenon
<1>. QED
    BY <1>1, <1>4, <1>5, <1>7, <1>8, <1>12, Zenon

\* The assignment between two buffers loses the block of the first.
LEMMA MoveAssignKeeps ==
    ASSUME BuffersInv, NEW u \in Buffers, NEW w \in Buffers, MoveAssign(u, w)
    PROVE  BuffersInv'
<1>. DEFINE lost2 == overwritten \cup ({buffer[u].block} \ {NoBlock})
            dropped == [buffer EXCEPT ![u] = Empty]
            moved == [buffer EXCEPT ![u] = buffer[w], ![w] = Empty]
            o == <<"caller", u>>
            p0 == <<"caller", w>>
<1>0. BlocksTypeOK /\ Sound(live, overwritten, buffer, bufferPool) /\ NoBlock \notin DOMAIN live
    BY DEF BuffersInv, BlocksTypeOK, NoBlock
<1>1. /\ u # w /\ buffer' = moved /\ overwritten' = lost2
      /\ live' = live /\ bufferPool' = bufferPool /\ stats' = stats
    BY DEF MoveAssign
<1>2. /\ dropped[u] = Empty /\ moved[u] = buffer[w] /\ moved[w] = Empty
      /\ \A v \in Buffers \ {u} : dropped[v] = buffer[v]
      /\ \A v \in Buffers \ {u, w} : moved[v] = dropped[v]
      /\ dropped[w] = buffer[w]
    BY <1>0, <1>1 DEF BlocksTypeOK
<1>3. buffer[u].block # NoBlock => buffer[u].block \in DOMAIN live \ overwritten
    BY CallerFacts, Zenon
<1>4. Empty.block = NoBlock /\ Empty.size <= BufferCapacity(live, Empty)
    BY DEF Empty, BufferCapacity
<1>5. o \in OwnersOf(bufferPool) /\ p0 \in OwnersOf(bufferPool) /\ o[1] = "caller" /\ p0[1] = "caller" /\ o # p0
    BY <1>1 DEF OwnersOf
<1>6. /\ OwnedOf(buffer, bufferPool, o) = buffer[u] /\ OwnedOf(dropped, bufferPool, o) = Empty
      /\ OwnedOf(moved, bufferPool, o) = buffer[w] /\ OwnedOf(moved, bufferPool, p0) = Empty
      /\ OwnedOf(dropped, bufferPool, p0) = buffer[w]
  <2>. HIDE DEF dropped, moved
  <2>. QED
    BY <1>2 DEF OwnedOf
<1>7. /\ \A p \in OwnersOf(bufferPool) \ {o} : OwnedOf(dropped, bufferPool, p) = OwnedOf(buffer, bufferPool, p)
      /\ \A p \in OwnersOf(bufferPool) \ {o, p0} : OwnedOf(moved, bufferPool, p) = OwnedOf(dropped, bufferPool, p)
  <2>. HIDE DEF dropped, moved
  <2>1. ASSUME NEW v \in Buffers PROVE /\ <<"caller", v>> # o => v # u
                                       /\ <<"caller", v>> # p0 => v # w
    OBVIOUS
  <2>. QED
    BY <1>2, <2>1 DEF OwnersOf, OwnedOf
<1>. HIDE DEF dropped, moved, o, p0
<1>8. Sound(live, lost2, dropped, bufferPool)
  <2>1. Relies(live, lost2, o, Empty)
    BY <1>4, <1>5 DEF Relies
  <2>2. /\ \A b \in DOMAIN live \ lost2 : b \in (DOMAIN live \ overwritten) \ {buffer[u].block}
        /\ \A b \in (DOMAIN live \ overwritten) \ {buffer[u].block} : b \in DOMAIN live \ lost2 /\ b # NoBlock
    BY <1>0, Zenon
  <2>. HIDE DEF lost2
  <2>3. HandsOver(o, o, live, overwritten, buffer, bufferPool, live, lost2, dropped, bufferPool)
    BY <1>4, <1>5, <1>6, <1>7, <2>1, <2>2, Zenon DEF HandsOver
  <2>. QED
    BY <1>0, <2>3, HandedOver, Zenon
<1>9. Sound(live, lost2, moved, bufferPool)
  <2>. HIDE DEF lost2
  <2>1. Relies(live, lost2, p0, buffer[w])
    BY <1>5, <1>6, <1>8, Zenon DEF Sound
  <2>2. Relies(live, lost2, o, buffer[w])
    BY <1>5, <2>1 DEF Relies
  <2>3. HandsOver(p0, o, live, lost2, dropped, bufferPool, live, lost2, moved, bufferPool)
    <3>1. \A p \in OwnersOf(bufferPool) \ {o} :
             \/ p[1] = "caller" /\ OwnedOf(moved, bufferPool, p) = Empty
             \/ p \in OwnersOf(bufferPool) \ {p0} /\ OwnedOf(moved, bufferPool, p) = OwnedOf(dropped, bufferPool, p)
      BY <1>5, <1>6, <1>7, Zenon
    <3>2. \A p \in OwnersOf(bufferPool) \ {p0} :
             \/ OwnedOf(dropped, bufferPool, p).block = NoBlock
             \/ p \in OwnersOf(bufferPool) \ {o} /\ OwnedOf(moved, bufferPool, p) = OwnedOf(dropped, bufferPool, p)
      BY <1>4, <1>6, <1>7, Zenon
    <3>3. \A b \in (DOMAIN live \ lost2) \ {buffer[w].block} :
             b \in DOMAIN live \ lost2 /\ live[b] = live[b] /\ b # buffer[w].block
      OBVIOUS
    <3>. QED
      BY <1>5, <1>6, <2>2, <3>1, <3>2, <3>3, Zenon DEF HandsOver
  <2>. QED
    BY <1>0, <1>8, <2>3, HandedOver, Zenon
<1>10. BlocksTypeOK'
  <2>1. moved \in [Buffers -> BufferRecord]
    BY <1>0 DEF moved, BlocksTypeOK, Empty, NoBlock, BufferRecord
  <2>2. lost2 \subseteq DOMAIN live
    BY <1>0, <1>3 DEF BlocksTypeOK
  <2>. QED
    BY <1>0, <1>1, <2>1, <2>2 DEF BlocksTypeOK
<1>. QED
    BY <1>1, <1>9, <1>10, Zenon DEF BuffersInv

\* What is in the pool, and what the pool is without its last buffer.
LEMMA PoolFacts ==
    ASSUME BuffersInv
    PROVE  /\ Len(bufferPool) \in Nat /\ DOMAIN bufferPool = 1..Len(bufferPool)
           /\ bufferPool # <<>> =>
                /\ Len(bufferPool) \in DOMAIN bufferPool
                /\ Last(bufferPool) = bufferPool[Len(bufferPool)]
                /\ Last(bufferPool) \in BufferRecord
                /\ Front(bufferPool) \in Seq(BufferRecord)
                /\ Len(Front(bufferPool)) = Len(bufferPool) - 1
                /\ DOMAIN Front(bufferPool) = DOMAIN bufferPool \ {Len(bufferPool)}
                /\ \A i \in DOMAIN Front(bufferPool) : Front(bufferPool)[i] = bufferPool[i]
<1>1. bufferPool \in Seq(BufferRecord)
    BY DEF BuffersInv, BlocksTypeOK
<1>2. Len(bufferPool) \in Nat /\ DOMAIN bufferPool = 1..Len(bufferPool)
    BY <1>1
<1>3. ASSUME bufferPool # <<>>
      PROVE  /\ Len(bufferPool) \in DOMAIN bufferPool
             /\ Last(bufferPool) = bufferPool[Len(bufferPool)]
             /\ Last(bufferPool) \in BufferRecord
             /\ Front(bufferPool) \in Seq(BufferRecord)
             /\ Len(Front(bufferPool)) = Len(bufferPool) - 1
             /\ DOMAIN Front(bufferPool) = DOMAIN bufferPool \ {Len(bufferPool)}
             /\ \A i \in DOMAIN Front(bufferPool) : Front(bufferPool)[i] = bufferPool[i]
  <2>1. Front(bufferPool) = SubSeq(bufferPool, 1, Len(bufferPool) - 1)
    BY DEF Front
  <2>2. Len(bufferPool) >= 1
    BY <1>1, <1>3
  <2>3. 1 \in Int /\ Len(bufferPool) - 1 \in Int /\ \A i \in 1..Len(bufferPool) - 1 : bufferPool[i] \in BufferRecord
    BY <1>1, <1>2, <2>2
  <2>4. /\ Front(bufferPool) \in Seq(BufferRecord)
        /\ Len(Front(bufferPool)) = IF 1 <= Len(bufferPool) - 1 THEN (Len(bufferPool) - 1) - 1 + 1 ELSE 0
        /\ \A i \in 1..(Len(bufferPool) - 1) - 1 + 1 : Front(bufferPool)[i] = bufferPool[1 + i - 1]
    BY <2>1, <2>3, SubSeqProperties
  <2>5. /\ Len(Front(bufferPool)) = Len(bufferPool) - 1
        /\ \A i \in 1..Len(bufferPool) - 1 : Front(bufferPool)[i] = bufferPool[i]
    <3>1. Len(Front(bufferPool)) = Len(bufferPool) - 1
      <4>1. Len(Front(bufferPool)) = IF 1 <= Len(bufferPool) - 1 THEN (Len(bufferPool) - 1) - 1 + 1 ELSE 0
        BY <2>4, Zenon
      <4>2. CASE 1 <= Len(bufferPool) - 1
        BY <1>2, <4>1, <4>2
      <4>3. CASE ~(1 <= Len(bufferPool) - 1)
        BY <1>2, <2>2, <4>1, <4>3
      <4>. QED
        BY <4>2, <4>3, Zenon
    <3>2. ASSUME NEW i \in 1..Len(bufferPool) - 1 PROVE Front(bufferPool)[i] = bufferPool[i]
      <4>1. i \in 1..(Len(bufferPool) - 1) - 1 + 1 /\ 1 + i - 1 = i
        BY <1>2
      <4>2. Front(bufferPool)[i] = bufferPool[1 + i - 1]
        BY <2>4, <4>1, Zenon
      <4>. QED
        BY <4>1, <4>2
    <3>. QED
      BY <3>1, <3>2, Zenon
  <2>6. DOMAIN Front(bufferPool) = 1..Len(bufferPool) - 1
    BY <2>4, <2>5
  <2>7. Len(bufferPool) \in DOMAIN bufferPool /\ Last(bufferPool) = bufferPool[Len(bufferPool)]
    BY <1>2, <2>2 DEF Last
  <2>8. Last(bufferPool) \in BufferRecord
    BY <1>1, <2>7
  <2>9. DOMAIN Front(bufferPool) = DOMAIN bufferPool \ {Len(bufferPool)}
    BY <1>2, <2>2, <2>6
  <2>. QED
    BY <2>4, <2>5, <2>6, <2>7, <2>8, <2>9, Zenon
<1>. QED
    BY <1>2, <1>3, Zenon

\* The pool answers with the last buffer it keeps, grown if need be, or a new one.
LEMMA PoolGetKeeps ==
    ASSUME BuffersInv, NEW u \in Buffers, NEW n \in BufferSizes, PoolGet(u, n)
    PROVE  BuffersInv'
<1>. DEFINE hit == bufferPool # <<>>
            x == IF hit THEN Last(bufferPool) ELSE Empty
            r == Resized(live, x, n)
            cs2 == r[1]
            y == r[2]
            pool2 == IF hit THEN Front(bufferPool) ELSE bufferPool
            bufs2 == [buffer EXCEPT ![u] = y]
            c == <<"caller", u>>
<1>0. BlocksTypeOK /\ Sound(live, overwritten, buffer, bufferPool) /\ NoBlock \notin DOMAIN live
      /\ Len(bufferPool) <= PoolMax /\ n \in Nat
    BY BuffersAssumption DEF BuffersInv, BlocksTypeOK, NoBlock, BuffersAssumption
<1>1. /\ buffer[u] = Empty /\ bufferPool' = pool2 /\ live' = cs2 /\ buffer' = bufs2
      /\ Cardinality(DOMAIN cs2) <= MaxBlocks /\ overwritten' = overwritten
      /\ stats' = [stats EXCEPT !.gets = @ + 1, !.hits = IF hit THEN @ + 1 ELSE @,
                                  !.most = Max({@, Len(bufferPool)})]
    BY DEF PoolGet
<1>2. Empty.block = NoBlock /\ Empty.size = 0 /\ Empty \in BufferRecord /\ NoBlock = 0
    BY DEF Empty, BufferRecord, NoBlock
<1>3. /\ x \in BufferRecord /\ (x.block # NoBlock => x.block \in DOMAIN live \ overwritten)
      /\ x.size <= BufferCapacity(live, x)
  <2>1. CASE hit
    <3>. DEFINE o == <<"pool", Len(bufferPool)>>
    <3>1. o \in OwnersOf(bufferPool) /\ OwnedOf(buffer, bufferPool, o) = x
      BY <2>1, PoolFacts DEF OwnersOf, OwnedOf
    <3>2. Relies(live, overwritten, o, x)
      BY <1>0, <3>1, Zenon DEF Sound
    <3>. QED
      BY <2>1, <3>2, PoolFacts DEF Relies
  <2>2. CASE ~hit
    BY <1>2, <2>2 DEF BufferCapacity
  <2>. QED
    BY <2>1, <2>2
<1>4. BlockHeld(live, x, cs2, y)
    BY <1>0, <1>3, ResizedFacts
<1>. HIDE DEF x, r, cs2, y
<1>5. /\ cs2 \in [DOMAIN cs2 -> Nat] /\ y \in BufferRecord /\ NoBlock \notin DOMAIN cs2
      /\ y.block # NoBlock => y.block \in DOMAIN cs2
      /\ y.size <= BufferCapacity(cs2, y)
      /\ DOMAIN cs2 = DOMAIN live \cup {y.block} \/ DOMAIN cs2 = DOMAIN live
      /\ \A b \in DOMAIN live \ {y.block} : cs2[b] = live[b]
      /\ y.block = x.block \/ (x.block = NoBlock /\ y.block = Fresh(live))
    BY <1>4, Zenon DEF BlockHeld
<1>6. Fresh(live) \notin DOMAIN live /\ overwritten \subseteq DOMAIN live
    BY <1>0, FreshFacts DEF BlocksTypeOK
<1>7. y.block # NoBlock => y.block \in DOMAIN cs2 \ overwritten
    BY <1>3, <1>5, <1>6, Zenon
<1>8. \A b \in DOMAIN cs2 \ overwritten : b = y.block \/ b \in (DOMAIN live \ overwritten) \ {x.block}
    BY <1>0, <1>5, <1>6, Zenon
<1>9. \A b \in (DOMAIN live \ overwritten) \ {x.block} :
         b \in DOMAIN cs2 \ overwritten /\ cs2[b] = live[b] /\ b # y.block
    BY <1>5, <1>6, Zenon
<1>10. bufs2[u] = y /\ \A v \in Buffers \ {u} : bufs2[v] = buffer[v]
    BY <1>0 DEF BlocksTypeOK
<1>11. c \in OwnersOf(pool2) /\ c \in OwnersOf(bufferPool) /\ c[1] = "caller"
       /\ OwnedOf(buffer, bufferPool, c) = Empty
    BY <1>1 DEF OwnersOf, OwnedOf
<1>. HIDE DEF bufs2
<1>12. OwnedOf(bufs2, pool2, c) = y
    BY <1>10 DEF OwnedOf
<1>13. Relies(cs2, overwritten, c, y)
    BY <1>5, <1>7, <1>11 DEF Relies
<1>14. Sound(cs2, overwritten, bufs2, pool2)
  <2>1. CASE hit
    <3>. DEFINE o == <<"pool", Len(bufferPool)>>
    <3>1. o \in OwnersOf(bufferPool) /\ OwnedOf(buffer, bufferPool, o) = x
      BY <2>1, PoolFacts DEF OwnersOf, OwnedOf, x
    <3>2. pool2 = Front(bufferPool)
      BY <2>1
    <3>. HIDE DEF pool2
    <3>3. \A p \in OwnersOf(pool2) \ {c} :
             p \in OwnersOf(bufferPool) \ {o} /\ OwnedOf(bufs2, pool2, p) = OwnedOf(buffer, bufferPool, p)
      BY <1>10, <2>1, <3>2, PoolFacts DEF OwnersOf, OwnedOf
    <3>4. \A p \in OwnersOf(bufferPool) \ {o, c} :
             p \in OwnersOf(pool2) \ {c} /\ OwnedOf(bufs2, pool2, p) = OwnedOf(buffer, bufferPool, p)
      BY <1>10, <2>1, <3>2, PoolFacts DEF OwnersOf, OwnedOf
    <3>. HIDE DEF o, c
    <3>5. HandsOver(o, c, live, overwritten, buffer, bufferPool, cs2, overwritten, bufs2, pool2)
      BY <1>2, <1>8, <1>9, <1>11, <1>12, <1>13, <3>1, <3>3, <3>4, Zenon DEF HandsOver
    <3>. QED
      BY <1>0, <3>5, HandedOver, Zenon
  <2>2. CASE ~hit
    <3>1. pool2 = bufferPool /\ x = Empty
      BY <2>2 DEF x
    <3>. HIDE DEF pool2
    <3>2. bufs2 = [buffer EXCEPT ![u] = y] /\ x = buffer[u]
      BY <1>1, <3>1 DEF bufs2
    <3>3. \A b \in (DOMAIN live \ overwritten) \ {buffer[u].block} :
             b \in DOMAIN cs2 /\ cs2[b] = live[b] /\ b # y.block
      BY <1>9, <3>2, Zenon
    <3>. QED
      BY <1>5, <1>7, <1>8, <3>1, <3>2, <3>3, ChangedAlone, Zenon
  <2>. QED
    BY <2>1, <2>2, Zenon
<1>15. BlocksTypeOK'
  <2>1. IsFiniteSet(DOMAIN cs2)
    <3>1. IsFiniteSet(DOMAIN live) /\ IsFiniteSet(DOMAIN live \cup {y.block})
      BY <1>0, FS_AddElement, Zenon DEF BlocksTypeOK
    <3>. QED
      BY <1>5, <3>1, Zenon
  <2>2. DOMAIN cs2 \subseteq Nat \ {0}
    BY <1>0, <1>2, <1>5 DEF BlocksTypeOK, BufferRecord
  <2>3. overwritten \subseteq DOMAIN cs2
    BY <1>5, <1>6, Zenon
  <2>4. bufs2 \in [Buffers -> BufferRecord]
    BY <1>0, <1>5 DEF bufs2, BlocksTypeOK
  <2>5. pool2 \in Seq(BufferRecord)
    BY <1>0, PoolFacts DEF BlocksTypeOK
  <2>6. /\ DOMAIN stats' = DOMAIN stats /\ stats'.gets \in Nat /\ stats'.hits \in Nat
        /\ stats'.gets >= stats'.hits
    BY <1>0, <1>1 DEF BlocksTypeOK
  <2>7. DOMAIN stats' = {"gets", "hits", "eats", "discards", "most", "largest"}
    BY <1>0, <2>6, Zenon DEF BlocksTypeOK
  <2>. HIDE DEF pool2
  <2>. QED
    BY <1>1, <1>5, <2>1, <2>2, <2>3, <2>4, <2>5, <2>6, <2>7, Zenon DEF BlocksTypeOK
<1>16. Len(bufferPool') <= PoolMax
  <2>1. bufferPool' = pool2
    BY <1>1, Zenon
  <2>2. Len(pool2) <= PoolMax
    <3>1. CASE hit
      <4>1. Len(pool2) = Len(bufferPool) - 1 /\ Len(bufferPool) \in Nat
        BY <3>1, PoolFacts
      <4>. QED
        BY <1>0, <4>1, BuffersAssumption DEF BuffersAssumption
    <3>2. CASE ~hit
      BY <1>0, <3>2
    <3>. QED
      BY <3>1, <3>2
  <2>. QED
    BY <2>1, <2>2, Zenon
<1>. QED
    BY <1>1, <1>14, <1>15, <1>16, Zenon DEF BuffersInv

\* The pool keeps a buffer that is worth it, and there is room for.
LEMMA PoolEatKeeps ==
    ASSUME BuffersInv, NEW u \in Buffers, PoolEat(u)
    PROVE  BuffersInv'
<1>. DEFINE used == buffer[u]
            cap == BufferCapacity(live, used)
            kept == cap >= MinKept /\ Len(bufferPool) < PoolMax
            pool2 == Append(bufferPool, used)
            bufs2 == [buffer EXCEPT ![u] = Empty]
            o == <<"caller", u>>
            c == <<"pool", Len(bufferPool) + 1>>
<1>0. BlocksTypeOK /\ Sound(live, overwritten, buffer, bufferPool) /\ NoBlock \notin DOMAIN live
      /\ Len(bufferPool) <= PoolMax
    BY DEF BuffersInv, BlocksTypeOK, NoBlock
<1>1. /\ buffer' = bufs2 /\ overwritten' = overwritten
      /\ bufferPool' = IF kept THEN pool2 ELSE bufferPool
      /\ live' = IF kept THEN live ELSE BlockFreed(live, used)
      /\ stats' = [stats EXCEPT !.discards = IF kept THEN @ ELSE @ + 1,
                                  !.eats = IF cap >= MinKept THEN @ + 1 ELSE @,
                                  !.largest = IF cap >= MinKept THEN Max({@, cap}) ELSE @]
    BY DEF PoolEat
<1>2. used \in BufferRecord
    BY CallerFacts, Zenon
<1>3. bufs2[u] = Empty /\ (\A v \in Buffers \ {u} : bufs2[v] = buffer[v]) /\ bufs2 \in [Buffers -> BufferRecord]
    BY <1>0 DEF BlocksTypeOK, Empty, NoBlock, BufferRecord
<1>4. /\ DOMAIN stats' = {"gets", "hits", "eats", "discards", "most", "largest"}
      /\ stats'.gets \in Nat /\ stats'.hits \in Nat /\ stats'.gets >= stats'.hits
  <2>1. DOMAIN stats' = DOMAIN stats /\ stats'.gets = stats.gets /\ stats'.hits = stats.hits
    BY <1>0, <1>1 DEF BlocksTypeOK
  <2>. QED
    BY <1>0, <2>1, Zenon DEF BlocksTypeOK
<1>5. CASE kept
  <2>1. live' = live /\ bufferPool' = pool2
    BY <1>1, <1>5
  <2>2. /\ Len(bufferPool) \in Nat /\ bufferPool \in Seq(BufferRecord)
        /\ DOMAIN pool2 = DOMAIN bufferPool \cup {Len(bufferPool) + 1}
        /\ pool2[Len(bufferPool) + 1] = used
        /\ \A i \in DOMAIN bufferPool : pool2[i] = bufferPool[i] /\ i # Len(bufferPool) + 1
        /\ pool2 \in Seq(BufferRecord)
        /\ Len(pool2) = Len(bufferPool) + 1
    BY <1>0, <1>2 DEF BlocksTypeOK
  <2>3. o \in OwnersOf(bufferPool) /\ c \in OwnersOf(pool2) /\ c[1] = "pool" /\ o[1] = "caller"
        /\ OwnedOf(buffer, bufferPool, o) = used /\ OwnedOf(bufs2, pool2, c) = used
    BY <2>2 DEF OwnersOf, OwnedOf
  <2>4. Relies(live, overwritten, c, used)
    <3>1. Relies(live, overwritten, o, used)
      BY <1>0, <2>3, Zenon DEF Sound
    <3>. QED
      BY <1>5, <3>1 DEF Relies
  <2>. HIDE DEF used, pool2, bufs2
  <2>5. \A p \in OwnersOf(pool2) \ {c} :
           \/ p[1] = "caller" /\ OwnedOf(bufs2, pool2, p) = Empty
           \/ p \in OwnersOf(bufferPool) \ {o} /\ OwnedOf(bufs2, pool2, p) = OwnedOf(buffer, bufferPool, p)
    BY <1>3, <2>2 DEF OwnersOf, OwnedOf
  <2>6. \A p \in OwnersOf(bufferPool) \ {o} :
           p \in OwnersOf(pool2) \ {c} /\ OwnedOf(bufs2, pool2, p) = OwnedOf(buffer, bufferPool, p)
    BY <1>3, <2>2 DEF OwnersOf, OwnedOf
  <2>7. /\ \A b \in DOMAIN live \ overwritten :
              b = used.block \/ b \in (DOMAIN live \ overwritten) \ {used.block}
        /\ \A b \in (DOMAIN live \ overwritten) \ {used.block} :
              b \in DOMAIN live \ overwritten /\ live[b] = live[b] /\ b # used.block
    OBVIOUS
  <2>. HIDE DEF o, c
  <2>8. HandsOver(o, c, live, overwritten, buffer, bufferPool, live, overwritten, bufs2, pool2)
    BY <2>3, <2>4, <2>5, <2>6, <2>7, Zenon DEF HandsOver
  <2>9. Sound(live', overwritten', buffer', bufferPool')
    <3>1. Sound(live, overwritten, bufs2, pool2)
      BY <1>0, <2>8, HandedOver, Zenon
    <3>2. buffer' = bufs2 /\ overwritten' = overwritten
      BY <1>1, Zenon
    <3>. QED
      BY <2>1, <3>1, <3>2, Zenon
  <2>10. BlocksTypeOK'
    BY <1>0, <1>1, <1>3, <1>4, <2>1, <2>2, Zenon DEF BlocksTypeOK
  <2>11. Len(bufferPool') <= PoolMax
    BY <1>5, <2>1, <2>2, BuffersAssumption DEF BuffersAssumption
  <2>. QED
    BY <2>9, <2>10, <2>11, Zenon DEF BuffersInv
<1>6. CASE ~kept
  <2>1. live' = BlockFreed(live, buffer[u]) /\ bufferPool' = bufferPool
    BY <1>1, <1>6
  <2>. HIDE DEF bufs2
  <2>2. BlocksTypeOK'
    BY <1>0, <1>1, <1>3, <1>4, <2>1, FreedFacts, Zenon DEF BlocksTypeOK
  <2>3. Sound(live', overwritten', buffer', bufferPool')
    BY <1>1, <2>1, FreedFacts, Zenon DEF bufs2
  <2>. QED
    BY <1>0, <2>1, <2>2, <2>3, Zenon DEF BuffersInv
<1>. QED
    BY <1>5, <1>6, Zenon

\* No block is there at first, and none of it goes to a buffer.
LEMMA BuffersInitially ==
    ASSUME BuffersInit
    PROVE  BuffersInv
<1>1. BlocksTypeOK
  <2>1. /\ DOMAIN live = {} /\ live \in [DOMAIN live -> Nat] /\ overwritten = {}
        /\ buffer \in [Buffers -> BufferRecord] /\ bufferPool \in Seq(BufferRecord)
    BY DEF BuffersInit, Empty, NoBlock, BufferRecord
  <2>2. /\ DOMAIN stats = {"gets", "hits", "eats", "discards", "most", "largest"}
        /\ stats.gets \in Nat /\ stats.hits \in Nat /\ stats.gets >= stats.hits
    BY DEF BuffersInit, NoStats
  <2>3. IsFiniteSet({}) /\ Cardinality({}) = 0
    BY FS_EmptySet, Zenon
  <2>4. IsFiniteSet(DOMAIN live) /\ Cardinality(DOMAIN live) <= MaxBlocks
    BY <2>1, <2>3, BuffersAssumption DEF BuffersAssumption
  <2>5. DOMAIN live \subseteq Nat \ {0} /\ overwritten \subseteq DOMAIN live
    BY <2>1
  <2>. QED
    BY <2>1, <2>2, <2>4, <2>5, Zenon DEF BlocksTypeOK
<1>2. Sound(live, overwritten, buffer, bufferPool)
  <2>1. DOMAIN live = {} /\ DOMAIN bufferPool = {}
    BY DEF BuffersInit
  <2>2. ASSUME NEW p \in OwnersOf(bufferPool) PROVE p[1] # "pool" /\ OwnedOf(buffer, bufferPool, p) = Empty
    BY <2>1 DEF OwnersOf, OwnedOf, BuffersInit
  <2>3. Empty.block = NoBlock /\ Empty.size <= BufferCapacity(live, Empty)
    BY DEF Empty, BufferCapacity
  <2>4. ASSUME NEW p \in OwnersOf(bufferPool)
        PROVE  Relies(live, overwritten, p, OwnedOf(buffer, bufferPool, p))
    BY <2>2, <2>3, Zenon DEF Relies
  <2>. QED
    BY <2>1, <2>2, <2>3, <2>4, Zenon DEF Sound
<1>3. Len(bufferPool) <= PoolMax
    BY BuffersAssumption DEF BuffersInit, BuffersAssumption
<1>. QED
    BY <1>1, <1>2, <1>3, Zenon DEF BuffersInv

\* Every operation of the buffers and of their pool keeps the blocks owned.
LEMMA BuffersStepKeeps ==
    ASSUME BuffersInv, BuffersNext \/ UNCHANGED bufferVars
    PROVE  BuffersInv'
<1>0. BlocksTypeOK /\ BufferSizes \subseteq Nat
    BY BuffersAssumption DEF BuffersInv, BuffersAssumption
<1>1. ASSUME NEW u \in Buffers
      PROVE  /\ buffer[u] \in BufferRecord
             /\ buffer[u].block # NoBlock => buffer[u].block \in DOMAIN live
             /\ buffer[u].size <= BufferCapacity(live, buffer[u])
    BY CallerFacts, Zenon
<1>2. ASSUME NEW u \in Buffers, NEW n \in Nat, Stored(u, Resized(live, buffer[u], n)) PROVE BuffersInv'
    BY <1>0, <1>1, <1>2, ResizedFacts, StoredKeeps, Zenon
<1>3. ASSUME NEW u \in Buffers, NEW n \in BufferSizes, Reserve(u, n) PROVE BuffersInv'
  <2>1. n \in Nat /\ Stored(u, Reserved(live, buffer[u], n))
    BY <1>0, <1>3 DEF Reserve
  <2>. QED
    BY <1>0, <1>1, <2>1, ReservedFacts, StoredKeeps, Zenon
<1>4. ASSUME NEW u \in Buffers, NEW n \in BufferSizes, Resize(u, n) \/ EnlargeBy(u, n) PROVE BuffersInv'
    BY <1>0, <1>2, <1>4 DEF Resize, EnlargeBy
<1>5. ASSUME NEW u \in Buffers, NEW n \in BufferSizes, Ensure(u, n) PROVE BuffersInv'
  <2>1. CASE buffer[u].size < n
    BY <1>0, <1>2, <1>5, <2>1 DEF Ensure
  <2>2. CASE ~(buffer[u].size < n)
    <3>. DEFINE r == <<live, buffer[u]>>
    <3>1. Stored(u, r) /\ r[1] = live /\ r[2] = buffer[u]
      BY <1>5, <2>2 DEF Ensure
    <3>2. /\ BufferCapacity(live, buffer[u]) \in Nat
          /\ NoBlock \notin DOMAIN live /\ live \in [DOMAIN live -> Nat]
      BY <1>0, <1>1 DEF BufferCapacity, BlocksTypeOK, NoBlock
    <3>3. BufferCapacity(live, buffer[u]) <= BufferCapacity(live, buffer[u])
      BY <3>2
    <3>4. BlockHeld(live, buffer[u], live, buffer[u])
      BY <1>1, <3>2, <3>3, Zenon DEF BlockHeld
    <3>. HIDE DEF r
    <3>. QED
      BY <3>1, <3>4, StoredKeeps, Zenon
  <2>. QED
    BY <2>1, <2>2
<1>6. ASSUME NEW u \in Buffers, Free(u) PROVE BuffersInv'
  <2>1. /\ live' = BlockFreed(live, buffer[u]) /\ buffer' = [buffer EXCEPT ![u] = Empty]
        /\ bufferPool' = bufferPool /\ stats' = stats /\ overwritten' = overwritten
    BY <1>6 DEF Free, Stored
  <2>2. buffer' \in [Buffers -> BufferRecord]
    BY <1>0, <2>1 DEF BlocksTypeOK, Empty, NoBlock, BufferRecord
  <2>3. BlocksTypeOK'
    BY <1>0, <2>1, <2>2, FreedFacts, Zenon DEF BlocksTypeOK
  <2>4. Sound(live', overwritten', buffer', bufferPool')
    BY <2>1, FreedFacts, Zenon
  <2>5. Len(bufferPool') <= PoolMax
    BY <2>1, Zenon DEF BuffersInv
  <2>. QED
    BY <2>3, <2>4, <2>5, Zenon DEF BuffersInv
<1>7. CASE UNCHANGED bufferVars
    BY <1>7 DEF BuffersInv, BlocksTypeOK, bufferVars
<1>. QED
    BY <1>3, <1>4, <1>5, <1>6, <1>7, MoveAssignKeeps, PoolGetKeeps, PoolEatKeeps, Zenon DEF BuffersNext

\* Each block has one owner, and the pool counts its hits.
LEMMA BuffersInvSuffices ==
    ASSUME BuffersInv
    PROVE  BlocksAreOwned
<1>1. Sound(live, overwritten, buffer, bufferPool) /\ Len(bufferPool) <= PoolMax /\ stats.gets >= stats.hits
    BY DEF BuffersInv, BlocksTypeOK
<1>2. Owners = OwnersOf(bufferPool)
    BY DEF Owners, OwnersOf
<1>3. \A o : OwnedBy(o) = OwnedOf(buffer, bufferPool, o)
    BY DEF OwnedBy, OwnedOf
<1>4. \A b \in DOMAIN live \ overwritten : \E o \in Owners : OwnedBy(o).block = b
    BY <1>1, <1>2, <1>3, Zenon DEF Sound
<1>5. ASSUME NEW o \in Owners
      PROVE  /\ OwnedBy(o).block # NoBlock => OwnedBy(o).block \in DOMAIN live \ overwritten
             /\ OwnedBy(o).size <= BufferCapacity(live, OwnedBy(o))
             /\ \A p \in Owners \ {o} : OwnedBy(o).block = OwnedBy(p).block => OwnedBy(o).block = NoBlock
    BY <1>1, <1>2, <1>3, Zenon DEF Sound, Relies
<1>6. ASSUME NEW i \in DOMAIN bufferPool PROVE BufferCapacity(live, bufferPool[i]) >= MinKept
  <2>. DEFINE o == <<"pool", i>>
  <2>1. o \in OwnersOf(bufferPool) /\ o[1] = "pool" /\ OwnedOf(buffer, bufferPool, o) = bufferPool[i]
    BY DEF OwnersOf, OwnedOf
  <2>2. Relies(live, overwritten, o, bufferPool[i])
    BY <1>1, <2>1, Zenon DEF Sound
  <2>. QED
    BY <2>1, <2>2, Zenon DEF Relies
<1>. QED
    BY <1>1, <1>4, <1>5, <1>6, Zenon DEF BlocksAreOwned

(***************************************************************************)
(* Objects are called as what they are unless a constructor threw.         *)
(***************************************************************************)
StorageInv ==
    thrown \/ /\ blks \in Seq(Types) /\ clrs = blks
              /\ built = DOMAIN blks
              /\ \A i \in DOMAIN called : called[i][1] = called[i][2]
              /\ \A i, j \in DOMAIN destroyed : i < j => destroyed[i] > destroyed[j]

\* Nothing is stored at first.
LEMMA StorageInitially ==
    ASSUME StorageInit PROVE StorageInv
BY DEF StorageInit, StorageInv

\* Every operation keeps the blocks and their callbacks in step.
LEMMA StorageStepKeeps ==
    ASSUME StorageInv, StorageNext \/ UNCHANGED storageVars
    PROVE  StorageInv'
<1>1. ASSUME NEW t \in Types, Add(t) PROVE StorageInv'
  <2>. SUFFICES ASSUME ~thrown PROVE StorageInv'
    BY <1>1 DEF Add, StorageInv
  <2>1. /\ blks' = Append(blks, t) /\ clrs' = Append(clrs, t) /\ built' = built \cup {Len(blks) + 1}
        /\ destroyed' = destroyed /\ called' = called
    BY <1>1 DEF Add, Emplaced
  <2>2. blks \in Seq(Types) /\ clrs = blks /\ built = DOMAIN blks
    BY DEF StorageInv
  <2>3. blks' \in Seq(Types) /\ DOMAIN blks' = DOMAIN blks \cup {Len(blks) + 1}
    BY <2>1, <2>2
  <2>. QED
    BY <2>1, <2>2, <2>3, Zenon DEF StorageInv
<1>2. ASSUME NEW t \in Types, AddThrows(t) PROVE StorageInv'
    BY <1>2, Zenon DEF AddThrows, StorageInv
<1>3. ASSUME Clear PROVE StorageInv'
  <2>. SUFFICES ASSUME ~thrown PROVE StorageInv'
    BY <1>3 DEF Clear, StorageInv
  <2>1. /\ blks' = <<>> /\ clrs' = <<>> /\ built' = {} /\ called' = called
        /\ destroyed' = Reverse([i \in DOMAIN blks |-> i])
    BY <1>3 DEF Clear
  <2>2. blks \in Seq(Types)
    BY DEF StorageInv
  <2>3. \A i, j \in DOMAIN destroyed' : i < j => destroyed'[i] > destroyed'[j]
    <3>. DEFINE s == [i \in DOMAIN blks |-> i]
    <3>1. Len(blks) \in Nat /\ DOMAIN blks = 1..Len(blks)
      BY <2>2
    <3>2. s = [i \in 1..Len(blks) |-> i] /\ Len(s) = Len(blks)
      BY <3>1
    <3>3. destroyed' = [i \in 1..Len(blks) |-> s[(Len(blks) - i) + 1]]
      BY <2>1, <3>2 DEF Reverse
    <3>4. \A i \in 1..Len(blks) : destroyed'[i] = (Len(blks) - i) + 1
      BY <3>1, <3>2, <3>3
    <3>. QED
      BY <3>1, <3>3, <3>4
  <2>4. <<>> \in Seq(Types) /\ {} = DOMAIN <<>>
    OBVIOUS
  <2>5. \A i \in DOMAIN called : called[i][1] = called[i][2]
    BY Zenon DEF StorageInv
  <2>. QED
    BY <2>1, <2>3, <2>4, <2>5, Zenon DEF StorageInv
<1>4. ASSUME Call PROVE StorageInv'
  <2>. SUFFICES ASSUME ~thrown PROVE StorageInv'
    BY <1>4 DEF Call, StorageInv
  <2>1. clrs = blks /\ called' = [i \in DOMAIN blks |-> <<IF i \in DOMAIN clrs THEN clrs[i] ELSE "none", blks[i]>>]
        /\ blks' = blks /\ clrs' = clrs /\ built' = built /\ thrown' = thrown /\ destroyed' = destroyed
    BY <1>4 DEF Call, StorageInv
  <2>2. \A i \in DOMAIN called' : called'[i][1] = called'[i][2]
    BY <2>1
  <2>. QED
    BY <2>1, <2>2, Zenon DEF StorageInv
<1>5. ASSUME UNCHANGED storageVars PROVE StorageInv'
    BY <1>5 DEF storageVars, StorageInv
<1>. QED
    BY <1>1, <1>2, <1>3, <1>4, <1>5, Zenon DEF StorageNext, AddNoMemory

\* The operations of a block are those of its type.
LEMMA StorageInvSuffices ==
    ASSUME StorageInv PROVE CalledAsBuilt
BY Zenon DEF StorageInv, CalledAsBuilt

\* The values of a function are at most as many as its arguments.
LEMMA ImageCounts ==
    ASSUME NEW X, IsFiniteSet(X), NEW f
    PROVE  /\ IsFiniteSet({f[x] : x \in X})
           /\ Cardinality({f[x] : x \in X}) \in Nat /\ Cardinality(X) \in Nat
           /\ Cardinality({f[x] : x \in X}) <= Cardinality(X)
<1>. DEFINE T == {f[x] : x \in X}
            g == [x \in X |-> f[x]]
<1>1. g \in Surjection(X, T)
    BY DEF Surjection
<1>. HIDE DEF T, g
<1>2. IsFiniteSet(T) /\ Cardinality(T) <= Cardinality(X)
    BY <1>1, FS_Surjection, Zenon
<1>3. Cardinality(T) \in Nat /\ Cardinality(X) \in Nat
    BY <1>2, FS_CardinalityType, Zenon
<1>. QED
    BY <1>2, <1>3, Zenon DEF T

-----------------------------------------------------------------------------
(* The objects of a pool.                                                  *)

PoolNodes == (Nat \ {0}) \X BOOLEAN

UsedOf(ns) == {ns[i][1] : i \in {j \in DOMAIN ns : ns[j][2]}}

Apart(ns) == \A i, j \in DOMAIN ns : ns[i][1] = ns[j][1] => i = j

LentTo(hs) == {hs[h] : h \in Holders} \ {NoObject}

OneEach(hs) == \A h, g \in Holders : hs[h] = hs[g] /\ h # g => hs[h] = NoObject

PoolOK(ns, n, hs) ==
    /\ ns \in Seq(PoolNodes) /\ Apart(ns)
    /\ hs \in [Holders -> Nat]
    /\ UsedOf(ns) = LentTo(hs) /\ OneEach(hs)
    /\ Cardinality(LentTo(hs)) = n
    /\ n = 0 => ns = <<>>

PoolInv == twice \/ PoolOK(objects, count, held)

\* What is lent is lent to someone.
LEMMA LentFacts ==
    ASSUME NEW hs
    PROVE  /\ IsFiniteSet(LentTo(hs)) /\ Cardinality(LentTo(hs)) \in Nat
           /\ Cardinality(LentTo(hs)) < CountLimit
<1>. DEFINE T == {hs[h] : h \in Holders}
<1>1. IsFiniteSet(Holders) /\ Cardinality(Holders) < CountLimit /\ CountLimit \in Nat
    BY ObjectPoolAssumption DEF ObjectPoolAssumption
<1>2. /\ IsFiniteSet(T) /\ Cardinality(T) \in Nat /\ Cardinality(Holders) \in Nat
      /\ Cardinality(T) <= Cardinality(Holders)
    BY <1>1, ImageCounts, Zenon
<1>3. LentTo(hs) \in SUBSET T
    BY DEF LentTo
<1>. HIDE DEF T
<1>4. IsFiniteSet(LentTo(hs)) /\ Cardinality(LentTo(hs)) <= Cardinality(T)
    BY <1>2, <1>3, FS_Subset, Zenon
<1>5. Cardinality(LentTo(hs)) \in Nat
    BY <1>4, FS_CardinalityType, Zenon
<1>. QED
    BY <1>1, <1>2, <1>4, <1>5

\* The nodes of a pool, one by one.
LEMMA NodesOf ==
    ASSUME NEW ns \in Seq(PoolNodes)
    PROVE  /\ Len(ns) \in Nat /\ DOMAIN ns = 1..Len(ns)
           /\ \A i \in DOMAIN ns : /\ ns[i] \in PoolNodes /\ ns[i] = <<ns[i][1], ns[i][2]>>
                                      /\ ns[i][1] \in Nat \ {0} /\ ns[i][2] \in BOOLEAN
<1>1. \A i \in DOMAIN ns : ns[i] \in PoolNodes
    OBVIOUS
<1>2. \A e \in PoolNodes : e = <<e[1], e[2]>> /\ e[1] \in Nat \ {0} /\ e[2] \in BOOLEAN
    BY DEF PoolNodes
<1>3. Len(ns) \in Nat /\ DOMAIN ns = 1..Len(ns)
    OBVIOUS
<1>. QED
    BY <1>1, <1>2, <1>3, Zenon

\* Without the empty nodes, the same objects are in use.
LEMMA NodesInUseFacts ==
    ASSUME NEW ns \in Seq(PoolNodes), Apart(ns)
    PROVE  /\ NodesInUse(ns) \in Seq(PoolNodes) /\ Apart(NodesInUse(ns))
           /\ UsedOf(NodesInUse(ns)) = UsedOf(ns)
           /\ \A i \in DOMAIN NodesInUse(ns) : NodesInUse(ns)[i][2]
<1>. DEFINE used == {ns[i] : i \in {j \in DOMAIN ns : ns[j][2]}}
            kept == CHOOSE f : Parts(f, ns, used, Len(ns))
<1>0. Len(ns) \in Nat /\ DOMAIN ns = 1..Len(ns) /\ \A i \in DOMAIN ns : ns[i] \in PoolNodes
    BY NodesOf, Zenon
<1>1. NodesInUse(ns) = kept[Len(ns)]
    BY Zenon DEF NodesInUse, Parts
<1>2. \E f : Parts(f, ns, used, Len(ns))
  <2>1. Len(ns) \in 0..Len(ns)
    BY <1>0
  <2>. QED
    BY <2>1, PartsExist, Zenon
<1>3. Parts(kept, ns, used, Len(ns))
    BY <1>2, Zenon
<1>4. OneByOne(kept, ns, used, Len(ns))
    BY <1>0, <1>3, PartsFacts, Zenon
<1>5. \A i \in DOMAIN ns : ns[i] \in used <=> ns[i][2]
    OBVIOUS
<1>. HIDE DEF kept, used
<1>. DEFINE Good(k) ==
                /\ kept[k] \in Seq(PoolNodes) /\ Apart(kept[k])
                /\ \A i \in DOMAIN kept[k] : kept[k][i][2] /\ \E j \in 1..k : kept[k][i] = ns[j]
                /\ \A j \in 1..k : ns[j][2] => \E i \in DOMAIN kept[k] : kept[k][i] = ns[j]
            N == {k \in Nat : k <= Len(ns) => Good(k)}
<1>6. 0 \in N
  <2>1. kept[0] = <<>>
    BY <1>4 DEF OneByOne
  <2>2. <<>> \in Seq(PoolNodes) /\ DOMAIN <<>> = {} /\ 1..0 = {}
    OBVIOUS
  <2>3. Apart(<<>>)
    BY <2>2 DEF Apart
  <2>4. Good(0)
    BY <2>1, <2>2, <2>3, Zenon
  <2>. QED
    BY <2>4
<1>7. ASSUME NEW k \in Nat, k \in N PROVE k + 1 \in N
  <2>. SUFFICES ASSUME k + 1 <= Len(ns) PROVE Good(k + 1)
    OBVIOUS
  <2>. DEFINE r == kept[k]
              q == kept[k + 1]
              e == ns[k + 1]
  <2>1. Good(k)
    <3>1. k <= Len(ns)
      BY <1>0
    <3>. QED
      BY <1>7, <3>1
  <2>2. q = IF e \in used THEN Append(r, e) ELSE r
    <3>1. k + 1 \in 1..Len(ns) /\ (k + 1) - 1 = k
      BY <1>0
    <3>. QED
      BY <1>4, <3>1 DEF OneByOne
  <2>3. e \in PoolNodes /\ (e \in used <=> e[2]) /\ k + 1 \in DOMAIN ns /\ \A j \in 1..k : j \in DOMAIN ns
    BY <1>0, <1>5
  <2>4. \A j \in 1..(k + 1) : j \in 1..k \/ j = k + 1
    OBVIOUS
  <2>5. k + 1 \in 1..(k + 1) /\ \A j \in 1..k : j \in 1..(k + 1) /\ j # k + 1
    OBVIOUS
  <2>6. /\ r \in Seq(PoolNodes) /\ Apart(r)
        /\ \A i \in DOMAIN r : r[i][2] /\ \E j \in 1..k : r[i] = ns[j]
        /\ \A j \in 1..k : ns[j][2] => \E i \in DOMAIN r : r[i] = ns[j]
    BY <2>1
  <2>7. CASE e \in used
    <3>1. q = Append(r, e)
      BY <2>2, <2>7
    <3>. HIDE DEF r, q, e
    <3>2. /\ q \in Seq(PoolNodes) /\ Len(r) \in Nat /\ DOMAIN q = DOMAIN r \cup {Len(r) + 1}
          /\ q[Len(r) + 1] = e /\ \A i \in DOMAIN r : q[i] = r[i] /\ i # Len(r) + 1
      BY <2>3, <2>6, <3>1
    <3>3. \A i \in DOMAIN r : r[i][1] # e[1]
      <4>. SUFFICES ASSUME NEW i \in DOMAIN r, r[i][1] = e[1] PROVE FALSE
        OBVIOUS
      <4>1. PICK j \in 1..k : r[i] = ns[j]
        BY <2>6
      <4>2. ns[j][1] = ns[k + 1][1]
        BY <4>1 DEF e
      <4>. QED
        BY <2>3, <2>5, <4>2, Zenon DEF Apart
    <3>4. Apart(q)
      <4>. SUFFICES ASSUME NEW i \in DOMAIN q, NEW j \in DOMAIN q, q[i][1] = q[j][1] PROVE i = j
        BY Zenon DEF Apart
      <4>1. CASE i \in DOMAIN r /\ j \in DOMAIN r
        BY <2>6, <3>2, <4>1, Zenon DEF Apart
      <4>2. CASE i \in DOMAIN r /\ j = Len(r) + 1
        BY <3>2, <3>3, <4>2, Zenon
      <4>3. CASE i = Len(r) + 1 /\ j \in DOMAIN r
        <5>1. r[j][1] = e[1]
          BY <3>2, <4>3, Zenon
        <5>. QED
          BY <3>3, <4>3, <5>1, Zenon
      <4>. QED
        BY <3>2, <4>1, <4>2, <4>3
    <3>5. ASSUME NEW i \in DOMAIN q PROVE q[i][2] /\ \E j \in 1..(k + 1) : q[i] = ns[j]
      <4>1. CASE i \in DOMAIN r
        <5>1. q[i] = r[i]
          BY <3>2, <4>1, Zenon
        <5>2. r[i][2]
          BY <2>6, <4>1
        <5>3. PICK j \in 1..k : r[i] = ns[j]
          BY <2>6, <4>1
        <5>4. q[i][2]
          BY <5>1, <5>2
        <5>. QED
          BY <2>5, <5>1, <5>3, <5>4, Zenon
      <4>2. CASE i = Len(r) + 1
        <5>1. q[i] = e
          BY <3>2, <4>2, Zenon
        <5>2. q[i] = ns[k + 1]
          BY <5>1 DEF e
        <5>3. q[i][2]
          BY <2>3, <2>7, <5>1
        <5>. QED
          BY <2>5, <5>2, <5>3, Zenon
      <4>. QED
        BY <3>2, <4>1, <4>2
    <3>6. ASSUME NEW j \in 1..(k + 1), ns[j][2] PROVE \E i \in DOMAIN q : q[i] = ns[j]
      <4>1. CASE j \in 1..k
        <5>1. PICK i \in DOMAIN r : r[i] = ns[j]
          BY <2>6, <3>6, <4>1
        <5>. QED
          BY <3>2, <5>1, Zenon
      <4>2. CASE j = k + 1
        <5>1. Len(r) + 1 \in DOMAIN q
          BY <3>2
        <5>2. q[Len(r) + 1] = ns[j]
          BY <3>2, <4>2 DEF e
        <5>. QED
          BY <5>1, <5>2, Zenon
      <4>. QED
        BY <2>4, <4>1, <4>2, Zenon
    <3>. QED
      BY <3>2, <3>4, <3>5, <3>6, Zenon DEF q
  <2>8. CASE e \notin used
    <3>1. q = r
      BY <2>2, <2>8
    <3>2. \A j \in 1..(k + 1) : ns[j][2] => j \in 1..k
      BY <2>3, <2>4, <2>8, Zenon
    <3>. HIDE DEF r, q, e
    <3>3. \A i \in DOMAIN q : q[i][2] /\ \E j \in 1..(k + 1) : q[i] = ns[j]
      BY <2>5, <2>6, <3>1, Zenon
    <3>4. \A j \in 1..(k + 1) : ns[j][2] => \E i \in DOMAIN q : q[i] = ns[j]
      BY <2>6, <3>1, <3>2, Zenon
    <3>. QED
      BY <2>6, <3>1, <3>3, <3>4, Zenon DEF q
  <2>. QED
    BY <2>7, <2>8, Zenon
<1>8. Good(Len(ns))
  <2>. HIDE DEF N
  <2>1. Nat \subseteq N
    BY <1>6, <1>7, SetInduction, Zenon
  <2>2. Len(ns) <= Len(ns)
    BY <1>0
  <2>. QED
    BY <1>0, <2>1, <2>2, Zenon DEF N
<1>. DEFINE q == kept[Len(ns)]
<1>9. /\ q \in Seq(PoolNodes) /\ Apart(q)
      /\ \A i \in DOMAIN q : q[i][2] /\ \E j \in DOMAIN ns : q[i] = ns[j]
      /\ \A j \in DOMAIN ns : ns[j][2] => \E i \in DOMAIN q : q[i] = ns[j]
    BY <1>0, <1>8, Zenon
<1>. HIDE DEF q
<1>10. UsedOf(q) = UsedOf(ns)
    BY <1>9 DEF UsedOf
<1>. QED
    BY <1>1, <1>9, <1>10, Zenon DEF q

\* The first node that is as asked for.
LEMMA FoundNode ==
    ASSUME NEW I, I \subseteq Nat, I # {}
    PROVE  Min(I) \in I
<1>1. \E x \in I : \A y \in I : x <= y
    BY Least, Zenon
<1>. QED
    BY <1>1, Zenon DEF Min

\* Where the pool has a node that is not in use, and a new address.
LEMMA FirstEmptyFacts ==
    ASSUME objects \in Seq(PoolNodes)
    PROVE  /\ FirstEmpty = 0 => \A i \in DOMAIN objects : objects[i][2]
           /\ FirstEmpty # 0 => FirstEmpty \in DOMAIN objects /\ ~objects[FirstEmpty][2]
           /\ NewAddress \in Nat \ {0} /\ \A i \in DOMAIN objects : objects[i][1] # NewAddress
<1>. DEFINE I == {i \in 1..Len(objects) : IsEmptyNode(objects[i])}
            A == {objects[i][1] : i \in DOMAIN objects}
            f == [i \in 1..Len(objects) |-> objects[i][1]]
            N == (1..Len(objects) + 1) \ A
<1>0. Len(objects) \in Nat /\ DOMAIN objects = 1..Len(objects)
    BY NodesOf, Zenon
<1>1. FirstEmpty = IF I # {} THEN Min(I) ELSE 0
    BY DEF FirstEmpty, SelectInSeq
<1>2. \A i : i \in I <=> i \in DOMAIN objects /\ ~objects[i][2]
    BY <1>0 DEF IsEmptyNode
<1>3. I \subseteq Nat \ {0}
    OBVIOUS
<1>4. N # {}
  <2>1. A = {f[i] : i \in 1..Len(objects)}
    BY <1>0
  <2>2. IsFiniteSet(1..Len(objects)) /\ Cardinality(1..Len(objects)) = Len(objects)
    BY <1>0, CountTo, Zenon
  <2>3. Len(objects) + 1 \in Nat
    BY <1>0
  <2>4. IsFiniteSet(1..Len(objects) + 1) /\ Cardinality(1..Len(objects) + 1) = Len(objects) + 1
    BY <2>3, CountTo, Zenon
  <2>. HIDE DEF f
  <2>5. IsFiniteSet(A) /\ Cardinality(A) \in Nat /\ Cardinality(A) <= Len(objects)
    <3>. DEFINE B == {f[i] : i \in 1..Len(objects)}
    <3>1. IsFiniteSet(B) /\ Cardinality(B) \in Nat /\ Cardinality(B) <= Cardinality(1..Len(objects))
      BY <2>2, ImageCounts, Zenon
    <3>2. A = B
      BY <2>1
    <3>. HIDE DEF A, B
    <3>. QED
      BY <2>2, <3>1, <3>2, Zenon
  <2>. SUFFICES ASSUME 1..Len(objects) + 1 \in SUBSET A PROVE FALSE
    OBVIOUS
  <2>6. Cardinality(1..Len(objects) + 1) <= Cardinality(A)
    BY <2>5, FS_Subset, Zenon
  <2>. QED
    BY <1>0, <2>4, <2>5, <2>6
<1>5. N \subseteq Nat \ {0}
    BY <1>0
<1>6. NewAddress \in N
  <2>1. NewAddress = Min(N)
    BY DEF NewAddress
  <2>2. N \subseteq Nat
    BY <1>5
  <2>. HIDE DEF N
  <2>. QED
    BY <1>4, <2>1, <2>2, FoundNode, Zenon
<1>7. NewAddress \in Nat \ {0} /\ \A i \in DOMAIN objects : objects[i][1] # NewAddress
    BY <1>5, <1>6
<1>8. CASE I = {}
  <2>1. FirstEmpty = 0
    BY <1>1, <1>8
  <2>. HIDE DEF I
  <2>. QED
    BY <1>2, <1>7, <1>8, <2>1, Zenon
<1>9. CASE I # {}
  <2>1. FirstEmpty = Min(I)
    BY <1>1, <1>9
  <2>2. I \subseteq Nat
    BY <1>3
  <2>. HIDE DEF I
  <2>3. FirstEmpty \in I
    BY <1>9, <2>1, <2>2, FoundNode, Zenon
  <2>4. FirstEmpty # 0
    BY <1>3, <2>3
  <2>. QED
    BY <1>2, <1>7, <2>3, <2>4, Zenon
<1>. QED
    BY <1>8, <1>9

\* What becomes of the nodes, and of what is held, in one step.
NodeSet(ns, k, b, ns2) == b \in BOOLEAN /\ ns2 = [ns EXCEPT ![k][2] = b]

HandedTo(hs, h, a, hs2) == hs2 = [hs EXCEPT ![h] = a]

Changed(ns, k, b, ns2) ==
    /\ ns2 \in Seq(PoolNodes) /\ Len(ns2) = Len(ns) /\ DOMAIN ns2 = DOMAIN ns
    /\ ns2[k][1] = ns[k][1] /\ ns2[k][2] = b
    /\ \A i \in DOMAIN ns \ {k} : ns2[i] = ns[i]

\* A node of the pool that changes is the only one.
LEMMA NodeChanged ==
    ASSUME NEW ns \in Seq(PoolNodes), NEW k \in DOMAIN ns, NEW b,
           NEW ns2, NodeSet(ns, k, b, ns2)
    PROVE  /\ Changed(ns, k, b, ns2)
           /\ Apart(ns) => Apart(ns2)
<1>1. ns[k] = <<ns[k][1], ns[k][2]>> /\ ns[k][1] \in Nat \ {0}
    BY NodesOf, Zenon
<1>. DEFINE e == [ns[k] EXCEPT ![2] = b]
<1>2. e = <<ns[k][1], b>>
    BY <1>1
<1>3. e \in PoolNodes /\ e[1] = ns[k][1] /\ e[2] = b
    BY <1>1, <1>2 DEF PoolNodes, NodeSet
<1>4. ns2 = [ns EXCEPT ![k] = e]
    BY DEF NodeSet
<1>. HIDE DEF e
<1>5. /\ ns2 \in Seq(PoolNodes) /\ Len(ns2) = Len(ns) /\ DOMAIN ns2 = DOMAIN ns
      /\ ns2[k] = e /\ \A i \in DOMAIN ns \ {k} : ns2[i] = ns[i]
  <2>1. k \in 1..Len(ns)
    BY NodesOf, Zenon
  <2>2. ns2 \in Seq(PoolNodes) /\ Len(ns2) = Len(ns)
        /\ \A i \in 1..Len(ns) : ns2[i] = IF i = k THEN e ELSE ns[i]
    <3>1. ns \in Seq(PoolNodes)
      OBVIOUS
    <3>2. /\ [ns EXCEPT ![k] = e] \in Seq(PoolNodes) /\ Len([ns EXCEPT ![k] = e]) = Len(ns)
          /\ \A i \in 1..Len(ns) : [ns EXCEPT ![k] = e][i] = IF i = k THEN e ELSE ns[i]
      <4>1. [ns EXCEPT ![k] = e] \in Seq(PoolNodes)
        BY <1>3, <2>1, <3>1
      <4>2. Len([ns EXCEPT ![k] = e]) = Len(ns)
        BY <1>3, <2>1, <3>1
      <4>. QED
        BY <1>3, <2>1, <3>1, <4>1, <4>2
    <3>. QED
      BY <1>4, <3>2
  <2>3. DOMAIN ns2 = 1..Len(ns2) /\ DOMAIN ns = 1..Len(ns)
    BY <2>2, NodesOf, Zenon
  <2>. QED
    BY <2>1, <2>2, <2>3
<1>6. \A i \in DOMAIN ns : ns2[i][1] = ns[i][1]
    BY <1>3, <1>5
<1>7. ASSUME Apart(ns) PROVE Apart(ns2)
    BY <1>5, <1>6, <1>7 DEF Apart
<1>. QED
    BY <1>3, <1>5, <1>7, Zenon DEF Changed

\* A pool is given a holder for one of its objects more.
LEMMA LentOneMore ==
    ASSUME NEW hs \in [Holders -> Nat], OneEach(hs), NEW h \in Holders, hs[h] = NoObject,
           NEW a \in Nat \ {0}, a \notin LentTo(hs),
           NEW hs2, HandedTo(hs, h, a, hs2)
    PROVE  /\ hs2 \in [Holders -> Nat] /\ OneEach(hs2) /\ LentTo(hs2) = LentTo(hs) \cup {a}
           /\ Cardinality(LentTo(hs2)) = (Cardinality(LentTo(hs)) + 1) % CountLimit
           /\ Cardinality(LentTo(hs2)) # 0
<1>1. /\ hs2 \in [Holders -> Nat] /\ hs2[h] = a /\ \A g \in Holders \ {h} : hs2[g] = hs[g]
    BY DEF HandedTo
<1>2. \A g \in Holders : hs[g] # a
    BY DEF LentTo, NoObject
<1>3. OneEach(hs2)
    BY <1>1, <1>2, Zenon DEF OneEach
<1>4. LentTo(hs2) = LentTo(hs) \cup {a}
    BY <1>1 DEF LentTo, NoObject
<1>5. /\ IsFiniteSet(LentTo(hs)) /\ Cardinality(LentTo(hs)) \in Nat
      /\ Cardinality(LentTo(hs2)) < CountLimit
    BY LentFacts, Zenon
<1>6. Cardinality(LentTo(hs2)) = Cardinality(LentTo(hs)) + 1
    BY <1>4, <1>5, FS_AddElement
<1>7. CountLimit \in Nat
    BY ObjectPoolAssumption DEF ObjectPoolAssumption
<1>8. (Cardinality(LentTo(hs)) + 1) % CountLimit = Cardinality(LentTo(hs)) + 1
    BY <1>5, <1>6, <1>7
<1>9. Cardinality(LentTo(hs2)) # 0
    BY <1>5, <1>6
<1>. QED
    BY <1>1, <1>3, <1>4, <1>6, <1>8, <1>9, Zenon

\* And one of them less.
LEMMA LentOneLess ==
    ASSUME NEW hs \in [Holders -> Nat], OneEach(hs), NEW h \in Holders, hs[h] # NoObject,
           NEW hs2, HandedTo(hs, h, NoObject, hs2)
    PROVE  /\ hs2 \in [Holders -> Nat] /\ OneEach(hs2) /\ LentTo(hs2) = LentTo(hs) \ {hs[h]}
           /\ Cardinality(LentTo(hs2)) = (Cardinality(LentTo(hs)) - 1) % CountLimit
<1>1. /\ hs2 \in [Holders -> Nat] /\ hs2[h] = NoObject /\ \A g \in Holders \ {h} : hs2[g] = hs[g]
    BY DEF HandedTo, NoObject
<1>2. \A g \in Holders \ {h} : hs[g] # hs[h]
    BY Zenon DEF OneEach
<1>3. OneEach(hs2)
    BY <1>1, Zenon DEF OneEach
<1>4. LentTo(hs2) = LentTo(hs) \ {hs[h]}
    BY <1>1, <1>2 DEF LentTo
<1>5. /\ IsFiniteSet(LentTo(hs)) /\ Cardinality(LentTo(hs)) \in Nat
      /\ Cardinality(LentTo(hs2)) < CountLimit /\ Cardinality(LentTo(hs2)) \in Nat
    BY LentFacts, Zenon
<1>6. hs[h] \in LentTo(hs)
    BY DEF LentTo
<1>7. Cardinality(LentTo(hs2)) = Cardinality(LentTo(hs)) - 1
    BY <1>4, <1>5, <1>6, FS_RemoveElement
<1>8. CountLimit \in Nat
    BY ObjectPoolAssumption DEF ObjectPoolAssumption
<1>9. (Cardinality(LentTo(hs)) - 1) % CountLimit = Cardinality(LentTo(hs)) - 1
    BY <1>5, <1>7, <1>8
<1>. QED
    BY <1>1, <1>3, <1>4, <1>7, <1>9, Zenon

\* A node that was not in use, or a new one, is lent.
LEMMA GetKeeps ==
    ASSUME PoolOK(objects, count, held), NEW h \in Holders, Get(h)
    PROVE  PoolOK(objects', count', held')
<1>. DEFINE k == FirstEmpty
            a == IF k = 0 THEN NewAddress ELSE objects[k][1]
<1>0. /\ objects \in Seq(PoolNodes) /\ Apart(objects) /\ held \in [Holders -> Nat]
      /\ UsedOf(objects) = LentTo(held) /\ OneEach(held) /\ Cardinality(LentTo(held)) = count
    BY DEF PoolOK
<1>1. /\ held[h] = NoObject /\ HandedTo(held, h, a, held') /\ count' = (count + 1) % CountLimit
      /\ objects' = IF k = 0 THEN Append(objects, <<NewAddress, TRUE>>) ELSE [objects EXCEPT ![k][2] = TRUE]
    BY DEF Get, HandedTo
<1>2. /\ k = 0 => \A i \in DOMAIN objects : objects[i][2]
      /\ k # 0 => k \in DOMAIN objects /\ ~objects[k][2]
      /\ NewAddress \in Nat \ {0} /\ \A i \in DOMAIN objects : objects[i][1] # NewAddress
    BY <1>0, FirstEmptyFacts, Zenon
<1>3. Len(objects) \in Nat /\ \A i \in DOMAIN objects : objects[i][1] \in Nat \ {0}
    BY <1>0, NodesOf, Zenon
<1>. HIDE DEF k
<1>4. CASE k = 0
  <2>1. a = NewAddress /\ objects' = Append(objects, <<a, TRUE>>)
    BY <1>1, <1>4
  <2>2. a \in Nat \ {0} /\ <<a, TRUE>> \in PoolNodes
    BY <1>2, <2>1 DEF PoolNodes
  <2>3. /\ objects' \in Seq(PoolNodes) /\ DOMAIN objects' = DOMAIN objects \cup {Len(objects) + 1}
        /\ objects'[Len(objects) + 1][1] = a /\ objects'[Len(objects) + 1][2] = TRUE
        /\ \A i \in DOMAIN objects : objects'[i] = objects[i]
    <3>. DEFINE e == <<a, TRUE>>
    <3>1. e \in PoolNodes /\ e[1] = a /\ e[2] = TRUE
      BY <2>2
    <3>. HIDE DEF e, a
    <3>2. objects' = Append(objects, e)
      BY <2>1 DEF e
    <3>3. /\ objects' \in Seq(PoolNodes) /\ DOMAIN objects' = DOMAIN objects \cup {Len(objects) + 1}
          /\ objects'[Len(objects) + 1] = e
          /\ \A i \in DOMAIN objects : objects'[i] = objects[i]
      BY <1>0, <1>3, <3>1, <3>2
    <3>. QED
      BY <3>1, <3>3, Zenon
  <2>. HIDE DEF a
  <2>4. Apart(objects')
    BY <1>0, <1>2, <2>1, <2>3 DEF Apart
  <2>5. UsedOf(objects') = UsedOf(objects) \cup {a}
    BY <2>3 DEF UsedOf
  <2>6. a \notin LentTo(held)
    BY <1>0, <1>2, <2>1 DEF UsedOf
  <2>7. /\ held' \in [Holders -> Nat] /\ OneEach(held') /\ LentTo(held') = LentTo(held) \cup {a}
        /\ Cardinality(LentTo(held')) = (Cardinality(LentTo(held)) + 1) % CountLimit
        /\ Cardinality(LentTo(held')) # 0
    BY <1>0, <1>1, <2>2, <2>6, LentOneMore, Zenon
  <2>8. UsedOf(objects') = LentTo(held') /\ Cardinality(LentTo(held')) = count' /\ count' # 0
    BY <1>0, <1>1, <2>5, <2>7, Zenon
  <2>. QED
    BY <2>3, <2>4, <2>7, <2>8, Zenon DEF PoolOK
<1>5. CASE k # 0
  <2>1. a = objects[k][1] /\ NodeSet(objects, k, TRUE, objects') /\ k \in DOMAIN objects /\ ~objects[k][2]
    BY <1>1, <1>2, <1>5 DEF NodeSet
  <2>2. a \in Nat \ {0}
    BY <1>3, <2>1
  <2>. HIDE DEF a
  <2>3. /\ objects' \in Seq(PoolNodes) /\ DOMAIN objects' = DOMAIN objects
        /\ objects'[k][1] = a /\ objects'[k][2] = TRUE
        /\ \A i \in DOMAIN objects \ {k} : objects'[i] = objects[i]
        /\ Apart(objects')
    <3>1. PICK b \in BOOLEAN : b = TRUE
      OBVIOUS
    <3>2. NodeSet(objects, k, b, objects')
      BY <2>1, <3>1
    <3>3. Changed(objects, k, b, objects') /\ Apart(objects')
      BY <1>0, <2>1, <3>2, NodeChanged, Zenon
    <3>. QED
      BY <2>1, <3>1, <3>3 DEF Changed
  <2>4. UsedOf(objects') = UsedOf(objects) \cup {a}
    BY <2>1, <2>3 DEF UsedOf
  <2>5. a \notin LentTo(held)
    BY <1>0, <2>1 DEF UsedOf, Apart
  <2>6. /\ held' \in [Holders -> Nat] /\ OneEach(held') /\ LentTo(held') = LentTo(held) \cup {a}
        /\ Cardinality(LentTo(held')) = (Cardinality(LentTo(held)) + 1) % CountLimit
        /\ Cardinality(LentTo(held')) # 0
    BY <1>0, <1>1, <2>2, <2>5, LentOneMore, Zenon
  <2>7. UsedOf(objects') = LentTo(held') /\ Cardinality(LentTo(held')) = count' /\ count' # 0
    BY <1>0, <1>1, <2>4, <2>6, Zenon
  <2>. QED
    BY <2>3, <2>6, <2>7, Zenon DEF PoolOK
<1>. QED
    BY <1>4, <1>5

\* Where the pool has the object that is given back.
LEMMA PositionFacts ==
    ASSUME objects \in Seq(PoolNodes), Apart(objects), NEW a \in UsedOf(objects)
    PROVE  LET at == SelectInSeq(objects, LAMBDA node : node[1] = a)
           IN  at \in DOMAIN objects /\ objects[at][1] = a /\ objects[at][2] /\ at # 0
<1>. DEFINE I == {i \in 1..Len(objects) : objects[i][1] = a}
            at == SelectInSeq(objects, LAMBDA node : node[1] = a)
<1>0. Len(objects) \in Nat /\ DOMAIN objects = 1..Len(objects)
    BY NodesOf, Zenon
<1>1. PICK i \in DOMAIN objects : objects[i][1] = a /\ objects[i][2]
    BY DEF UsedOf
<1>2. I # {} /\ I \subseteq Nat
    BY <1>0, <1>1
<1>3. at = Min(I)
    BY <1>2 DEF SelectInSeq
<1>. HIDE DEF at, I
<1>4. at \in I
    BY <1>2, <1>3, FoundNode, Zenon
<1>5. at \in DOMAIN objects /\ objects[at][1] = a /\ at # 0
    BY <1>0, <1>4 DEF I
<1>6. at = i
    BY <1>1, <1>5, Zenon DEF Apart
<1>. QED
    BY <1>1, <1>5, <1>6, Zenon DEF at

\* Once an object is given back, the others are lent as before.
LEMMA EatKeeps ==
    ASSUME PoolOK(objects, count, held), NEW h \in Holders, Eat(h)
    PROVE  PoolOK(objects', count', held')
<1>. DEFINE a == held[h]
            at == SelectInSeq(objects, LAMBDA node : node[1] = a)
            idle == [objects EXCEPT ![at][2] = FALSE]
            left == (count - 1) % CountLimit
            few == Len(objects) >= (left * 2) % CountLimit
<1>0. /\ objects \in Seq(PoolNodes) /\ Apart(objects) /\ held \in [Holders -> Nat]
      /\ UsedOf(objects) = LentTo(held) /\ OneEach(held) /\ Cardinality(LentTo(held)) = count
    BY DEF PoolOK
<1>1. held[h] # NoObject /\ HandedTo(held, h, NoObject, held') /\ a \in UsedOf(objects)
    BY <1>0 DEF Eat, HandedTo, LentTo
<1>2. at \in DOMAIN objects /\ objects[at][1] = a /\ objects[at][2] /\ at # 0
    BY <1>0, <1>1, PositionFacts
<1>3. objects' = (IF few THEN NodesInUse(idle) ELSE idle) /\ count' = left
    BY <1>2 DEF Eat, Eaten
<1>4. /\ held' \in [Holders -> Nat] /\ OneEach(held') /\ LentTo(held') = LentTo(held) \ {a}
      /\ Cardinality(LentTo(held')) = left
    BY <1>0, <1>1, LentOneLess, Zenon
<1>. HIDE DEF at, few, left
<1>5. /\ idle \in Seq(PoolNodes) /\ DOMAIN idle = DOMAIN objects /\ Len(idle) = Len(objects)
      /\ idle[at][1] = a /\ ~idle[at][2]
      /\ \A i \in DOMAIN objects \ {at} : idle[i] = objects[i]
      /\ Apart(idle)
  <2>1. PICK b \in BOOLEAN : b = FALSE
    OBVIOUS
  <2>2. NodeSet(objects, at, b, idle)
    BY <2>1 DEF NodeSet
  <2>. HIDE DEF idle
  <2>3. Changed(objects, at, b, idle) /\ Apart(idle)
    BY <1>0, <1>2, <2>2, NodeChanged, Zenon
  <2>. QED
    BY <1>2, <2>1, <2>3 DEF Changed
<1>. HIDE DEF idle
<1>6. UsedOf(idle) = UsedOf(objects) \ {a}
  <2>1. \A i \in DOMAIN objects \ {at} : objects[i][1] # a
    BY <1>0, <1>2, Zenon DEF Apart
  <2>. QED
    BY <1>2, <1>5, <2>1 DEF UsedOf
<1>7. /\ NodesInUse(idle) \in Seq(PoolNodes) /\ Apart(NodesInUse(idle))
      /\ UsedOf(NodesInUse(idle)) = UsedOf(idle)
      /\ \A i \in DOMAIN NodesInUse(idle) : NodesInUse(idle)[i][2]
    BY <1>5, NodesInUseFacts, Zenon
<1>8. objects' \in Seq(PoolNodes) /\ Apart(objects') /\ UsedOf(objects') = LentTo(held')
    BY <1>0, <1>3, <1>4, <1>5, <1>6, <1>7
<1>9. ASSUME left = 0 PROVE objects' = <<>>
  <2>1. few
    <3>1. CountLimit \in Nat \ {0} /\ Len(objects) \in Nat
      BY <1>0, ObjectPoolAssumption, NodesOf DEF ObjectPoolAssumption
    <3>2. (0 * 2) % CountLimit = 0
      BY <3>1
    <3>. QED
      BY <1>9, <3>1, <3>2 DEF few
  <2>2. objects' = NodesInUse(idle)
    BY <1>3, <2>1
  <2>3. UsedOf(objects') = {}
    BY <1>4, <1>8, <1>9, LentFacts, FS_EmptySet
  <2>4. DOMAIN objects' = {}
    BY <1>7, <2>2, <2>3 DEF UsedOf
  <2>5. Len(objects') \in Nat /\ DOMAIN objects' = 1..Len(objects')
    BY <1>8
  <2>6. Len(objects') = 0
    BY <2>4, <2>5
  <2>. QED
    BY <1>8, <2>6
<1>. QED
    BY <1>3, <1>4, <1>8, <1>9, Zenon DEF PoolOK

\* Nothing is lent at first.
LEMMA PoolInitially ==
    ASSUME PoolInit PROVE PoolInv
<1>1. objects = <<>> /\ count = 0 /\ held = [h \in Holders |-> NoObject] /\ NoObject = 0
    BY DEF PoolInit, NoObject
<1>2. LentTo(held) = {} /\ UsedOf(objects) = {} /\ OneEach(held) /\ Apart(objects)
    BY <1>1 DEF LentTo, UsedOf, OneEach, Apart
<1>3. Cardinality({}) = 0
    BY FS_EmptySet, Zenon
<1>4. objects \in Seq(PoolNodes) /\ held \in [Holders -> Nat]
    BY <1>1
<1>. QED
    BY <1>1, <1>2, <1>3, <1>4, Zenon DEF PoolInv, PoolOK

\* Every operation keeps what is lent and what is held in step.
LEMMA PoolStepKeeps ==
    ASSUME PoolInv, PoolNext \/ UNCHANGED poolVars
    PROVE  PoolInv'
<1>1. ASSUME NEW h \in Holders, Get(h) PROVE PoolInv'
    BY <1>1, GetKeeps, Zenon DEF Get, PoolInv
<1>2. ASSUME NEW h \in Holders, Eat(h) PROVE PoolInv'
    BY <1>2, EatKeeps, Zenon DEF Eat, PoolInv
<1>3. ASSUME NEW h \in Holders, EatAndKeep(h) PROVE PoolInv'
  <2>1. twice'
    BY <1>3 DEF EatAndKeep
  <2>. QED
    BY <2>1, Zenon DEF PoolInv
<1>4. ASSUME NEW h \in Holders, NEW g \in Holders, SwapObjects(h, g) PROVE PoolInv'
  <2>1. /\ h # g /\ held' = [held EXCEPT ![h] = held[g], ![g] = held[h]]
        /\ objects' = objects /\ count' = count /\ twice' = twice
    BY <1>4 DEF SwapObjects
  <2>2. ASSUME PoolOK(objects, count, held) PROVE PoolOK(objects', count', held')
    <3>1. held \in [Holders -> Nat] /\ OneEach(held)
      BY <2>2 DEF PoolOK
    <3>2. /\ held' \in [Holders -> Nat] /\ held'[h] = held[g] /\ held'[g] = held[h]
          /\ \A f \in Holders \ {h, g} : held'[f] = held[f]
      BY <2>1, <3>1
    <3>3. LentTo(held') = LentTo(held)
      BY <3>2 DEF LentTo
    <3>4. OneEach(held')
      BY <3>1, <3>2 DEF OneEach
    <3>. QED
      BY <2>1, <2>2, <3>2, <3>3, <3>4, Zenon DEF PoolOK
  <2>. QED
    BY <2>1, <2>2, Zenon DEF PoolInv
<1>5. ASSUME UNCHANGED poolVars PROVE PoolInv'
    BY <1>5 DEF poolVars, PoolInv
<1>. QED
    BY <1>1, <1>2, <1>3, <1>4, <1>5, Zenon DEF PoolNext

\* What is lent is held, by one holder each.
LEMMA PoolInvSuffices ==
    ASSUME PoolInv PROVE LentOnce
<1>1. LentOut = UsedOf(objects) /\ Lent = LentTo(held)
    BY DEF LentOut, UsedOf, Lent, LentTo
<1>. QED
    BY <1>1, Zenon DEF PoolInv, PoolOK, LentOnce, OneEach

-----------------------------------------------------------------------------
(* The nodes of a tree and the handles that refer to them.                 *)

NodeRecord == [path : TreePaths, refs : Nat \ {0}]

RefsTo(rt, a) == {h \in Handles : rt[h] = a}

TreeOK(tn, rt, mt) ==
    /\ tn \in [DOMAIN tn -> NodeRecord]
    /\ DOMAIN tn \subseteq Nat \ {0} /\ IsFiniteSet(DOMAIN tn)
    /\ rt \in [Handles -> DOMAIN tn \cup {Root, Nothing}]
    /\ mt \in [Handles -> TreePaths \cup {<<>>}]
    /\ \A a \in DOMAIN tn : tn[a].refs = Cardinality(RefsTo(rt, a))
    /\ \A h \in Handles : /\ rt[h] = Root => mt[h] = <<>>
                          /\ rt[h] \in DOMAIN tn => tn[rt[h]].path = mt[h]

NodesInv == TreeOK(treeNodes, refersTo, meant)

\* A handle refers to y, for q, and the others to what they did.
Redirected(rt, h, y, rt2) == rt2 = [rt EXCEPT ![h] = y]

\* The nodes count a handle that goes from x to y, which is for q.
Follows(tn, x, y, q, tn2) ==
    /\ tn2 \in [DOMAIN tn2 -> NodeRecord]
    /\ DOMAIN tn2 \subseteq Nat \ {0} /\ IsFiniteSet(DOMAIN tn2)
    /\ y \in DOMAIN tn2 \cup {Root, Nothing} /\ q \in TreePaths \cup {<<>>}
    /\ y = Root => q = <<>>
    /\ y \in DOMAIN tn2 => tn2[y].path = q
    /\ \A a \in DOMAIN tn \cap DOMAIN tn2 :
          /\ tn2[a].path = tn[a].path
          /\ a = y /\ a # x => tn2[a].refs = tn[a].refs + 1
          /\ a # y /\ a = x => tn2[a].refs = tn[a].refs - 1
          /\ (a = y <=> a = x) => tn2[a].refs = tn[a].refs
    /\ \A a \in DOMAIN tn2 \ DOMAIN tn : a = y /\ tn2[a].refs = 1
    /\ \A a \in DOMAIN tn \ DOMAIN tn2 : a = x /\ a # y /\ tn[a].refs = 1

Recounted(rt, x, y, rt2, a) ==
    /\ a = y /\ a # x => Cardinality(RefsTo(rt2, a)) = Cardinality(RefsTo(rt, a)) + 1
    /\ a # y /\ a = x => Cardinality(RefsTo(rt2, a)) = Cardinality(RefsTo(rt, a)) - 1
    /\ (a = y <=> a = x) => Cardinality(RefsTo(rt2, a)) = Cardinality(RefsTo(rt, a))

\* How many handles refer to a node when one goes elsewhere.
LEMMA RefCounts ==
    ASSUME NEW X, NEW rt \in [Handles -> X], NEW h \in Handles, NEW y,
           NEW rt2, Redirected(rt, h, y, rt2), NEW a
    PROVE  /\ Cardinality(RefsTo(rt, a)) \in Nat /\ IsFiniteSet(RefsTo(rt, a))
           /\ Recounted(rt, rt[h], y, rt2, a)
<1>1. rt2[h] = y /\ \A g \in Handles \ {h} : rt2[g] = rt[g]
    BY DEF Redirected
<1>2. IsFiniteSet(RefsTo(rt, a)) /\ Cardinality(RefsTo(rt, a)) \in Nat
  <2>1. RefsTo(rt, a) \in SUBSET Handles /\ IsFiniteSet(Handles)
    BY TreeNodesAssumption DEF RefsTo, TreeNodesAssumption
  <2>. QED
    BY <2>1, FS_Subset, FS_CardinalityType, Zenon
<1>3. CASE a = y /\ a # rt[h]
  <2>1. RefsTo(rt2, a) = RefsTo(rt, a) \cup {h} /\ h \notin RefsTo(rt, a)
    BY <1>1, <1>3 DEF RefsTo
  <2>2. Cardinality(RefsTo(rt2, a)) = Cardinality(RefsTo(rt, a)) + 1
    BY <1>2, <2>1, FS_AddElement
  <2>. QED
    BY <1>2, <1>3, <2>2, Zenon DEF Recounted
<1>4. CASE a # y /\ a = rt[h]
  <2>1. RefsTo(rt2, a) = RefsTo(rt, a) \ {h} /\ h \in RefsTo(rt, a)
    BY <1>1, <1>4 DEF RefsTo
  <2>2. Cardinality(RefsTo(rt2, a)) = Cardinality(RefsTo(rt, a)) - 1
    BY <1>2, <2>1, FS_RemoveElement
  <2>. QED
    BY <1>2, <1>4, <2>2, Zenon DEF Recounted
<1>5. CASE a = y <=> a = rt[h]
  <2>1. RefsTo(rt2, a) = RefsTo(rt, a)
    BY <1>1, <1>5 DEF RefsTo
  <2>. QED
    BY <1>2, <1>5, <2>1, Zenon DEF Recounted
<1>. QED
    BY <1>3, <1>4, <1>5, Zenon

\* The tree stays in order when its nodes follow a handle.
LEMMA TreeFollows ==
    ASSUME NEW tn, NEW rt, NEW mt, TreeOK(tn, rt, mt), NEW h \in Handles, NEW y, NEW q, NEW tn2, NEW rt2, NEW mt2,
           Follows(tn, rt[h], y, q, tn2), Redirected(rt, h, y, rt2), Redirected(mt, h, q, mt2)
    PROVE  TreeOK(tn2, rt2, mt2)
<1>0. /\ tn \in [DOMAIN tn -> NodeRecord] /\ DOMAIN tn \subseteq Nat \ {0}
      /\ rt \in [Handles -> DOMAIN tn \cup {Root, Nothing}]
      /\ mt \in [Handles -> TreePaths \cup {<<>>}]
      /\ \A a \in DOMAIN tn : tn[a].refs = Cardinality(RefsTo(rt, a))
      /\ \A g \in Handles : /\ rt[g] = Root => mt[g] = <<>>
                            /\ rt[g] \in DOMAIN tn => tn[rt[g]].path = mt[g]
    BY Zenon DEF TreeOK
<1>1. /\ tn2 \in [DOMAIN tn2 -> NodeRecord]
      /\ DOMAIN tn2 \subseteq Nat \ {0} /\ IsFiniteSet(DOMAIN tn2)
      /\ y \in DOMAIN tn2 \cup {Root, Nothing} /\ q \in TreePaths \cup {<<>>}
      /\ y = Root => q = <<>>
      /\ y \in DOMAIN tn2 => tn2[y].path = q
    BY Zenon DEF Follows
<1>2. \A a \in DOMAIN tn \cap DOMAIN tn2 :
          /\ tn2[a].path = tn[a].path
          /\ a = y /\ a # rt[h] => tn2[a].refs = tn[a].refs + 1
          /\ a # y /\ a = rt[h] => tn2[a].refs = tn[a].refs - 1
          /\ (a = y <=> a = rt[h]) => tn2[a].refs = tn[a].refs
    BY Zenon DEF Follows
<1>3. /\ \A a \in DOMAIN tn2 \ DOMAIN tn : a = y /\ tn2[a].refs = 1
      /\ \A a \in DOMAIN tn \ DOMAIN tn2 : a = rt[h] /\ a # y /\ tn[a].refs = 1
    BY Zenon DEF Follows
<1>4. /\ rt2[h] = y /\ \A g \in Handles \ {h} : rt2[g] = rt[g]
      /\ mt2[h] = q /\ \A g \in Handles \ {h} : mt2[g] = mt[g]
      /\ rt2 = [g \in Handles |-> rt2[g]]
      /\ mt2 \in [Handles -> TreePaths \cup {<<>>}]
    BY <1>0, <1>1 DEF Redirected
<1>5. Root = 0 /\ Nothing = -1 /\ Root \notin DOMAIN tn \cup DOMAIN tn2 /\ Nothing \notin DOMAIN tn \cup DOMAIN tn2
    BY <1>0, <1>1 DEF Root, Nothing
<1>6. ASSUME NEW a \in DOMAIN tn2 PROVE tn2[a].refs = Cardinality(RefsTo(rt2, a))
  <2>1. Recounted(rt, rt[h], y, rt2, a)
    <3>1. rt \in [Handles -> DOMAIN tn \cup {Root, Nothing}] /\ Redirected(rt, h, y, rt2)
      BY <1>0, Zenon
    <3>. QED
      BY <3>1, RefCounts, Zenon
  <2>2. CASE a \in DOMAIN tn
    BY <1>0, <1>2, <1>6, <2>1, <2>2, Zenon DEF Recounted
  <2>3. CASE a \notin DOMAIN tn
    <3>1. RefsTo(rt, a) = {}
      BY <1>0, <1>5, <1>6, <2>3 DEF RefsTo
    <3>2. Cardinality(RefsTo(rt, a)) = 0
      BY <3>1, FS_EmptySet
    <3>3. a = y /\ a # rt[h] /\ tn2[a].refs = 1
      BY <1>0, <1>3, <1>5, <1>6, <2>3
    <3>. QED
      BY <2>1, <3>2, <3>3 DEF Recounted
  <2>. QED
    BY <2>2, <2>3
<1>7. ASSUME NEW g \in Handles, g # h, rt[g] \in DOMAIN tn PROVE rt[g] \in DOMAIN tn2
  <2>. SUFFICES ASSUME rt[g] \notin DOMAIN tn2 PROVE FALSE
    OBVIOUS
  <2>. DEFINE a == rt[g]
  <2>1. a = rt[h] /\ tn[a].refs = 1
    BY <1>3, <1>7, Zenon
  <2>2. g \in RefsTo(rt, a) /\ h \in RefsTo(rt, a)
    BY <2>1 DEF RefsTo
  <2>3. IsFiniteSet(RefsTo(rt, a)) /\ Cardinality(RefsTo(rt, a)) = 1
    <3>1. Redirected(rt, h, y, rt2)
      OBVIOUS
    <3>. QED
      BY <1>0, <1>7, <2>1, <3>1, RefCounts, Zenon
  <2>. HIDE DEF a
  <2>4. PICK e : RefsTo(rt, a) = {e}
    BY <2>3, FS_Singleton, Zenon
  <2>. QED
    BY <1>7, <2>2, <2>4
<1>8. ASSUME NEW g \in Handles PROVE rt2[g] \in DOMAIN tn2 \cup {Root, Nothing}
    BY <1>0, <1>1, <1>4, <1>7
<1>9. rt2 \in [Handles -> DOMAIN tn2 \cup {Root, Nothing}]
    BY <1>4, <1>8
<1>10. ASSUME NEW g \in Handles
       PROVE  /\ rt2[g] = Root => mt2[g] = <<>>
              /\ rt2[g] \in DOMAIN tn2 => tn2[rt2[g]].path = mt2[g]
  <2>1. CASE g = h
    BY <1>1, <1>4, <2>1
  <2>2. CASE g # h
    <3>1. rt2[g] = rt[g] /\ mt2[g] = mt[g]
      BY <1>4, <2>2
    <3>2. rt[g] \in DOMAIN tn \cup {Root, Nothing}
      BY <1>0
    <3>3. rt[g] \in DOMAIN tn2 => rt[g] \in DOMAIN tn \cap DOMAIN tn2
      BY <1>5, <3>2, Zenon
    <3>. QED
      BY <1>0, <1>2, <3>1, <3>3, Zenon
  <2>. QED
    BY <2>1, <2>2
<1>. QED
    BY <1>1, <1>4, <1>6, <1>9, <1>10, Zenon DEF TreeOK

\* An address for one more node.
LEMMA NewNodeFacts ==
    ASSUME NodesInv
    PROVE  NewNode \in Nat \ {0} /\ NewNode \notin Live
<1>. DEFINE N == (1..Cardinality(Live) + 1) \ Live
<1>1. IsFiniteSet(Live) /\ Cardinality(Live) \in Nat
    BY FS_CardinalityType, Zenon DEF NodesInv, TreeOK, Live
<1>2. N # {}
  <2>. SUFFICES ASSUME 1..Cardinality(Live) + 1 \in SUBSET Live PROVE FALSE
    OBVIOUS
  <2>1. Cardinality(Live) + 1 \in Nat
    BY <1>1
  <2>2. Cardinality(1..Cardinality(Live) + 1) = Cardinality(Live) + 1
    BY <2>1, CountTo, Zenon
  <2>3. Cardinality(1..Cardinality(Live) + 1) <= Cardinality(Live)
    BY <1>1, FS_Subset, Zenon
  <2>. QED
    BY <1>1, <2>2, <2>3
<1>3. N \subseteq Nat
    OBVIOUS
<1>4. NewNode = Min(N)
    BY DEF NewNode
<1>. HIDE DEF N
<1>5. NewNode \in N
    BY <1>2, <1>3, <1>4, FoundNode, Zenon
<1>. QED
    BY <1>5 DEF N

\* What the nodes are in a tree that is in order.
LEMMA LiveFacts ==
    ASSUME NodesInv
    PROVE  /\ treeNodes \in [Live -> NodeRecord] /\ IsFiniteSet(Live) /\ Live \subseteq Nat \ {0}
           /\ Root = 0 /\ Nothing = -1 /\ Root \notin Live /\ Nothing \notin Live
           /\ \A a \in Live : treeNodes[a].path \in TreePaths /\ treeNodes[a].refs \in Nat \ {0}
           /\ \A h \in Handles : /\ refersTo[h] \in Live \cup {Root, Nothing}
                                 /\ meant[h] \in TreePaths \cup {<<>>}
                                 /\ refersTo[h] = Root => meant[h] = <<>>
                                 /\ refersTo[h] \in Live => treeNodes[refersTo[h]].path = meant[h]
<1>1. /\ treeNodes \in [Live -> NodeRecord] /\ IsFiniteSet(Live) /\ Live \subseteq Nat \ {0}
      /\ refersTo \in [Handles -> Live \cup {Root, Nothing}]
      /\ meant \in [Handles -> TreePaths \cup {<<>>}]
      /\ \A h \in Handles : /\ refersTo[h] = Root => meant[h] = <<>>
                            /\ refersTo[h] \in Live => treeNodes[refersTo[h]].path = meant[h]
    BY Zenon DEF NodesInv, TreeOK, Live
<1>2. Root = 0 /\ Nothing = -1 /\ Root \notin Live /\ Nothing \notin Live
    BY <1>1 DEF Root, Nothing
<1>3. \A a \in Live : treeNodes[a].path \in TreePaths /\ treeNodes[a].refs \in Nat \ {0}
    BY <1>1 DEF NodeRecord
<1>. QED
    BY <1>1, <1>2, <1>3

\* A handle that had nothing gets the node that is made for a path.
LEMMA MadeFollows ==
    ASSUME NodesInv, NEW p \in TreePaths
    PROVE  Follows(treeNodes, Nothing, MadeAddress(p), p, Made(p))
<1>. DEFINE m == MadeAddress(p)
<1>1. m \in Nat \ {0} /\ (m \in Live => Equal(p) # {} /\ treeNodes[m].path = p) /\ (m \notin Live => Equal(p) = {})
  <2>1. CASE Equal(p) = {}
    BY <2>1, NewNodeFacts DEF MadeAddress
  <2>2. CASE Equal(p) # {}
    <3>1. Equal(p) \subseteq Nat
      BY LiveFacts DEF Equal
    <3>2. m = Min(Equal(p))
      BY <2>2 DEF MadeAddress
    <3>3. m \in Equal(p)
      BY <2>2, <3>1, <3>2, FoundNode, Zenon
    <3>. QED
      BY <2>2, <3>3, LiveFacts DEF Equal
  <2>. QED
    BY <2>1, <2>2
<1>2. Made(p) = [a \in Live \cup {m} |->
                   IF a # m THEN treeNodes[a]
                   ELSE [path |-> p, refs |-> IF Equal(p) # {} THEN treeNodes[a].refs + 1 ELSE 1]]
    BY DEF Made
<1>. HIDE DEF m
<1>3. /\ DOMAIN Made(p) = Live \cup {m} /\ \A a \in Live \ {m} : Made(p)[a] = treeNodes[a]
      /\ Made(p)[m] = [path |-> p, refs |-> IF Equal(p) # {} THEN treeNodes[m].refs + 1 ELSE 1]
    BY <1>2
<1>4. Made(p)[m] \in NodeRecord /\ Made(p)[m].path = p
      /\ (m \in Live => Made(p)[m].refs = treeNodes[m].refs + 1) /\ (m \notin Live => Made(p)[m].refs = 1)
    BY <1>1, <1>3, LiveFacts DEF NodeRecord
<1>5. Made(p) \in [DOMAIN Made(p) -> NodeRecord]
    BY <1>2, <1>3, <1>4, LiveFacts
<1>6. IsFiniteSet(DOMAIN Made(p)) /\ DOMAIN Made(p) \subseteq Nat \ {0}
  <2>1. IsFiniteSet(Live \cup {m})
    BY LiveFacts, FS_AddElement
  <2>. QED
    BY <1>1, <1>3, <2>1, LiveFacts
<1>7. \A a \in Live : a # Nothing
    BY LiveFacts
<1>8. m # Root
    BY <1>1 DEF Root
<1>9. ASSUME NEW a \in Live \cap DOMAIN Made(p)
      PROVE  /\ Made(p)[a].path = treeNodes[a].path
             /\ a = m => Made(p)[a].refs = treeNodes[a].refs + 1
             /\ a # m => Made(p)[a].refs = treeNodes[a].refs
    BY <1>1, <1>3, <1>4
<1>10. \A a \in DOMAIN Made(p) \ Live : a = m /\ Made(p)[a].refs = 1
    BY <1>3, <1>4
<1>11. Live \ DOMAIN Made(p) = {} /\ m \in DOMAIN Made(p)
    BY <1>3
<1>. QED
    BY <1>4, <1>5, <1>6, <1>7, <1>8, <1>9, <1>10, <1>11, Zenon DEF Follows, Live, m

\* One handle goes elsewhere, and the nodes follow.
LEMMA RedirectKeeps ==
    ASSUME NodesInv, NEW h \in Handles, NEW y, NEW q,
           Redirected(refersTo, h, y, refersTo'), Redirected(meant, h, q, meant'),
           Follows(treeNodes, refersTo[h], y, q, treeNodes')
    PROVE  NodesInv'
<1>1. TreeOK(treeNodes', refersTo', meant')
    BY TreeFollows, Zenon DEF NodesInv
<1>. QED
    BY <1>1, Zenon DEF NodesInv

\* A handle that had nothing refers to what the handle g does.
LEMMA CopyKeeps ==
    ASSUME NodesInv, NEW g \in Handles, NEW h \in Handles, Copy(g, h)
    PROVE  NodesInv'
<1>. DEFINE y == refersTo[g]
            q == meant[g]
            tn2 == AddedRef(y)
<1>1. /\ refersTo[h] = Nothing /\ y # Nothing /\ treeNodes' = tn2
      /\ Redirected(refersTo, h, y, refersTo') /\ Redirected(meant, h, q, meant')
    BY DEF Copy, Redirected
<1>2. DOMAIN tn2 = Live /\ \A a \in Live : tn2[a] = IF a = y THEN [treeNodes[a] EXCEPT !.refs = @ + 1] ELSE treeNodes[a]
    BY DEF AddedRef
<1>3. ASSUME NEW a \in Live
      PROVE  /\ tn2[a] \in NodeRecord /\ tn2[a].path = treeNodes[a].path
             /\ a = y => tn2[a].refs = treeNodes[a].refs + 1
             /\ a # y => tn2[a].refs = treeNodes[a].refs
  <2>1. treeNodes[a] \in NodeRecord
    BY LiveFacts
  <2>. HIDE DEF tn2, y
  <2>. QED
    BY <1>2, <2>1 DEF NodeRecord
<1>4. tn2 \in [Live -> NodeRecord]
  <2>1. tn2 = [a \in Live |-> tn2[a]]
    BY DEF AddedRef
  <2>. HIDE DEF tn2
  <2>. QED
    BY <1>3, <2>1
<1>5. /\ y \in Live \cup {Root, Nothing} /\ q \in TreePaths \cup {<<>>} /\ (y = Root => q = <<>>)
      /\ (y \in Live => treeNodes[y].path = q)
      /\ IsFiniteSet(Live) /\ Live \subseteq Nat \ {0} /\ Nothing \notin Live
    BY LiveFacts, Zenon
<1>6. y \in Live => tn2[y].path = q
    BY <1>3, <1>5, Zenon
<1>. HIDE DEF y, q, tn2
<1>7. Follows(treeNodes, Nothing, y, q, tn2)
  <2>1. \A a \in DOMAIN treeNodes \cap DOMAIN tn2 :
           /\ tn2[a].path = treeNodes[a].path
           /\ a = y /\ a # Nothing => tn2[a].refs = treeNodes[a].refs + 1
           /\ a # y /\ a = Nothing => tn2[a].refs = treeNodes[a].refs - 1
           /\ (a = y <=> a = Nothing) => tn2[a].refs = treeNodes[a].refs
    BY <1>2, <1>3, <1>5, Zenon DEF Live
  <2>. QED
    BY <1>2, <1>4, <1>5, <1>6, <2>1, Zenon DEF Follows, Live
<1>. QED
    BY <1>1, <1>7, RedirectKeeps, Zenon

\* A handle that had nothing refers to the root, or to a node made for it.
LEMMA ObtainKeeps ==
    ASSUME NodesInv, ~Overlay, NEW g \in Handles, NEW h \in Handles, Structure(h) \/ FindPath(h) \/ Nested(g, h)
    PROVE  NodesInv'
<1>1. CASE Structure(h)
  <2>1. /\ refersTo[h] = Nothing /\ treeNodes' = treeNodes
        /\ Redirected(refersTo, h, Root, refersTo') /\ Redirected(meant, h, <<>>, meant')
    BY <1>1 DEF Structure, Redirected
  <2>2. \A a \in Live : a # Nothing /\ a # Root
    BY LiveFacts, Zenon
  <2>3. Follows(treeNodes, Nothing, Root, <<>>, treeNodes)
    BY <2>2, LiveFacts, Zenon DEF Follows, Live
  <2>. QED
    BY <2>1, <2>3, RedirectKeeps, Zenon
<1>2. CASE FindPath(h) \/ Nested(g, h)
  <2>1. PICK p \in TreePaths : /\ refersTo[h] = Nothing /\ treeNodes' = Made(p)
                               /\ Redirected(refersTo, h, MadeAddress(p), refersTo')
                               /\ Redirected(meant, h, p, meant')
    BY <1>2 DEF FindPath, Nested, Redirected
  <2>. QED
    BY <2>1, MadeFollows, RedirectKeeps, Zenon
<1>. QED
    BY <1>1, <1>2

\* A handle that is dropped lets go of its node, which goes with the last one.
LEMMA DropKeeps ==
    ASSUME NodesInv, NEW h \in Handles, Drop(h)
    PROVE  NodesInv'
<1>. DEFINE x == refersTo[h]
            tn2 == Released(x)
            D == IF NodesFreed(x) THEN Live \ {x} ELSE Live
<1>1. /\ x # Nothing /\ treeNodes' = tn2
      /\ Redirected(refersTo, h, Nothing, refersTo') /\ Redirected(meant, h, <<>>, meant')
    BY DEF Drop, Redirected
<1>2. tn2 = [b \in D |-> IF b = x THEN [treeNodes[b] EXCEPT !.refs = @ - 1] ELSE treeNodes[b]]
    BY DEF Released
<1>3. /\ D \subseteq Live /\ (x \in D => treeNodes[x].refs - 1 \in Nat \ {0})
      /\ \A a \in Live \ D : a = x /\ treeNodes[a].refs = 1
    BY LiveFacts DEF NodesFreed
<1>. HIDE DEF D, x, tn2
<1>4. ASSUME NEW a \in D
      PROVE  /\ tn2[a] \in NodeRecord /\ tn2[a].path = treeNodes[a].path
             /\ a = x => tn2[a].refs = treeNodes[a].refs - 1
             /\ a # x => tn2[a].refs = treeNodes[a].refs
  <2>1. treeNodes[a] \in NodeRecord
    BY <1>3, LiveFacts
  <2>. QED
    BY <1>2, <1>3, <2>1 DEF NodeRecord
<1>5. DOMAIN tn2 = D /\ tn2 \in [D -> NodeRecord]
    BY <1>2, <1>4
<1>6. IsFiniteSet(D) /\ D \subseteq Nat \ {0} /\ Nothing \notin Live /\ Root # Nothing
  <2>1. D \in SUBSET Live
    BY <1>3
  <2>. QED
    BY <2>1, LiveFacts, FS_Subset
<1>7. Follows(treeNodes, x, Nothing, <<>>, tn2)
  <2>1. \A a \in DOMAIN treeNodes \cap DOMAIN tn2 :
           /\ tn2[a].path = treeNodes[a].path
           /\ a = Nothing /\ a # x => tn2[a].refs = treeNodes[a].refs + 1
           /\ a # Nothing /\ a = x => tn2[a].refs = treeNodes[a].refs - 1
           /\ (a = Nothing <=> a = x) => tn2[a].refs = treeNodes[a].refs
    BY <1>4, <1>5, <1>6, Zenon DEF Live
  <2>2. \A a \in DOMAIN treeNodes \ DOMAIN tn2 : a = x /\ a # Nothing /\ treeNodes[a].refs = 1
    BY <1>3, <1>5, <1>6, Zenon DEF Live
  <2>3. DOMAIN tn2 \ DOMAIN treeNodes = {} /\ Nothing \notin DOMAIN tn2
    BY <1>3, <1>5, <1>6 DEF Live
  <2>. QED
    BY <1>5, <1>6, <2>1, <2>2, <2>3, Zenon DEF Follows
<1>. QED
    BY <1>1, <1>7, RedirectKeeps, Zenon DEF x

\* A handle in use is given what another one refers to.
LEMMA CopyAssignKeeps ==
    ASSUME NodesInv, NEW g \in Handles, NEW h \in Handles, CopyAssign(g, h)
    PROVE  NodesInv'
<1>. DEFINE x == refersTo[h]
            y == refersTo[g]
            q == meant[g]
            added == IF y = Nothing THEN treeNodes ELSE AddedRef(y)
            last == x \in Live /\ added[x].refs <= 1
            D == IF last THEN Live \ {x} ELSE Live
            tn2 == [b \in D |-> IF b = x THEN [added[b] EXCEPT !.refs = @ - 1] ELSE added[b]]
<1>1. /\ x # Nothing /\ treeNodes' = tn2
      /\ Redirected(refersTo, h, y, refersTo') /\ Redirected(meant, h, q, meant')
    BY DEF CopyAssign, Redirected
<1>2. /\ \A b \in Live : treeNodes[b] \in NodeRecord
      /\ x \in Live \cup {Root, Nothing} /\ y \in Live \cup {Root, Nothing}
      /\ q \in TreePaths \cup {<<>>} /\ (y = Root => q = <<>>)
      /\ (y \in Live => treeNodes[y].path = q)
      /\ IsFiniteSet(Live) /\ Live \subseteq Nat \ {0} /\ Nothing \notin Live /\ Root \notin Live
    BY LiveFacts
<1>3. ASSUME NEW b \in Live
      PROVE  /\ added[b] \in NodeRecord /\ added[b].path = treeNodes[b].path
             /\ b = y => added[b].refs = treeNodes[b].refs + 1
             /\ b # y => added[b].refs = treeNodes[b].refs
  <2>1. treeNodes[b] \in NodeRecord /\ b # Nothing
    BY <1>2
  <2>2. CASE y = Nothing
    BY <2>1, <2>2
  <2>3. CASE y # Nothing
    <3>1. added[b] = IF b = y THEN [treeNodes[b] EXCEPT !.refs = @ + 1] ELSE treeNodes[b]
      BY <2>3 DEF AddedRef
    <3>. HIDE DEF added, y
    <3>. QED
      BY <2>1, <3>1 DEF NodeRecord
  <2>. QED
    BY <2>2, <2>3
<1>. HIDE DEF added, q
<1>4. \A b \in Live : treeNodes[b].refs \in Nat \ {0} /\ added[b].refs \in Nat \ {0}
    BY <1>2, <1>3 DEF NodeRecord
<1>5. /\ D \subseteq Live /\ (x \in D => added[x].refs - 1 \in Nat \ {0})
      /\ \A a \in Live \ D : a = x /\ a # y /\ treeNodes[a].refs = 1
    BY <1>3, <1>4
<1>. HIDE DEF D, x, y, last
<1>6. ASSUME NEW a \in D
      PROVE  /\ tn2[a] \in NodeRecord /\ tn2[a].path = treeNodes[a].path
             /\ a = x => tn2[a].refs = added[a].refs - 1
             /\ a # x => tn2[a].refs = added[a].refs
  <2>1. added[a] \in NodeRecord /\ added[a].path = treeNodes[a].path
    BY <1>3, <1>5
  <2>. QED
    BY <1>5, <2>1 DEF NodeRecord
<1>7. DOMAIN tn2 = D /\ tn2 \in [D -> NodeRecord]
    BY <1>6
<1>. HIDE DEF tn2
<1>8. IsFiniteSet(D) /\ D \subseteq Nat \ {0}
  <2>1. D \in SUBSET Live
    BY <1>5
  <2>. QED
    BY <1>2, <2>1, FS_Subset
<1>9. Follows(treeNodes, x, y, q, tn2)
  <2>1. ASSUME NEW a \in DOMAIN treeNodes \cap DOMAIN tn2
        PROVE  /\ tn2[a].path = treeNodes[a].path
               /\ a = y /\ a # x => tn2[a].refs = treeNodes[a].refs + 1
               /\ a # y /\ a = x => tn2[a].refs = treeNodes[a].refs - 1
               /\ (a = y <=> a = x) => tn2[a].refs = treeNodes[a].refs
    BY <1>3, <1>4, <1>6, <1>7 DEF Live
  <2>2. \A a \in DOMAIN treeNodes \ DOMAIN tn2 : a = x /\ a # y /\ treeNodes[a].refs = 1
    BY <1>5, <1>7 DEF Live
  <2>3. DOMAIN tn2 \ DOMAIN treeNodes = {}
    BY <1>5, <1>7 DEF Live
  <2>4. y \in DOMAIN tn2 \cup {Root, Nothing}
    BY <1>2, <1>5, <1>7
  <2>5. y \in DOMAIN tn2 => tn2[y].path = q
    BY <1>2, <1>5, <1>6, <1>7
  <2>. QED
    BY <1>2, <1>7, <1>8, <2>1, <2>2, <2>3, <2>4, <2>5, Zenon DEF Follows
<1>. QED
    BY <1>1, <1>9, RedirectKeeps, Zenon DEF x

\* Two handles are exchanged: the counts come out as they were.
LEMMA SwapKeeps ==
    ASSUME NodesInv, NEW g \in Handles, NEW h \in Handles, Swap(g, h)
    PROVE  NodesInv'
<1>. DEFINE mid == [refersTo EXCEPT ![g] = refersTo[h]]
            X == Live \cup {Root, Nothing}
<1>1. /\ g # h /\ treeNodes' = treeNodes
      /\ refersTo' = [refersTo EXCEPT ![g] = refersTo[h], ![h] = refersTo[g]]
      /\ meant' = [meant EXCEPT ![g] = meant[h], ![h] = meant[g]]
    BY DEF Swap
<1>2. refersTo \in [Handles -> X] /\ meant \in [Handles -> TreePaths \cup {<<>>}]
    BY Zenon DEF NodesInv, TreeOK, Live
<1>. HIDE DEF X
<1>3. /\ mid \in [Handles -> X] /\ mid[h] = refersTo[h] /\ refersTo' = [mid EXCEPT ![h] = refersTo[g]]
      /\ refersTo' \in [Handles -> X] /\ meant' \in [Handles -> TreePaths \cup {<<>>}]
      /\ refersTo'[g] = refersTo[h] /\ refersTo'[h] = refersTo[g]
      /\ meant'[g] = meant[h] /\ meant'[h] = meant[g]
      /\ \A f \in Handles \ {g, h} : refersTo'[f] = refersTo[f] /\ meant'[f] = meant[f]
    BY <1>1, <1>2
<1>4. Redirected(refersTo, g, refersTo[h], mid) /\ Redirected(mid, h, refersTo[g], refersTo')
    BY <1>3 DEF Redirected
<1>. HIDE DEF mid
<1>5. ASSUME NEW a \in Live PROVE Cardinality(RefsTo(refersTo', a)) = Cardinality(RefsTo(refersTo, a))
  <2>1. Cardinality(RefsTo(refersTo, a)) \in Nat /\ Recounted(refersTo, refersTo[g], refersTo[h], mid, a)
    BY <1>2, <1>4, RefCounts, Zenon
  <2>2. Recounted(mid, mid[h], refersTo[g], refersTo', a) /\ Cardinality(RefsTo(mid, a)) \in Nat
    BY <1>3, <1>4, RefCounts, Zenon
  <2>. QED
    BY <1>3, <2>1, <2>2 DEF Recounted
<1>6. ASSUME NEW f \in Handles
      PROVE  /\ refersTo'[f] = Root => meant'[f] = <<>>
             /\ refersTo'[f] \in Live => treeNodes[refersTo'[f]].path = meant'[f]
  <2>1. \A e \in Handles : /\ refersTo[e] = Root => meant[e] = <<>>
                           /\ refersTo[e] \in Live => treeNodes[refersTo[e]].path = meant[e]
    BY LiveFacts, Zenon
  <2>2. PICK e \in Handles : refersTo'[f] = refersTo[e] /\ meant'[f] = meant[e]
    BY <1>3
  <2>. QED
    BY <2>1, <2>2, Zenon
<1>7. \A a \in DOMAIN treeNodes : treeNodes[a].refs = Cardinality(RefsTo(refersTo', a))
    BY <1>5, Zenon DEF NodesInv, TreeOK, Live
<1>8. /\ treeNodes \in [DOMAIN treeNodes -> NodeRecord]
      /\ DOMAIN treeNodes \subseteq Nat \ {0} /\ IsFiniteSet(DOMAIN treeNodes)
    BY Zenon DEF NodesInv, TreeOK
<1>9. TreeOK(treeNodes, refersTo', meant')
    BY <1>3, <1>6, <1>7, <1>8, Zenon DEF TreeOK, Live, X
<1>. QED
    BY <1>1, <1>9, Zenon DEF NodesInv

\* No node is alive at first.
LEMMA NodesInitially ==
    ASSUME NodeInit PROVE NodesInv
<1>1. /\ treeNodes = <<>> /\ refersTo = [h \in Handles |-> Nothing] /\ meant = [h \in Handles |-> <<>>]
    BY DEF NodeInit
<1>2. DOMAIN treeNodes = {} /\ treeNodes \in [DOMAIN treeNodes -> NodeRecord]
    BY <1>1
<1>3. IsFiniteSet({})
    BY FS_EmptySet, Zenon
<1>4. /\ refersTo \in [Handles -> DOMAIN treeNodes \cup {Root, Nothing}]
      /\ meant \in [Handles -> TreePaths \cup {<<>>}]
      /\ \A h \in Handles : meant[h] = <<>>
    BY <1>1
<1>5. DOMAIN treeNodes \subseteq Nat \ {0} /\ IsFiniteSet(DOMAIN treeNodes)
    BY <1>2, <1>3
<1>. QED
    BY <1>2, <1>4, <1>5, Zenon DEF NodesInv, TreeOK

\* Every operation of the handles keeps the nodes counted.
LEMMA NodesStepKeeps ==
    ASSUME NodesInv, ~Overlay, NodeNext \/ UNCHANGED treeVars
    PROVE  NodesInv'
<1>1. ASSUME UNCHANGED treeVars PROVE NodesInv'
    BY <1>1 DEF treeVars, NodesInv, TreeOK, RefsTo
<1>. QED
    BY <1>1, ObtainKeeps, DropKeeps, CopyKeeps, CopyAssignKeeps, SwapKeeps, Zenon DEF NodeNext

\* A handle refers to the node it means, and every node is referred to.
LEMMA NodesInvSuffices ==
    ASSUME NodesInv PROVE NodesAlive
<1>1. HandlesAreAlive
  <2>. SUFFICES ASSUME NEW h \in Handles, refersTo[h] # Nothing
                PROVE  IF refersTo[h] = Root THEN meant[h] = <<>>
                       ELSE refersTo[h] \in Live /\ treeNodes[refersTo[h]].path = meant[h]
    BY DEF HandlesAreAlive
  <2>. QED
    BY LiveFacts
<1>2. NodesAreCounted
    BY Zenon DEF NodesInv, TreeOK, NodesAreCounted, RefsTo, Live
<1>. QED
    BY <1>1, <1>2 DEF NodesAlive

-----------------------------------------------------------------------------
(* The components together.                                                *)

\* application: timeout, watchdog and value_with_history keep track of what has
\* passed, for every set of periods and every number of revisions.
THEOREM TimersStayKept == ComponentsSpec => []TimersAreKept
<1>. DEFINE Kept == TimeoutsInv /\ HistoriesInv
<1>1. ComponentsInit => Kept
    BY TimeoutsInitially, HistoriesInitially, Zenon DEF ComponentsInit
<1>2. Kept /\ [ComponentsNext]_ComponentsVars => Kept'
    BY OthersStay, TimeoutsStepKeeps, HistoriesStepKeeps, Zenon
<1>3. Kept => TimersAreKept
    BY TimeoutsInvSuffices, HistoriesInvSuffices, Zenon DEF TimersAreKept
<1>. QED
    BY <1>1, <1>2, <1>3, PTL DEF ComponentsSpec

\* main_ctx and application_config: the members of the context outlive whoever
\* uses them, and a linked value is current after every reload().
THEOREM ContextStaysCurrent == ComponentsSpec => []ContextIsCurrent
<1>. DEFINE Current == MainInv /\ ConfigInv
<1>1. ComponentsInit => Current
    BY MainInitially, ConfigInitially, Zenon DEF ComponentsInit
<1>2. Current /\ [ComponentsNext]_ComponentsVars => Current'
    BY OthersStay, MainStepKeeps, ConfigStepKeeps, Zenon
<1>3. Current => ContextIsCurrent
    BY MainInvSuffices, Zenon DEF ContextIsCurrent, ConfigInv
<1>. QED
    BY <1>1, <1>2, <1>3, PTL DEF ComponentsSpec

\* buffer, buffer_pool, object_pool, object_storage and the nodes of value trees:
\* what is handed out has one owner, that it outlives by nothing. An overlay has
\* no nodes to count.
THEOREM HandedOutIsOwnedOnce == ~Overlay /\ ComponentsSpec => []OwnedOnce
<1>. DEFINE OwnedInv == ~Overlay /\ BuffersInv /\ PoolInv /\ StorageInv /\ NodesInv
<1>1. ~Overlay /\ ComponentsInit => OwnedInv
    BY BuffersInitially, PoolInitially, StorageInitially, NodesInitially, Zenon DEF ComponentsInit
<1>2. OwnedInv /\ [ComponentsNext]_ComponentsVars => OwnedInv'
    BY OthersStay, BuffersStepKeeps, PoolStepKeeps, StorageStepKeeps, NodesStepKeeps, Zenon
<1>3. OwnedInv => OwnedOnce
    BY BuffersInvSuffices, PoolInvSuffices, StorageInvSuffices, NodesInvSuffices, Zenon DEF OwnedOnce
<1>. QED
    BY <1>1, <1>2, <1>3, PTL DEF ComponentsSpec

\* small_vector, chunk_list, flat_map and flat_set: every call has the effect and
\* the result that a list and the standard map and set give it, also one that
\* moves the elements to the heap, splits a chunk or leaves one empty, and
\* bisection finds what is stored, for every size of the array and of the chunks
\* and all keys, if hints are the end or the place of the key, and for flat_map and
\* flat_set until one is assigned a list that has a key more than once.
THEOREM ContainersKeepTheirPromises == ~AnyHint /\ ComponentsSpec => ContainersKeepTheirPromise
<1>. DEFINE KeptInv == ~AnyHint /\ VectorInv /\ WellChunked(chunks) /\ FlatInv
            listVars == <<Content, smallCall>>
            chunkListVars == <<FlattenSeq(chunks), chunkCall>>
            mapVars == <<storage, mapCall>>
            setVars == <<setStorage, setCall>>
<1>1. ~AnyHint /\ ComponentsInit =>
        KeptInv /\ AsVector!ListInit /\ AsList!ListInit /\ AsMap!MapInit /\ AsSet!MapInit
    BY SmallInitially, ChunkInitially, FlatInitially, Zenon DEF ComponentsInit
<1>2. KeptInv /\ [ComponentsNext]_ComponentsVars =>
        KeptInv' /\ [AsVector!ListNext]_listVars /\ [AsList!ListNext]_chunkListVars
        /\ [mapRepeats' \/ AsMap!MapNext]_mapVars /\ [setRepeats' \/ AsSet!MapNext]_setVars
    BY OthersStay, SmallStepImplemented, ChunkStepImplemented, FlatStepImplemented, Zenon
<1>3. KeptInv => (which \in {"map", "set"} => LookupsAgree)
    BY FlatInvSuffices, Zenon
<1>. QED
    BY <1>1, <1>2, <1>3, PTL DEF ComponentsSpec, ContainersKeepTheirPromise, SmallVectorIsAList, ChunkListIsAList,
       FlatMapIsAMap, AsVector!ListSteps, AsList!ListSteps

\* chunk_list and basic_trie: an element is found again by iterator, by position
\* and by bisection, however its chunks are filled, and a value by its key
\* whatever nodes a refused key has left, for every size of the chunks, every
\* alphabet and keys of every length; a traversal comes to all the values, and
\* knows the keys that are shorter than what it has reserved.
THEOREM StructuresStayConsistent == ComponentsSpec => []StructuresAgree
<1>. DEFINE Agreeing == WellChunked(chunks) /\ TrieInv
<1>1. ComponentsInit => Agreeing
    BY ChunkInitially, TrieKeeps, Zenon DEF ComponentsInit
<1>2. Agreeing /\ [ComponentsNext]_ComponentsVars => Agreeing'
    BY OthersStay, ChunkStepImplemented, TrieKeeps, Zenon
<1>3. Agreeing => StructuresAgree
    BY ChunkPositionsHold, TrieHasItsMap, Zenon DEF StructuresAgree
<1>. QED
    BY <1>1, <1>2, <1>3, PTL DEF ComponentsSpec
=============================================================================
