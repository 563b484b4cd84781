--------------------------- MODULE StackAllocator ---------------------------
(***************************************************************************)
(* base_stack_allocator and the three byte allocators built on it.  The    *)
(* arena is the cells 0..Capacity-1 (cell 0 is *_btm).  Blocks are taken   *)
(* from the top and may be returned in ANY order: everything below _min is *)
(* in use, _dif counts the used cells at or above _min, and when it drops  *)
(* to zero _pos falls back to _min.  A failed assert ends the program.     *)
(***************************************************************************)
EXTENDS Integers, FiniteSets

CONSTANTS
    Capacity,   \* _top - _btm
    Base,       \* the address of _btm
    Sizes,      \* requested sizes
    Aligns,     \* requested alignments
    Kinds,      \* "base", "byte", "only" (stack_byte_allocator_only), "aligned"
    Polite      \* do callers of stack_byte_allocator ask max_size first?

ASSUME StackAssumption ==
    /\ Capacity \in Nat
    /\ Base \in Nat
    /\ Sizes \subseteq Nat
    /\ Aligns \subseteq Nat \ {0}
    /\ Kinds \subseteq {"base", "byte", "only", "aligned"}
    /\ Polite \in BOOLEAN

VARIABLES
    kind,       \* which of the allocators this is
    pos,        \* _pos - _btm
    min,        \* _min - _btm
    dif,        \* _dif
    blocks,     \* the blocks the callers own
    lost,       \* history: cells no caller owns and no one will return
    failed      \* the assertion that failed, or "none"

vars == <<kind, pos, min, dif, blocks, lost, failed>>

\* A block of the base allocator: cells at..at+size-1, of which the byte
\* allocators hand out all but the first pad ones.
Block == [at : 0..Capacity, pad : Nat, size : 0..Capacity]

End(b) == b.at + b.size

Cells(b) == b.at..(b.at + b.size - 1)

Init ==
    /\ kind \in Kinds
    /\ pos = 0
    /\ min = 0
    /\ dif = 0
    /\ blocks = {}
    /\ lost = {}
    /\ failed = "none"

-----------------------------------------------------------------------------
PadToMultiple(a) == IF kind \in {"byte", "only"} THEN pos % a ELSE 0  \* mutant of Pad

\* The padding in front of the caller's bytes; the stack_byte_allocator
\* needs at least one cell, where it notes the padding for deallocate.
Pad(a) ==
    CASE kind = "byte" -> a - (pos % a)
      [] kind = "only" -> (a - (pos % a)) % a
      [] OTHER         -> 0

\* max_size: what a caller may ask for.
MaxSize(a) ==
    IF kind = "byte"
    THEN IF Capacity - pos > a THEN Capacity - pos - a ELSE 0
    ELSE Capacity - pos

\* is_aligned_to on the address the caller will get.
Aligned(p, a) == kind = "base" \/ (Base + p) % a = 0

\* base_stack_allocator::allocate takes the top n cells.
MoveUp(n) ==
    /\ IF min = pos
       THEN min' = min + n /\ UNCHANGED dif
       ELSE dif' = dif + n /\ UNCHANGED min
    /\ pos' = pos + n

Fits(n) == n <= Capacity - pos

\* The first assertion of allocate that fails; the padding is noted in a byte.
Violated(m, n, a) ==
    CASE kind = "byte" /\ m >= 255               -> "must fit into a byte"
      [] Fits(m + n) /\ ~Aligned(pos + m, a)     -> "is_aligned_to"
      [] ~Fits(m + n) /\ m > 0                   -> "m <= b.size()"
      [] OTHER                                   -> "none"

\* allocate(n, a); stack_byte_allocator returns an empty block for n = 0.
Allocate(n, a) ==
    /\ failed = "none"
    /\ kind = "byte" => n > 0
    /\ Polite /\ kind = "byte" => n <= MaxSize(a)
    /\ failed' = Violated(Pad(a), n, a)
    /\ UNCHANGED kind
    /\ LET m == Pad(a) IN
        \/ /\ Fits(m + n)
           /\ MoveUp(m + n)
           /\ blocks' = blocks \cup {[at |-> pos, pad |-> m, size |-> m + n]}
           /\ UNCHANGED lost
        \/ \* the base allocator returns an empty block
           /\ ~Fits(m + n)
           /\ UNCHANGED <<pos, min, dif, blocks, lost>>

\* Returning a block below _min opens a hole there: _min falls to it.
LowerMin(b) ==
    CASE End(b) = min -> min - b.size
      [] End(b) > min -> min
      [] End(b) < min -> b.at

\* The used cells at or above the new _min.  The used cells between a hole
\* and the old _min were not counted before.
AdjustDif(b) ==
    CASE End(b) = min -> dif
      [] End(b) > min -> dif - b.size
      [] End(b) < min -> dif + (min - b.at) - b.size

LowerPos(b) == IF End(b) = pos THEN pos - b.size ELSE pos   \* mutant of Settle

\* The top falls by the size of a topmost block, and to _min when nothing
\* is used from there on.
Settle(b) ==
    CASE AdjustDif(b) = 0 -> LowerMin(b)
      [] AdjustDif(b) # 0 /\ End(b) = pos -> pos - b.size
      [] OTHER -> pos

\* The block goes back to the base allocator, in any order.
Return(b) ==
    /\ min' = LowerMin(b)
    /\ dif' = AdjustDif(b)
    /\ pos' = Settle(b)
    /\ failed' = IF End(b) <= pos THEN "none" ELSE "p + n <= _pos"
    /\ UNCHANGED lost

\* Mutant of Forget: rewind to the block as if it were the topmost one.
Rewind(b) ==
    /\ pos' = b.at
    /\ UNCHANGED <<min, dif, lost, failed>>

\* stack_byte_allocator_only just forgets the block.
Forget(b) ==
    /\ lost' = lost \cup Cells(b)
    /\ failed' = IF End(b) <= pos THEN "none" ELSE "has_allocated(b)"
    /\ UNCHANGED <<pos, min, dif>>

Deallocate(b) ==
    /\ failed = "none"
    /\ blocks' = blocks \ {b}
    /\ UNCHANGED kind
    /\ IF kind = "only" THEN Forget(b) ELSE Return(b)

\* Mutant of Truncate: every block is treated as the topmost one.
TruncateAny(b, n) ==
    /\ failed = "none"
    /\ kind = "base"
    /\ n <= b.size
    /\ blocks' = (blocks \ {b}) \cup {[b EXCEPT !.size = n]}
    /\ pos' = pos - (b.size - n)
    /\ IF min = pos
       THEN min' = min - (b.size - n) /\ UNCHANGED dif
       ELSE dif' = dif - (b.size - n) /\ UNCHANGED min
    /\ UNCHANGED <<kind, lost, failed>>

\* truncate(b, n): the tail of any but the topmost block is never reused.
Truncate(b, n) ==
    /\ failed = "none"
    /\ kind = "base"
    /\ n <= b.size
    /\ blocks' = (blocks \ {b}) \cup {[b EXCEPT !.size = n]}
    /\ \/ /\ End(b) = pos
          /\ pos' = pos - (b.size - n)
          /\ IF min = pos
             THEN min' = min - (b.size - n) /\ UNCHANGED dif
             ELSE dif' = dif - (b.size - n) /\ UNCHANGED min
          /\ UNCHANGED lost
       \/ /\ End(b) # pos
          /\ lost' = lost \cup ((b.at + n)..(End(b) - 1))
          /\ UNCHANGED <<pos, min, dif>>
    /\ UNCHANGED <<kind, failed>>

Next ==
    \/ \E n \in Sizes, a \in Aligns : Allocate(n, a)
    \/ \E b \in blocks : Deallocate(b)
    \/ \E b \in blocks, n \in Sizes : Truncate(b, n)

Spec == Init /\ [][Next]_vars

-----------------------------------------------------------------------------
(* Properties.                                                             *)

TypeOK ==
    /\ pos \in 0..Capacity
    /\ min \in 0..Capacity
    /\ dif \in Int
    /\ blocks \subseteq Block
    /\ lost \subseteq 0..(Capacity - 1)

\* What the callers own never overlaps and lies in what _allocated() reports,
\* in whatever order blocks were taken, truncated and returned.
BlocksDisjoint ==
    /\ \A b \in blocks : End(b) <= pos
    /\ \A b, c \in blocks : b # c => Cells(b) \cap Cells(c) = {}

Used == {x \in 0..(Capacity - 1) : x \in lost \/ \E b \in blocks : x \in Cells(b)}

\* deallocate's bookkeeping: below _min every cell is used, _dif counts the
\* used cells from _min on, so _pos is pulled down only over free cells.
DifCountsUsed ==
    /\ min <= pos
    /\ \A x \in 0..(min - 1) : x \in Used
    /\ dif = Cardinality({x \in Used : x >= min})

\* ~base_stack_allocator asserts it: when all blocks were returned, and none
\* was cut short below another one, the arena is empty again.
AllReturnedAllFree == blocks = {} /\ lost = {} => pos = 0 /\ min = 0 /\ dif = 0

\* Callers of stack_byte_allocator that ask max_size first, over a buffer that
\* is aligned, meet no failing assertion; base_stack_allocator has none to meet.
PoliteCallersAreServed == kind \in {"base", "byte"} => failed = "none"

\* No assert of allocate or deallocate fails.
AssertionsHold == failed = "none"
=============================================================================
