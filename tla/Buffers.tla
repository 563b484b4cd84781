------------------------------ MODULE Buffers ------------------------------
(***************************************************************************)
(* memory::buffer and buffer_pool.  A buffer owns a block of its allocator *)
(* and uses the first size bytes of it; a pool keeps the buffers that are  *)
(* returned to it for their blocks.  Blocks that the allocator handed out  *)
(* and nobody gave back are live.                                          *)
(***************************************************************************)
EXTENDS Integers, Sequences, FiniteSets, SequencesExt, FiniteSetsExt

CONSTANTS
    Buffers,                \* the buffers that callers hold
    BufferSizes,            \* the sizes they ask for
    PoolMax,                \* buffer_pool::_max
    MaxBlocks               \* bound on the blocks of one run

ASSUME BuffersAssumption ==
    /\ BufferSizes \subseteq Nat
    /\ PoolMax \in Nat
    /\ MaxBlocks \in Nat

VARIABLES
    live,                   \* capacity of each live block, by number
    buffer,                 \* per caller's buffer its _storage and _size
    bufferPool,             \* _pool
    stats,                  \* the counters of buffer_pool_stats
    overwritten             \* history: blocks lost by an assignment

bufferVars == <<live, buffer, bufferPool, stats, overwritten>>

NoBlock == 0

Empty == [block |-> NoBlock, size |-> 0]

NoStats == [gets |-> 0, hits |-> 0, eats |-> 0, discards |-> 0, most |-> 0, largest |-> 0]

BuffersInit ==
    /\ live = [b \in {} |-> 0]
    /\ buffer = [u \in Buffers |-> Empty]
    /\ bufferPool = <<>>
    /\ stats = NoStats
    /\ overwritten = {}

Fresh(cs) == Min((1..MaxBlocks + 1) \ DOMAIN cs)

BufferCapacity(cs, u) == IF u.block = NoBlock THEN 0 ELSE cs[u.block]

\* _reallocate, with c_byte_reallocator: a block keeps its place in the model,
\* the first one is new.
Reallocated(cs, u, n) ==
    LET b == IF u.block = NoBlock THEN Fresh(cs) ELSE u.block
    IN  <<[c \in DOMAIN cs \cup {b} |-> IF c = b THEN n ELSE cs[c]], [u EXCEPT !.block = b]>>

Reserved(cs, u, n) == IF BufferCapacity(cs, u) < n THEN Reallocated(cs, u, n) ELSE <<cs, u>>

Resized(cs, u, n) == LET r == Reserved(cs, u, n) IN <<r[1], [r[2] EXCEPT !.size = n]>>

\* free, which the destructor calls as well.
BlockFreed(cs, u) == [c \in DOMAIN cs \ {u.block} |-> cs[c]]

Stored(u, r) ==
    /\ live' = r[1]
    /\ buffer' = [buffer EXCEPT ![u] = r[2]]
    /\ Cardinality(DOMAIN live') <= MaxBlocks
    /\ UNCHANGED <<bufferPool, stats, overwritten>>

Reserve(u, n) == Stored(u, Reserved(live, buffer[u], n))

\* resize, and clear for zero.
Resize(u, n) == Stored(u, Resized(live, buffer[u], n))

Ensure(u, n) == Stored(u, IF buffer[u].size < n THEN Resized(live, buffer[u], n) ELSE <<live, buffer[u]>>)

\* enlarge_by, and append_to, which copies behind the old content.
EnlargeBy(u, n) ==
    /\ buffer[u].size + n \in BufferSizes
    /\ Stored(u, Resized(live, buffer[u], buffer[u].size + n))

\* free, and the end of a buffer's life.
Free(u) == Stored(u, <<BlockFreed(live, buffer[u]), Empty>>)

\* The assignment from a temporary: owned_block takes the other one's block
\* without looking at its own.
MoveAssign(u, w) ==
    /\ u # w
    /\ buffer' = [buffer EXCEPT ![u] = buffer[w], ![w] = Empty]
    /\ overwritten' = overwritten \cup ({buffer[u].block} \ {NoBlock})
    /\ Cardinality(overwritten') <= 1
    /\ UNCHANGED <<live, bufferPool, stats>>

\* get: the result is a new buffer, so the assignment in it loses nothing.
PoolGet(u, n) ==
    LET hit == bufferPool # <<>>
        r == Resized(live, IF hit THEN Last(bufferPool) ELSE Empty, n)
    IN  /\ buffer[u] = Empty
        /\ bufferPool' = IF hit THEN Front(bufferPool) ELSE bufferPool
        /\ live' = r[1]
        /\ buffer' = [buffer EXCEPT ![u] = r[2]]
        /\ Cardinality(DOMAIN live') <= MaxBlocks
        /\ stats' = [stats EXCEPT !.gets = @ + 1, !.hits = IF hit THEN @ + 1 ELSE @,
                                  !.most = Max({@, Len(bufferPool)})]
        /\ UNCHANGED overwritten

\* Capacities under this are not worth keeping.
MinKept == 16

\* eat, also by way of eat_later: used is destroyed when it is not kept.
PoolEat(u) ==
    LET used == buffer[u]
        cap == BufferCapacity(live, used)
        kept == cap >= MinKept /\ Len(bufferPool) < PoolMax
    IN  /\ buffer' = [buffer EXCEPT ![u] = Empty]
        /\ bufferPool' = IF kept THEN Append(bufferPool, used) ELSE bufferPool
        /\ live' = IF kept THEN live ELSE BlockFreed(live, used)
        /\ stats' = [stats EXCEPT !.discards = IF kept THEN @ ELSE @ + 1,
                                  !.eats = IF cap >= MinKept THEN @ + 1 ELSE @,
                                  !.largest = IF cap >= MinKept THEN Max({@, cap}) ELSE @]
        /\ UNCHANGED overwritten

MaxGets == 2                \* bounds on the calls of the pool

MaxEats == 3

BuffersNext ==
    \/ \E u \in Buffers, n \in BufferSizes : Reserve(u, n) \/ Resize(u, n) \/ Ensure(u, n)
    \/ \E u \in Buffers, n \in BufferSizes : EnlargeBy(u, n)
    \/ \E u \in Buffers : Free(u)
    \/ \E u, w \in Buffers : MoveAssign(u, w)
    \/ \E u \in Buffers, n \in BufferSizes : stats.gets < MaxGets /\ PoolGet(u, n)
    \/ \E u \in Buffers : stats.eats + stats.discards < MaxEats /\ PoolEat(u)

-----------------------------------------------------------------------------
(* Properties.                                                             *)

\* Who owns buffers: callers, and the places in the pool.
Owners == ({"caller"} \X Buffers) \cup ({"pool"} \X DOMAIN bufferPool)

OwnedBy(o) == IF o[1] = "caller" THEN buffer[o[2]] ELSE bufferPool[o[2]]

\* Every live block has one owner, a caller's buffer or one in the pool, and
\* no buffer reaches past its block, so that nothing is freed twice, used
\* after it was freed, or lost; only the assignment to a buffer that still has
\* a block loses that one.  A pooled buffer has a block that is worth it.
BlocksAreOwned ==
    /\ \A b \in DOMAIN live \ overwritten : \E o \in Owners : OwnedBy(o).block = b
    /\ \A o \in Owners :
          /\ OwnedBy(o).block # NoBlock => OwnedBy(o).block \in DOMAIN live \ overwritten
          /\ OwnedBy(o).size <= BufferCapacity(live, OwnedBy(o))
          /\ \A p \in Owners \ {o} : OwnedBy(o).block = OwnedBy(p).block => OwnedBy(o).block = NoBlock
    /\ \A i \in DOMAIN bufferPool : BufferCapacity(live, bufferPool[i]) >= MinKept
    /\ Len(bufferPool) <= PoolMax
    /\ stats.gets >= stats.hits
=============================================================================
