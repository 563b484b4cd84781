--------------------------- MODULE ObjectStorage ----------------------------
(***************************************************************************)
(* What keeps objects for others: the pool, which lends them out and takes *)
(* them back, and the storage, which destroys all of its objects at once.  *)
(***************************************************************************)
EXTENDS Integers, Sequences, FiniteSets, SequencesExt, FiniteSetsExt

(***************************************************************************)
(* object_pool and the pool_object handles that return what they hold when *)
(* they are destroyed.  Objects are numbered by their address; one that    *)
(* the pool frees may come back as the address of a new one.               *)
(***************************************************************************)

CONSTANTS
    Holders,                \* pool_objects, and callers of get and eat
    CountLimit              \* size_t wraps here

ASSUME ObjectPoolAssumption ==
    /\ CountLimit \in Nat /\ CountLimit > 2
    /\ IsFiniteSet(Holders) /\ Cardinality(Holders) < CountLimit

VARIABLES
    objects,                \* _storage: pairs <<object, in use>>
    count,                  \* _count
    held,                   \* per holder the object it refers to, or NoObject
    twice                   \* history: an object was returned and kept

poolVars == <<objects, count, held, twice>>

NoObject == 0

PoolInit ==
    /\ objects = <<>>
    /\ count = 0
    /\ held = [h \in Holders |-> NoObject]
    /\ twice = FALSE

IsEmptyNode(node) == ~node[2]

FirstEmpty == SelectInSeq(objects, IsEmptyNode)

NewAddress == Min((1..Len(objects) + 1) \ {objects[i][1] : i \in DOMAIN objects})

\* get and make; get_object makes a pool_object of it.
Get(h) ==
    /\ held[h] = NoObject
    /\ objects' = IF FirstEmpty = 0 THEN Append(objects, <<NewAddress, TRUE>>)
                  ELSE [objects EXCEPT ![FirstEmpty][2] = TRUE]
    /\ held' = [held EXCEPT ![h] = IF FirstEmpty = 0 THEN NewAddress ELSE objects[FirstEmpty][1]]
    /\ count' = (count + 1) % CountLimit
    /\ UNCHANGED twice

\* The nodes in use, in their order: remove_if of the others.
NodesInUse(nodes) ==
    LET used == {nodes[i] : i \in {j \in DOMAIN nodes : nodes[j][2]}}
        kept[i \in 0..Len(nodes)] ==
            IF i = 0 THEN <<>> ELSE IF nodes[i] \in used THEN Append(kept[i - 1], nodes[i]) ELSE kept[i - 1]
    IN  kept[Len(nodes)]

\* eat of the object at a; with as many idle objects as used ones, or more, the
\* idle ones are freed.
Eaten(a) ==
    LET pos == SelectInSeq(objects, LAMBDA node : node[1] = a)
        idle == [objects EXCEPT ![pos][2] = FALSE]
        left == (count - 1) % CountLimit
    IN  IF pos = 0 THEN <<objects, count>>
        ELSE <<IF Len(objects) >= (left * 2) % CountLimit
               THEN NodesInUse(idle) ELSE idle, left>>

\* ~pool_object, and eat by a caller that does not keep the reference.
Eat(h) ==
    /\ held[h] # NoObject
    /\ objects' = Eaten(held[h])[1]
    /\ count' = Eaten(held[h])[2]
    /\ held' = [held EXCEPT ![h] = NoObject]
    /\ UNCHANGED twice

\* eat of an object that the holder goes on to refer to: a second eat returns
\* false when the pool has freed the object, and counts it again when not.
EatAndKeep(h) ==
    /\ held[h] # NoObject
    /\ ~twice
    /\ twice' = TRUE
    /\ objects' = Eaten(held[h])[1]
    /\ count' = Eaten(held[h])[2]
    /\ UNCHANGED held

\* swap, and the assignment from a temporary, which swaps too; the move
\* constructor is the swap with a new handle.
SwapObjects(h, g) ==
    /\ h # g
    /\ held' = [held EXCEPT ![h] = held[g], ![g] = held[h]]
    /\ UNCHANGED <<objects, count, twice>>

PoolNext ==
    \/ \E h \in Holders : Get(h) \/ Eat(h) \/ EatAndKeep(h)
    \/ \E h, g \in Holders : SwapObjects(h, g)

-----------------------------------------------------------------------------
(* Properties.                                                             *)

LentOut == {objects[i][1] : i \in {j \in DOMAIN objects : objects[j][2]}}

Lent == {held[h] : h \in Holders} \ {NoObject}

\* Until a caller returns an object and goes on to use it: the objects in use
\* are the ones held, no two holders share one, none that is held was freed,
\* the count is theirs, and a pool without used objects keeps no idle ones.
LentOnce ==
    twice \/ /\ LentOut = Lent
             /\ Cardinality(Lent) = count
             /\ \A h, g \in Holders : held[h] = held[g] /\ h # g => held[h] = NoObject
             /\ count = 0 => objects = <<>>

-----------------------------------------------------------------------------
(***************************************************************************)
(* object_storage, which constructs objects of any type in blocks of an    *)
(* allocator and destroys them together, and callable_storage, which keeps *)
(* with each object the function that calls it.  The vectors of blocks,    *)
(* alignments and destructors have the same length by construction, so one *)
(* sequence stands for them.                                               *)
(***************************************************************************)

CONSTANTS
    Types,                  \* types of the objects
    MaxStored               \* bound on the objects

ASSUME ObjectStorageAssumption == MaxStored \in Nat

VARIABLES
    blks,                   \* _blks, _alns, _dtrs: types of the objects
    clrs,                   \* _clrs: the types that the callers are made for
    built,                  \* which of the blocks hold an object
    thrown,                 \* history: a constructor has thrown
    destroyed,              \* history: the blocks the last clear destroyed
    called                  \* history: what the last call called, as pairs
                            \* <<type called, type in the block>>

storageVars == <<blks, clrs, built, thrown, destroyed, called>>

StorageInit ==
    /\ blks = <<>> /\ clrs = <<>> /\ built = {}
    /\ thrown = FALSE /\ destroyed = <<>> /\ called = <<>>

\* emplace: the block and the destructor are there before the object.
Emplaced(t) ==
    /\ Len(blks) < MaxStored
    /\ blks' = Append(blks, t)
    /\ UNCHANGED <<destroyed, called>>

\* callable_storage::add.
Add(t) ==
    /\ Emplaced(t)
    /\ built' = built \cup {Len(blks) + 1}
    /\ clrs' = Append(clrs, t)
    /\ UNCHANGED thrown

\* The constructor throws: neither the block nor the destructor is taken back,
\* and add does not come to the caller.
AddThrows(t) ==
    /\ Emplaced(t)
    /\ thrown' = TRUE
    /\ UNCHANGED <<built, clrs>>

\* The allocator has no memory: emplace throws before it changes anything.
AddNoMemory(t) == UNCHANGED storageVars

\* clear, and the destructor: the objects in reverse order, then the blocks.
Clear ==
    /\ destroyed' = Reverse([i \in DOMAIN blks |-> i])
    /\ blks' = <<>> /\ clrs' = <<>> /\ built' = {}
    /\ UNCHANGED <<thrown, called>>

\* operator(): _clrs is as long as _blks unless an add threw.
Call ==
    /\ called' = [i \in DOMAIN blks |-> <<IF i \in DOMAIN clrs THEN clrs[i] ELSE "none", blks[i]>>]
    /\ UNCHANGED <<blks, clrs, built, thrown, destroyed>>

StorageNext ==
    \/ \E t \in Types : Add(t) \/ AddThrows(t) \/ AddNoMemory(t)
    \/ Clear
    \/ Call

-----------------------------------------------------------------------------
(* Properties.                                                             *)

\* As long as no constructor throws, every block has its object and every
\* object is called as what it is; and then clear destroys the last first.
CalledAsBuilt ==
    thrown \/ /\ built = DOMAIN blks
              /\ clrs = blks
              /\ \A i \in DOMAIN called : called[i][1] = called[i][2]
              /\ \A i, j \in DOMAIN destroyed : i < j => destroyed[i] > destroyed[j]
=============================================================================
