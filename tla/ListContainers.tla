--------------------------- MODULE ListContainers ---------------------------
(***************************************************************************)
(* The sequences of the container library: the list in chunks and the      *)
(* small vector.                                                           *)
(***************************************************************************)
EXTENDS Integers, Sequences, FiniteSetsExt, SequencesExt

\* std::remove_if: the elements that are in a set stay, in their order.
Remaining(s, set) ==
    LET kept[i \in 0..Len(s)] ==
            IF i = 0 THEN <<>> ELSE IF s[i] \in set THEN Append(kept[i - 1], s[i]) ELSE kept[i - 1]
    IN  kept[Len(s)]

(***************************************************************************)
(* chunk_list: a sequence kept in chunks of at most ChunkSize elements.    *)
(* An insert into a full chunk splits it, erase leaves empty chunks behind,*)
(* so positions have to be adjusted and counted across chunks of any fill. *)
(* A position is <<chunk, index>>; the end is <<number of chunks + 1, 0>>. *)
(***************************************************************************)

CONSTANTS
    ChunkElems,             \* values stored
    ChunkSize,              \* N
    MaxList, MaxChunks      \* bounds on the elements and the chunks

ASSUME ChunkAssumption ==
    /\ ChunkSize \in Nat /\ ChunkSize >= 4      \* static_assert(N >= 4)
    /\ MaxList \in Nat /\ MaxChunks \in Nat
    /\ ChunkElems \subseteq Int                 \* compared by std::less

VARIABLES
    chunks,                 \* _chunks
    chunkCall               \* history: the last call, as ListSpec has it

chunkVars == <<chunks, chunkCall>>

-----------------------------------------------------------------------------
(* Positions.                                                              *)

ListEnd(cs) == <<Len(cs) + 1, 0>>

\* The first element from chunk c on, or the end.
FirstFrom(cs, c) ==
    LET filled == {k \in c..Len(cs) : cs[k] # <<>>}
    IN IF filled = {} THEN ListEnd(cs) ELSE <<Min(filled), 1>>

\* adjust: a position behind the last element of its chunk moves on.
Adjust(cs, p) ==
    IF p[1] <= Len(cs) /\ p[2] > Len(cs[p[1]]) THEN FirstFrom(cs, p[1] + 1) ELSE p

ListBegin(cs) == IF cs = <<>> THEN ListEnd(cs) ELSE Adjust(cs, <<1, 1>>)

\* Elements of the chunks a to b.
Held(cs, a, b) ==
    LET sizes == [c \in DOMAIN cs |-> Len(cs[c])]
        upTo[c \in 0..Len(cs)] == IF c = 0 THEN 0 ELSE upTo[c - 1] + sizes[c]
    IN  upTo[b] - upTo[a - 1]

ListSize(cs) == Held(cs, 1, Len(cs))

DistanceShort(cs, p, q) ==  \* mutant of Distance
    IF p[1] > Len(cs) THEN 0
    ELSE IF p[1] = q[1] THEN q[2] - p[2]
    ELSE (Len(cs[p[1]]) - p[2]) + Held(cs, p[1] + 1, q[1] - 1) + (IF q[1] <= Len(cs) THEN q[2] - 1 ELSE 0)

\* forward_distance: the rest of the first chunk, the chunks between, and the
\* part of the last one.
Distance(cs, p, q) ==
    IF p[1] > Len(cs) THEN 0
    ELSE IF p[1] = q[1] THEN q[2] - p[2]
    ELSE (Len(cs[p[1]]) + 1 - p[2]) + Held(cs, p[1] + 1, q[1] - 1)
         + (IF q[1] <= Len(cs) THEN q[2] - 1 ELSE 0)

\* operator+=: d is used up chunk by chunk.
Plus(cs, p, d) ==
    LET here == Len(cs[p[1]]) + 1 - p[2]
        behind(c) == here + Held(cs, p[1] + 1, c)
        reached == {c \in p[1] + 1..Len(cs) : d <= behind(c)}
    IN  IF d <= here THEN Adjust(cs, <<p[1], p[2] + d>>)
        ELSE IF reached = {} THEN ListEnd(cs)
        ELSE Adjust(cs, <<Min(reached), 1 + d - behind(Min(reached) - 1)>>)

At(cs, p) == cs[p[1]][p[2]]

\* lower_bound and upper_bound: a turn of the loop, for how many elements are to
\* be searched, from where; left are those behind which the search goes on.
ChunkHalved(cs, left, np) ==
    LET step == np[1] \div 2
        it == Plus(cs, np[2], step)
    IN  IF np[1] = 0 THEN np
        ELSE IF At(cs, it) \in left THEN <<np[1] - (step + 1), Plus(cs, it, 1)>>
        ELSE <<step, np[2]>>

ChunkBisect(cs, left) ==
    LET count == Distance(cs, ListBegin(cs), ListEnd(cs))
        search[i \in 0..count] ==
            IF i = 0 THEN <<count, ListBegin(cs)>> ELSE ChunkHalved(cs, left, search[i - 1])
    IN  search[count][2]

ChunkLowerBound(cs, v) == ChunkBisect(cs, {x \in ChunkElems : x < v})

ChunkUpperBound(cs, v) == ChunkBisect(cs, {x \in ChunkElems : ~(v < x)})

\* The index in the sequence that a position stands for.
IndexOf(cs, p) == Distance(cs, ListBegin(cs), p) + 1

Positions(cs) ==
    {p \in (1..Len(cs)) \X (1..ChunkSize) : p[2] <= Len(cs[p[1]])} \cup {ListEnd(cs)}

-----------------------------------------------------------------------------
(* Operations.                                                             *)

ChunkStep(cs, call) ==
    /\ ListSize(cs) <= MaxList
    /\ Len(cs) <= MaxChunks
    /\ chunks' = cs
    /\ chunkCall' = call

ChunkInit == chunks = <<>> /\ chunkCall = <<"construct">>

IsFull(c) == Len(c) = ChunkSize

\* The last chunk gets an element.
LastGets(cs, v) == [cs EXCEPT ![Len(cs)] = Append(@, v)]

\* push_back and emplace_back: a list without elements gets a new chunk too.
ChunkPushed(cs, v) ==
    LastGets(IF ListSize(cs) = 0 \/ IsFull(Last(cs)) THEN Append(cs, <<>>) ELSE cs, v)

ChunkPushBack(v) == ChunkStep(ChunkPushed(chunks, v), <<"push_back", v>>)

\* pop_back, and where front and back look: empty chunks are passed over.
LastFilled(cs) == Max({c \in 1..Len(cs) : cs[c] # <<>>})

ChunkPopBack ==
    /\ ListSize(chunks) > 0
    /\ ChunkStep([chunks EXCEPT ![LastFilled(chunks)] = Front(@)], <<"pop_back">>)

ListFront(cs) == Head(cs[FirstFrom(cs, 1)[1]])

ListBack(cs) == Last(cs[LastFilled(cs)])

\* resize to fewer elements: going back from the last chunk until enough is
\* removed, the chunks found or left empty are dropped.
ShrunkTo(cs, n) ==
    LET cut(c) == (ListSize(cs) - n) - Held(cs, c + 1, Len(cs))
        stays == {c \in 1..Len(cs) : cut(c) <= 0 \/ cut(c) < Len(cs[c])}
    IN  [c \in 1..Cardinality(stays) |-> IF cut(c) > 0 THEN SubSeq(cs[c], 1, Len(cs[c]) - cut(c))
                                         ELSE cs[c]]

\* resize to more: the last chunk is filled, then new ones.
GrownByOne(cs, v) ==
    LastGets(IF cs = <<>> \/ IsFull(Last(cs)) THEN Append(cs, <<>>) ELSE cs, v)

GrownBy(cs, fill) ==
    LET grown[i \in 0..Len(fill)] == IF i = 0 THEN cs ELSE GrownByOne(grown[i - 1], fill[i])
    IN  grown[Len(fill)]

ChunkResize(n, fill) ==
    LET size == ListSize(chunks) IN
    /\ Len(fill) = IF n > size THEN n - size ELSE 0
    /\ ChunkStep(IF n < size THEN ShrunkTo(chunks, n) ELSE GrownBy(chunks, fill), <<"resize", n>>)

\* clear keeps the chunks.
Cleared(cs) == [c \in DOMAIN cs |-> <<>>]

Assigned(cs, vs) ==
    LET pushed[i \in 0..Len(vs)] == IF i = 0 THEN Cleared(cs) ELSE ChunkPushed(pushed[i - 1], vs[i])
    IN  pushed[Len(vs)]

ChunkAssign(vs) == ChunkStep(Assigned(chunks, vs), <<"assign", vs>>)

\* get_insert_position: the chunks, with one added or split, and the place.
InsertPosition(cs, p) ==
    LET n == Len(cs)
        half == ChunkSize \div 2
    IN  IF n = 0 THEN <<<<(<<>>)>>, <<1, 1>>>>
        ELSE IF p[1] > n
        THEN IF IsFull(Last(cs)) THEN <<Append(cs, <<>>), <<n + 1, 1>>>>
             ELSE <<cs, <<n, Len(Last(cs)) + 1>>>>
        ELSE IF IsFull(cs[p[1]])
        THEN <<SubSeq(cs, 1, p[1] - 1)
                 \o <<SubSeq(cs[p[1]], 1, half), SubSeq(cs[p[1]], half + 1, ChunkSize)>>
                 \o SubSeq(cs, p[1] + 1, n),
               IF p[2] - 1 <= half THEN p ELSE <<p[1] + 1, p[2] - half>>>>
        ELSE <<cs, p>>

\* insert and emplace.
ChunkInsert(p, v) ==
    LET ip == InsertPosition(chunks, p)
        cs == [ip[1] EXCEPT ![ip[2][1]] = InsertAt(@, ip[2][2], v)]
    IN  ChunkStep(cs, <<"insert", IndexOf(chunks, p), v, IndexOf(cs, Adjust(cs, ip[2]))>>)

ChunkErase(p) ==
    LET cs == IF p = ListEnd(chunks) THEN chunks
              ELSE [chunks EXCEPT ![p[1]] = RemoveAt(@, p[2])]
    IN  ChunkStep(cs, <<"erase", IndexOf(chunks, p), IndexOf(cs, Adjust(cs, p))>>)

ChunkEraseIf(v) ==
    LET cs == [c \in DOMAIN chunks |-> Remaining(chunks[c], ChunkElems \ {v})]
    IN  ChunkStep(cs, <<"erase_if", v, ListSize(chunks) - ListSize(cs)>>)

ChunkNext ==
    \/ \E v \in ChunkElems : ChunkPushBack(v)
    \/ ChunkPopBack
    \/ \E n \in 0..MaxList, fill \in BoundedSeq(ChunkElems, 2) : ChunkResize(n, fill)
    \/ \E vs \in BoundedSeq(ChunkElems, 1) : ChunkAssign(vs)
    \/ \E p \in Positions(chunks), v \in ChunkElems : ChunkInsert(p, v)
    \/ \E p \in Positions(chunks) : ChunkErase(p)
    \/ \E v \in ChunkElems : ChunkEraseIf(v)

ChunkSpec == ChunkInit /\ [][ChunkNext]_chunkVars

-----------------------------------------------------------------------------
(* Properties.                                                             *)

\* chunk_list is a sequence: every operation does to the elements, read chunk
\* by chunk, what ListSpec says, and returns the position it promises.
AsList == INSTANCE ListSpec WITH Elems <- ChunkElems, list <- FlattenSeq(chunks), last <- chunkCall

ChunkListIsAList == AsList!ListSteps

\* The iterator: counting from the beginning reaches each element once, over
\* empty and part filled chunks, and bisection finds the bounds in a sorted list.
ChunkPositionsCount ==
    LET flat == FlattenSeq(chunks)
        sorted == \A i \in 1..Len(flat) - 1 : flat[i] <= flat[i + 1]
    IN  /\ \A c \in DOMAIN chunks : Len(chunks[c]) <= ChunkSize
        /\ Distance(chunks, ListBegin(chunks), ListEnd(chunks)) = Len(flat)
        /\ \A i \in 1..Len(flat) : At(chunks, Plus(chunks, ListBegin(chunks), i - 1)) = flat[i]
        /\ flat # <<>> => ListFront(chunks) = Head(flat) /\ ListBack(chunks) = Last(flat)
        /\ sorted => \A v \in ChunkElems :
             /\ IndexOf(chunks, ChunkLowerBound(chunks, v)) = Cardinality({i \in DOMAIN flat : flat[i] < v}) + 1
             /\ IndexOf(chunks, ChunkUpperBound(chunks, v)) = Cardinality({i \in DOMAIN flat : flat[i] <= v}) + 1

-----------------------------------------------------------------------------
(***************************************************************************)
(* small_vector: a static_vector while the elements fit into its array of  *)
(* SmallSize, a std::vector from the first call on for which they do not.  *)
(* The array of a static_vector is kept as it is in memory: the operations *)
(* move elements up and down in it and reset some of those they leave.     *)
(***************************************************************************)

CONSTANTS
    SmallElems,             \* values stored; Blank is one of them
    Blank,                  \* T{}
    SmallSize,              \* N
    MaxSmall                \* bound on the elements

ASSUME SmallAssumption ==
    /\ Blank \in SmallElems
    /\ SmallSize \in Nat \ {0}
    /\ MaxSmall \in Nat

VARIABLES
    alternative,            \* of _storage: "static" or "heap"
    array, size,            \* _array and _size of the static_vector
    heap,                   \* the std::vector
    smallCall               \* history: the last call, as ListSpec has it

smallVars == <<alternative, array, size, heap, smallCall>>

SmallInit ==
    /\ alternative = "static"
    /\ array = [i \in 1..SmallSize |-> Blank]
    /\ size = 0
    /\ heap = <<>>
    /\ smallCall = <<"construct">>

-----------------------------------------------------------------------------
(* static_vector, as the array and the size that an operation leaves.      *)

StaticContent == SubSeq(array, 1, size)

\* resize: what is cut off is reset, what is added is what the array holds.
StaticResize(n) == <<[i \in 1..SmallSize |-> IF i \in n + 1..size THEN Blank ELSE array[i]], n>>

StaticClear == <<[i \in 1..SmallSize |-> IF i <= size THEN Blank ELSE array[i]], 0>>

StaticPush(v) == <<[array EXCEPT ![size + 1] = v], size + 1>>

StaticPop == <<[array EXCEPT ![size] = Blank], size - 1>>

\* insert of a range, with std::move_backward; one element is a range of one.
StaticInsert(pos, vs) ==
    LET n == Len(vs) IN
    <<[i \in 1..SmallSize |-> CASE i < pos \/ i > size + n -> array[i]
                                [] i \in pos..pos + n - 1 -> vs[i - pos + 1]
                                [] OTHER -> array[i - n]],
      size + n>>

\* erase of [pos, last): reset, then std::move of the elements behind; the
\* places at the back that the move leaves are not reset.
StaticErase(pos, last) ==
    LET n == last - pos
        moved == size - last + 1
    IN  <<[i \in 1..SmallSize |-> CASE i \in pos..pos + moved - 1 -> array[i + n]
                                    [] i \in pos..last - 1 /\ i >= pos + moved -> Blank
                                    [] OTHER -> array[i]],
          size - n>>

\* std::remove_if, then the erase of the range it leaves at the back.
StaticEraseIf(v) ==
    LET kept == Remaining(StaticContent, SmallElems \ {v})
    IN  <<[i \in 1..SmallSize |-> IF i <= Len(kept) THEN kept[i] ELSE IF i <= size THEN Blank ELSE array[i]],
          Len(kept)>>

-----------------------------------------------------------------------------
(* small_vector.                                                           *)

Content == IF alternative = "static" THEN StaticContent ELSE heap

\* A call that the static_vector can serve, as StaticOp; or one for which the
\* elements move to the heap, where the std::vector gets to hold result.
Serve(fits, StaticOp, result, call) ==
    /\ Len(result) <= MaxSmall
    /\ smallCall' = call
    /\ \/ /\ alternative = "static" /\ fits
          /\ array' = StaticOp[1]
          /\ size' = StaticOp[2]
          /\ UNCHANGED <<alternative, heap>>
       \/ /\ alternative = "static" /\ ~fits
          /\ alternative' = "heap"
          /\ heap' = result
          /\ array' = [i \in 1..SmallSize |-> Blank]
          /\ size' = 0
       \/ /\ alternative = "heap"
          /\ heap' = result
          /\ UNCHANGED <<alternative, array, size>>

SmallPush(v) ==
    Serve(size < SmallSize, StaticPush(v), Append(Content, v), <<"push_back", v>>)

SmallPop ==
    /\ Content # <<>>
    /\ Serve(TRUE, StaticPop, Front(Content), <<"pop_back">>)

SmallInsert(pos, v) ==
    Serve(size < SmallSize, StaticInsert(pos, <<v>>), InsertAt(Content, pos, v), <<"insert", pos, v, pos>>)

SmallInsertRange(pos, vs) ==
    Serve(size + Len(vs) <= SmallSize, StaticInsert(pos, vs),
          SubSeq(Content, 1, pos - 1) \o vs \o SubSeq(Content, pos, Len(Content)),
          <<"insert_range", pos, vs, pos>>)

SmallErase(pos) ==
    Serve(TRUE, StaticErase(pos, pos + 1), RemoveAt(Content, pos), <<"erase", pos, pos>>)

SmallEraseRange(pos, last) ==
    Serve(TRUE, StaticErase(pos, last), SubSeq(Content, 1, pos - 1) \o SubSeq(Content, last, Len(Content)),
          <<"erase_range", pos, last, pos>>)

SmallEraseIf(v) ==
    LET kept == Remaining(Content, SmallElems \ {v})
    IN  Serve(TRUE, StaticEraseIf(v), kept, <<"erase_if", v, Len(Content) - Len(kept)>>)

SmallResize(n) ==
    Serve(n <= SmallSize, StaticResize(n),
          [i \in 1..n |-> IF i <= Len(Content) THEN Content[i] ELSE Blank], <<"resize", n>>)

SmallClear == Serve(TRUE, StaticClear, <<>>, <<"assign", <<>>>>)

SmallNext ==
    \/ \E v \in SmallElems : SmallPush(v)
    \/ SmallPop
    \/ \E pos \in 1..Len(Content) + 1, v \in SmallElems : SmallInsert(pos, v)
    \/ \E pos \in 1..Len(Content) + 1, vs \in BoundedSeq(SmallElems, 2) : SmallInsertRange(pos, vs)
    \/ \E pos \in 1..Len(Content) : SmallErase(pos)
    \/ \E pos, last \in 1..Len(Content) + 1 : pos <= last /\ SmallEraseRange(pos, last)
    \/ \E v \in SmallElems : SmallEraseIf(v)
    \/ \E n \in 0..MaxSmall : SmallResize(n)
    \/ SmallClear

SmallSpec == SmallInit /\ [][SmallNext]_smallVars

-----------------------------------------------------------------------------
(* Properties.                                                             *)

\* small_vector and the static_vector in it are a sequence as ListSpec has it,
\* also in the calls that move the elements from the array to the heap.
AsVector == INSTANCE ListSpec WITH Elems <- SmallElems, list <- Content, last <- smallCall

SmallVectorIsAList == AsVector!ListSteps
=============================================================================
