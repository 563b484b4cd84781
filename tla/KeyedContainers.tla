-------------------------- MODULE KeyedContainers ---------------------------
(***************************************************************************)
(* What finds values by their keys: the map and the set in a sorted        *)
(* sequence, and the trie.                                                 *)
(***************************************************************************)
EXTENDS Integers, Sequences, FiniteSets, SequencesExt

(***************************************************************************)
(* flat_map and flat_set: an ordered map and an ordered set in a sorted    *)
(* sequence, found by bisection.  Both take a hint to insert at; a hint    *)
(* that is neither the end nor the place of the key is looked at only to   *)
(* pick the half to search, and the key is then inserted without looking   *)
(* whether it is there.  Neither looks whether a list that is assigned has *)
(* a key twice; the standard containers keep one of each.                  *)
(***************************************************************************)

CONSTANTS
    MapKeys, MapVals,       \* keys, which are ordered, and values
    DefaultVal,             \* Val{}, a value too
    AnyHint                 \* whether callers pass hints other than the end
                            \* and the lower bound of the key

ASSUME FlatAssumption ==
    /\ MapKeys \subseteq Int
    /\ DefaultVal \in MapVals
    /\ AnyHint \in BOOLEAN

VARIABLES
    storage,                \* flat_map::_storage, pairs <<key, value>>
    mapCall,                \* history: the last call, as MapSpec has it
    mapRepeats,             \* history: whether the list last assigned has a key
                            \* more than once
    setStorage,             \* flat_set::_storage, keys
    setCall,
    setRepeats

flatVars == <<storage, mapCall, mapRepeats, setStorage, setCall, setRepeats>>

FlatInit ==
    /\ storage = <<>> /\ mapCall = <<"construct">> /\ mapRepeats = FALSE
    /\ setStorage = <<>> /\ setCall = <<"construct">> /\ setRepeats = FALSE

-----------------------------------------------------------------------------
(* Bisection: std::lower_bound and upper_bound between the positions b and *)
(* e of a sequence; the end is one more than its length.  The positions    *)
(* left are the ones behind which the search goes on.                      *)

\* One turn of the loop: how many positions are to be searched, from where.
Halved(np, left) ==
    LET half == np[1] \div 2
    IN  IF np[1] = 0 THEN np
        ELSE IF np[2] + half \in left THEN <<np[1] - (half + 1), np[2] + half + 1>>
        ELSE <<half, np[2]>>

Bisect(b, e, left) ==
    LET search[i \in 0..e - b] == IF i = 0 THEN <<e - b, b>> ELSE Halved(search[i - 1], left)
    IN  search[e - b][2]

LowerBound(s, b, e, k) == Bisect(b, e, {i \in b..e - 1 : s[i][1] < k})

UpperBound(s, b, e, k) == Bisect(b, e, {i \in b..e - 1 : ~(k < s[i][1])})

EndOf(s) == Len(s) + 1

\* What std::sort may make of a list: of equal elements any comes first.
Arrangements(list) ==
    {[i \in DOMAIN list |-> list[p[i]]] : p \in Bijection(DOMAIN list, DOMAIN list)}

\* find returns the end for a key that is not there, at throws then.
Find(s, k) ==
    LET p == LowerBound(s, 1, EndOf(s), k)
    IN  IF p # EndOf(s) /\ k < s[p][1] THEN EndOf(s) ELSE p

-----------------------------------------------------------------------------
(* flat_map.                                                               *)

\* _find_insert_pos(k): the place, and whether to insert there.
InsertPos(s, k) ==
    LET p == LowerBound(s, 1, EndOf(s), k)
    IN  <<p, p = EndOf(s) \/ s[p][1] # k>>

\* _find_insert_pos(p, k).
HintedPos(s, hint, k) ==
    IF hint = EndOf(s) /\ (s = <<>> \/ Last(s)[1] < k) THEN <<hint, TRUE>>
    ELSE LET p == IF hint = EndOf(s) THEN LowerBound(s, 1, EndOf(s), k) ELSE hint
         IN  IF s[p][1] = k THEN <<p, FALSE>>
             ELSE IF k < s[p][1]
             THEN <<IF p # 1 THEN LowerBound(s, 1, p, k) ELSE p, TRUE>>
             ELSE <<LowerBound(s, p, EndOf(s), k), TRUE>>

\* _do_insert and _do_emplace.
DoInsert(s, ip, x) == IF ip[2] THEN InsertAt(s, ip[1], x) ELSE s

Hints(s, k) == IF AnyHint THEN 1..EndOf(s) ELSE {EndOf(s), LowerBound(s, 1, EndOf(s), k)}

OnMap(s, call) ==
    /\ storage' = s
    /\ mapCall' = call
    /\ UNCHANGED <<mapRepeats, setStorage, setCall, setRepeats>>

\* insert, emplace and try_emplace.
MapInsert(k, v) ==
    LET ip == InsertPos(storage, k)
    IN  OnMap(DoInsert(storage, ip, <<k, v>>), <<"insert", k, v, ip[2]>>)

\* insert and emplace_hint with a hint.
MapInsertHint(hint, k, v) ==
    LET ip == HintedPos(storage, hint, k)
    IN  OnMap(DoInsert(storage, ip, <<k, v>>), <<"insert", k, v, ip[2]>>)

\* operator[], and an assignment to what it returns.
MapIndex(k, v) ==
    LET ip == InsertPos(storage, k)
    IN  OnMap([DoInsert(storage, ip, <<k, DefaultVal>>) EXCEPT ![ip[1]] = <<k, v>>], <<"write", k, v>>)

EraseAtBound(k) ==  \* mutant of MapErase
    LET p == LowerBound(storage, 1, EndOf(storage), k)
        found == p # EndOf(storage)
    IN  OnMap(IF found THEN RemoveAt(storage, p) ELSE storage, <<"erase", k, IF found THEN 1 ELSE 0>>)

\* erase(key); a debug build stops when the key is there more than once.
MapErase(k) ==
    LET p == LowerBound(storage, 1, EndOf(storage), k)
        found == p # EndOf(storage) /\ ~(k < storage[p][1])
    IN  OnMap(IF found THEN RemoveAt(storage, p) ELSE storage, <<"erase", k, IF found THEN 1 ELSE 0>>)

\* erase of a range of iterators, of which one iterator and clear are cases.
MapEraseRange(f, t) ==
    OnMap(SubSeq(storage, 1, f - 1) \o SubSeq(storage, t, Len(storage)),
          <<"erase_keys", {storage[i][1] : i \in f..t - 1}>>)

\* The members of a sequence that are in a set, in their order.
Selected(s, set) ==
    LET kept[i \in 0..Len(s)] ==
            IF i = 0 THEN <<>> ELSE IF s[i] \in set THEN Append(kept[i - 1], s[i]) ELSE kept[i - 1]
    IN  kept[Len(s)]

MapEraseIf(v) ==
    OnMap(Selected(storage, {x \in ToSet(storage) : x[2] # v}),
          <<"erase_keys", {storage[i][1] : i \in {j \in DOMAIN storage : storage[j][2] = v}}>>)

\* assign sorts the pairs of the list, and keeps them all.
MapAssign(pairs) ==
    /\ storage' \in {s \in Arrangements(pairs) : \A i, j \in DOMAIN s : i < j => s[i][1] <= s[j][1]}
    /\ mapCall' = <<"assign", [k \in {pairs[i][1] : i \in DOMAIN pairs} |->
                                  (CHOOSE x \in ToSet(pairs) : x[1] = k)[2]]>>
    /\ mapRepeats' = \E i, j \in DOMAIN pairs : i # j /\ pairs[i][1] = pairs[j][1]
    /\ UNCHANGED <<setStorage, setCall, setRepeats>>

-----------------------------------------------------------------------------
(* flat_set, the same on keys.                                             *)

SetLowerBound(b, e, k) == Bisect(b, e, {i \in b..e - 1 : setStorage[i] < k})

SetInsertPos(k) ==
    LET p == SetLowerBound(1, EndOf(setStorage), k)
    IN  <<p, p = EndOf(setStorage) \/ setStorage[p] # k>>

SetHintedPos(hint, k) ==
    LET e == EndOf(setStorage) IN
    IF hint = e /\ (setStorage = <<>> \/ Last(setStorage) < k) THEN <<hint, TRUE>>
    ELSE LET p == IF hint = e THEN SetLowerBound(1, e, k) ELSE hint
         IN  IF setStorage[p] = k THEN <<p, FALSE>>
             ELSE IF k < setStorage[p] THEN <<IF p # 1 THEN SetLowerBound(1, p, k) ELSE p, TRUE>>
             ELSE <<SetLowerBound(p, e, k), TRUE>>

OnSet(s, call) ==
    /\ setStorage' = s
    /\ setCall' = call
    /\ UNCHANGED <<setRepeats, storage, mapCall, mapRepeats>>

\* contains and find.
SetContains(k) == ~SetInsertPos(k)[2]

SetInsert(k) ==
    LET ip == SetInsertPos(k)
    IN  OnSet(DoInsert(setStorage, ip, k), <<"insert", k, DefaultVal, ip[2]>>)

SetInsertHint(hint, k) ==
    LET ip == SetHintedPos(hint, k)
    IN  OnSet(DoInsert(setStorage, ip, k), <<"insert", k, DefaultVal, ip[2]>>)

SetErase(k) ==
    LET p == SetLowerBound(1, EndOf(setStorage), k)
        found == p # EndOf(setStorage) /\ ~(k < setStorage[p])
    IN  OnSet(IF found THEN RemoveAt(setStorage, p) ELSE setStorage, <<"erase", k, IF found THEN 1 ELSE 0>>)

SetEraseRange(f, t) ==
    OnSet(SubSeq(setStorage, 1, f - 1) \o SubSeq(setStorage, t, Len(setStorage)),
          <<"erase_keys", {setStorage[i] : i \in f..t - 1}>>)

SetAssign(keys) ==
    /\ setStorage' \in {s \in Arrangements(keys) : \A i, j \in DOMAIN s : i < j => s[i] <= s[j]}
    /\ setCall' = <<"assign", [k \in ToSet(keys) |-> DefaultVal]>>
    /\ setRepeats' = \E i, j \in DOMAIN keys : i # j /\ keys[i] = keys[j]
    /\ UNCHANGED <<storage, mapCall, mapRepeats>>

SetHints(k) ==
    IF AnyHint THEN 1..EndOf(setStorage)
    ELSE {EndOf(setStorage), SetLowerBound(1, EndOf(setStorage), k)}

Lists(S) == {<<>>} \cup {<<x>> : x \in S} \cup {<<x, y>> : x, y \in S}

MapNext ==
    \/ \E k \in MapKeys, v \in MapVals : MapInsert(k, v)
    \/ \E k \in MapKeys, v \in MapVals : \E hint \in Hints(storage, k) : MapInsertHint(hint, k, v)
    \/ \E k \in MapKeys, v \in MapVals : MapIndex(k, v)
    \/ \E k \in MapKeys : MapErase(k)
    \/ \E f, t \in 1..EndOf(storage) : f <= t /\ MapEraseRange(f, t)
    \/ \E v \in MapVals : MapEraseIf(v)
    \/ \E ps \in Lists(MapKeys \X MapVals) : MapAssign(ps)

SetNext ==
    \/ \E k \in MapKeys : SetInsert(k)
    \/ \E k \in MapKeys : \E hint \in SetHints(k) : SetInsertHint(hint, k)
    \/ \E k \in MapKeys : SetErase(k)
    \/ \E f, t \in 1..EndOf(setStorage) : f <= t /\ SetEraseRange(f, t)
    \/ \E ks \in Lists(MapKeys) : SetAssign(ks)

FlatNext == MapNext \/ SetNext

FlatSpec == FlatInit /\ [][FlatNext]_flatVars

-----------------------------------------------------------------------------
(* Properties.                                                             *)

MapOf(s) == [k \in {s[i][1] : i \in DOMAIN s} |-> (CHOOSE x \in ToSet(s) : x[1] = k)[2]]

AsMap == INSTANCE MapSpec WITH map <- MapOf(storage), done <- mapCall

AsSet == INSTANCE MapSpec WITH map <- [k \in ToSet(setStorage) |-> DefaultVal], done <- setCall

\* "Drop-in replacement for std::map", and for std::set: with hints that are the
\* end or the right place, every call has the effect and the result that the
\* standard containers give it; except from an assign of a list that has a key
\* more than once, which both keep, to the next assign of one that has not.
FlatMapIsAMap ==
    /\ AsMap!MapInit /\ [][mapRepeats' \/ AsMap!MapNext]_<<storage, mapCall>>
    /\ AsSet!MapInit /\ [][setRepeats' \/ AsSet!MapNext]_<<setStorage, setCall>>

\* Bisection finds what is stored, and nothing else.  The assertion of
\* flat_map::erase holds before any call of it: a key is there at most once,
\* between its lower and its upper bound.
LookupsAgree ==
    \A k \in MapKeys :
        LET p == Find(storage, k)
            upper == UpperBound(storage, 1, EndOf(storage), k)
            lower == LowerBound(storage, 1, EndOf(storage), k)
        IN  /\ ~mapRepeats =>
                 /\ (p # EndOf(storage)) = (k \in DOMAIN MapOf(storage))
                 /\ p # EndOf(storage) => storage[p] = <<k, MapOf(storage)[k]>>
                 /\ upper - lower = IF k \in DOMAIN MapOf(storage) THEN 1 ELSE 0
            /\ ~setRepeats => SetContains(k) = (k \in ToSet(setStorage))

-----------------------------------------------------------------------------
(***************************************************************************)
(* basic_trie_impl: keys over an alphabet, in nodes that refer to each     *)
(* other by index; 0, the root, stands for no child.  A key may have       *)
(* characters that are not in the alphabet, which insert meets after it    *)
(* has added nodes for the ones before them.                               *)
(***************************************************************************)

CONSTANTS
    Alphabet,               \* chars, sorted: a sequence of numbers
    Chars,                  \* characters of keys
    TrieVals,
    MaxKey,                 \* bound on the length of keys
    MaxNodes,               \* bound on the nodes
    ReservedDepth           \* nodes on the way that _do_traverse has reserved, 16

\* The entries of _char_map; a character beyond them is looked up past its end.
CharMapSize == 128

ASSUME TrieAssumption ==
    /\ Alphabet \in Seq(Nat)
    /\ \A i, j \in DOMAIN Alphabet : i < j => Alphabet[i] <= Alphabet[j]
    /\ Chars \subseteq 0..CharMapSize - 1 /\ MaxKey \in Nat

VARIABLES
    nodes,                  \* _nodes: next by character index, object or <<>>
    stored,                 \* history: the map that the calls describe
    answer                  \* history: what the last call returned, and should

trieVars == <<nodes, stored, answer>>

\* What n steps make of x.
After(step, x, n) ==
    LET turn[i \in 0..n] == IF i = 0 THEN x ELSE step[turn[i - 1]]
    IN  turn[n]

\* _do_find_char_index: bisection at compile time.  A step, for the offset and
\* the length of the part to search: one character when c is found, none when
\* it is not there.
CharHalved(c) ==
    [part \in Nat \X Nat |->
        LET piv == part[2] \div 2
            at == Alphabet[part[1] + piv + 1]
        IN  IF part[2] = 0 THEN part
            ELSE IF c < at THEN <<part[1], piv>>
            ELSE IF c > at THEN <<part[1] + piv + 1, part[2] - piv - 1>>
            ELSE <<part[1] + piv, 1>>]

NoIndex == 0

CharIndex(c) ==
    LET part == After(CharHalved(c), <<0, Len(Alphabet)>>, Len(Alphabet))
    IN  IF part[2] = 0 THEN NoIndex ELSE part[1] + 1

TrieNodes == [next : [DOMAIN Alphabet -> Nat], object : Seq(TrieVals)]

EmptyNode == [next |-> [i \in DOMAIN Alphabet |-> 0], object |-> <<>>]

TrieInit ==
    /\ nodes = <<EmptyNode>>
    /\ stored = [k \in {} |-> 0]
    /\ answer = <<TRUE, TRUE>>

Pos(node, done, ok) == [node |-> node, done |-> done, ok |-> ok]

\* A turn of the loop of _find_insert_pos, for the node, the characters done, and
\* whether to insert there.  Indices are counted from 0, as in the source.
WalkOn(key) ==
    [pos \in [node : Nat, done : Nat, ok : BOOLEAN] |->
        LET c == CharIndex(key[pos.done + 1])
            next == nodes[pos.node + 1].next[c]
        IN  IF pos.done = Len(key) \/ ~pos.ok THEN pos
            ELSE IF c = NoIndex THEN Pos(pos.node, pos.done, FALSE)
            ELSE IF next = 0 THEN pos
            ELSE Pos(next, pos.done + 1, TRUE)]

FindInsertPos(key) == After(WalkOn(key), Pos(0, 0, TRUE), Len(key))

Growth(ns, node, done, ok) == [nodes |-> ns, node |-> node, done |-> done, ok |-> ok]

\* A turn of the loop of insert: a node for the next character that is left.
Grow(key) ==
    [g \in [nodes : Seq(TrieNodes), node : Nat, done : Nat, ok : BOOLEAN] |->
        LET c == CharIndex(key[g.done + 1])
        IN  IF g.done = Len(key) \/ ~g.ok THEN g
            ELSE IF c = NoIndex THEN Growth(g.nodes, g.node, g.done, FALSE)
            ELSE Growth(Append([g.nodes EXCEPT ![g.node + 1].next[c] = Len(g.nodes)], EmptyNode),
                        Len(g.nodes), g.done + 1, TRUE)]

Grown(key, pos) ==
    After(Grow(key), Growth(nodes, pos.node, pos.done, pos.ok), Len(key) - pos.done)

Keys == BoundedSeq(Chars, MaxKey)

Valid(key) == \A i \in DOMAIN key : key[i] \in ToSet(Alphabet)

\* insert and add.
TrieInsert(key, v) ==
    LET g == Grown(key, FindInsertPos(key))
    IN  /\ nodes' = IF g.ok THEN [g.nodes EXCEPT ![g.node + 1].object = <<v>>] ELSE g.nodes
        /\ Len(nodes') <= MaxNodes
        /\ stored' = IF Valid(key) THEN [k \in DOMAIN stored \cup {key} |-> IF k = key THEN v ELSE stored[k]]
                     ELSE stored
        /\ answer' = <<g.ok, Valid(key)>>

\* contains and find: the object of the node of the key, or none.
FindObject(key) ==
    LET pos == FindInsertPos(key)
    IN  IF pos.ok /\ pos.done = Len(key) THEN nodes[pos.node + 1].object ELSE <<>>

\* remove leaves the node.
TrieRemove(key) ==
    LET had == FindObject(key) # <<>>
    IN  /\ nodes' = IF had THEN [nodes EXCEPT ![FindInsertPos(key).node + 1].object = <<>>] ELSE nodes
        /\ stored' = [k \in DOMAIN stored \ {key} |-> stored[k]]
        /\ answer' = <<had, key \in DOMAIN stored>>

TrieNext ==
    \/ \E key \in Keys, v \in TrieVals : TrieInsert(key, v)
    \/ \E key \in Keys : TrieRemove(key)

\* The characters on the way to each node, which _do_traverse keeps in str.
Paths ==
    LET paths[i \in 0..Len(nodes) - 1] ==
            IF i = 0 THEN <<>>
            ELSE LET p == CHOOSE q \in 1..Len(nodes) : \E c \in DOMAIN Alphabet : nodes[q].next[c] = i
                     c == CHOOSE d \in DOMAIN Alphabet : nodes[p].next[d] = i
                 IN  Append(paths[p - 1], Alphabet[c])
    IN  paths

\* The key that _do_traverse tells for a node.  The step to the node for which the
\* way is reallocated reads the character to append through a reference into the
\* old one, so that from there on a key may have any text.
KeyTold(str) == IF Len(str) < ReservedDepth THEN <<str>> ELSE <<>>

\* _do_traverse: the keys and values the function is called with.  A node is called
\* for each time the walk comes to it, first and after every child.  What the walk
\* does after the last call, str.pop_back() of an empty string, has no outcome here.
Traverse ==
    LET Children(i) == {c \in DOMAIN Alphabet : nodes[i + 1].next[c] # 0}
        Visits(i, str) ==
            IF nodes[i + 1].object = <<>> THEN {}
            ELSE {<<KeyTold(str), nodes[i + 1].object[1], Cardinality(Children(i)) + 1>>}
    IN  UNION {Visits(i, Paths[i]) : i \in 0..Len(nodes) - 1}

ValueNodeCount == Cardinality({i \in DOMAIN nodes : nodes[i].object # <<>>})

-----------------------------------------------------------------------------
(* Properties.                                                             *)

\* The trie is the map that the calls describe: what a call returned is right,
\* every key is found with its value and no other, whatever nodes a refused
\* key has left; every node but the root has one parent, which is before it; a
\* traversal tells every value, with its key unless that is longer than reserved.
TrieIsAMap ==
    /\ answer[1] = answer[2]
    /\ \A key \in Keys : FindObject(key) = IF key \in DOMAIN stored THEN <<stored[key]>> ELSE <<>>
    /\ ValueNodeCount = Cardinality(DOMAIN stored)
    /\ \A i \in 1..Len(nodes) - 1 :
          Cardinality({pc \in (1..i) \X DOMAIN Alphabet : nodes[pc[1]].next[pc[2]] = i}) = 1
    /\ {<<v[1], v[2]>> : v \in Traverse} = {<<KeyTold(k), stored[k]>> : k \in DOMAIN stored}
=============================================================================
