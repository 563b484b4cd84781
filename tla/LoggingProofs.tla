---------------------------- MODULE LoggingProofs ----------------------------
(***************************************************************************)
(* Proofs about the loggers, their entries and their time intervals, as    *)
(* parts of the logging subsystem, for any objects, threads and bounds.    *)
(***************************************************************************)
EXTENDS MCLogging, NumberFacts, FunctionTheorems, SequenceTheorems

-----------------------------------------------------------------------------
(* The lifetimes of the logger objects.                                    *)

Objects == [alive : BOOLEAN, id : AllIds, backend : BOOLEAN]

\* The objects with an identifier that can log, at other places than the root's.
Counted(ob, id) == {p \in ObjectPlaces \ {Root} : ob[p].id = id /\ ob[p].backend}

Counts(o, id) == IF o.id = id /\ o.backend THEN 1 ELSE 0

Balanced(lt, ow, ob, id) ==
    lt[id]["objCreate"] + lt[id]["objCopy"] + lt[id]["assignCopy"]
        = lt[id]["objDestroy"] + ow[id] + Cardinality(Counted(ob, id))

ObjectsTypeOK ==
    /\ objs \in [ObjectPlaces -> Objects]
    /\ lifetimes \in [AllIds -> [LifetimeTags -> Nat]]
    /\ overwritten \in [AllIds -> Nat]
    /\ minSeverity \in Nat \ {0} /\ finished \in BOOLEAN /\ quiet \in BOOLEAN

(***************************************************************************)
(* The balance needs that a place without an object counts for nothing,    *)
(* that the root has let go of its backend before it is destroyed, and     *)
(* that a log which was never quiet takes the lifetime entries.            *)
(***************************************************************************)
LifetimesInv ==
    /\ ObjectsTypeOK
    /\ \A p \in ObjectPlaces : ~objs[p].alive => ~objs[p].backend
    /\ finished => ~objs[Root].backend
    /\ ~quiet => minSeverity <= InfoSeverity
    /\ ~quiet => \A id \in ObjectIds : Balanced(lifetimes, overwritten, objs, id)

\* The identifier of no object.
Blank == ""

\* The constants of the logging objects, without the empty identifier.
LEMMA LoggerFacts ==
    /\ IsFiniteSet(ObjectPlaces) /\ Root \in ObjectPlaces
    /\ InfoSeverity \in Nat \ {0} /\ MaxSeverity \in Nat \ {0} /\ InfoSeverity <= MaxSeverity
    /\ Blank \notin ObjectIds /\ Blank \in AllIds /\ "root" \in AllIds /\ ObjectIds \subseteq AllIds
<1>1. IsFiniteSet(ObjectPlaces) /\ Root \in ObjectPlaces
    BY LoggerObjectsAssumption, Zenon
<1>2. InfoSeverity \in 1..MaxSeverity /\ MaxSeverity \in Nat
    BY LoggerObjectsAssumption, Zenon
<1>3. Blank \notin ObjectIds
    BY LoggerObjectsAssumption, Zenon DEF Blank
<1>4. Blank \in AllIds /\ "root" \in AllIds /\ ObjectIds \subseteq AllIds
    BY Zenon DEF Blank, AllIds
<1>5. InfoSeverity \in Nat \ {0} /\ MaxSeverity \in Nat \ {0} /\ InfoSeverity <= MaxSeverity
    BY <1>2
<1>. QED
    BY <1>1, <1>2, <1>3, <1>4, <1>5, Zenon

\* What is left of an object that was moved from or destroyed cannot log.
LEMMA EmptyFacts ==
    /\ NoObject \in Objects /\ ~NoObject.alive /\ ~NoObject.backend
    /\ \A o \in Objects : Moved(o) \in Objects /\ ~Moved(o).backend
<1>1. NoObject = [alive |-> FALSE, id |-> Blank, backend |-> FALSE]
    BY Zenon DEF NoObject, Blank
<1>2. \A o : Moved(o) = [o EXCEPT !.id = Blank, !.backend = FALSE]
    BY Zenon DEF Moved, Blank
<1>. QED
    BY <1>1, <1>2, LoggerFacts DEF Objects

\* What one place more or less does to the number of objects.
LEMMA PutCounts ==
    ASSUME NEW ob \in [ObjectPlaces -> Objects], NEW p \in ObjectPlaces \ {Root}, NEW o \in Objects,
           NEW id
    PROVE  /\ Cardinality(Counted(ob, id)) \in Nat
           /\ Cardinality(Counted([ob EXCEPT ![p] = o], id))
                = Cardinality(Counted(ob, id)) - Counts(ob[p], id) + Counts(o, id)
<1>. DEFINE before == Counted(ob, id)
            after == Counted([ob EXCEPT ![p] = o], id)
            left == before \ {p}
<1>1. IsFiniteSet(before) /\ Cardinality(before) \in Nat
  <2>1. before \in SUBSET ObjectPlaces
    BY DEF Counted
  <2>. QED
    BY <2>1, FS_Subset, FS_CardinalityType, LoggerFacts
<1>2. /\ p \in before <=> ob[p].id = id /\ ob[p].backend
      /\ after = IF o.id = id /\ o.backend THEN left \cup {p} ELSE left
    BY DEF Counted
<1>. HIDE DEF before, after
<1>3. IsFiniteSet(left) /\ Cardinality(left) = IF p \in before THEN Cardinality(before) - 1 ELSE Cardinality(before)
    BY <1>1, FS_RemoveElement, Zenon
<1>4. Cardinality(left \cup {p}) = Cardinality(left) + 1
    BY <1>3, FS_AddElement
<1>. QED
    BY <1>1, <1>2, <1>3, <1>4 DEF before, after, Counts

\* An entry of a log that was never quiet is counted if the object can log.
LEMMA LogCounts ==
    ASSUME LifetimesInv, NEW tag \in LifetimeTags, NEW o \in Objects
    PROVE  /\ Log(tag, o) \in [AllIds -> [LifetimeTags -> Nat]]
           /\ ~quiet => \A id \in AllIds, t \in LifetimeTags :
                 Log(tag, o)[id][t] = lifetimes[id][t] + IF t = tag THEN Counts(o, id) ELSE 0
<1>. DEFINE more == [lifetimes EXCEPT ![o.id][tag] = @ + 1]
<1>0. /\ lifetimes \in [AllIds -> [LifetimeTags -> Nat]] /\ o.id \in AllIds
      /\ InfoSeverity \in Nat /\ minSeverity \in Nat
  <2>1. lifetimes \in [AllIds -> [LifetimeTags -> Nat]] /\ minSeverity \in Nat
    BY DEF LifetimesInv, ObjectsTypeOK
  <2>2. o.id \in AllIds
    BY DEF Objects
  <2>3. InfoSeverity \in Nat
    BY LoggerFacts
  <2>. QED
    BY <2>1, <2>2, <2>3
<1>1. /\ more \in [AllIds -> [LifetimeTags -> Nat]]
      /\ \A id \in AllIds, t \in LifetimeTags :
            more[id][t] = lifetimes[id][t] + IF id = o.id /\ t = tag THEN 1 ELSE 0
    BY <1>0
<1>2. Log(tag, o) = IF o.backend /\ InfoSeverity >= minSeverity THEN more ELSE lifetimes
    BY DEF Log
<1>3. ~quiet => InfoSeverity >= minSeverity
    BY <1>0 DEF LifetimesInv
<1>. HIDE DEF more
<1>4. \A id \in AllIds, t \in LifetimeTags : lifetimes[id][t] \in Nat
    BY <1>0
<1>. QED
    BY <1>0, <1>1, <1>2, <1>3, <1>4 DEF Counts

\* One place is given another object, and one entry is made of it, or none.
PutObject(p, o) == objs' = [objs EXCEPT ![p] = o]

\* A place that is given an object leaves the others and the root as they are.
LEMMA PutKeepsTypes ==
    ASSUME LifetimesInv, NEW p \in ObjectPlaces \ {Root}, NEW o \in Objects, PutObject(p, o),
           ~o.alive => ~o.backend
    PROVE  /\ objs' \in [ObjectPlaces -> Objects]
           /\ \A q \in ObjectPlaces : ~objs'[q].alive => ~objs'[q].backend
           /\ objs'[Root] = objs[Root]
BY LoggerFacts DEF LifetimesInv, ObjectsTypeOK, PutObject

\* The objects with an identifier when one place is given another object.
LEMMA PutStepCounts ==
    ASSUME LifetimesInv, NEW p \in ObjectPlaces \ {Root}, NEW o \in Objects, PutObject(p, o), NEW id
    PROVE  \E c \in Nat, d \in Nat :
              /\ c = Cardinality(Counted(objs, id)) /\ d = Cardinality(Counted(objs', id))
              /\ d = c - Counts(objs[p], id) + Counts(o, id)
<1>1. objs \in [ObjectPlaces -> Objects] /\ objs' \in [ObjectPlaces -> Objects]
    BY DEF LifetimesInv, ObjectsTypeOK, PutObject
<1>2. objs' = [objs EXCEPT ![p] = o]
    BY DEF PutObject
<1>3. /\ Cardinality(Counted(objs, id)) \in Nat
      /\ Cardinality(Counted([objs EXCEPT ![p] = o], id))
            = Cardinality(Counted(objs, id)) - Counts(objs[p], id) + Counts(o, id)
    BY <1>1, PutCounts, ZenonT(40)
<1>4. Cardinality(Counted(objs', id)) = Cardinality(Counted(objs, id)) - Counts(objs[p], id) + Counts(o, id)
    BY <1>2, <1>3, Zenon
<1>5. Cardinality(Counted(objs', id)) \in Nat
  <2>1. objs'[p] \in Objects /\ p \in ObjectPlaces \ {Root}
    BY <1>1
  <2>. QED
    BY <1>1, <2>1, PutCounts, Zenon
<1>. QED
    BY <1>3, <1>4, <1>5, Zenon

\* The steps of an object, with the entry that goes with each.
LEMMA ObjectStep ==
    ASSUME LifetimesInv, UNCHANGED <<finished, minSeverity, quiet>>,
           objs' \in [ObjectPlaces -> Objects],
           \A q \in ObjectPlaces : ~objs'[q].alive => ~objs'[q].backend,
           objs'[Root] = objs[Root],
           lifetimes' \in [AllIds -> [LifetimeTags -> Nat]],
           overwritten' \in [AllIds -> Nat],
           ~quiet => \A id \in ObjectIds : Balanced(lifetimes', overwritten', objs', id)
    PROVE  LifetimesInv'
BY DEF LifetimesInv, ObjectsTypeOK, Balanced, Counted

\* The balance, number by number.
LEMMA Balance ==
    ASSUME LifetimesInv, ~quiet, NEW id \in ObjectIds
    PROVE  /\ \A t \in LifetimeTags : lifetimes[id][t] \in Nat
           /\ overwritten[id] \in Nat /\ id \in AllIds
           /\ {"objCreate", "objMove", "objCopy", "assignMove", "assignCopy", "objDestroy"} = LifetimeTags
           /\ Balanced(lifetimes, overwritten, objs, id)
<1>1. id \in AllIds
    BY LoggerFacts
<1>2. lifetimes \in [AllIds -> [LifetimeTags -> Nat]] /\ overwritten \in [AllIds -> Nat]
    BY DEF LifetimesInv, ObjectsTypeOK
<1>3. Balanced(lifetimes, overwritten, objs, id)
    BY Zenon DEF LifetimesInv
<1>. QED
    BY <1>1, <1>2, <1>3 DEF LifetimeTags

\* named_logging_object(id, parent) logs objCreate for the object it makes.
LEMMA CreateKeeps ==
    ASSUME LifetimesInv, NEW p \in ObjectPlaces, NEW parent \in ObjectPlaces,
           NEW id \in ObjectIds \cup {Blank}, CreateObject(p, id, parent)
    PROVE  LifetimesInv'
<1>. DEFINE o == Object(id, objs[parent].backend)
<1>1. /\ p # Root /\ ~objs[p].alive /\ objs[p] \in Objects /\ ~objs[p].backend
      /\ objs \in [ObjectPlaces -> Objects]
    BY DEF LifetimesInv, ObjectsTypeOK, CreateObject, Alive
<1>2. o \in Objects /\ o.alive
  <2>1. id \in AllIds /\ objs[parent].backend \in BOOLEAN
    BY <1>1, LoggerFacts DEF Objects
  <2>. QED
    BY <2>1 DEF Objects, Object
<1>3. /\ PutObject(p, o) /\ lifetimes' = Log("objCreate", o)
      /\ UNCHANGED <<finished, minSeverity, quiet, overwritten>>
    BY DEF CreateObject, Same, PutObject
<1>. HIDE DEF o
<1>4. /\ Log("objCreate", o) \in [AllIds -> [LifetimeTags -> Nat]]
      /\ ~quiet => \A i \in AllIds, t \in LifetimeTags :
            Log("objCreate", o)[i][t] = lifetimes[i][t] + IF t = "objCreate" THEN Counts(o, i) ELSE 0
  <2>1. "objCreate" \in LifetimeTags
    BY DEF LifetimeTags
  <2>. QED
    BY <1>2, <2>1, LogCounts, Zenon
<1>5. ASSUME ~quiet, NEW i \in ObjectIds PROVE Balanced(lifetimes', overwritten', objs', i)
  <2>1. Counts(objs[p], i) = 0
    BY <1>1 DEF Counts
  <2>2. PICK c \in Nat, d \in Nat : /\ c = Cardinality(Counted(objs, i)) /\ d = Cardinality(Counted(objs', i))
                                    /\ d = c - 0 + Counts(o, i)
    BY <1>1, <1>2, <1>3, <2>1, PutStepCounts
  <2>3. PICK k \in Nat : k = Counts(o, i)
    BY DEF Counts
  <2>4. lifetimes'[i]["objCreate"] = lifetimes[i]["objCreate"] + k
        /\ \A t \in LifetimeTags : t # "objCreate" => lifetimes'[i][t] = lifetimes[i][t] + 0
    <3>1. i \in AllIds
      BY LoggerFacts
    <3>2. \A t \in LifetimeTags :
              lifetimes'[i][t] = lifetimes[i][t] + IF t = "objCreate" THEN Counts(o, i) ELSE 0
      BY <1>3, <1>4, <1>5, <3>1
    <3>3. "objCreate" \in LifetimeTags
      BY DEF LifetimeTags
    <3>. QED
      BY <2>3, <3>2, <3>3
  <2>5. overwritten'[i] = overwritten[i]
    BY <1>3
  <2>. QED
    <3>1. /\ \A t \in {"objCreate", "objCopy", "assignCopy", "objDestroy"} : lifetimes[i][t] \in Nat
          /\ overwritten[i] \in Nat /\ Balanced(lifetimes, overwritten, objs, i)
      BY <1>5, Balance
    <3>2. /\ lifetimes'[i]["objCopy"] = lifetimes[i]["objCopy"]
          /\ lifetimes'[i]["assignCopy"] = lifetimes[i]["assignCopy"]
          /\ lifetimes'[i]["objDestroy"] = lifetimes[i]["objDestroy"]
      <4>1. {"objCopy", "assignCopy", "objDestroy"} \subseteq LifetimeTags
        BY DEF LifetimeTags
      <4>. QED
        BY <2>4, <3>1, <4>1
    <3>. QED
      BY <2>2, <2>3, <2>4, <2>5, <3>1, <3>2 DEF Balanced
<1>. QED
  <2>1. overwritten' \in [AllIds -> Nat]
    BY <1>3 DEF LifetimesInv, ObjectsTypeOK
  <2>. QED
    BY <1>1, <1>2, <1>3, <1>4, <1>5, <2>1, PutKeepsTypes, ObjectStep

\* Two places are given other objects.
PutBoth(p, x, q, y) == objs' = [objs EXCEPT ![p] = x, ![q] = y]

BothCounted(p, x, q, y, id) ==
    \E c \in Nat, d \in Nat :
        /\ c = Cardinality(Counted(objs, id)) /\ d = Cardinality(Counted(objs', id))
        /\ d = c - Counts(objs[p], id) + Counts(x, id) - Counts(objs[q], id) + Counts(y, id)

\* The objects with an identifier when two places are given other objects.
LEMMA TwoPutsCount ==
    ASSUME LifetimesInv, NEW p \in ObjectPlaces \ {Root}, NEW q \in ObjectPlaces \ {Root}, p # q,
           NEW x \in Objects, NEW y \in Objects, NEW id,
           PutBoth(p, x, q, y)
    PROVE  BothCounted(p, x, q, y, id)
<1>. DEFINE Changes(ob, r, o) ==
        /\ Cardinality(Counted(ob, id)) \in Nat
        /\ Cardinality(Counted([ob EXCEPT ![r] = o], id))
              = Cardinality(Counted(ob, id)) - Counts(ob[r], id) + Counts(o, id)
<1>0. \A ob \in [ObjectPlaces -> Objects], r \in ObjectPlaces \ {Root}, o \in Objects : Changes(ob, r, o)
    BY PutCounts, ZenonT(40)
<1>. HIDE DEF Changes
<1>1. objs \in [ObjectPlaces -> Objects] /\ objs' \in [ObjectPlaces -> Objects]
    BY DEF LifetimesInv, ObjectsTypeOK, PutBoth
<1>2. PICK mid \in [ObjectPlaces -> Objects] : mid = [objs EXCEPT ![p] = x]
    BY <1>1
<1>3. objs' = [mid EXCEPT ![q] = y] /\ mid[q] = objs[q] /\ objs'[p] \in Objects
    BY <1>1, <1>2 DEF PutBoth
<1>4. Changes(objs, p, x)
    BY <1>0, <1>1, Zenon
<1>5. Changes(mid, q, y)
    BY <1>0, Zenon
<1>6. Changes(objs', p, objs'[p])
    BY <1>0, <1>1, <1>3, Zenon
<1>7. PICK c \in Nat, m \in Nat, d \in Nat :
            /\ c = Cardinality(Counted(objs, id)) /\ m = Cardinality(Counted(mid, id))
            /\ d = Cardinality(Counted(objs', id))
    BY <1>4, <1>5, <1>6, Zenon DEF Changes
<1>8. m = c - Counts(objs[p], id) + Counts(x, id)
    BY <1>2, <1>4, <1>7, Zenon DEF Changes
<1>9. d = m - Counts(objs[q], id) + Counts(y, id)
    BY <1>3, <1>5, <1>7, Zenon DEF Changes
<1>10. d = c - Counts(objs[p], id) + Counts(x, id) - Counts(objs[q], id) + Counts(y, id)
  <2>1. \A o : Counts(o, id) \in Int
    BY DEF Counts
  <2>. QED
    BY <1>8, <1>9, <2>1
<1>. QED
    BY <1>7, <1>10, Zenon DEF BothCounted

\* An entry of another kind does not disturb the balance.
LEMMA EntryOfLog ==
    ASSUME LifetimesInv, ~quiet, NEW id \in ObjectIds, NEW tag \in LifetimeTags, NEW o \in Objects,
           lifetimes' = Log(tag, o)
    PROVE  \A t \in LifetimeTags : lifetimes'[id][t] = lifetimes[id][t] + IF t = tag THEN Counts(o, id) ELSE 0
BY LogCounts, LoggerFacts

\* A place, what is logged of its object and what was overwritten are well
\* typed.
LEMMA ObjectFacts ==
    ASSUME LifetimesInv, NEW p \in ObjectPlaces
    PROVE  /\ objs[p] \in Objects /\ (~objs[p].alive => ~objs[p].backend)
           /\ overwritten \in [AllIds -> Nat]
           /\ \A tag \in LifetimeTags : Log(tag, objs[p]) \in [AllIds -> [LifetimeTags -> Nat]]
<1>1. objs[p] \in Objects
    BY DEF LifetimesInv, ObjectsTypeOK
<1>. QED
    BY <1>1, LogCounts DEF LifetimesInv, ObjectsTypeOK

\* The move constructor logs objMove: the object goes from one place to the
\* other.
LEMMA MoveObjectKeeps ==
    ASSUME LifetimesInv, NEW p \in ObjectPlaces, NEW from \in ObjectPlaces, MoveObject(p, from)
    PROVE  LifetimesInv'
<1>0. p \in ObjectPlaces \ {Root} /\ from \in ObjectPlaces \ {Root}
    BY DEF MoveObject
<1>1. /\ p # Root /\ from # Root /\ p # from /\ ~objs[p].backend
      /\ objs[p] \in Objects /\ objs[from] \in Objects /\ objs[from].alive
      /\ objs \in [ObjectPlaces -> Objects]
    BY ObjectFacts DEF LifetimesInv, ObjectsTypeOK, MoveObject, Alive
<1>2. /\ objs' = [objs EXCEPT ![p] = objs[from], ![from] = Moved(@)]
      /\ lifetimes' = Log("objMove", objs[from])
      /\ UNCHANGED <<finished, minSeverity, quiet, overwritten>>
    BY DEF MoveObject, Same
<1>3. PICK m \in Objects : m = Moved(objs[from]) /\ ~m.backend
    BY <1>1, EmptyFacts
<1>4. objs' = [objs EXCEPT ![p] = objs[from], ![from] = m]
    BY <1>1, <1>2, <1>3
<1>5. /\ objs' \in [ObjectPlaces -> Objects] /\ objs'[Root] = objs[Root]
      /\ \A q \in ObjectPlaces : ~objs'[q].alive => ~objs'[q].backend
    BY <1>1, <1>3, <1>4, LoggerFacts DEF LifetimesInv
<1>6. "objMove" \in LifetimeTags
    BY DEF LifetimeTags
<1>7. ASSUME ~quiet, NEW i \in ObjectIds PROVE Balanced(lifetimes', overwritten', objs', i)
  <2>1. Counts(objs[p], i) = 0 /\ Counts(m, i) = 0
    BY <1>1, <1>3 DEF Counts
  <2>2. PICK k \in Nat : k = Counts(objs[from], i)
    BY DEF Counts
  <2>3. PICK c \in Nat, d \in Nat : /\ c = Cardinality(Counted(objs, i)) /\ d = Cardinality(Counted(objs', i))
                                    /\ d = c - 0 + k - k + 0
    <3>1. BothCounted(p, objs[from], from, m, i)
      <4>1. PutBoth(p, objs[from], from, m)
        BY <1>4 DEF PutBoth
      <4>. QED
        BY <1>0, <1>1, <4>1, TwoPutsCount, Zenon
    <3>. QED
      BY <2>1, <2>2, <3>1 DEF BothCounted
  <2>4. \A t \in LifetimeTags : t # "objMove" => lifetimes'[i][t] = lifetimes[i][t] + 0
    BY <1>1, <1>2, <1>6, <1>7, EntryOfLog
  <2>5. overwritten'[i] = overwritten[i]
    BY <1>2
  <2>. QED
    BY <1>7, <2>3, <2>4, <2>5, Balance DEF Balanced
<1>. QED
    BY <1>2, <1>5, <1>6, <1>7, ObjectFacts, ObjectStep

\* The copy constructor logs objCopy.
LEMMA CopyKeeps ==
    ASSUME LifetimesInv, NEW p \in ObjectPlaces, NEW from \in ObjectPlaces, CopyObject(p, from)
    PROVE  LifetimesInv'
<1>1. /\ p # Root /\ ~objs[p].backend /\ objs[p] \in Objects
      /\ objs[from] \in Objects /\ objs[from].alive
    BY ObjectFacts DEF CopyObject, Alive
<1>2. /\ PutObject(p, objs[from]) /\ lifetimes' = Log("objCopy", objs[from])
      /\ UNCHANGED <<finished, minSeverity, quiet, overwritten>>
    BY DEF CopyObject, Same, PutObject
<1>3. "objCopy" \in LifetimeTags
    BY DEF LifetimeTags
<1>4. ASSUME ~quiet, NEW i \in ObjectIds PROVE Balanced(lifetimes', overwritten', objs', i)
  <2>1. Counts(objs[p], i) = 0
    BY <1>1 DEF Counts
  <2>2. PICK k \in Nat : k = Counts(objs[from], i)
    BY DEF Counts
  <2>3. PICK c \in Nat, d \in Nat : /\ c = Cardinality(Counted(objs, i)) /\ d = Cardinality(Counted(objs', i))
                                    /\ d = c - 0 + k
    BY <1>1, <1>2, <2>1, <2>2, PutStepCounts
  <2>4. /\ lifetimes'[i]["objCopy"] = lifetimes[i]["objCopy"] + k
        /\ \A t \in LifetimeTags : t # "objCopy" => lifetimes'[i][t] = lifetimes[i][t] + 0
    BY <1>1, <1>2, <1>3, <1>4, <2>2, EntryOfLog
  <2>5. overwritten'[i] = overwritten[i]
    BY <1>2
  <2>6. Balanced(lifetimes, overwritten, objs, i) /\ \A t \in LifetimeTags : lifetimes[i][t] \in Nat
    BY <1>4, Balance
  <2>7. /\ {"objCreate", "objCopy", "assignCopy", "objDestroy"} \subseteq LifetimeTags
        /\ "objCreate" # "objCopy" /\ "assignCopy" # "objCopy" /\ "objDestroy" # "objCopy"
    BY DEF LifetimeTags
  <2>8. PICK n1 \in Nat, n2 \in Nat, n3 \in Nat, n4 \in Nat :
            /\ n1 = lifetimes[i]["objCreate"] /\ n2 = lifetimes[i]["objCopy"]
            /\ n3 = lifetimes[i]["assignCopy"] /\ n4 = lifetimes[i]["objDestroy"]
    BY <2>6, <2>7
  <2>9. /\ lifetimes'[i]["objCreate"] = n1 + 0 /\ lifetimes'[i]["objCopy"] = n2 + k
        /\ lifetimes'[i]["assignCopy"] = n3 + 0 /\ lifetimes'[i]["objDestroy"] = n4 + 0
    BY <2>4, <2>7, <2>8
  <2>10. PICK w \in Nat : w = overwritten[i]
    BY <1>4, Balance
  <2>11. n1 + n2 + n3 = n4 + w + c
    BY <2>3, <2>6, <2>8, <2>10, Zenon DEF Balanced
  <2>12. (n1 + 0) + (n2 + k) + (n3 + 0) = (n4 + 0) + w + d
    BY <2>3, <2>11
  <2>. QED
    BY <2>3, <2>5, <2>9, <2>10, <2>12, Zenon DEF Balanced
<1>. QED
  <2>1. /\ objs' \in [ObjectPlaces -> Objects] /\ objs'[Root] = objs[Root]
        /\ \A q \in ObjectPlaces : ~objs'[q].alive => ~objs'[q].backend
    BY <1>1, <1>2, PutKeepsTypes
  <2>. QED
    BY <1>2, <1>3, <1>4, <2>1, ObjectFacts, ObjectStep

\* Move assignment logs assignMove: the two places exchange their objects.
LEMMA AssignMoveKeeps ==
    ASSUME LifetimesInv, NEW p \in ObjectPlaces, NEW from \in ObjectPlaces, AssignMove(p, from)
    PROVE  LifetimesInv'
<1>0. p \in ObjectPlaces \ {Root} /\ from \in ObjectPlaces \ {Root}
    BY DEF AssignMove
<1>1. /\ p # Root /\ from # Root /\ p # from
      /\ objs[p] \in Objects /\ objs[from] \in Objects
      /\ objs \in [ObjectPlaces -> Objects]
    BY ObjectFacts DEF LifetimesInv, ObjectsTypeOK, AssignMove
<1>2. /\ objs' = [objs EXCEPT ![p] = objs[from], ![from] = objs[p]]
      /\ lifetimes' = Log("assignMove", objs[from])
      /\ UNCHANGED <<finished, minSeverity, quiet, overwritten>>
    BY DEF AssignMove, Same
<1>3. /\ objs' \in [ObjectPlaces -> Objects] /\ objs'[Root] = objs[Root]
      /\ \A q \in ObjectPlaces : ~objs'[q].alive => ~objs'[q].backend
    BY <1>1, <1>2, LoggerFacts DEF LifetimesInv
<1>4. "assignMove" \in LifetimeTags
    BY DEF LifetimeTags
<1>5. ASSUME ~quiet, NEW i \in ObjectIds PROVE Balanced(lifetimes', overwritten', objs', i)
  <2>1. PICK k \in Nat, l \in Nat : k = Counts(objs[from], i) /\ l = Counts(objs[p], i)
    BY DEF Counts
  <2>2. PICK c \in Nat, d \in Nat : /\ c = Cardinality(Counted(objs, i)) /\ d = Cardinality(Counted(objs', i))
                                    /\ d = c - l + k - k + l
    <3>1. BothCounted(p, objs[from], from, objs[p], i)
      <4>1. PutBoth(p, objs[from], from, objs[p])
        BY <1>2 DEF PutBoth
      <4>. QED
        BY <1>0, <1>1, <4>1, TwoPutsCount, Zenon
    <3>. QED
      BY <2>1, <3>1 DEF BothCounted
  <2>3. \A t \in LifetimeTags : t # "assignMove" => lifetimes'[i][t] = lifetimes[i][t] + 0
    BY <1>1, <1>2, <1>4, <1>5, EntryOfLog
  <2>4. overwritten'[i] = overwritten[i]
    BY <1>2
  <2>. QED
    BY <1>5, <2>2, <2>3, <2>4, Balance DEF Balanced
<1>. QED
    BY <1>2, <1>3, <1>4, <1>5, ObjectFacts, ObjectStep

\* Copy assignment logs assignCopy, and what the target was is overwritten.
LEMMA AssignCopyKeeps ==
    ASSUME LifetimesInv, NEW p \in ObjectPlaces, NEW from \in ObjectPlaces, AssignCopy(p, from)
    PROVE  LifetimesInv'
<1>1. /\ p # Root /\ objs[p] \in Objects /\ objs[from] \in Objects /\ objs[from].alive
      /\ overwritten \in [AllIds -> Nat]
    BY ObjectFacts DEF AssignCopy, Alive
<1>2. /\ PutObject(p, objs[from]) /\ lifetimes' = Log("assignCopy", objs[from])
      /\ overwritten' = IF objs[p].backend THEN [overwritten EXCEPT ![objs[p].id] = @ + 1] ELSE overwritten
      /\ UNCHANGED <<finished, minSeverity, quiet>>
    BY DEF AssignCopy, PutObject
<1>3. "assignCopy" \in LifetimeTags /\ objs[p].id \in AllIds
    BY <1>1 DEF LifetimeTags, Objects
<1>4. /\ overwritten' \in [AllIds -> Nat]
      /\ \A i \in AllIds : overwritten'[i] = overwritten[i] + Counts(objs[p], i)
    BY <1>1, <1>2, <1>3 DEF Counts
<1>5. ASSUME ~quiet, NEW i \in ObjectIds PROVE Balanced(lifetimes', overwritten', objs', i)
  <2>1. PICK k \in Nat, l \in Nat : k = Counts(objs[from], i) /\ l = Counts(objs[p], i)
    BY DEF Counts
  <2>2. PICK c \in Nat, d \in Nat : /\ c = Cardinality(Counted(objs, i)) /\ d = Cardinality(Counted(objs', i))
                                    /\ d = c - l + k
    BY <1>1, <1>2, <2>1, PutStepCounts
  <2>3. /\ lifetimes'[i]["assignCopy"] = lifetimes[i]["assignCopy"] + k
        /\ \A t \in LifetimeTags : t # "assignCopy" => lifetimes'[i][t] = lifetimes[i][t] + 0
    BY <1>1, <1>2, <1>3, <1>5, <2>1, EntryOfLog
  <2>4. overwritten'[i] = overwritten[i] + l
    BY <1>4, <1>5, <2>1, Balance
  <2>. QED
    BY <1>5, <2>2, <2>3, <2>4, Balance DEF Balanced
<1>. QED
  <2>1. /\ objs' \in [ObjectPlaces -> Objects] /\ objs'[Root] = objs[Root]
        /\ \A q \in ObjectPlaces : ~objs'[q].alive => ~objs'[q].backend
    BY <1>1, <1>2, PutKeepsTypes
  <2>. QED
    BY <1>2, <1>3, <1>4, <1>5, <2>1, ObjectFacts, ObjectStep

\* The destructor logs objDestroy of an object that has an identifier.
LEMMA DestroyKeeps ==
    ASSUME LifetimesInv, NEW p \in ObjectPlaces, DestroyObject(p)
    PROVE  LifetimesInv'
<1>1. p # Root /\ objs[p] \in Objects /\ lifetimes \in [AllIds -> [LifetimeTags -> Nat]]
    BY ObjectFacts DEF DestroyObject, LifetimesInv, ObjectsTypeOK
<1>2. /\ PutObject(p, NoObject)
      /\ UNCHANGED <<finished, minSeverity, quiet, overwritten>>
    BY DEF DestroyObject, Same, PutObject
<1>3. lifetimes' = IF objs[p].id = Blank THEN lifetimes ELSE Log("objDestroy", objs[p])
    BY Zenon DEF DestroyObject, Blank
<1>4. "objDestroy" \in LifetimeTags
    BY DEF LifetimeTags
<1>5. lifetimes' \in [AllIds -> [LifetimeTags -> Nat]]
    BY <1>1, <1>3, <1>4, ObjectFacts
<1>6. ASSUME ~quiet, NEW i \in ObjectIds PROVE Balanced(lifetimes', overwritten', objs', i)
  <2>1. PICK k \in Nat : k = Counts(objs[p], i)
    BY DEF Counts
  <2>2. Counts(NoObject, i) = 0
    BY EmptyFacts DEF Counts
  <2>3. PICK c \in Nat, d \in Nat : /\ c = Cardinality(Counted(objs, i)) /\ d = Cardinality(Counted(objs', i))
                                    /\ d = c - k + 0
    BY <1>1, <1>2, <2>1, <2>2, EmptyFacts, PutStepCounts
  <2>4. /\ lifetimes'[i]["objDestroy"] = lifetimes[i]["objDestroy"] + k
        /\ \A t \in LifetimeTags : t # "objDestroy" => lifetimes'[i][t] = lifetimes[i][t] + 0
    <3>1. CASE objs[p].id = Blank
      <4>1. k = 0 /\ lifetimes' = lifetimes
        BY <1>3, <2>1, <3>1, LoggerFacts DEF Counts
      <4>. QED
        BY <1>6, <4>1, Balance
    <3>2. CASE objs[p].id # Blank
        BY <1>1, <1>3, <1>4, <1>6, <2>1, <3>2, EntryOfLog
    <3>. QED
        BY <3>1, <3>2
  <2>5. overwritten'[i] = overwritten[i]
    BY <1>2
  <2>. QED
    BY <1>6, <2>3, <2>4, <2>5, Balance DEF Balanced
<1>. QED
  <2>1. /\ objs' \in [ObjectPlaces -> Objects] /\ objs'[Root] = objs[Root]
        /\ \A q \in ObjectPlaces : ~objs'[q].alive => ~objs'[q].backend
    BY <1>1, <1>2, EmptyFacts, PutKeepsTypes
  <2>. QED
    BY <1>1, <1>2, <1>5, <1>6, <2>1, ObjectFacts, ObjectStep

\* The end of the root, and the signals.
LEMMA RootKeeps ==
    ASSUME LifetimesInv, FinishRoot \/ ResetHandlers \/ DestroyRoot
    PROVE  LifetimesInv'
<1>0. /\ objs \in [ObjectPlaces -> Objects] /\ Root \in ObjectPlaces /\ objs[Root] \in Objects
      /\ overwritten \in [AllIds -> Nat] /\ lifetimes \in [AllIds -> [LifetimeTags -> Nat]]
      /\ \A p \in ObjectPlaces : ~objs[p].alive => ~objs[p].backend
    BY LoggerFacts DEF LifetimesInv, ObjectsTypeOK
<1>1. ASSUME NEW o \in Objects, ~o.backend, objs' = [objs EXCEPT ![Root] = o], finished',
             UNCHANGED <<minSeverity, quiet, lifetimes, overwritten>>
      PROVE  LifetimesInv'
  <2>1. /\ objs' \in [ObjectPlaces -> Objects] /\ ~objs'[Root].backend
        /\ \A p \in ObjectPlaces \ {Root} : objs'[p] = objs[p]
    BY <1>0, <1>1
  <2>2. \A p \in ObjectPlaces : ~objs'[p].alive => ~objs'[p].backend
    BY <1>0, <1>1
  <2>3. ASSUME NEW id \in ObjectIds PROVE Counted(objs', id) = Counted(objs, id)
    BY <2>1 DEF Counted
  <2>4. ~quiet => \A id \in ObjectIds : Balanced(lifetimes, overwritten, objs', id)
    BY <2>3, Zenon DEF LifetimesInv, Balanced
  <2>5. ~quiet' => \A id \in ObjectIds : Balanced(lifetimes', overwritten', objs', id)
    BY <1>1, <2>4, Zenon
  <2>. QED
    BY <1>1, <2>1, <2>2, <2>5 DEF LifetimesInv, ObjectsTypeOK
<1>2. CASE FinishRoot
  <2>1. PICK o \in Objects : o = [objs[Root] EXCEPT !.backend = FALSE] /\ ~o.backend
    <3>. DEFINE r == [objs[Root] EXCEPT !.backend = FALSE]
    <3>1. r \in Objects /\ ~r.backend
      BY <1>0 DEF Objects
    <3>. QED
      BY <3>1, Zenon
  <2>2. objs' = [objs EXCEPT ![Root] = o]
    BY <1>0, <1>2, <2>1 DEF FinishRoot
  <2>3. finished' /\ UNCHANGED <<minSeverity, quiet, lifetimes, overwritten>>
    BY <1>2 DEF FinishRoot
  <2>. QED
    BY <1>1, <2>1, <2>2, <2>3
<1>3. CASE ResetHandlers
    BY <1>3 DEF ResetHandlers, LifetimesInv, ObjectsTypeOK, Balanced, Counted
<1>4. CASE DestroyRoot
  <2>1. finished /\ objs' = [objs EXCEPT ![Root] = NoObject] /\ lifetimes' = Log("objDestroy", objs[Root])
    BY <1>4 DEF DestroyRoot
  <2>2. ~objs[Root].backend
    BY <2>1 DEF LifetimesInv
  <2>3. lifetimes' = lifetimes
    BY <2>1, <2>2 DEF Log
  <2>4. finished' /\ UNCHANGED <<minSeverity, quiet, overwritten>>
    BY <1>4, <2>1 DEF DestroyRoot, Same
  <2>. QED
    BY <1>1, <2>1, <2>3, <2>4, EmptyFacts
<1>. QED
    BY <1>2, <1>3, <1>4

\* Changes of verbosity do not touch the objects.
LEMMA VerbosityKeeps ==
    ASSUME LifetimesInv, MoreVerbose \/ LessVerbose
    PROVE  LifetimesInv'
<1>0. minSeverity \in Nat \ {0} /\ InfoSeverity \in Nat \ {0} /\ MaxSeverity \in Nat \ {0} /\ quiet \in BOOLEAN
    BY LoggerFacts DEF LifetimesInv, ObjectsTypeOK
<1>1. ASSUME NEW s \in Nat \ {0}, Verbosity(s) PROVE LifetimesInv'
  <2>1. minSeverity' \in Nat \ {0} /\ quiet' \in BOOLEAN /\ (~quiet' => ~quiet /\ minSeverity' <= InfoSeverity)
    <3>1. minSeverity' = (IF handler /\ objs[Root].backend THEN s ELSE minSeverity)
          /\ quiet' = (quiet \/ InfoSeverity < minSeverity')
      BY <1>1, Zenon DEF Verbosity
    <3>2. minSeverity' \in Nat \ {0}
      BY <1>0, <3>1
    <3>3. quiet' \in BOOLEAN
      BY <3>1, Zenon
    <3>4. ASSUME ~quiet' PROVE ~quiet /\ ~(InfoSeverity < minSeverity')
      BY <3>1, <3>4, Zenon
    <3>. QED
      BY <1>0, <3>2, <3>3, <3>4
  <2>2. UNCHANGED <<objs, finished, lifetimes, overwritten>>
    BY <1>1 DEF Verbosity
  <2>. QED
    BY <2>1, <2>2 DEF LifetimesInv, ObjectsTypeOK, Balanced, Counted
<1>2. CASE MoreVerbose
  <2>1. PICK s \in Nat \ {0} : s = IF minSeverity = 1 THEN 1 ELSE minSeverity - 1
    BY <1>0 DEF LifetimesInv, ObjectsTypeOK
  <2>. QED
    BY <1>1, <1>2, <2>1, Zenon DEF MoreVerbose
<1>3. CASE LessVerbose
  <2>1. PICK s \in Nat \ {0} : s = IF minSeverity = MaxSeverity THEN MaxSeverity ELSE minSeverity + 1
    BY <1>0
  <2>. QED
    BY <1>1, <1>3, <2>1, Zenon DEF LessVerbose
<1>. QED
    BY <1>2, <1>3

\* Before any object is made nothing is logged and nothing counted.
LEMMA LifetimesInit ==
    LoggersInit => LifetimesInv
<1>. SUFFICES ASSUME LoggersInit PROVE LifetimesInv
    OBVIOUS
<1>1. /\ objs = [p \in ObjectPlaces |-> IF p = Root THEN Object("root", TRUE) ELSE NoObject]
      /\ finished = FALSE /\ minSeverity = InfoSeverity /\ quiet = FALSE
    BY DEF LoggersInit
<1>2. /\ lifetimes = [id \in AllIds |-> [t \in LifetimeTags |-> 0]]
      /\ overwritten = [id \in AllIds |-> 0]
    BY Zenon DEF LoggersInit
<1>3. Object("root", TRUE) \in Objects /\ Object("root", TRUE).alive
    BY LoggerFacts DEF Object, Objects
<1>4. ASSUME NEW id \in ObjectIds PROVE Counted(objs, id) = {}
    BY <1>1, EmptyFacts DEF Counted
<1>5. ASSUME NEW id \in ObjectIds PROVE Balanced(lifetimes, overwritten, objs, id)
  <2>1. Cardinality(Counted(objs, id)) = 0
    BY <1>4, FS_EmptySet, Zenon
  <2>2. id \in AllIds /\ {"objCreate", "objCopy", "assignCopy", "objDestroy"} \subseteq LifetimeTags
    BY LoggerFacts DEF LifetimeTags
  <2>. QED
    BY <1>2, <2>1, <2>2 DEF Balanced
<1>6. lifetimes \in [AllIds -> [LifetimeTags -> Nat]] /\ overwritten \in [AllIds -> Nat]
    BY <1>2
<1>7. objs \in [ObjectPlaces -> Objects] /\ \A p \in ObjectPlaces : ~objs[p].alive => ~objs[p].backend
    BY <1>1, <1>3, EmptyFacts
<1>8. ObjectsTypeOK
    BY <1>1, <1>6, <1>7, LoggerFacts DEF ObjectsTypeOK
<1>9. ~quiet => minSeverity <= InfoSeverity
    BY <1>1, LoggerFacts
<1>. QED
    BY <1>1, <1>5, <1>7, <1>8, <1>9, Zenon DEF LifetimesInv

\* A step of the loggers, and of the other parts.
LEMMA LoggersStepKeeps ==
    ASSUME LifetimesInv, LoggersNext \/ UNCHANGED loggerVars
    PROVE  LifetimesInv'
<1>1. CASE UNCHANGED loggerVars
    BY <1>1 DEF loggerVars, LifetimesInv, ObjectsTypeOK, Balanced, Counted
<1>2. ASSUME NEW p \in ObjectPlaces, NEW q \in ObjectPlaces, NEW id \in ObjectIds \cup {""},
             CreateObject(p, id, q)
      PROVE  LifetimesInv'
  <2>1. id \in ObjectIds \cup {Blank}
    BY Zenon DEF Blank
  <2>. QED
    BY <1>2, <2>1, CreateKeeps, Zenon
<1>3. CASE LoggersNext
    BY <1>2, <1>3, MoveObjectKeeps, CopyKeeps, AssignMoveKeeps, AssignCopyKeeps, DestroyKeeps, RootKeeps,
       VerbosityKeeps, Zenon DEF LoggersNext
<1>. QED
    BY <1>1, <1>3

\* Only one part runs, the others stay as they are.
LEMMA PartsStep ==
    ASSUME [LoggingNext]_LoggingVars
    PROVE  /\ LoggersNext \/ UNCHANGED loggerVars
           /\ RepeatsNext \/ UNCHANGED repeatVars
           /\ IntervalsNext \/ UNCHANGED intervalVars
           /\ EntriesNext \/ UNCHANGED entryVars
BY Zenon DEF LoggingNext, LoggingVars, RunProxy, RunStream, RunEntries, RunRepeats, RunLoggers, RunIntervals

\* The invariant about lifetimes holds in every reachable state.
LEMMA LifetimesInvHolds ==
    LoggingSpec => []LifetimesInv
<1>1. LoggingInit => LifetimesInv
    BY LifetimesInit, Zenon DEF LoggingInit
<1>2. LifetimesInv /\ [LoggingNext]_LoggingVars => LifetimesInv'
    BY PartsStep, LoggersStepKeeps, Zenon
<1>. QED
    BY <1>1, <1>2, PTL DEF LoggingSpec

\* As long as the log takes the lifetime entries, its entries account for
\* every object with an identifier, whatever objects there are
\* (named_logging_object, ~root_logger).
THEOREM LifetimesStayBalanced ==
    LoggingSpec => []LifetimesAreBalanced
<1>1. LifetimesInv => LifetimesAreBalanced
    BY Zenon DEF LifetimesInv, LifetimesAreBalanced, Balanced, Counted
<1>. QED
    BY <1>1, LifetimesInvHolds, PTL


-----------------------------------------------------------------------------
(* The entries that repeat.                                                *)

(***************************************************************************)
(* The entries back off because the period is the interval doubled once    *)
(* for each entry, and the time since the last entry and what is left of   *)
(* the timeout are never less than that.                                   *)
(***************************************************************************)
RepeatsInv ==
    /\ gaps \in Seq(Nat) /\ period \in Nat /\ rest \in Nat /\ since \in Nat
    /\ period = OrigInterval * 2^Len(gaps)
    /\ gaps # <<>> => since + rest >= period
    /\ RepeatsBackOff

\* A logged entry adds a gap, at least as long as the period.
LEMMA LoggedKeeps ==
    ASSUME RepeatsInv, NEW b \in BOOLEAN, RepeatEntry(b), rest = 0
    PROVE  RepeatsInv'
<1>. DEFINE n == Len(gaps)
<1>0. OrigInterval \in Nat
    BY LogIntervalsAssumption
<1>1. /\ gaps \in Seq(Nat) /\ n \in Nat /\ since \in Nat /\ period \in Nat
      /\ period = OrigInterval * 2^n /\ (gaps # <<>> => since + rest >= period)
      /\ \A i \in 2..n : gaps[i] >= OrigInterval * 2^(i - 1)
    BY DEF RepeatsInv, RepeatsBackOff
<1>2. /\ period' = period * 2 /\ rest' = period * 2 /\ since' = 0 /\ gaps' = Append(gaps, since)
    BY DEF RepeatEntry, should_be_logged, DoubledPeriod
<1>3. /\ gaps' \in Seq(Nat) /\ Len(gaps') = n + 1 /\ gaps'[n + 1] = since
      /\ \A i \in 1..n : gaps'[i] = gaps[i]
    BY <1>1, <1>2
<1>4. PICK p \in Nat : p = 2^n /\ 2^(n + 1) = 2 * p
    BY <1>1, PowerCounts, PowerDoubles
<1>5. period' = OrigInterval * 2^Len(gaps')
  <2>1. period' = (OrigInterval * p) * 2
    BY <1>1, <1>2, <1>4
  <2>2. (OrigInterval * p) * 2 = OrigInterval * (2 * p)
    BY <1>0
  <2>. QED
    BY <1>3, <1>4, <2>1, <2>2, Zenon
<1>6. ASSUME NEW i \in 2..(n + 1) PROVE gaps'[i] >= OrigInterval * 2^(i - 1)
  <2>1. CASE i \in 2..n
    BY <1>1, <1>3, <2>1
  <2>2. CASE i = n + 1
    <3>1. i - 1 = n /\ gaps # <<>>
      BY <1>1, <2>2
    <3>2. since >= OrigInterval * 2^n
      BY <1>1, <3>1
    <3>. QED
      BY <1>3, <2>2, <3>1, <3>2, Zenon
  <2>. QED
    BY <1>1, <2>1, <2>2
<1>7. RepeatsBackOff'
    BY <1>3, <1>6, Zenon DEF RepeatsBackOff
<1>. QED
    BY <1>1, <1>2, <1>3, <1>5, <1>7 DEF RepeatsInv

\* Every step of a repeating entry keeps its invariant.
LEMMA RepeatsStepKeeps ==
    ASSUME RepeatsInv, RepeatsNext \/ UNCHANGED repeatVars
    PROVE  RepeatsInv'
<1>1. CASE UNCHANGED repeatVars
    BY <1>1 DEF repeatVars, RepeatsInv, RepeatsBackOff
<1>2. ASSUME NEW b \in BOOLEAN, RepeatEntry(b) PROVE RepeatsInv'
  <2>1. CASE rest = 0
    BY <1>2, <2>1, LoggedKeeps
  <2>2. CASE rest # 0
    BY <1>2, <2>2 DEF RepeatEntry, should_be_logged, RepeatsInv, RepeatsBackOff
  <2>. QED
    BY <2>1, <2>2
<1>3. CASE ResetControl
  <2>1. period' = OrigInterval /\ rest' = 0 /\ gaps' = <<>> /\ since' = since
    BY <1>3 DEF ResetControl
  <2>2. OrigInterval \in Nat /\ OrigInterval = OrigInterval * 2^Len(<<>>)
    BY LogIntervalsAssumption, PowerOfZero
  <2>. QED
    BY <2>1, <2>2 DEF RepeatsInv, RepeatsBackOff
<1>4. CASE RepeatTick
  <2>1. rest' = (IF rest = 0 THEN 0 ELSE rest - 1) /\ since' = since + 1 /\ UNCHANGED <<period, gaps>>
    BY <1>4 DEF RepeatTick
  <2>. QED
    BY <2>1 DEF RepeatsInv, RepeatsBackOff
<1>. QED
    BY <1>1, <1>2, <1>3, <1>4 DEF RepeatsNext

\* The invariant about repeated entries holds in every reachable state.
LEMMA RepeatsInvHolds ==
    LoggingSpec => []RepeatsInv
<1>1. LoggingInit => RepeatsInv
  <2>. SUFFICES ASSUME RepeatsInit PROVE RepeatsInv
    BY DEF LoggingInit
  <2>1. OrigInterval \in Nat /\ OrigInterval = OrigInterval * 2^Len(<<>>)
    BY LogIntervalsAssumption, PowerOfZero
  <2>. QED
    BY <2>1 DEF RepeatsInit, RepeatsInv, RepeatsBackOff
<1>2. RepeatsInv /\ [LoggingNext]_LoggingVars => RepeatsInv'
    BY PartsStep, RepeatsStepKeeps, Zenon
<1>. QED
    BY <1>1, <1>2, PTL DEF LoggingSpec

-----------------------------------------------------------------------------
(* The averages of the intervals.                                          *)

\* SumOf is the last of them.
LEMMA SumOfFacts ==
    ASSUME NEW s \in Seq(Int)
    PROVE  \E f : Sums(f, s, Len(s)) /\ SumOf(s) = f[Len(s)]
<1>. DEFINE sum == CHOOSE f : f = [i \in 0..Len(s) |-> IF i = 0 THEN 0 ELSE f[i - 1] + s[i]]
<1>1. SumOf(s) = sum[Len(s)]
    BY Zenon DEF SumOf
<1>2. \E f : f = [i \in 0..Len(s) |-> IF i = 0 THEN 0 ELSE f[i - 1] + s[i]]
  <2>1. Len(s) \in 0..Len(s)
    OBVIOUS
  <2>. QED
    BY <2>1, SumsExist, Zenon DEF Sums
<1>3. sum = [i \in 0..Len(s) |-> IF i = 0 THEN 0 ELSE sum[i - 1] + s[i]]
    BY <1>2, Zenon
<1>. QED
    BY <1>1, <1>3, Zenon DEF Sums

\* The empty sequence adds up to nothing.
LEMMA SumOfNothing ==
    SumOf(<<>>) = 0
<1>1. <<>> \in Seq(Int) /\ Len(<<>>) = 0
    OBVIOUS
<1>2. PICK f : Sums(f, <<>>, 0) /\ SumOf(<<>>) = f[0]
    BY <1>1, SumOfFacts, Zenon
<1>. QED
    BY <1>2 DEF Sums

\* One more number adds itself to the sum.
LEMMA SumOfAppend ==
    ASSUME NEW s \in Seq(Int), NEW x \in Int
    PROVE  SumOf(s) \in Int /\ SumOf(Append(s, x)) = SumOf(s) + x
<1>. DEFINE n == Len(s)
            u == Append(s, x)
<1>1. n \in Nat /\ u \in Seq(Int) /\ Len(u) = n + 1 /\ u[n + 1] = x /\ \A i \in 1..n : u[i] = s[i] /\ s[i] \in Int
    OBVIOUS
<1>2. PICK f : Sums(f, s, n) /\ SumOf(s) = f[n]
    BY SumOfFacts, Zenon
<1>3. PICK g : Sums(g, u, n + 1) /\ SumOf(u) = g[n + 1]
    BY <1>1, SumOfFacts, Zenon
<1>. HIDE DEF u
<1>4. f[0] = 0 /\ \A i \in 1..n : f[i] = f[i - 1] + s[i]
    BY <1>1, <1>2, SumsFacts, ZenonT(40)
<1>5. g[0] = 0 /\ \A i \in 1..(n + 1) : g[i] = g[i - 1] + u[i]
  <2>1. n + 1 \in Nat
    BY <1>1
  <2>. QED
    BY <1>3, <2>1, SumsFacts, Zenon
<1>. DEFINE S == {k \in Nat : k <= n => f[k] = g[k] /\ f[k] \in Int}
<1>6. 0 \in S
    BY <1>4, <1>5
<1>7. ASSUME NEW k \in Nat, k \in S PROVE k + 1 \in S
  <2>. SUFFICES ASSUME k + 1 <= n PROVE f[k + 1] = g[k + 1] /\ f[k + 1] \in Int
    OBVIOUS
  <2>1. f[k + 1] = f[k] + s[k + 1] /\ g[k + 1] = g[k] + u[k + 1] /\ u[k + 1] = s[k + 1] /\ s[k + 1] \in Int
    BY <1>1, <1>4, <1>5
  <2>. QED
    BY <1>7, <2>1
<1>. HIDE DEF S
<1>8. Nat \subseteq S
    BY <1>6, <1>7, SetInduction, Zenon
<1>9. f[n] = g[n] /\ f[n] \in Int
    BY <1>1, <1>8 DEF S
<1>10. g[n + 1] = g[n] + x
    BY <1>1, <1>5
<1>. QED
    BY <1>2, <1>3, <1>9, <1>10 DEF u

\* No two threads measure the interval of one logger, and no logger has the
\* name of a handle that stands for none.
Apart == /\ \A t, u \in IvThreads : t # u => IvLogger[t] # IvLogger[u]
         /\ \A t \in IvThreads : IvLogger[t] \notin {"none", "0"}

IvInfo == [start : Int, count : Int, duration : Int]

\* What a thread's interval holds: all measurements since the last entry
\* but the one the thread is adding.
Holds(info, ms) == info.count = Len(ms) /\ info.duration = SumOf(ms)

Interval(pc, info, own, ms, at0, end) ==
    /\ pc \in {"idle", "measuring"} => Holds(info, ms) /\ info.count < Batch
    /\ pc = "measuring" => info.start = at0
    /\ pc = "adding" =>
        /\ own = info /\ info.count < Batch
        /\ Len(ms) = info.count + 1 /\ SumOf(ms) = info.duration + (end - info.start)
    /\ pc = "reporting" => Holds(info, ms) /\ info.count = Batch

ThreadInv(t) ==
    IF handle[t] = IvLogger[t]
    THEN /\ IvLogger[t] \in DOMAIN infos
         /\ Interval(ivpc[t], infos[IvLogger[t]], seen[t], spent[IvLogger[t]], began[t], now[t])
    ELSE /\ handle[t] \in {"none", "0"} /\ IvLogger[t] \notin DOMAIN infos
         /\ spent[IvLogger[t]] = <<>> /\ ivpc[t] \in {"idle", "measuring"}

IntervalsTypeOK ==
    /\ handle \in [IvThreads -> IvLoggers \cup {"none", "0"}]
    /\ ivpc \in [IvThreads -> {"idle", "measuring", "adding", "reporting"}]
    /\ now \in [IvThreads -> Int] /\ began \in [IvThreads -> Int] /\ clock \in Int
    /\ seen \in [IvThreads -> IvInfo]
    /\ spent \in [IvLoggers -> Seq(Int)]
    /\ DOMAIN infos \subseteq IvLoggers /\ infos \in [DOMAIN infos -> IvInfo]

ReportIsRight(r) == Len(r.spent) = Batch /\ r.tns = SumOf(r.spent) \div Batch

IvReports == [logger : IvLoggers, tns : Int, spent : Seq(Int)]

(***************************************************************************)
(* The averages are right because the numbers of each thread's interval    *)
(* are those of its measurements at every moment, the one being added kept *)
(* apart.                                                                  *)
(***************************************************************************)
IntervalsInv ==
    /\ IntervalsTypeOK
    /\ \A t \in IvThreads : ThreadInv(t)
    /\ reports \in Seq(IvReports) /\ \A i \in 1..Len(reports) : ReportIsRight(reports[i])

\* A thread whose own numbers stay as they are keeps what holds of it.
OwnStays(t) ==
    /\ UNCHANGED <<handle[t], ivpc[t], seen[t], now[t], began[t]>>
    /\ spent'[IvLogger[t]] = spent[IvLogger[t]]
    /\ IvLogger[t] \in DOMAIN infos <=> IvLogger[t] \in DOMAIN infos'
    /\ IvLogger[t] \in DOMAIN infos => infos'[IvLogger[t]] = infos[IvLogger[t]]

\* A thread whose own numbers stay keeps what is known of them.
LEMMA OwnKeeps ==
    ASSUME NEW t \in IvThreads, ThreadInv(t), OwnStays(t)
    PROVE  ThreadInv(t)'
BY Zenon DEF ThreadInv, OwnStays

\* What the invariant says of a thread and its logger's interval.
LEMMA IntervalFacts ==
    ASSUME IntervalsInv, NEW t \in IvThreads
    PROVE  /\ IvLogger[t] \in IvLoggers /\ spent[IvLogger[t]] \in Seq(Int) /\ seen[t] \in IvInfo
           /\ now[t] \in Int /\ began[t] \in Int /\ clock \in Int
           /\ handle[t] = IvLogger[t] => infos[IvLogger[t]] \in IvInfo /\ IvLogger[t] \in DOMAIN infos
           /\ ThreadInv(t) /\ Batch \in Nat \ {0}
<1>1. IvLogger[t] \in IvLoggers
    BY DEF IvLoggers
<1>2. ThreadInv(t)
    BY DEF IntervalsInv
<1>. QED
    BY <1>1, <1>2, LogIntervalsAssumption DEF IntervalsInv, IntervalsTypeOK, ThreadInv

\* The steps of a thread: the other threads' numbers are their own.
LEMMA OneThread ==
    ASSUME IntervalsInv, Apart, NEW t \in IvThreads, ThreadInv(t)',
           UNCHANGED clock,
           \A u \in IvThreads \ {t} : UNCHANGED <<handle[u], ivpc[u], seen[u], now[u], began[u]>>,
           \A l \in IvLoggers \ {IvLogger[t]} :
                /\ spent'[l] = spent[l] /\ (l \in DOMAIN infos <=> l \in DOMAIN infos')
                /\ l \in DOMAIN infos => infos'[l] = infos[l]
    PROVE  \A u \in IvThreads : ThreadInv(u)'
<1>1. ASSUME NEW u \in IvThreads, u # t PROVE ThreadInv(u)'
  <2>1. IvLogger[u] \in IvLoggers \ {IvLogger[t]}
    BY <1>1 DEF Apart, IvLoggers
  <2>2. OwnStays(u)
    BY <1>1, <2>1, Zenon DEF OwnStays
  <2>3. ThreadInv(u)
    BY DEF IntervalsInv
  <2>. QED
    BY <2>2, <2>3, OwnKeeps, Zenon
<1>. QED
    BY <1>1, Zenon

\* register_time_interval makes an interval without measurements.
LEMMA RegisterKeeps ==
    ASSUME IntervalsInv, Apart, NEW t \in IvThreads, RegisterInterval(t)
    PROVE  IntervalsInv'
<1>. DEFINE l == IvLogger[t]
<1>1. /\ ivpc[t] = "idle" /\ handle[t] = "none" /\ l # "none" /\ l # "0" /\ l \in IvLoggers
      /\ UNCHANGED <<clock, ivpc, now, seen, began, spent, reports>>
    BY IntervalFacts, Zenon DEF RegisterInterval, Apart
<1>2. l \notin DOMAIN infos /\ spent[l] = <<>>
    BY <1>1, IntervalFacts DEF ThreadInv
<1>3. handle \in [IvThreads -> IvLoggers \cup {"none", "0"}] /\ DOMAIN infos \subseteq IvLoggers
      /\ infos \in [DOMAIN infos -> IvInfo]
    BY DEF IntervalsInv, IntervalsTypeOK
<1>4. CASE delegated
  <2>1. /\ handle' = [handle EXCEPT ![t] = l]
        /\ infos' = [k \in DOMAIN infos \cup {l} |-> IF k \in DOMAIN infos THEN infos[k] ELSE Unmeasured]
    BY <1>4, Zenon DEF RegisterInterval
  <2>2. /\ DOMAIN infos' = DOMAIN infos \cup {l} /\ infos'[l] = Unmeasured
        /\ \A k \in DOMAIN infos : infos'[k] = infos[k]
    BY <1>2, <2>1
  <2>3. Unmeasured \in IvInfo /\ Interval("idle", Unmeasured, seen[t], <<>>, began[t], now[t])
    BY SumOfNothing, LogIntervalsAssumption DEF Unmeasured, IvInfo, Interval, Holds
  <2>4. handle' \in [IvThreads -> IvLoggers \cup {"none", "0"}] /\ handle'[t] = l
        /\ \A u \in IvThreads \ {t} : handle'[u] = handle[u]
    BY <1>1, <1>3, <2>1
  <2>5. DOMAIN infos' \subseteq IvLoggers /\ infos' \in [DOMAIN infos' -> IvInfo]
    BY <1>1, <1>3, <2>1, <2>2, <2>3
  <2>6. ThreadInv(t)'
    BY <1>1, <1>2, <2>2, <2>3, <2>4 DEF ThreadInv
  <2>7. \A u \in IvThreads : ThreadInv(u)'
    BY <1>1, <2>2, <2>4, <2>6, OneThread
  <2>. QED
    BY <1>1, <2>4, <2>5, <2>7 DEF IntervalsInv, IntervalsTypeOK
<1>5. CASE ~delegated
  <2>1. handle' = [handle EXCEPT ![t] = "0"] /\ infos' = infos
    BY <1>5, Zenon DEF RegisterInterval
  <2>2. handle' \in [IvThreads -> IvLoggers \cup {"none", "0"}] /\ handle'[t] = "0"
        /\ \A u \in IvThreads \ {t} : handle'[u] = handle[u]
    BY <1>3, <2>1
  <2>3. ThreadInv(t)'
    BY <1>1, <1>2, <2>1, <2>2 DEF ThreadInv
  <2>4. \A u \in IvThreads : ThreadInv(u)'
    BY <1>1, <2>1, <2>2, <2>3, OneThread
  <2>. QED
    BY <1>1, <2>1, <2>2, <2>4 DEF IntervalsInv, IntervalsTypeOK
<1>. QED
    BY <1>4, <1>5

\* Whether a thread's handle is registered.
LEMMA HandleFacts ==
    ASSUME IntervalsInv, Apart, NEW t \in IvThreads
    PROVE  /\ _get_interval(t) <=> handle[t] = IvLogger[t]
           /\ handle[t] # IvLogger[t] => ivpc[t] \in {"idle", "measuring"}
<1>1. "none" \notin IvLoggers /\ "0" \notin IvLoggers /\ DOMAIN infos \subseteq IvLoggers
    BY DEF Apart, IvLoggers, IntervalsInv, IntervalsTypeOK
<1>2. ThreadInv(t)
    BY DEF IntervalsInv
<1>. QED
    BY <1>1, <1>2 DEF ThreadInv, _get_interval

\* time_interval_begin notes the time it began.
LEMMA BeginKeeps ==
    ASSUME IntervalsInv, Apart, NEW t \in IvThreads, BeginInterval(t)
    PROVE  IntervalsInv'
<1>. DEFINE l == IvLogger[t]
<1>1. /\ ivpc[t] = "idle" /\ l \in IvLoggers
      /\ ivpc' = [ivpc EXCEPT ![t] = "measuring"] /\ began' = [began EXCEPT ![t] = clock]
      /\ infos' = IF _get_interval(t) THEN [infos EXCEPT ![handle[t]].start = clock] ELSE infos
      /\ UNCHANGED <<clock, handle, now, seen, spent, reports>>
    BY IntervalFacts, Zenon DEF BeginInterval
<1>2. /\ ivpc \in [IvThreads -> {"idle", "measuring", "adding", "reporting"}]
      /\ began \in [IvThreads -> Int] /\ clock \in Int /\ infos \in [DOMAIN infos -> IvInfo]
      /\ DOMAIN infos \subseteq IvLoggers
    BY DEF IntervalsInv, IntervalsTypeOK
<1>3. /\ ivpc' \in [IvThreads -> {"idle", "measuring", "adding", "reporting"}] /\ ivpc'[t] = "measuring"
      /\ began' \in [IvThreads -> Int] /\ began'[t] = clock
      /\ \A u \in IvThreads \ {t} : ivpc'[u] = ivpc[u] /\ began'[u] = began[u]
    BY <1>1, <1>2
<1>4. CASE handle[t] = l
  <2>1. l \in DOMAIN infos /\ Interval("idle", infos[l], seen[t], spent[l], began[t], now[t])
    BY <1>1, <1>4, IntervalFacts DEF ThreadInv
  <2>2. infos' = [infos EXCEPT ![l].start = clock]
    BY <1>1, <1>4, HandleFacts, Zenon
  <2>3. /\ DOMAIN infos' = DOMAIN infos /\ infos' \in [DOMAIN infos' -> IvInfo]
        /\ infos'[l] = [infos[l] EXCEPT !.start = clock]
        /\ \A k \in DOMAIN infos \ {l} : infos'[k] = infos[k]
    BY <1>2, <2>1, <2>2 DEF IvInfo
  <2>4. infos[l] \in IvInfo
    BY <1>2, <2>1
  <2>5. infos'[l].start = clock /\ infos'[l].count = infos[l].count /\ infos'[l].duration = infos[l].duration
    BY <2>3, <2>4 DEF IvInfo
  <2>6. Interval("measuring", infos'[l], seen[t], spent[l], clock, now[t])
    BY <2>1, <2>5 DEF Interval, Holds
  <2>7. ThreadInv(t)'
    BY <1>1, <1>3, <1>4, <2>1, <2>3, <2>6, Zenon DEF ThreadInv
  <2>8. \A u \in IvThreads : ThreadInv(u)'
    BY <1>1, <1>3, <2>3, <2>7, OneThread
  <2>. QED
    BY <1>1, <1>2, <1>3, <2>3, <2>8 DEF IntervalsInv, IntervalsTypeOK
<1>5. CASE handle[t] # l
  <2>1. infos' = infos
    BY <1>1, <1>5, HandleFacts, Zenon
  <2>2. ThreadInv(t)'
    BY <1>1, <1>3, <1>5, <2>1, IntervalFacts DEF ThreadInv
  <2>3. \A u \in IvThreads : ThreadInv(u)'
    BY <1>1, <1>3, <2>1, <2>2, OneThread
  <2>. QED
    BY <1>1, <1>3, <2>1, <2>3 DEF IntervalsInv, IntervalsTypeOK
<1>. QED
    BY <1>4, <1>5

\* The first half of time_interval_end reads the numbers of its logger, which
\* no other thread changes.
LEMMA ReadKeeps ==
    ASSUME IntervalsInv, Apart, NEW t \in IvThreads, ReadNumbers(t)
    PROVE  IntervalsInv'
<1>. DEFINE l == IvLogger[t]
<1>1. ivpc[t] = "measuring" /\ l \in IvLoggers /\ UNCHANGED <<clock, infos, handle, began, reports>>
    BY IntervalFacts, Zenon DEF ReadNumbers
<1>2. /\ ivpc \in [IvThreads -> {"idle", "measuring", "adding", "reporting"}] /\ spent \in [IvLoggers -> Seq(Int)]
      /\ now \in [IvThreads -> Int] /\ seen \in [IvThreads -> IvInfo]
    BY DEF IntervalsInv, IntervalsTypeOK
<1>3. CASE handle[t] = l
  <2>1. /\ l \in DOMAIN infos /\ Interval("measuring", infos[l], seen[t], spent[l], began[t], now[t])
        /\ infos[l] \in IvInfo /\ spent[l] \in Seq(Int) /\ clock \in Int /\ began[t] \in Int
    BY <1>1, <1>3, IntervalFacts DEF ThreadInv
  <2>2. /\ ivpc' = [ivpc EXCEPT ![t] = "adding"]
        /\ now' = [now EXCEPT ![t] = clock] /\ seen' = [seen EXCEPT ![t] = infos[l]]
        /\ spent' = [spent EXCEPT ![l] = Append(@, clock - began[t])]
    BY <1>3, HandleFacts, Zenon DEF ReadNumbers
  <2>3. PICK x \in Int : x = clock - began[t]
    BY <2>1
  <2>4. /\ ivpc' \in [IvThreads -> {"idle", "measuring", "adding", "reporting"}] /\ ivpc'[t] = "adding"
        /\ now' \in [IvThreads -> Int] /\ now'[t] = clock
        /\ seen' \in [IvThreads -> IvInfo] /\ seen'[t] = infos[l]
        /\ \A u \in IvThreads \ {t} : ivpc'[u] = ivpc[u] /\ now'[u] = now[u] /\ seen'[u] = seen[u]
    BY <1>2, <2>1, <2>2
  <2>5. /\ spent' \in [IvLoggers -> Seq(Int)] /\ spent'[l] = Append(spent[l], x)
        /\ \A k \in IvLoggers \ {l} : spent'[k] = spent[k]
    BY <1>1, <1>2, <2>1, <2>2, <2>3
  <2>6. Len(Append(spent[l], x)) = Len(spent[l]) + 1 /\ SumOf(Append(spent[l], x)) = SumOf(spent[l]) + x
    BY <2>1, SumOfAppend
  <2>7. Interval("adding", infos[l], infos[l], Append(spent[l], x), began[t], clock)
    BY <2>1, <2>3, <2>6 DEF Interval, Holds
  <2>8. ThreadInv(t)'
    BY <1>1, <1>3, <2>1, <2>4, <2>5, <2>7, Zenon DEF ThreadInv
  <2>9. \A u \in IvThreads : ThreadInv(u)'
    BY <1>1, <2>4, <2>5, <2>8, OneThread
  <2>. QED
    BY <1>1, <2>4, <2>5, <2>9 DEF IntervalsInv, IntervalsTypeOK
<1>4. CASE handle[t] # l
  <2>1. ivpc' = [ivpc EXCEPT ![t] = "idle"] /\ UNCHANGED <<now, seen, spent>>
    BY <1>4, HandleFacts, Zenon DEF ReadNumbers
  <2>2. /\ ivpc' \in [IvThreads -> {"idle", "measuring", "adding", "reporting"}] /\ ivpc'[t] = "idle"
        /\ \A u \in IvThreads \ {t} : ivpc'[u] = ivpc[u]
    BY <1>2, <2>1
  <2>3. ThreadInv(t)'
    BY <1>1, <1>4, <2>1, <2>2, IntervalFacts DEF ThreadInv
  <2>4. \A u \in IvThreads : ThreadInv(u)'
    BY <1>1, <2>1, <2>2, <2>3, OneThread
  <2>. QED
    BY <1>1, <2>1, <2>2, <2>4 DEF IntervalsInv, IntervalsTypeOK
<1>. QED
    BY <1>3, <1>4

\* The second half writes them, one measurement more.
LEMMA WriteKeeps ==
    ASSUME IntervalsInv, Apart, NEW t \in IvThreads, WriteNumbers(t)
    PROVE  IntervalsInv'
<1>. DEFINE l == IvLogger[t]
<1>1. /\ ivpc[t] = "adding" /\ l \in IvLoggers /\ handle[t] = l
      /\ UNCHANGED <<clock, handle, now, seen, began, spent, reports>>
    BY IntervalFacts, HandleFacts DEF WriteNumbers
<1>2. /\ ivpc \in [IvThreads -> {"idle", "measuring", "adding", "reporting"}]
      /\ infos \in [DOMAIN infos -> IvInfo] /\ DOMAIN infos \subseteq IvLoggers
    BY DEF IntervalsInv, IntervalsTypeOK
<1>3. /\ l \in DOMAIN infos /\ Interval("adding", infos[l], seen[t], spent[l], began[t], now[t])
      /\ infos[l] \in IvInfo /\ seen[t] \in IvInfo /\ now[t] \in Int /\ Batch \in Nat
    BY <1>1, IntervalFacts DEF ThreadInv
<1>4. PICK c \in Int, d \in Int : c = seen[t].count + 1 /\ d = seen[t].duration + (now[t] - seen[t].start)
    BY <1>3 DEF IvInfo
<1>5. /\ infos' = [infos EXCEPT ![l].count = c, ![l].duration = d]
      /\ ivpc' = [ivpc EXCEPT ![t] = IF c >= Batch THEN "reporting" ELSE "idle"]
    BY <1>1, <1>4, Zenon DEF WriteNumbers
<1>6. /\ DOMAIN infos' = DOMAIN infos /\ infos' \in [DOMAIN infos' -> IvInfo]
      /\ infos'[l] = [infos[l] EXCEPT !.count = c, !.duration = d]
      /\ \A k \in DOMAIN infos \ {l} : infos'[k] = infos[k]
    BY <1>2, <1>3, <1>5 DEF IvInfo
<1>7. infos'[l].count = c /\ infos'[l].duration = d
    BY <1>3, <1>6 DEF IvInfo
<1>8. /\ ivpc' \in [IvThreads -> {"idle", "measuring", "adding", "reporting"}]
      /\ ivpc'[t] = IF c >= Batch THEN "reporting" ELSE "idle"
      /\ \A u \in IvThreads \ {t} : ivpc'[u] = ivpc[u]
    BY <1>2, <1>5
<1>9. c = Len(spent[l]) /\ d = SumOf(spent[l]) /\ c <= Batch
    BY <1>3, <1>4 DEF Interval, IvInfo
<1>10. Interval(ivpc'[t], infos'[l], seen[t], spent[l], began[t], now[t])
    BY <1>3, <1>7, <1>8, <1>9 DEF Interval, Holds
<1>11. ThreadInv(t)'
    BY <1>1, <1>3, <1>6, <1>10, Zenon DEF ThreadInv
<1>12. \A u \in IvThreads : ThreadInv(u)'
    BY <1>1, <1>6, <1>8, <1>11, OneThread
<1>. QED
    BY <1>1, <1>2, <1>6, <1>8, <1>12 DEF IntervalsInv, IntervalsTypeOK

\* A full batch is logged with its average, and the numbers start again.
LEMMA ReportKeeps ==
    ASSUME IntervalsInv, Apart, NEW t \in IvThreads, ReportBatch(t)
    PROVE  IntervalsInv'
<1>. DEFINE l == IvLogger[t]
<1>1. /\ ivpc[t] = "reporting" /\ l \in IvLoggers /\ handle[t] = l
      /\ UNCHANGED <<clock, handle, now, seen, began>>
    BY IntervalFacts, HandleFacts DEF ReportBatch
<1>2. /\ ivpc \in [IvThreads -> {"idle", "measuring", "adding", "reporting"}]
      /\ infos \in [DOMAIN infos -> IvInfo] /\ DOMAIN infos \subseteq IvLoggers
      /\ spent \in [IvLoggers -> Seq(Int)]
    BY DEF IntervalsInv, IntervalsTypeOK
<1>3. /\ l \in DOMAIN infos /\ Interval("reporting", infos[l], seen[t], spent[l], began[t], now[t])
      /\ infos[l] \in IvInfo /\ spent[l] \in Seq(Int) /\ Batch \in Nat \ {0}
    BY <1>1, IntervalFacts DEF ThreadInv
<1>4. /\ reports' = Append(reports, [logger |-> l, tns |-> infos[l].duration \div Batch, spent |-> spent[l]])
      /\ infos' = [infos EXCEPT ![l] = Emptied(@)] /\ spent' = [spent EXCEPT ![l] = <<>>]
      /\ ivpc' = [ivpc EXCEPT ![t] = "idle"]
    BY <1>1, Zenon DEF ReportBatch
<1>5. Emptied(infos[l]) \in IvInfo /\ Emptied(infos[l]).count = 0 /\ Emptied(infos[l]).duration = 0
  <2>1. ASSUME NEW i \in IvInfo
        PROVE  Emptied(i) \in IvInfo /\ Emptied(i).count = 0 /\ Emptied(i).duration = 0
    <3>1. Emptied(i) = [i EXCEPT !.count = 0, !.duration = 0]
      BY Zenon DEF Emptied
    <3>2. PICK a \in Int, b \in Int, c \in Int : i = [start |-> a, count |-> b, duration |-> c]
      BY DEF IvInfo
    <3>3. Emptied(i) = [start |-> a, count |-> 0, duration |-> 0]
      BY <3>1, <3>2
    <3>. QED
      BY <3>3 DEF IvInfo
  <2>. QED
    BY <1>3, <2>1, Zenon
<1>6. PICK e \in IvInfo : e = Emptied(infos[l])
    BY <1>5
<1>7. /\ DOMAIN infos' = DOMAIN infos /\ infos' \in [DOMAIN infos' -> IvInfo] /\ infos'[l] = e
      /\ \A k \in DOMAIN infos \ {l} : infos'[k] = infos[k]
  <2>1. infos' = [infos EXCEPT ![l] = e]
    BY <1>3, <1>4, <1>6
  <2>. QED
    BY <1>2, <1>3, <2>1
<1>8. /\ ivpc' \in [IvThreads -> {"idle", "measuring", "adding", "reporting"}] /\ ivpc'[t] = "idle"
      /\ \A u \in IvThreads \ {t} : ivpc'[u] = ivpc[u]
    BY <1>2, <1>4
<1>9. /\ spent' \in [IvLoggers -> Seq(Int)] /\ spent'[l] = <<>>
      /\ \A k \in IvLoggers \ {l} : spent'[k] = spent[k]
    BY <1>1, <1>2, <1>4
<1>10. Interval("idle", e, seen[t], <<>>, began[t], now[t])
    BY <1>3, <1>5, <1>6, SumOfNothing DEF Interval, Holds
<1>11. ThreadInv(t)'
    BY <1>1, <1>3, <1>7, <1>8, <1>9, <1>10, Zenon DEF ThreadInv
<1>12. \A u \in IvThreads : ThreadInv(u)'
    BY <1>1, <1>7, <1>8, <1>9, <1>11, OneThread
<1>13. reports' \in Seq(IvReports) /\ \A i \in 1..Len(reports') : ReportIsRight(reports'[i])
  <2>. DEFINE r == [logger |-> l, tns |-> infos[l].duration \div Batch, spent |-> spent[l]]
  <2>1. infos[l].duration \in Int /\ infos[l].duration \div Batch \in Int
    BY <1>3 DEF IvInfo
  <2>2. r \in IvReports
    BY <1>1, <1>3, <2>1 DEF IvReports
  <2>3. Len(spent[l]) = Batch /\ infos[l].duration = SumOf(spent[l])
    BY <1>3 DEF Interval, Holds
  <2>4. ReportIsRight(r)
    BY <2>3 DEF ReportIsRight
  <2>. HIDE DEF r
  <2>5. reports \in Seq(IvReports) /\ \A i \in 1..Len(reports) : ReportIsRight(reports[i])
    BY DEF IntervalsInv
  <2>6. reports' = Append(reports, r)
    BY <1>4 DEF r
  <2>. QED
    BY <2>2, <2>4, <2>5, <2>6
<1>. QED
    BY <1>1, <1>2, <1>7, <1>8, <1>9, <1>12, <1>13 DEF IntervalsInv, IntervalsTypeOK

\* Every step of the intervals keeps the invariant.
LEMMA IntervalsStepKeeps ==
    ASSUME IntervalsInv, Apart, IntervalsNext \/ UNCHANGED intervalVars
    PROVE  IntervalsInv'
<1>1. CASE UNCHANGED intervalVars
    BY <1>1 DEF intervalVars, IntervalsInv, IntervalsTypeOK, ThreadInv
<1>2. CASE ConfigureProxy
    BY <1>2 DEF ConfigureProxy, IntervalsInv, IntervalsTypeOK, ThreadInv
<1>3. CASE IvTick
    BY <1>3 DEF IvTick, IntervalsInv, IntervalsTypeOK, ThreadInv
<1>. QED
    BY <1>1, <1>2, <1>3, RegisterKeeps, BeginKeeps, ReadKeeps, WriteKeeps, ReportKeeps, Zenon DEF IntervalsNext

\* At first nothing is measured.
LEMMA IntervalsInitially ==
    ASSUME IntervalsInit, Apart
    PROVE  IntervalsInv
<1>1. /\ clock = 0 /\ infos = [l \in {} |-> Unmeasured] /\ reports = <<>>
      /\ handle = [t \in IvThreads |-> "none"] /\ ivpc = [t \in IvThreads |-> "idle"]
      /\ now = [t \in IvThreads |-> 0] /\ seen = [t \in IvThreads |-> Unmeasured]
      /\ began = [t \in IvThreads |-> 0] /\ spent = [l \in IvLoggers |-> <<>>]
    BY DEF IntervalsInit
<1>2. Unmeasured \in IvInfo
    BY DEF Unmeasured, IvInfo
<1>3. ASSUME NEW t \in IvThreads PROVE ThreadInv(t)
  <2>1. IvLogger[t] \in IvLoggers /\ IvLogger[t] # "none"
    BY DEF IvLoggers, Apart
  <2>. QED
    BY <1>1, <2>1 DEF ThreadInv
<1>4. DOMAIN infos = {} /\ infos \in [DOMAIN infos -> IvInfo]
    BY <1>1
<1>5. IntervalsTypeOK
    BY <1>1, <1>2, <1>4 DEF IntervalsTypeOK
<1>. QED
    BY <1>1, <1>3, <1>5 DEF IntervalsInv

\* With threads that measure intervals of their own the invariant holds in
\* every reachable state.
LEMMA IntervalsInvHolds ==
    LoggingSpec => [](Apart => IntervalsInv)
<1>1. LoggingInit => (Apart => IntervalsInv)
    BY IntervalsInitially, Zenon DEF LoggingInit
<1>2. (Apart => IntervalsInv) /\ [LoggingNext]_LoggingVars => (Apart => IntervalsInv)'
  <2>. SUFFICES ASSUME Apart => IntervalsInv, [LoggingNext]_LoggingVars, Apart PROVE IntervalsInv'
    BY Zenon DEF Apart
  <2>. QED
    BY PartsStep, IntervalsStepKeeps, Zenon
<1>. QED
    BY <1>1, <1>2, PTL DEF LoggingSpec

\* What the log says of times is right, whatever the threads, the batch and
\* the interval are: repeated entries back off, and as long as no two threads
\* measure the interval of one logger, every average is that of the
\* measurements made since the last entry (was_logged, time_interval_end).
\* A logger is no handle that stands for no interval.
THEOREM LogTimesStayRight ==
    (\A t \in IvThreads : IvLogger[t] \notin {"none", "0"}) /\ LoggingSpec => []LogTimesAreRight
<1>. SUFFICES ASSUME \A t \in IvThreads : IvLogger[t] \notin {"none", "0"}
              PROVE  LoggingSpec => []LogTimesAreRight
    OBVIOUS
<1>1. RepeatsInv /\ (Apart => IntervalsInv) => LogTimesAreRight
  <2>. SUFFICES ASSUME RepeatsInv, Apart => IntervalsInv PROVE LogTimesAreRight
    OBVIOUS
  <2>1. ASSUME \A t, u \in IvThreads : t # u => IvLogger[t] # IvLogger[u], NEW i \in 1..Len(reports)
        PROVE  ReportIsRight(reports[i])
    <3>1. Apart
      BY <2>1, Zenon DEF Apart
    <3>. QED
      BY <2>1, <3>1, Zenon DEF IntervalsInv
  <2>2. AveragesAreRight
    BY <2>1, Zenon DEF AveragesAreRight, ReportIsRight
  <2>. QED
    BY <2>2, Zenon DEF RepeatsInv, LogTimesAreRight
<1>. QED
    BY <1>1, RepeatsInvHolds, IntervalsInvHolds, PTL

-----------------------------------------------------------------------------
(* The entries and their arguments.                                        *)

\* The overloads that a missing value takes instead copy what they are given.
LEMMA GroupsApart ==
    /\ \A n \in FallbackTypes : n \in DOMAIN TextArgs /\ TextArgs[n].keeps = "copy"
    /\ "nothing" \in DOMAIN IdArgs /\ IdArgs["nothing"].keeps = "copy"
    /\ \A n \in FallbackTypes : \A g \in OverloadGroups \ {TextArgs} : n \notin DOMAIN g
    /\ \A g \in OverloadGroups \ {IdArgs} : "nothing" \notin DOMAIN g
<1>. DEFINE Names == {"string", "chars", "nothing"}
<1>1. (\A n \in FallbackTypes : n \in DOMAIN TextArgs /\ TextArgs[n].keeps = "copy") /\ "nothing" \notin DOMAIN TextArgs
    BY DEF TextArgs, One, Formed, Viewed, FallbackTypes
<1>2. "nothing" \in DOMAIN IdArgs /\ IdArgs["nothing"].keeps = "copy" /\ \A n \in FallbackTypes : n \notin DOMAIN IdArgs
    BY DEF IdArgs, One, FallbackTypes
<1>3. \A n \in Names : n \notin DOMAIN Int64Args /\ n \notin DOMAIN Int32Args /\ n \notin DOMAIN Int16Args
    BY DEF Int64Args, Int32Args, Int16Args
<1>4. \A n \in Names : n \notin DOMAIN UnsignedArgs /\ n \notin DOMAIN FloatArgs
    BY DEF UnsignedArgs, FloatArgs
<1>5. \A n \in Names : n \notin DOMAIN AdaptedArgs /\ n \notin DOMAIN EnumArgs /\ n \notin DOMAIN BackendArgs
    BY DEF AdaptedArgs, EnumArgs, BackendArgs
<1>6. "nothing" \in Names /\ \A n \in FallbackTypes : n \in Names
    BY DEF FallbackTypes
<1>. HIDE DEF Names
<1>7. \A n \in FallbackTypes : \A g \in OverloadGroups \ {TextArgs} : n \notin DOMAIN g
    BY <1>2, <1>3, <1>4, <1>5, <1>6, Zenon DEF OverloadGroups
<1>8. \A g \in OverloadGroups \ {IdArgs} : "nothing" \notin DOMAIN g
    BY <1>1, <1>3, <1>4, <1>5, <1>6, Zenon DEF OverloadGroups
<1>. QED
    BY <1>1, <1>2, <1>7, <1>8, Zenon

\* What stands in for a missing value is copied by arg().
LEMMA FallbacksAreCopied ==
    \A n \in FallbackTypes \cup {"nothing"} : n \in DOMAIN Overloads /\ Overloads[n].keeps = "copy"
<1>1. TextArgs \in OverloadGroups /\ IdArgs \in OverloadGroups
    BY Zenon DEF OverloadGroups
<1>. DEFINE group(n) == CHOOSE g \in OverloadGroups : n \in DOMAIN g
<1>2. (\A n \in FallbackTypes : group(n) = TextArgs) /\ group("nothing") = IdArgs
  <2>1. ASSUME NEW n \in FallbackTypes PROVE group(n) \in OverloadGroups /\ n \in DOMAIN group(n)
    BY <1>1, GroupsApart, Zenon
  <2>2. group("nothing") \in OverloadGroups /\ "nothing" \in DOMAIN group("nothing")
    BY <1>1, GroupsApart, Zenon
  <2>. HIDE DEF group
  <2>. QED
    BY <2>1, <2>2, GroupsApart, Zenon
<1>3. \A n \in FallbackTypes \cup {"nothing"} : n \in UNION {DOMAIN g : g \in OverloadGroups}
  <2>1. \A n \in FallbackTypes : n \in UNION {DOMAIN g : g \in OverloadGroups}
    BY <1>1, GroupsApart, Zenon
  <2>2. "nothing" \in UNION {DOMAIN g : g \in OverloadGroups}
    BY <1>1, GroupsApart, Zenon
  <2>. QED
    BY <2>1, <2>2, Zenon
<1>4. DOMAIN Overloads = UNION {DOMAIN g : g \in OverloadGroups}
      /\ \A n \in UNION {DOMAIN g : g \in OverloadGroups} : Overloads[n] = group(n)[n]
    BY Zenon DEF Overloads
<1>. HIDE DEF group
<1>5. \A n \in FallbackTypes : Overloads[n] = TextArgs[n]
    BY <1>2, <1>3, <1>4, Zenon
<1>6. Overloads["nothing"] = IdArgs["nothing"]
    BY <1>2, <1>3, <1>4, Zenon
<1>. QED
    BY <1>3, <1>4, <1>5, <1>6, GroupsApart, Zenon

\* What the arguments of an entry can be.
ArgKinds == ArgTypes \cup FallbackTypes \cup {"nothing"}
ArgTags == {DefaultTag(type) : type \in ArgKinds} \cup {"tag"}
ArgValues == PlaceValues \cup {<<Blank>>} \cup {<<t>> : t \in FallbackTexts}
Arguments == [type : ArgKinds, name : ArgNames, tag : ArgTags, place : Places, value : ArgValues]

\* What arg() keeps is its own, or what its place still holds unless the
\* program touched its memory.
AsTaken(a, m, touched) == Overloads[a.type].keeps = "copy" \/ (~touched => a.value = m[a.place])

EntryRecords ==
    [made : {TRUE}, backend : BOOLEAN, severity : {SeverityOf((EntrySeverity @@ LoggerSeverity)[m]) : m \in Methods},
     tag : {Blank, "Tag"}, format : Formats, args : Seq(Arguments), touched : BOOLEAN]

EntryOK(e, m) ==
    /\ e \in EntryRecords
    /\ e.backend => e.severity >= CompiledSeverity /\ e.severity >= BackendSeverity
    /\ \A i \in 1..Len(e.args) : AsTaken(e.args[i], m, e.touched)

(***************************************************************************)
(* A message is as given because every argument the entry keeps is its own *)
(* or still in its place; a line shows its arguments because no name is    *)
(* inserted into the map of the backend when all of them were given.       *)
(***************************************************************************)
EntriesInv ==
    /\ mem \in [Places -> PlaceValues]
    /\ logEntry.made => EntryOK(logEntry, mem)
    /\ MessagesAreAsGiven /\ LinesShowTheArguments

\* What stands for no entry and no message was not made.
LEMMA NothingMade ==
    ~NoEntry.made /\ ~NoMessage.made
BY DEF NoEntry, NoMessage

\* LinesShowTheArguments of any line and message.
LineShows(line, msg) ==
    line.made =>
        LET told == SyslogTexts(msg.calls)
            f == Placeholders(msg.entry.format)
            given == \A i \in 1..Len(f) : \E j \in 1..Len(told) : told[j].name = f[i]
        IN /\ \A i \in 1..Len(f), j \in 1..Len(told) :
                  (given /\ told[j].name = f[i] /\ \A k \in (j + 1)..Len(told) : told[k].name # f[i])
                      => line.fields[i] = SyslogText(told[j])
           /\ Len(line.extras) = Cardinality({j \in 1..Len(told) : told[j].name \notin ToSet(f)})

\* The property about lines, as one of a line and a message.
LEMMA LinesShown ==
    /\ LinesShowTheArguments <=> LineShows(printed, message)
    /\ LinesShowTheArguments' <=> LineShows(printed', message')
<1>1. LinesShowTheArguments <=> LineShows(printed, message)
    BY DEF LinesShowTheArguments, LineShows
<1>2. LinesShowTheArguments' <=> LineShows(printed', message')
    BY DEF LinesShowTheArguments, LineShows
<1>. QED
    BY <1>1, <1>2, Zenon

\* As long as nothing new is printed, what was printed is as it was.
LEMMA NothingPrinted ==
    ASSUME MessagesAreAsGiven, LinesShowTheArguments, UNCHANGED <<message, printed>>
    PROVE  MessagesAreAsGiven' /\ LinesShowTheArguments'
<1>1. message' = message /\ printed' = printed
    OBVIOUS
<1>2. MessagesAreAsGiven'
    BY <1>1, Zenon DEF MessagesAreAsGiven
<1>3. LinesShowTheArguments'
    BY <1>1, LinesShown, Zenon
<1>. QED
    BY <1>2, <1>3, Zenon

\* Where nothing was logged there is nothing to be wrong.
LEMMA NoMessageIsFine ==
    ASSUME message' = NoMessage, printed' = NoMessage
    PROVE  MessagesAreAsGiven' /\ LinesShowTheArguments'
BY NothingMade, Zenon DEF MessagesAreAsGiven, LinesShowTheArguments

\* make_log_entry begins an entry without arguments, with a backend if its
\* severity is enabled.
LEMMA BeginEntryKeeps ==
    ASSUME EntriesInv, NEW m \in Methods, NEW f \in Formats, BeginEntry(m, f)
    PROVE  EntriesInv'
<1>. DEFINE s == SeverityOf((EntrySeverity @@ LoggerSeverity)[m])
            b == _entry_backend(s)
<1>1. logEntry' = NewEntry(s, f, b) /\ message' = NoMessage /\ printed' = NoMessage
      /\ UNCHANGED <<mem, argMap>>
    BY Zenon DEF BeginEntry
<1>2. s \in {SeverityOf((EntrySeverity @@ LoggerSeverity)[k]) : k \in Methods}
    OBVIOUS
<1>3. b \in BOOLEAN /\ (b => s >= CompiledSeverity /\ s >= BackendSeverity)
    BY Zenon DEF _entry_backend, is_log_level_enabled, entry_backend
<1>. HIDE DEF s, b
<1>4. NewEntry(s, f, b) = [made |-> TRUE, backend |-> b, severity |-> s, tag |-> Blank, format |-> f,
                           args |-> <<>>, touched |-> FALSE]
    BY Zenon DEF NewEntry, Blank
<1>5. EntryOK(NewEntry(s, f, b), mem)
  <2>1. NewEntry(s, f, b) \in EntryRecords
    BY <1>2, <1>3, <1>4 DEF EntryRecords
  <2>. QED
    BY <1>3, <1>4, <2>1 DEF EntryOK
<1>6. EntryOK(logEntry', mem')
    BY <1>1, <1>5, Zenon
<1>7. mem' \in [Places -> PlaceValues]
    BY <1>1, Zenon DEF EntriesInv
<1>8. MessagesAreAsGiven' /\ LinesShowTheArguments'
    BY <1>1, NoMessageIsFine, Zenon
<1>. QED
    BY <1>6, <1>7, <1>8, Zenon DEF EntriesInv

\* An entry with one more argument that is as it was taken.
LEMMA ArgAdded ==
    ASSUME NEW e, NEW m, EntryOK(e, m), NEW a \in Arguments, AsTaken(a, m, e.touched)
    PROVE  EntryOK([e EXCEPT !.args = Append(e.args, a)], m)
<1>1. e \in EntryRecords /\ e.args \in Seq(Arguments) /\ Append(e.args, a) \in Seq(Arguments)
  <2>1. e \in EntryRecords /\ e.args \in Seq(Arguments)
    BY DEF EntryOK, EntryRecords
  <2>. QED
    BY <2>1, AppendProperties, Zenon
<1>2. PICK as \in Seq(Arguments) : as = Append(e.args, a)
    BY <1>1
<1>3. Len(as) = Len(e.args) + 1 /\ as[Len(e.args) + 1] = a /\ \A i \in 1..Len(e.args) : as[i] = e.args[i]
    BY <1>1, <1>2
<1>4. ASSUME NEW i \in 1..Len(as) PROVE AsTaken(as[i], m, e.touched)
  <2>1. i \in 1..Len(e.args) \/ i = Len(e.args) + 1
    BY <1>1, <1>3
  <2>2. ASSUME i \in 1..Len(e.args) PROVE AsTaken(as[i], m, e.touched)
    <3>1. AsTaken(e.args[i], m, e.touched) /\ as[i] = e.args[i]
      BY <1>3, <2>2, Zenon DEF EntryOK
    <3>. QED
      BY <3>1, Zenon
  <2>3. ASSUME i = Len(e.args) + 1 PROVE AsTaken(as[i], m, e.touched)
    <3>1. as[i] = a
      BY <1>3, <2>3, Zenon
    <3>. QED
      BY <3>1, Zenon
  <2>. QED
    BY <2>1, <2>2, <2>3, Zenon
<1>. DEFINE r == [e EXCEPT !.args = as]
<1>5. r \in EntryRecords /\ r.args = as /\ r.backend = e.backend /\ r.severity = e.severity /\ r.touched = e.touched
    BY <1>1 DEF EntryRecords
<1>. HIDE DEF r
<1>6. EntryOK(r, m)
    BY <1>4, <1>5, Zenon DEF EntryOK
<1>. QED
    BY <1>2, <1>6, Zenon DEF r

\* arg() keeps the argument if there is a backend.
LEMMA KeepArgKeeps ==
    ASSUME EntriesInv, NEW a \in Arguments, KeepArg(a),
           Overloads[a.type].keeps = "copy" \/ a.value = mem[a.place]
    PROVE  EntriesInv'
<1>1. /\ logEntry.made
      /\ logEntry' = IF logEntry.backend THEN [logEntry EXCEPT !.args = Append(logEntry.args, a)] ELSE logEntry
      /\ UNCHANGED <<mem, message, argMap, printed>>
    BY DEF KeepArg
<1>2. EntryOK(logEntry, mem)
    BY <1>1, Zenon DEF EntriesInv
<1>3. AsTaken(a, mem, logEntry.touched)
    BY Zenon DEF AsTaken
<1>4. EntryOK(logEntry', mem')
    BY <1>1, <1>2, <1>3, ArgAdded, Zenon
<1>5. mem' \in [Places -> PlaceValues]
    BY <1>1, Zenon DEF EntriesInv
<1>6. MessagesAreAsGiven' /\ LinesShowTheArguments'
    BY <1>1, NothingPrinted, Zenon DEF EntriesInv
<1>. QED
    BY <1>4, <1>5, <1>6, Zenon DEF EntriesInv

\* The arguments a caller can give.
LEMMA CallArgKeeps ==
    ASSUME EntriesInv, NEW t \in ArgTypes, NEW n \in ArgNames, NEW p \in Places, CallArg(t, n, p)
    PROVE  EntriesInv'
<1>1. /\ t \in ArgKinds /\ "nothing" \in ArgKinds /\ DefaultTag(t) \in ArgTags /\ "tag" \in ArgTags
      /\ mem[p] \in ArgValues /\ <<Blank>> \in ArgValues
  <2>1. t \in ArgKinds /\ "nothing" \in ArgKinds
    BY Zenon DEF ArgKinds
  <2>2. mem[p] \in PlaceValues
    BY DEF EntriesInv
  <2>. QED
    BY <2>1, <2>2, Zenon DEF ArgTags, ArgValues
<1>2. ASSUME NEW k \in ArgKinds, NEW g \in ArgTags, NEW v \in ArgValues, KeepArg(NewArg(k, n, g, p, v)),
             Overloads[k].keeps = "copy" \/ v = mem[p]
      PROVE  EntriesInv'
  <2>. DEFINE a == NewArg(k, n, g, p, v)
  <2>1. a \in Arguments /\ a.type = k /\ a.value = v /\ a.place = p
    BY DEF NewArg, Arguments
  <2>. HIDE DEF a
  <2>2. Overloads[a.type].keeps = "copy" \/ a.value = mem[a.place]
    BY <1>2, <2>1, Zenon
  <2>. QED
    BY <1>2, <2>1, <2>2, KeepArgKeeps, Zenon DEF a
<1>3. CASE KeepArg(NewArg(t, n, DefaultTag(t), p, mem[p]))
    BY <1>1, <1>2, <1>3, Zenon
<1>4. ASSUME NEW has \in BOOLEAN, KeepArg(OkArg(has, t, n, "tag", p, mem[p])) PROVE EntriesInv'
  <2>1. OkArg(has, t, n, "tag", p, mem[p])
            = IF has THEN NewArg(t, n, "tag", p, mem[p]) ELSE NewArg("nothing", n, "tag", p, <<Blank>>)
    BY Zenon DEF OkArg, Blank
  <2>2. CASE has
    BY <1>1, <1>2, <1>4, <2>1, <2>2, Zenon
  <2>3. CASE ~has
    BY <1>1, <1>2, <1>4, <2>1, <2>3, FallbacksAreCopied, Zenon
  <2>. QED
    BY <2>2, <2>3
<1>5. ASSUME NEW k \in FallbackTypes, NEW x \in FallbackTexts,
             KeepArg(EitherArg(FALSE, t, n, "tag", p, mem[p], k, <<x>>))
             \/ KeepArg(OptionalArg(FALSE, t, n, "tag", p, mem[p], k, <<x>>))
      PROVE  EntriesInv'
  <2>1. EitherArg(FALSE, t, n, "tag", p, mem[p], k, <<x>>) = NewArg(k, n, DefaultTag(k), p, <<x>>)
    BY Zenon DEF EitherArg
  <2>2. OptionalArg(FALSE, t, n, "tag", p, mem[p], k, <<x>>) = NewArg(k, n, "tag", p, <<x>>)
    BY Zenon DEF OptionalArg
  <2>3. k \in ArgKinds /\ DefaultTag(k) \in ArgTags /\ <<x>> \in ArgValues
    <3>1. k \in ArgKinds
      BY Zenon DEF ArgKinds
    <3>. QED
      BY <3>1, Zenon DEF ArgTags, ArgValues
  <2>4. Overloads[k].keeps = "copy"
    BY FallbacksAreCopied, Zenon
  <2>. QED
    BY <1>1, <1>2, <1>5, <2>1, <2>2, <2>3, <2>4, Zenon
<1>. QED
    BY <1>3, <1>4, <1>5, Zenon DEF CallArg

\* tag() changes nothing about the arguments.
LEMMA TagEntryKeeps ==
    ASSUME EntriesInv, TagEntry
    PROVE  EntriesInv'
<1>1. /\ logEntry.made /\ logEntry' = [logEntry EXCEPT !.tag = "Tag"]
      /\ UNCHANGED <<mem, message, argMap, printed>>
    BY Zenon DEF TagEntry
<1>2. EntryOK(logEntry, mem)
    BY <1>1, Zenon DEF EntriesInv
<1>3. /\ logEntry' \in EntryRecords /\ logEntry'.args = logEntry.args /\ logEntry'.backend = logEntry.backend
      /\ logEntry'.severity = logEntry.severity /\ logEntry'.touched = logEntry.touched
    BY <1>1, <1>2 DEF EntryOK, EntryRecords
<1>4. EntryOK(logEntry', mem')
    BY <1>1, <1>2, <1>3, Zenon DEF EntryOK
<1>5. mem' \in [Places -> PlaceValues]
    BY <1>1, Zenon DEF EntriesInv
<1>6. MessagesAreAsGiven' /\ LinesShowTheArguments'
    BY <1>1, NothingPrinted, Zenon DEF EntriesInv
<1>. QED
    BY <1>4, <1>5, <1>6, Zenon DEF EntriesInv

\* A program that changes memory marks the entry as touched.
LEMMA ChangeMemoryKeeps ==
    ASSUME EntriesInv, NEW p \in Places, NEW v \in PlaceValues, ChangeMemory(p, v)
    PROVE  EntriesInv'
<1>1. /\ logEntry.made /\ logEntry' = [logEntry EXCEPT !.touched = TRUE]
      /\ mem' = [mem EXCEPT ![p] = v]
      /\ UNCHANGED <<message, argMap, printed>>
    BY Zenon DEF ChangeMemory
<1>2. EntryOK(logEntry, mem)
    BY <1>1, Zenon DEF EntriesInv
<1>3. /\ logEntry' \in EntryRecords /\ logEntry'.args = logEntry.args /\ logEntry'.backend = logEntry.backend
      /\ logEntry'.severity = logEntry.severity /\ logEntry'.touched
    BY <1>1, <1>2 DEF EntryOK, EntryRecords
<1>4. EntryOK(logEntry', mem')
  <2>1. \A i \in 1..Len(logEntry.args) : AsTaken(logEntry.args[i], mem', logEntry'.touched)
    BY <1>2, <1>3, Zenon DEF EntryOK, AsTaken
  <2>2. \A i \in 1..Len(logEntry'.args) : AsTaken(logEntry'.args[i], mem', logEntry'.touched)
    BY <1>3, <2>1, Zenon
  <2>. QED
    BY <1>2, <1>3, <2>2, Zenon DEF EntryOK
<1>5. mem' \in [Places -> PlaceValues]
    BY <1>1 DEF EntriesInv
<1>6. MessagesAreAsGiven' /\ LinesShowTheArguments'
    BY <1>1, NothingPrinted, Zenon DEF EntriesInv
<1>. QED
    BY <1>4, <1>5, <1>6, Zenon DEF EntriesInv

\* Among is the last of the parts.
LEMMA AmongIsParts ==
    ASSUME NEW X, NEW s \in Seq(X), NEW S
    PROVE  \E f : Parts(f, s, S, Len(s)) /\ Among(s, S) = f[Len(s)]
<1>. DEFINE kept == CHOOSE f : Parts(f, s, S, Len(s))
<1>1. Among(s, S) = kept[Len(s)]
    BY Zenon DEF Among, Parts
<1>2. \E f : Parts(f, s, S, Len(s))
  <2>1. Len(s) \in 0..Len(s)
    OBVIOUS
  <2>. QED
    BY <2>1, PartsExist, Zenon
<1>3. Parts(kept, s, S, Len(s))
    BY <1>2, Zenon
<1>. QED
    BY <1>1, <1>3, Zenon

\* The places of those members.
In(s, S, n) == {j \in 1..n : s[j] \in S}

\* The positions up to n + 1 that are in a set, from those up to n.
LEMMA InFacts ==
    ASSUME NEW s, NEW S, NEW n \in Nat
    PROVE  /\ IsFiniteSet(In(s, S, n)) /\ Cardinality(In(s, S, n)) \in Nat
           /\ s[n + 1] \in S => Cardinality(In(s, S, n + 1)) = Cardinality(In(s, S, n)) + 1
           /\ s[n + 1] \notin S => In(s, S, n + 1) = In(s, S, n)
<1>1. IsFiniteSet(1..n)
  <2>1. 1 \in Int /\ n \in Int
    OBVIOUS
  <2>. QED
    BY <2>1, FS_Interval, Zenon
<1>2. In(s, S, n) \in SUBSET (1..n)
    BY DEF In
<1>3. IsFiniteSet(In(s, S, n)) /\ Cardinality(In(s, S, n)) \in Nat
    BY <1>1, <1>2, FS_Subset, FS_CardinalityType, Zenon
<1>4. n + 1 \notin In(s, S, n)
    BY DEF In
<1>5. ASSUME s[n + 1] \in S PROVE Cardinality(In(s, S, n + 1)) = Cardinality(In(s, S, n)) + 1
  <2>1. In(s, S, n + 1) = In(s, S, n) \cup {n + 1}
    BY <1>5 DEF In
  <2>. QED
    BY <1>3, <1>4, <2>1, FS_AddElement
<1>6. ASSUME s[n + 1] \notin S PROVE In(s, S, n + 1) = In(s, S, n)
    BY <1>6 DEF In
<1>. QED
    BY <1>3, <1>5, <1>6

\* r ends with the last member of the first k that is in the set.
EndsWith(r, s, S, k) ==
    \A j \in 1..k : (s[j] \in S /\ \A i \in (j + 1)..k : s[i] \notin S) => r # <<>> /\ r[Len(r)] = s[j]

\* One more member of the sequence.
LEMMA OneMore ==
    ASSUME NEW X, NEW s \in Seq(X), NEW S, NEW k \in Nat, k + 1 <= Len(s),
           NEW r \in Seq(X \cap S), Len(r) = Cardinality(In(s, S, k)), EndsWith(r, s, S, k),
           NEW q, q = IF s[k + 1] \in S THEN Append(r, s[k + 1]) ELSE r
    PROVE  q \in Seq(X \cap S) /\ Len(q) = Cardinality(In(s, S, k + 1)) /\ EndsWith(q, s, S, k + 1)
<1>1. CASE s[k + 1] \in S
  <2>1. s[k + 1] \in X \cap S
    BY <1>1
  <2>2. q = Append(r, s[k + 1])
    BY <1>1
  <2>3. q \in Seq(X \cap S) /\ Len(q) = Len(r) + 1 /\ q[Len(r) + 1] = s[k + 1]
    BY <2>1, <2>2, AppendProperties
  <2>4. Len(q) = Cardinality(In(s, S, k + 1))
    <3>1. Cardinality(In(s, S, k + 1)) = Cardinality(In(s, S, k)) + 1
      BY <1>1, InFacts
    <3>. QED
      BY <2>3, <3>1
  <2>5. ASSUME NEW j \in 1..(k + 1), \A i \in (j + 1)..(k + 1) : s[i] \notin S
        PROVE  q # <<>> /\ q[Len(q)] = s[j]
    <3>1. j = k + 1
      BY <1>1, <2>5
    <3>2. q # <<>>
      <4>1. Len(r) \in Nat /\ Len(<<>>) = 0
        OBVIOUS
      <4>2. Len(q) # 0
        BY <2>3, <4>1
      <4>. QED
        BY <4>1, <4>2, Zenon
    <3>. QED
      BY <2>3, <3>1, <3>2
  <2>6. EndsWith(q, s, S, k + 1)
    BY <2>5, Zenon DEF EndsWith
  <2>. QED
    BY <2>3, <2>4, <2>6, Zenon
<1>2. CASE s[k + 1] \notin S
  <2>1. q = r /\ In(s, S, k + 1) = In(s, S, k)
    BY <1>2, InFacts
  <2>2. ASSUME NEW j \in 1..(k + 1), s[j] \in S, \A i \in (j + 1)..(k + 1) : s[i] \notin S
        PROVE  r # <<>> /\ r[Len(r)] = s[j]
    <3>1. j \in 1..k
      BY <1>2, <2>2
    <3>2. \A i \in (j + 1)..k : i \in (j + 1)..(k + 1)
      OBVIOUS
    <3>3. \A i \in (j + 1)..k : s[i] \notin S
      BY <2>2, <3>2, Zenon
    <3>. QED
      BY <2>2, <3>1, <3>3, Zenon DEF EndsWith
  <2>3. EndsWith(r, s, S, k + 1)
    BY <2>2, Zenon DEF EndsWith
  <2>. QED
    BY <2>1, <2>3, Zenon
<1>. QED
    BY <1>1, <1>2

\* Among keeps the order, the number and the last of the members.
LEMMA AmongFacts ==
    ASSUME NEW X, NEW s \in Seq(X), NEW S
    PROVE  /\ Among(s, S) \in Seq(X \cap S)
           /\ Len(Among(s, S)) = Cardinality(In(s, S, Len(s)))
           /\ EndsWith(Among(s, S), s, S, Len(s))
<1>1. PICK f : Parts(f, s, S, Len(s)) /\ Among(s, S) = f[Len(s)]
    BY AmongIsParts, Zenon
<1>2. Len(s) \in Nat
    OBVIOUS
<1>3. OneByOne(f, s, S, Len(s))
    BY <1>1, <1>2, PartsFacts, Zenon
<1>. DEFINE Good(k) == /\ f[k] \in Seq(X \cap S) /\ Len(f[k]) = Cardinality(In(s, S, k))
                       /\ EndsWith(f[k], s, S, k)
            N == {k \in Nat : k <= Len(s) => Good(k)}
<1>4. 0 \in N
  <2>1. f[0] = <<>>
    BY <1>3, Zenon DEF OneByOne
  <2>2. In(s, S, 0) = {}
    BY DEF In
  <2>3. Cardinality({}) = 0
    BY FS_EmptySet, Zenon
  <2>4. EndsWith(<<>>, s, S, 0)
    BY DEF EndsWith
  <2>5. <<>> \in Seq(X \cap S) /\ Len(<<>>) = 0
    OBVIOUS
  <2>6. Good(0)
    BY <2>1, <2>2, <2>3, <2>4, <2>5, Zenon
  <2>. QED
    BY <2>6
<1>5. ASSUME NEW k \in Nat, k \in N PROVE k + 1 \in N
  <2>. SUFFICES ASSUME k + 1 <= Len(s) PROVE Good(k + 1)
    OBVIOUS
  <2>1. Good(k)
    <3>1. k <= Len(s)
      BY <1>2
    <3>. QED
      BY <1>5, <3>1
  <2>2. f[k + 1] = IF s[k + 1] \in S THEN Append(f[k], s[k + 1]) ELSE f[k]
    <3>1. k + 1 \in 1..Len(s) /\ (k + 1) - 1 = k
      BY <1>2
    <3>2. f[k + 1] = IF s[k + 1] \in S THEN Append(f[(k + 1) - 1], s[k + 1]) ELSE f[(k + 1) - 1]
      BY <1>3, <3>1 DEF OneByOne
    <3>. QED
      BY <3>1, <3>2
  <2>. QED
    BY <2>1, <2>2, OneMore, Zenon
<1>. HIDE DEF N
<1>6. Nat \subseteq N
    BY <1>4, <1>5, SetInduction, Zenon
<1>7. Good(Len(s))
    BY <1>2, <1>6 DEF N
<1>. QED
    BY <1>1, <1>7, Zenon

\* What joins sequences over a set is a sequence over it.
LEMMA JoinedSeq ==
    ASSUME NEW X, NEW ss \in Seq(Seq(X)), Len(ss) # 0, NEW f, Chained(f, ss)
    PROVE  f[Len(ss)] \in Seq(X)
<1>. DEFINE N == {k \in Nat : k + 1 <= Len(ss) => f[k + 1] \in Seq(X)}
<1>0. Len(ss) \in Nat \ {0} /\ \A i \in 1..Len(ss) : ss[i] \in Seq(X)
    OBVIOUS
<1>1. \A i \in 1..Len(ss) : f[i] = IF i = 1 THEN ss[i] ELSE f[i - 1] \o ss[i]
    BY Zenon DEF Chained
<1>2. 0 \in N
    BY <1>0, <1>1
<1>3. ASSUME NEW k \in Nat, k \in N PROVE k + 1 \in N
  <2>. SUFFICES ASSUME (k + 1) + 1 <= Len(ss) PROVE f[(k + 1) + 1] \in Seq(X)
    OBVIOUS
  <2>1. f[k + 1] \in Seq(X) /\ ss[(k + 1) + 1] \in Seq(X)
    BY <1>0, <1>3
  <2>2. (k + 1) + 1 \in 1..Len(ss) /\ (k + 1) + 1 # 1 /\ ((k + 1) + 1) - 1 = k + 1
    BY <1>0
  <2>3. f[(k + 1) + 1] = f[k + 1] \o ss[(k + 1) + 1]
    BY <1>1, <2>2
  <2>. QED
    BY <2>1, <2>3, ConcatProperties, Zenon
<1>. HIDE DEF N
<1>4. Nat \subseteq N
    BY <1>2, <1>3, SetInduction, Zenon
<1>5. Len(ss) - 1 \in N /\ (Len(ss) - 1) + 1 = Len(ss)
    BY <1>0, <1>4
<1>. QED
    BY <1>0, <1>5 DEF N

\* FlattenSeq of sequences over a set is a sequence over it.
LEMMA FlattenSeqType ==
    ASSUME NEW X, NEW ss \in Seq(Seq(X))
    PROVE  FlattenSeq(ss) \in Seq(X)
<1>1. CASE Len(ss) = 0
  <2>1. ss = <<>>
    BY <1>1, EmptySeq
  <2>2. FlattenSeq(ss) = ss
    BY <1>1, Zenon DEF FlattenSeq
  <2>. QED
    BY <2>1, <2>2, EmptySeq
<1>2. CASE Len(ss) # 0
  <2>. DEFINE flatten == CHOOSE f : Chained(f, ss)
  <2>1. FlattenSeq(ss) = flatten[Len(ss)]
    BY <1>2, Zenon DEF FlattenSeq, Chained
  <2>2. Chained(flatten, ss)
    BY <1>2, ChainsExist, Zenon
  <2>. HIDE DEF flatten
  <2>. QED
    BY <1>2, <2>1, <2>2, JoinedSeq, Zenon
<1>. QED
    BY <1>1, <1>2

IsSequence(q) == \E n \in Nat : q = [i \in 1..n |-> q[i]]

\* Sequences of anything are joined to a sequence of what is in them.
LEMMA SequencesJoin ==
    ASSUME NEW n \in Nat, NEW ss, ss = [i \in 1..n |-> ss[i]], \A i \in 1..n : IsSequence(ss[i])
    PROVE  FlattenSeq(ss) \in Seq(ToSet(FlattenSeq(ss)))
<1>. DEFINE X == UNION {ToSet(ss[i]) : i \in 1..n}
<1>1. ASSUME NEW i \in 1..n PROVE ss[i] \in Seq(X)
  <2>1. PICK k \in Nat : ss[i] = [j \in 1..k |-> ss[i][j]]
    BY DEF IsSequence
  <2>2. \A j \in 1..k : ss[i][j] \in ToSet(ss[i])
    BY <2>1 DEF ToSet
  <2>3. \A j \in 1..k : ss[i][j] \in X
    BY <2>2
  <2>. HIDE DEF X
  <2>. QED
    BY <2>1, <2>3
<1>. HIDE DEF X
<1>2. ss \in Seq(Seq(X))
    BY <1>1
<1>3. PICK r \in Seq(X) : r = FlattenSeq(ss)
    BY <1>2, FlattenSeqType, Zenon
<1>4. r \in Seq(ToSet(r))
  <2>1. \A j \in 1..Len(r) : r[j] \in ToSet(r)
    BY DEF ToSet
  <2>2. r = [j \in 1..Len(r) |-> r[j]] /\ Len(r) \in Nat
    OBVIOUS
  <2>. QED
    BY <2>1, <2>2
<1>. QED
    BY <1>3, <1>4, Zenon

\* Every overload is of a form that ArgCalls knows.
Forms == {"one", "pointer", "each", "range", "tribool", "error", "version"}
Formal(g) == \A type \in DOMAIN g : g[type].form \in Forms

\* The form of an overload made by One, Formed and Viewed.
LEMMA FormsOf ==
    ASSUME NEW c, NEW t, NEW f
    PROVE  /\ One(c, t).form = "one" /\ Formed(One(c, t), f).form = f
           /\ Viewed(One(c, t)).form = "one" /\ Viewed(Formed(One(c, t), f)).form = f
BY DEF One, Formed, Viewed

\* Every overload has one of the forms that ArgCalls knows.
LEMMA OverloadForms ==
    \A type \in DOMAIN Overloads : Overloads[type].form \in Forms
<1>1. Formal(IdArgs) /\ Formal(Int64Args) /\ Formal(Int32Args) /\ Formal(Int16Args)
  <2>1. Formal(IdArgs)
    BY FormsOf DEF Formal, Forms, IdArgs
  <2>2. Formal(Int64Args)
    BY FormsOf DEF Formal, Forms, Int64Args
  <2>3. Formal(Int32Args)
    BY FormsOf DEF Formal, Forms, Int32Args
  <2>4. Formal(Int16Args)
    BY FormsOf DEF Formal, Forms, Int16Args
  <2>. QED
    BY <2>1, <2>2, <2>3, <2>4
<1>2. Formal(UnsignedArgs) /\ Formal(FloatArgs) /\ Formal(TextArgs)
  <2>1. Formal(UnsignedArgs)
    BY FormsOf DEF Formal, Forms, UnsignedArgs
  <2>2. Formal(FloatArgs)
    BY FormsOf DEF Formal, Forms, FloatArgs
  <2>3. Formal(TextArgs)
    BY FormsOf DEF Formal, Forms, TextArgs
  <2>. QED
    BY <2>1, <2>2, <2>3
<1>3. Formal(AdaptedArgs)
  <2>1. DOMAIN AdaptedArgs = {"yes_no_maybe", "enum_signed", "enum_unsigned", "exception", "runtime_error",
                              "system_error", "string_path", "fs_path", "fs_error", "program_arg", "version"}
    BY DEF AdaptedArgs
  <2>2. /\ AdaptedArgs.yes_no_maybe.form = "tribool" /\ AdaptedArgs.enum_signed.form = "one"
        /\ AdaptedArgs.enum_unsigned.form = "one" /\ AdaptedArgs.exception.form = "one"
    BY FormsOf DEF AdaptedArgs
  <2>3. /\ AdaptedArgs.runtime_error.form = "one" /\ AdaptedArgs.system_error.form = "error"
        /\ AdaptedArgs.string_path.form = "one" /\ AdaptedArgs.fs_path.form = "one"
    BY FormsOf DEF AdaptedArgs
  <2>4. /\ AdaptedArgs.fs_error.form = "error" /\ AdaptedArgs.program_arg.form = "one"
        /\ AdaptedArgs.version.form = "version"
    BY FormsOf DEF AdaptedArgs
  <2>. QED
    BY <2>1, <2>2, <2>3, <2>4 DEF Formal, Forms
<1>4. Formal(EnumArgs) /\ Formal(BackendArgs)
  <2>1. Formal(EnumArgs)
    BY FormsOf DEF Formal, Forms, EnumArgs
  <2>2. Formal(BackendArgs)
    BY FormsOf DEF Formal, Forms, BackendArgs
  <2>. QED
    BY <2>1, <2>2
<1>5. \A g \in OverloadGroups : Formal(g)
    BY <1>1, <1>2, <1>3, <1>4, Zenon DEF OverloadGroups
<1>. DEFINE group(n) == CHOOSE g \in OverloadGroups : n \in DOMAIN g
<1>6. DOMAIN Overloads = UNION {DOMAIN g : g \in OverloadGroups}
      /\ \A n \in DOMAIN Overloads : Overloads[n] = group(n)[n]
    BY Zenon DEF Overloads
<1>7. ASSUME NEW n \in DOMAIN Overloads PROVE Overloads[n].form \in Forms
  <2>1. \E g \in OverloadGroups : n \in DOMAIN g
    BY <1>6
  <2>2. group(n) \in OverloadGroups /\ n \in DOMAIN group(n)
    BY <2>1, Zenon
  <2>. HIDE DEF group
  <2>. QED
    BY <1>5, <1>6, <2>2, Zenon DEF Formal
<1>. QED
    BY <1>7, Zenon

\* The calls for an argument are a sequence.
LEMMA ArgCallsAreSequences ==
    ASSUME NEW type \in DOMAIN Overloads, NEW name, NEW tag, NEW value, Len(value) \in Nat
    PROVE  IsSequence(ArgCalls(type, name, tag, value))
<1>1. ASSUME NEW n \in Nat, NEW q, q = [i \in 1..n |-> q[i]] PROVE IsSequence(q)
    BY <1>1, Zenon DEF IsSequence
<1>2. \A x : IsSequence(<<x>>)
  <2>1. \A x : <<x>> = [i \in 1..1 |-> <<x>>[i]]
    OBVIOUS
  <2>. QED
    BY <2>1 DEF IsSequence
<1>3. \A x, y : IsSequence(<<x, y>>)
  <2>1. \A x, y : <<x, y>> = [i \in 1..2 |-> <<x, y>>[i]]
    OBVIOUS
  <2>. QED
    BY <2>1 DEF IsSequence
<1>. DEFINE o == Overloads[type]
<1>4. o.form \in Forms
    BY OverloadForms
<1>5. CASE o.form = "one"
    BY <1>2, <1>5 DEF ArgCalls
<1>6. CASE o.form = "each"
    BY <1>6 DEF ArgCalls, IsSequence
<1>7. CASE o.form = "range"
    BY <1>2, <1>7 DEF ArgCalls
<1>8. CASE o.form = "tribool"
    BY <1>2, <1>8 DEF ArgCalls
<1>9. CASE o.form = "error"
    BY <1>3, <1>9 DEF ArgCalls
<1>10. CASE o.form = "version"
    BY <1>10 DEF ArgCalls, IsSequence
<1>11. CASE o.form = "pointer"
    BY <1>2, <1>11 DEF ArgCalls
<1>. QED
    BY <1>4, <1>5, <1>6, <1>7, <1>8, <1>9, <1>10, <1>11 DEF Forms

\* The constants of the entries, without the empty string.
LEMMA EntryFacts ==
    /\ ArgKinds \subseteq DOMAIN Overloads
    /\ \A v \in ArgValues : Len(v) \in Nat
    /\ Formats \subseteq Seq(ArgNames \cup {Blank})
<1>1. ArgKinds \subseteq DOMAIN Overloads
    BY ArgTypesAssumption, FallbacksAreCopied, Zenon DEF ArgKinds
<1>2. \A v \in PlaceValues : Len(v) \in Nat
    BY LogEntriesAssumption
<1>3. Len(<<Blank>>) = 1 /\ \A t \in FallbackTexts : Len(<<t>>) = 1
    OBVIOUS
<1>4. Formats \subseteq Seq(ArgNames \cup {Blank})
    BY LogEntriesAssumption, Zenon DEF Blank
<1>. QED
    BY <1>1, <1>2, <1>3, <1>4 DEF ArgValues

\* The calls an entry makes are a sequence, and those of its arguments as
\* they were given if none of them can have changed.
LEMMA EntryCallsFacts ==
    ASSUME NEW e, EntryOK(e, mem), mem \in [Places -> PlaceValues]
    PROVE  /\ EntryCalls(e) \in Seq(ToSet(EntryCalls(e)))
           /\ (~e.touched \/ \A i \in 1..Len(e.args) : Overloads[e.args[i].type].keeps = "copy")
                => EntryCalls(e) = FlattenSeq([i \in 1..Len(e.args) |-> CallsAsGiven(e.args[i])])
<1>. DEFINE as == e.args
            n == Len(e.args)
            ss == [i \in 1..n |-> ArgCalls(as[i].type, as[i].name, as[i].tag, Kept(as[i]))]
            given == [i \in 1..n |-> CallsAsGiven(as[i])]
<1>1. as \in Seq(Arguments) /\ n \in Nat
    BY DEF EntryOK, EntryRecords
<1>2. EntryCalls(e) = FlattenSeq(ss)
    BY Zenon DEF EntryCalls
<1>3. ASSUME NEW i \in 1..n
      PROVE  IsSequence(ArgCalls(as[i].type, as[i].name, as[i].tag, Kept(as[i])))
  <2>1. as[i] \in Arguments
    BY <1>1
  <2>2. as[i].type \in ArgKinds /\ as[i].value \in ArgValues /\ as[i].place \in Places
    BY <2>1 DEF Arguments
  <2>3. mem[as[i].place] \in ArgValues
    BY <2>2 DEF ArgValues
  <2>4. Kept(as[i]) \in ArgValues
    BY <2>2, <2>3, Zenon DEF Kept
  <2>. QED
    BY <2>2, <2>4, EntryFacts, ArgCallsAreSequences, Zenon
<1>4. \A i \in 1..n : IsSequence(ss[i])
    BY <1>3
<1>5. ss = [i \in 1..n |-> ss[i]]
    OBVIOUS
<1>6. ASSUME ~e.touched \/ \A i \in 1..n : Overloads[as[i].type].keeps = "copy"
      PROVE  ss = given
  <2>1. ASSUME NEW i \in 1..n
        PROVE  ArgCalls(as[i].type, as[i].name, as[i].tag, Kept(as[i])) = CallsAsGiven(as[i])
    <3>1. AsTaken(as[i], mem, e.touched)
      BY Zenon DEF EntryOK
    <3>2. Kept(as[i]) = as[i].value
      BY <1>6, <3>1, Zenon DEF Kept, AsTaken
    <3>. QED
      BY <3>2, Zenon DEF CallsAsGiven
  <2>. QED
    BY <2>1, Zenon
<1>. HIDE DEF ss, given, as, n
<1>7. FlattenSeq(ss) \in Seq(ToSet(FlattenSeq(ss)))
    BY <1>1, <1>4, <1>5, SequencesJoin, Zenon
<1>. QED
    BY <1>2, <1>6, <1>7, Zenon DEF given, as, n

\* The texts of the calls, and the names in a format.
LEMMA TextsFacts ==
    ASSUME NEW given, given \in Seq(ToSet(given)), NEW f \in Formats
    PROVE  /\ SyslogTexts(given) \in Seq(ToSet(given))
           /\ Placeholders(f) \in Seq(ArgNames)
<1>1. SyslogTexts(given) \in Seq(ToSet(given))
  <2>. DEFINE S == {c \in ToSet(given) : HasText(c)}
  <2>1. Among(given, S) \in Seq(ToSet(given) \cap S)
    BY AmongFacts, Zenon
  <2>2. Among(given, S) \in Seq(ToSet(given))
    BY <2>1
  <2>. QED
    BY <2>2, Zenon DEF SyslogTexts
<1>2. Placeholders(f) \in Seq(ArgNames)
  <2>1. f \in Seq(ArgNames \cup {Blank})
    BY EntryFacts, Zenon
  <2>2. Placeholders(f) = Among(f, ToSet(f) \ {Blank})
    BY Zenon DEF Placeholders, Blank
  <2>3. Among(f, ToSet(f) \ {Blank}) \in Seq((ArgNames \cup {Blank}) \cap (ToSet(f) \ {Blank}))
    BY <2>1, AmongFacts, Zenon
  <2>. QED
    BY <2>2, <2>3
<1>. QED
    BY <1>1, <1>2

\* What the map has after the calls of a message.
LastNamed(texts, n, j) ==
    j \in 1..Len(texts) /\ texts[j].name = n /\ \A k \in (j + 1)..Len(texts) : texts[k].name # n

GivenLast(map, names, given, n, j) ==
    /\ SyslogTexts(given) \in Seq(ToSet(given))
    /\ n \in ToSet(names) /\ LastNamed(SyslogTexts(given), n, j)
Mapped(map, names, given, n, j) ==
    /\ n \in DOMAIN MapAfter(map, names, given)
    /\ MapAfter(map, names, given)[n] = SyslogText(SyslogTexts(given)[j])

\* arg_map has for a name in the format the text last given under it.
LEMMA MapFacts ==
    ASSUME NEW given, NEW names, NEW map, NEW n, NEW j, GivenLast(map, names, given, n, j)
    PROVE  Mapped(map, names, given, n, j)
<1>. DEFINE texts == SyslogTexts(given)
            S == {c \in ToSet(texts) : c.name = n}
            mine == CallsOf(n, texts)
<1>0. /\ j \in 1..Len(texts) /\ texts[j].name = n /\ \A k \in (j + 1)..Len(texts) : texts[k].name # n
      /\ SyslogTexts(given) \in Seq(ToSet(given)) /\ n \in ToSet(names)
    BY Zenon DEF LastNamed, GivenLast
<1>1. mine = Among(texts, S)
    BY Zenon DEF CallsOf
<1>2. EndsWith(Among(texts, S), texts, S, Len(texts))
    BY <1>0, AmongFacts, Zenon
<1>3. texts[j] \in S /\ \A k \in (j + 1)..Len(texts) : texts[k] \notin S
  <2>1. texts[j] \in ToSet(texts)
    BY <1>0 DEF ToSet
  <2>. QED
    BY <1>0, <2>1, Zenon
<1>. HIDE DEF S
<1>4. Among(texts, S) # <<>> /\ Among(texts, S)[Len(Among(texts, S))] = texts[j]
    BY <1>0, <1>2, <1>3, Zenon DEF EndsWith
<1>5. mine # <<>> /\ mine[Len(mine)] = texts[j]
    BY <1>1, <1>4, Zenon
<1>. HIDE DEF texts
<1>6. TextsFor(n, given) = mine
    BY Zenon DEF TextsFor, texts
<1>. HIDE DEF mine
<1>7. n \in Assigned(names, given)
    BY <1>0, <1>5, <1>6, Zenon DEF Assigned
<1>8. n \in DOMAIN MapAfter(map, names, given)
      /\ MapAfter(map, names, given)[n] = SyslogText(TextsFor(n, given)[Len(TextsFor(n, given))])
    BY <1>7, Zenon DEF MapAfter
<1>. QED
    BY <1>5, <1>6, <1>8, Zenon DEF Mapped, texts

\* Every name of a format was given a text.
AllGiven(names, texts) == \A i \in 1..Len(names) : \E j \in 1..Len(texts) : texts[j].name = names[i]
MissesNothing(map, names) == Missing(map, names) = {}

\* Then arg_map has them all.
LEMMA NothingMissing ==
    ASSUME NEW given, NEW names, NEW map, names \in Seq(ArgNames),
           SyslogTexts(given) \in Seq(ToSet(given)), AllGiven(names, SyslogTexts(given))
    PROVE  MissesNothing(MapAfter(map, names, given), names)
<1>. DEFINE texts == SyslogTexts(given)
<1>1. ASSUME NEW n \in ToSet(names) PROVE n \in DOMAIN MapAfter(map, names, given)
  <2>1. \E i \in 1..Len(names) : names[i] = n
    BY DEF ToSet
  <2>2. \E j \in 1..Len(texts) : texts[j].name = n
    BY <2>1, Zenon DEF AllGiven
  <2>3. PICK j \in 1..Len(texts) : texts[j].name = n
    BY <2>2
  <2>. DEFINE S == {c \in ToSet(texts) : c.name = n}
  <2>4. texts[j] \in S
    <3>1. texts[j] \in ToSet(texts)
      BY DEF ToSet
    <3>. QED
      BY <2>3, <3>1
  <2>5. j \in In(texts, S, Len(texts))
    BY <2>4, Zenon DEF In
  <2>6. Among(texts, S) # <<>>
    <3>. HIDE DEF S, texts
    <3>1. texts \in Seq(ToSet(given))
      BY Zenon DEF texts
    <3>2. Len(Among(texts, S)) = Cardinality(In(texts, S, Len(texts)))
      BY <3>1, AmongFacts, Zenon
    <3>3. Len(texts) \in Nat
      BY <3>1, LenProperties, Zenon
    <3>4. IsFiniteSet(In(texts, S, Len(texts)))
      BY <3>3, InFacts, Zenon
    <3>5. Cardinality(In(texts, S, Len(texts))) # 0
      BY <2>5, <3>4, FS_EmptySet, Zenon
    <3>6. Len(<<>>) = 0
      OBVIOUS
    <3>. QED
      BY <3>2, <3>5, <3>6, Zenon
  <2>7. TextsFor(n, given) = Among(texts, S)
    BY Zenon DEF TextsFor, CallsOf
  <2>. HIDE DEF S
  <2>8. n \in Assigned(names, given)
    BY <2>6, <2>7, Zenon DEF Assigned
  <2>. QED
    BY <2>8, Zenon DEF MapAfter
<1>. QED
    BY <1>1, Zenon DEF Missing, MissesNothing

\* The field of a name that arg_map has, when no name is inserted.
FieldIsKept(map, f, bad, i) == SyslogField(map, f, bad, i) = map[f[i]]

LEMMA FieldsStay ==
    ASSUME NEW map, NEW f, MissesNothing(map, f), NEW bad \in SUBSET Dangling(map, f), NEW i, f[i] \in DOMAIN map
    PROVE  FieldIsKept(map, f, bad, i)
<1>1. bad = {}
    BY DEF Dangling, MissesNothing
<1>2. Looked(map, f)[f[i]] = map[f[i]]
    BY Zenon DEF Looked
<1>. QED
    BY <1>1, <1>2, Zenon DEF SyslogField, FieldIsKept

\* A line of the syslog backend shows the message it is printed for.
LEMMA LinesAreRight ==
    ASSUME NEW given, given \in Seq(ToSet(given)), NEW f \in Formats, NEW map,
           NEW msg, msg.calls = given, msg.entry.format = f,
           NEW line \in SyslogLines(MapAfter(map, Placeholders(f), given), Placeholders(f), given)
    PROVE  LineShows(line, msg)
<1>. DEFINE names == Placeholders(f)
            texts == SyslogTexts(given)
            after == MapAfter(map, names, given)
            extras == Extras(names, given)
            others == {j \in 1..Len(texts) : texts[j].name \notin ToSet(names)}
<1>1. texts \in Seq(ToSet(given)) /\ names \in Seq(ArgNames)
    BY TextsFacts, Zenon
<1>2. ASSUME NEW i \in 1..Len(names), NEW j \in 1..Len(texts), texts[j].name = names[i],
             \A k \in (j + 1)..Len(texts) : texts[k].name # names[i]
      PROVE  names[i] \in DOMAIN after /\ after[names[i]] = SyslogText(texts[j])
  <2>1. PICK n : n = names[i] /\ n \in ToSet(names)
    BY <1>1 DEF ToSet
  <2>. HIDE DEF names
  <2>2. LastNamed(texts, n, j)
    BY <1>2, <2>1, Zenon DEF LastNamed
  <2>3. GivenLast(map, names, given, n, j)
    BY <1>1, <2>1, <2>2, Zenon DEF texts, GivenLast
  <2>4. Mapped(map, names, given, n, j)
    BY <2>3, MapFacts, Zenon
  <2>5. n \in DOMAIN after /\ after[n] = SyslogText(texts[j])
    BY <2>4, Zenon DEF Mapped, after, texts
  <2>. QED
    BY <2>1, <2>5, Zenon
<1>3. Len(extras) = Cardinality(others) /\ Len(extras) \in Nat
  <2>. DEFINE S == {c \in ToSet(given) : c.name \notin ToSet(names)}
  <2>1. extras = Among(texts, S)
    BY Zenon DEF Extras
  <2>2. Among(texts, S) \in Seq(ToSet(given) \cap S) /\ Len(Among(texts, S)) = Cardinality(In(texts, S, Len(texts)))
    BY <1>1, AmongFacts, Zenon
  <2>3. In(texts, S, Len(texts)) = others
    <3>1. \A j \in 1..Len(texts) : texts[j] \in ToSet(given)
      BY <1>1
    <3>. HIDE DEF texts, names
    <3>. QED
      BY <3>1 DEF In
  <2>4. Len(Among(texts, S)) \in Nat
    BY <2>2, LenProperties, Zenon
  <2>. HIDE DEF S, extras, others
  <2>. QED
    BY <2>1, <2>2, <2>3, <2>4, Zenon
<1>. HIDE DEF names, texts, after, extras, others
<1>4. CASE Len(names) > MaxPlaceholders
  <2>1. line = NoMessage
    BY <1>4, Zenon DEF SyslogLines, after, names
  <2>. QED
    BY <2>1, NothingMade, ZenonT(40) DEF LineShows
<1>5. CASE ~(Len(names) > MaxPlaceholders)
  <2>1. \E bad \in SUBSET Dangling(after, names) : line = SyslogLine(after, names, given, bad)
    BY <1>5, Zenon DEF SyslogLines, after, names
  <2>2. PICK bad \in SUBSET Dangling(after, names) : line = SyslogLine(after, names, given, bad)
    BY <2>1
  <2>3. line = [made |-> TRUE, severity |-> SyslogSeverity["info"],
                fields |-> [i \in 1..Len(names) |-> SyslogField(after, names, bad, i)],
                extras |-> [i \in 1..Len(extras) |-> SyslogExtra(extras[i])]]
    BY <2>2, Zenon DEF SyslogLine, extras
  <2>4. line.fields = [i \in 1..Len(names) |-> SyslogField(after, names, bad, i)] /\ Len(line.extras) = Len(extras)
    BY <1>3, <2>3
  <2>5. ASSUME \A i \in 1..Len(names) : \E j \in 1..Len(texts) : texts[j].name = names[i],
               NEW i \in 1..Len(names), NEW j \in 1..Len(texts), texts[j].name = names[i],
               \A k \in (j + 1)..Len(texts) : texts[k].name # names[i]
        PROVE  line.fields[i] = SyslogText(texts[j])
    <3>1. names[i] \in DOMAIN after /\ after[names[i]] = SyslogText(texts[j])
      BY <1>2, <2>5, Zenon
    <3>2. AllGiven(names, texts)
      BY <2>5, Zenon DEF AllGiven
    <3>3. MissesNothing(after, names)
      BY <1>1, <3>2, NothingMissing, Zenon DEF after, texts
    <3>4. FieldIsKept(after, names, bad, i)
      BY <3>1, <3>3, FieldsStay, Zenon
    <3>5. SyslogField(after, names, bad, i) = after[names[i]]
      BY <3>4, Zenon DEF FieldIsKept
    <3>6. line.fields[i] = SyslogField(after, names, bad, i)
      BY <2>4, Zenon
    <3>. QED
      BY <3>1, <3>5, <3>6, Zenon
  <2>6. Len(line.extras) = Cardinality({j \in 1..Len(texts) : texts[j].name \notin ToSet(names)})
    BY <1>3, <2>4, Zenon DEF others
  <2>. QED
    BY <2>5, <2>6, Zenon DEF LineShows, texts, names
<1>. QED
    BY <1>4, <1>5

\* ~log_entry makes the calls that were kept, and the line is printed.
LEMMA EndEntryKeeps ==
    ASSUME EntriesInv, EndEntry
    PROVE  EntriesInv'
<1>1. logEntry.made /\ logEntry' = NoEntry /\ mem' = mem
    BY Zenon DEF EndEntry
<1>2. EntryOK(logEntry, mem) /\ mem \in [Places -> PlaceValues]
    BY <1>1, Zenon DEF EntriesInv
<1>3. ASSUME MessagesAreAsGiven', LinesShowTheArguments' PROVE EntriesInv'
    BY <1>1, <1>2, <1>3, NothingMade, Zenon DEF EntriesInv
<1>4. CASE ~logEntry.backend
  <2>1. message' = NoMessage /\ printed' = NoMessage
    BY <1>4, Zenon DEF EndEntry
  <2>. QED
    BY <1>2, <1>3, <2>1, NoMessageIsFine, Zenon
<1>5. CASE logEntry.backend
  <2>. DEFINE given == EntryCalls(logEntry)
              f == logEntry.format
              names == Placeholders(f)
              map == MapAfter(argMap, names, given)
  <2>1. /\ message' = [made |-> TRUE, entry |-> logEntry, calls |-> given]
        /\ printed' \in SyslogLines(map, names, given)
    BY <1>5, Zenon DEF EndEntry
  <2>2. f \in Formats
    BY <1>2 DEF EntryOK, EntryRecords
  <2>4. given \in Seq(ToSet(given))
    BY <1>2, EntryCallsFacts, Zenon
  <2>. HIDE DEF given
  <2>5. message'.entry = logEntry /\ message'.calls = given /\ message'.entry.format = f
    BY <2>1
  <2>6. LineShows(printed', message')
    BY <2>1, <2>2, <2>4, <2>5, LinesAreRight, Zenon
  <2>7. LinesShowTheArguments'
    BY <2>1, <2>6, LinesShown, Zenon
  <2>8. MessagesAreAsGiven'
    <3>1. (~logEntry.touched \/ \A i \in 1..Len(logEntry.args) : Overloads[logEntry.args[i].type].keeps = "copy")
             => given = FlattenSeq([i \in 1..Len(logEntry.args) |-> CallsAsGiven(logEntry.args[i])])
      BY <1>2, EntryCallsFacts, Zenon DEF given
    <3>2. logEntry.severity >= CompiledSeverity /\ logEntry.severity >= BackendSeverity
      BY <1>2, <1>5, Zenon DEF EntryOK
    <3>. QED
      BY <2>5, <3>1, <3>2, Zenon DEF MessagesAreAsGiven
  <2>. QED
    BY <1>3, <2>7, <2>8, Zenon
<1>. QED
    BY <1>4, <1>5

\* Every step of an entry keeps the invariant.
LEMMA EntriesStepKeeps ==
    ASSUME EntriesInv, EntriesNext \/ UNCHANGED entryVars
    PROVE  EntriesInv'
<1>1. CASE UNCHANGED entryVars
  <2>1. mem' = mem /\ logEntry' = logEntry /\ UNCHANGED <<message, printed>>
    BY <1>1 DEF entryVars
  <2>2. MessagesAreAsGiven' /\ LinesShowTheArguments'
    BY <2>1, NothingPrinted, Zenon DEF EntriesInv
  <2>. QED
    BY <2>1, <2>2, Zenon DEF EntriesInv
<1>. QED
    BY <1>1, BeginEntryKeeps, TagEntryKeeps, EndEntryKeeps, CallArgKeeps, ChangeMemoryKeeps, Zenon DEF EntriesNext

\* The invariant about entries holds in every reachable state.
LEMMA EntriesInvHolds ==
    LoggingSpec => []EntriesInv
<1>1. LoggingInit => EntriesInv
  <2>. SUFFICES ASSUME EntriesInit PROVE EntriesInv
    BY Zenon DEF LoggingInit
  <2>1. mem \in [Places -> PlaceValues] /\ logEntry = NoEntry /\ message = NoMessage /\ printed = NoMessage
    BY Zenon DEF EntriesInit
  <2>4. MessagesAreAsGiven
    BY <2>1, NothingMade, Zenon DEF MessagesAreAsGiven
  <2>5. LineShows(printed, message)
    BY <2>1, NothingMade, Zenon DEF LineShows
  <2>6. LinesShowTheArguments
    BY <2>5, Zenon DEF LinesShowTheArguments, LineShows
  <2>. QED
    BY <2>1, <2>4, <2>6, NothingMade, Zenon DEF EntriesInv
<1>2. EntriesInv /\ [LoggingNext]_LoggingVars => EntriesInv'
    BY PartsStep, EntriesStepKeeps, Zenon
<1>. QED
    BY <1>1, <1>2, PTL DEF LoggingSpec

\* What the backend is told of an entry is what its arguments were when arg()
\* was called, whatever overloads, formats and memory there are, and only of
\* entries whose severity the build and the backend take (log_entry::arg).  A
\* const char* is told as the bool that its overload makes of it.
THEOREM MessagesStayAsGiven ==
    LoggingSpec => []MessagesAreAsGiven
<1>1. EntriesInv => MessagesAreAsGiven
    BY Zenon DEF EntriesInv
<1>. QED
    BY <1>1, EntriesInvHolds, PTL

\* A syslog line shows the last value of every placeholder if the entry has a
\* value for all of them, whatever pointers of an incomplete entry dangle, and
\* as many other arguments as have a text (do_add_arg, _do_log).
THEOREM LinesStillShowTheArguments ==
    LoggingSpec => []LinesShowTheArguments
<1>1. EntriesInv => LinesShowTheArguments
    BY Zenon DEF EntriesInv
<1>. QED
    BY <1>1, EntriesInvHolds, PTL
=============================================================================
