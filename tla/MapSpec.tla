------------------------------ MODULE MapSpec ------------------------------
(***************************************************************************)
(* What std::map promises, and flat_map as its replacement: a function on  *)
(* the keys that are stored.  done is the last call with its result.       *)
(***************************************************************************)
EXTENDS Naturals, FiniteSets

VARIABLES map, done

With(k, v) == [x \in DOMAIN map \cup {k} |-> IF x = k THEN v ELSE map[x]]

Without(ks) == [x \in DOMAIN map \ ks |-> map[x]]

MapInit == map = [k \in {} |-> 0] /\ done = <<"construct">>

\* A key that is there keeps its value, and nothing is inserted.
MapInsert(k, v, inserted) ==
    /\ inserted = (k \notin DOMAIN map)
    /\ map' = IF inserted THEN With(k, v) ELSE map

MapErase(k, n) ==
    /\ n = IF k \in DOMAIN map THEN 1 ELSE 0
    /\ map' = Without({k})

MapWrite(k, v) == map' = With(k, v)

MapNext ==
    \/ done'[1] = "insert" /\ MapInsert(done'[2], done'[3], done'[4])
    \/ done'[1] = "write" /\ MapWrite(done'[2], done'[3])
    \/ done'[1] = "erase" /\ MapErase(done'[2], done'[3])
    \/ done'[1] = "erase_keys" /\ map' = Without(done'[2])
    \/ done'[1] = "assign" /\ map' = done'[2]

MapSteps == MapInit /\ [][MapNext]_<<map, done>>
=============================================================================
