----------------------------- MODULE TreeNodes -----------------------------
(***************************************************************************)
(* The nodes a compound makes for the attributes in use and the handles    *)
(* that refer to them: compound_with_refcounted_node, attribute, and the   *)
(* nodes overlay_attribute keeps for its children.  A node is at an        *)
(* address, which a later node gets again once it is freed.                *)
(***************************************************************************)
EXTENDS Integers, Sequences, FiniteSets, FiniteSetsExt

CONSTANTS
    Handles,            \* attribute variables of the clients
    TreePaths,          \* the paths of the attributes below the root
    Overlay             \* the compound is an overlay

ASSUME TreeNodesAssumption == IsFiniteSet(Handles) /\ Overlay \in BOOLEAN

VARIABLES
    treeNodes,          \* _nodes: per live address the path and the count
    cached,             \* per parent path and name what the overlay node keeps
    refersTo,           \* per handle the address, Root or Nothing
    meant               \* history: per handle the path it was obtained for

treeVars == <<treeNodes, cached, refersTo, meant>>

Nothing == -1

Root == 0

NodeInit ==
    /\ treeNodes = <<>>
    /\ cached = [p \in TreePaths |-> Nothing]
    /\ refersTo = [h \in Handles |-> Nothing]
    /\ meant = [h \in Handles |-> <<>>]

Live == DOMAIN treeNodes

NewNode == Min((1..Cardinality(Live) + 1) \ Live)

\* _do_make_new: the node equal to the new one, or a new one.
Equal(p) == {a \in Live : treeNodes[a].path = p}

MadeAddress(p) == IF Equal(p) # {} THEN Min(Equal(p)) ELSE NewNode

Made(p) ==
    [a \in Live \cup {MadeAddress(p)} |->
       IF a # MadeAddress(p) THEN treeNodes[a]
       ELSE [path |-> p, refs |-> IF Equal(p) # {} THEN treeNodes[a].refs + 1 ELSE 1]]

NotAdded(a) == treeNodes    \* mutant of AddedRef

AddedRef(a) == [b \in Live |-> IF b = a THEN [treeNodes[b] EXCEPT !.refs = @ + 1] ELSE treeNodes[b]]

\* release: the last reference frees the node, and with it what it keeps.
NodesFreed(a) == a \in Live /\ treeNodes[a].refs <= 1

Released(a) ==
    [b \in IF NodesFreed(a) THEN Live \ {a} ELSE Live |->
       IF b = a THEN [treeNodes[b] EXCEPT !.refs = @ - 1] ELSE treeNodes[b]]

ForgottenBy(a) ==
    [p \in TreePaths |->
       IF NodesFreed(a) /\ treeNodes[a].path # <<>> /\ p # <<>> /\ SubSeq(p, 1, Len(p) - 1) = treeNodes[a].path THEN Nothing ELSE cached[p]]

\* structure(): the root is a member of the compound and is not counted.
Structure(h) ==
    /\ refersTo[h] = Nothing
    /\ refersTo' = [refersTo EXCEPT ![h] = Root]
    /\ meant' = [meant EXCEPT ![h] = <<>>]
    /\ UNCHANGED <<treeNodes, cached>>

PathAt(a) == IF a = Root THEN <<>> ELSE treeNodes[a].path

\* nested() of g for h.  A call through a handle whose node is gone is undefined.
Nested(g, h) ==
    /\ refersTo[h] = Nothing
    /\ refersTo[g] \in Live \cup {Root}
    /\ \E p \in TreePaths :
         /\ Len(p) = Len(PathAt(refersTo[g])) + 1
         /\ SubSeq(p, 1, Len(p) - 1) = PathAt(refersTo[g])
         /\ IF Overlay /\ cached[p] # Nothing
            THEN /\ refersTo' = [refersTo EXCEPT ![h] = cached[p]]
                 /\ UNCHANGED <<treeNodes, cached>>
            ELSE /\ refersTo' = [refersTo EXCEPT ![h] = MadeAddress(p)]
                 /\ treeNodes' = Made(p)
                 /\ cached' = IF Overlay THEN [cached EXCEPT ![p] = MadeAddress(p)] ELSE cached
         /\ meant' = [meant EXCEPT ![h] = p]

\* find() of the root; an overlay finds nothing.
FindPath(h) ==
    /\ ~Overlay
    /\ refersTo[h] = Nothing
    /\ \E p \in TreePaths :
         /\ refersTo' = [refersTo EXCEPT ![h] = MadeAddress(p)]
         /\ treeNodes' = Made(p)
         /\ meant' = [meant EXCEPT ![h] = p]
    /\ UNCHANGED cached

\* The copy constructor.
Copy(g, h) ==
    /\ g # h
    /\ refersTo[h] = Nothing
    /\ refersTo[g] # Nothing
    /\ treeNodes' = AddedRef(refersTo[g])
    /\ refersTo' = [refersTo EXCEPT ![h] = refersTo[g]]
    /\ meant' = [meant EXCEPT ![h] = meant[g]]
    /\ UNCHANGED cached

\* Copy assignment over a handle in use: the new reference first, then the
\* old one is released.
CopyAssign(g, h) ==
    /\ g # h
    /\ refersTo[h] # Nothing
    /\ LET added == IF refersTo[g] = Nothing THEN treeNodes ELSE AddedRef(refersTo[g])
           old == refersTo[h]
           last == old \in Live /\ added[old].refs <= 1
       IN  /\ treeNodes' = [b \in IF last THEN Live \ {old} ELSE Live |->
                          IF b = old THEN [added[b] EXCEPT !.refs = @ - 1] ELSE added[b]]
           /\ cached' = IF last THEN ForgottenBy(old) ELSE cached
    /\ refersTo' = [refersTo EXCEPT ![h] = refersTo[g]]
    /\ meant' = [meant EXCEPT ![h] = meant[g]]

\* Move construction and move assignment.
Swap(g, h) ==
    /\ g # h
    /\ refersTo' = [refersTo EXCEPT ![g] = refersTo[h], ![h] = refersTo[g]]
    /\ meant' = [meant EXCEPT ![g] = meant[h], ![h] = meant[g]]
    /\ UNCHANGED <<treeNodes, cached>>

Drop(h) ==
    /\ refersTo[h] # Nothing
    /\ treeNodes' = Released(refersTo[h])
    /\ cached' = ForgottenBy(refersTo[h])
    /\ refersTo' = [refersTo EXCEPT ![h] = Nothing]
    /\ meant' = [meant EXCEPT ![h] = <<>>]

NodeNext ==
    \/ \E h \in Handles : Structure(h) \/ FindPath(h) \/ Drop(h)
    \/ \E g, h \in Handles : Nested(g, h) \/ Copy(g, h) \/ CopyAssign(g, h) \/ Swap(g, h)

NodeSpec == NodeInit /\ [][NodeNext]_treeVars

-----------------------------------------------------------------------------
(* wrappers.cpp: an attribute "represents a single node in such hierarchy and *)
(* can be used to retrieve the values or data stored at that level".  However *)
(* attributes are obtained, copied, moved and dropped, the node of each one   *)
(* is alive and the one it was obtained for.                                  *)
HandlesAreAlive ==
    \A h \in Handles : refersTo[h] # Nothing =>
        IF refersTo[h] = Root THEN meant[h] = <<>>
        ELSE refersTo[h] \in Live /\ treeNodes[refersTo[h]].path = meant[h]

(* A node is kept for exactly as long as attributes refer to it, which the    *)
(* counts of compound_with_refcounted_node say.                               *)
NodesAreCounted ==
    \A a \in Live : treeNodes[a].refs = Cardinality({h \in Handles : refersTo[h] = a})

NodesAlive == HandlesAreAlive /\ NodesAreCounted
=============================================================================
