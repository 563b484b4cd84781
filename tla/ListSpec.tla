------------------------------ MODULE ListSpec ------------------------------
(***************************************************************************)
(* What a sequence container promises.  last is the call that was made,    *)
(* with its arguments and what it returned; positions are counted from 1,  *)
(* the end is one more than the length.  The elements that a growing       *)
(* resize adds are not specified: static_vector shows what its array holds *)
(* behind the last element, which erase does not reset.                    *)
(***************************************************************************)
EXTENDS Naturals, Sequences

CONSTANT Elems              \* the values stored

VARIABLES list, last

ListInit == list = <<>> /\ last = <<"construct">>

\* The elements of a set, in their order.
Kept(set) ==
    LET kept[i \in 0..Len(list)] ==
            IF i = 0 THEN <<>>
            ELSE IF list[i] \in set THEN Append(kept[i - 1], list[i]) ELSE kept[i - 1]
    IN  kept[Len(list)]

\* Cut(i, j) is the list without the elements i up to j - 1.
Cut(i, j) == SubSeq(list, 1, i - 1) \o SubSeq(list, j, Len(list))

ListPush(v) ==
    /\ list' = Append(list, v)
    /\ last' = <<"push_back", v>>

ListPop ==
    /\ list # <<>>
    /\ list' = SubSeq(list, 1, Len(list) - 1)
    /\ last' = <<"pop_back">>

ListInsert(i, v) ==
    /\ list' = SubSeq(list, 1, i - 1) \o <<v>> \o SubSeq(list, i, Len(list))
    /\ last' = <<"insert", i, v, i>>

ListInsertRange(i, vs) ==
    /\ list' = SubSeq(list, 1, i - 1) \o vs \o SubSeq(list, i, Len(list))
    /\ last' = <<"insert_range", i, vs, i>>

ListErase(i) ==
    /\ list' = IF i <= Len(list) THEN Cut(i, i + 1) ELSE list
    /\ last' = <<"erase", i, i>>

ListEraseRange(i, j) ==
    /\ list' = Cut(i, j)
    /\ last' = <<"erase_range", i, j, i>>

ListResize(n) ==
    /\ Len(list') = n
    /\ \A k \in 1..n : IF k <= Len(list) THEN list'[k] = list[k] ELSE list'[k] \in Elems
    /\ last' = <<"resize", n>>

ListEraseIf(v) ==
    /\ list' = Kept(Elems \ {v})
    /\ last' = <<"erase_if", v, Len(list) - Len(list')>>

ListAssign(vs) ==
    /\ list' = vs
    /\ last' = <<"assign", vs>>

\* The list after the call is as the call and the list before it say.
ListNext ==
    \/ last'[1] = "push_back" /\ ListPush(last'[2])
    \/ last'[1] = "pop_back" /\ ListPop
    \/ last'[1] = "insert" /\ last'[2] \in 1..Len(list) + 1 /\ ListInsert(last'[2], last'[3])
    \/ last'[1] = "insert_range" /\ ListInsertRange(last'[2], last'[3])
    \/ last'[1] = "erase" /\ ListErase(last'[2])
    \/ last'[1] = "erase_range" /\ ListEraseRange(last'[2], last'[3])
    \/ last'[1] = "resize" /\ ListResize(last'[2])
    \/ last'[1] = "erase_if" /\ ListEraseIf(last'[2])
    \/ last'[1] = "assign" /\ ListAssign(last'[2])

ListSteps == ListInit /\ [][ListNext]_<<list, last>>
=============================================================================
