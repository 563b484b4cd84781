----------------------------- MODULE NetworkSort -----------------------------
(***************************************************************************)
(* utility/network_sort.cpp: the tables of the hand-made sorting networks, *)
(* the bitonic network that every other size gets, and the sorter that     *)
(* copies between two arrays, one compare of every element a round.        *)
(***************************************************************************)
EXTENDS Integers, Sequences, SequencesExt, FiniteSets, Bitwise

(* manual_sorting_network_base: a row per round, elements count from 0 *)

idx1 ==
    <<<<0>>>>

idx2 ==
    <<<<1, 0>>>>

idx3 ==
    <<<<1, 0, 2>>, <<0, 2, 1>>, <<1, 0, 2>>>>

idx4 ==
    <<<<1, 0, 3, 2>>, <<2, 3, 0, 1>>, <<0, 2, 1, 3>>>>

idx5 ==
    <<<<1, 0, 3, 2, 4>>, <<0, 3, 4, 1, 2>>, <<2, 4, 0, 3, 1>>, <<0, 2, 1, 4, 3>>,
      <<0, 1, 3, 2, 4>>>>

idx6 ==
    <<<<1, 0, 3, 2, 5, 4>>, <<2, 4, 0, 5, 1, 3>>, <<1, 0, 3, 2, 5, 4>>, <<0, 2, 1, 4, 3, 5>>,
      <<0, 1, 3, 2, 4, 5>>>>

idx7 ==
    <<<<1, 0, 3, 2, 5, 4, 6>>, <<2, 3, 0, 1, 6, 5, 4>>, <<4, 5, 6, 3, 0, 1, 2>>,
      <<0, 4, 2, 6, 1, 5, 3>>, <<0, 1, 4, 5, 2, 3, 6>>, <<0, 2, 1, 4, 3, 6, 5>>>>

idx8 ==
    <<<<1, 0, 3, 2, 5, 4, 7, 6>>, <<2, 3, 0, 1, 6, 7, 4, 5>>, <<4, 2, 1, 7, 0, 6, 5, 3>>,
      <<0, 5, 6, 3, 4, 1, 2, 7>>, <<0, 1, 4, 5, 2, 3, 6, 7>>, <<0, 2, 1, 4, 3, 6, 5, 7>>>>

idx9 ==
    <<<<7, 6, 5, 4, 3, 2, 1, 0, 8>>, <<3, 2, 1, 0, 7, 5, 8, 4, 6>>, <<1, 0, 6, 4, 3, 8, 2, 7, 5>>,
      <<0, 2, 1, 5, 6, 3, 4, 8, 7>>, <<0, 3, 4, 1, 2, 7, 6, 5, 8>>, <<1, 0, 3, 2, 5, 4, 7, 6, 8>>,
      <<0, 1, 2, 4, 3, 6, 5, 7, 8>>>>

idx10 ==
    <<<<1, 0, 3, 2, 5, 4, 7, 6, 9, 8>>, <<5, 8, 6, 7, 9, 0, 2, 3, 1, 4>>,
      <<2, 4, 0, 6, 1, 8, 3, 9, 5, 7>>, <<1, 0, 7, 5, 6, 3, 4, 2, 9, 8>>,
      <<0, 3, 4, 1, 2, 7, 8, 5, 6, 9>>, <<0, 2, 1, 4, 3, 6, 5, 8, 7, 9>>,
      <<0, 1, 3, 2, 5, 4, 7, 6, 8, 9>>>>

idx11 ==
    <<<<0, 10, 9, 8, 7, 6, 5, 4, 3, 2, 1>>, <<6, 4, 3, 2, 1, 5, 0, 10, 9, 8, 7>>,
      <<1, 0, 5, 4, 3, 2, 6, 8, 7, 10, 9>>, <<2, 5, 0, 3, 6, 1, 4, 7, 9, 8, 10>>,
      <<0, 8, 3, 2, 7, 9, 10, 4, 1, 5, 6>>, <<0, 4, 2, 5, 1, 3, 9, 8, 7, 6, 10>>,
      <<0, 2, 1, 4, 3, 7, 8, 5, 6, 9, 10>>, <<0, 1, 3, 2, 5, 4, 7, 6, 8, 9, 10>>>>

idx12 ==
    <<<<6, 7, 8, 9, 10, 11, 0, 1, 2, 3, 4, 5>>, <<3, 4, 5, 0, 1, 2, 9, 10, 11, 6, 7, 8>>,
      <<1, 0, 2, 6, 5, 4, 3, 8, 7, 9, 11, 10>>, <<0, 2, 1, 4, 3, 8, 7, 6, 5, 10, 9, 11>>,
      <<1, 0, 9, 6, 5, 4, 3, 8, 7, 2, 11, 10>>, <<0, 3, 6, 1, 7, 9, 2, 4, 10, 5, 8, 11>>,
      <<0, 1, 3, 2, 6, 7, 4, 5, 9, 8, 10, 11>>, <<0, 1, 2, 4, 3, 6, 5, 8, 7, 9, 10, 11>>>>

idx14 ==
    <<<<13, 12, 11, 10, 9, 8, 7, 6, 5, 4, 3, 2, 1, 0>>,
      <<5, 4, 3, 2, 1, 0, 6, 7, 13, 12, 11, 10, 9, 8>>,
      <<1, 0, 2, 6, 5, 4, 3, 10, 9, 8, 7, 11, 13, 12>>,
      <<0, 7, 8, 4, 3, 11, 12, 1, 2, 10, 9, 5, 6, 13>>,
      <<3, 2, 1, 0, 9, 8, 7, 6, 5, 4, 13, 12, 11, 10>>,
      <<1, 0, 3, 2, 8, 7, 9, 5, 4, 6, 11, 10, 13, 12>>,
      <<0, 2, 1, 5, 6, 3, 4, 9, 10, 7, 8, 12, 11, 13>>,
      <<0, 1, 2, 4, 3, 6, 5, 8, 7, 10, 9, 11, 12, 13>>,
      <<0, 1, 3, 2, 5, 4, 7, 6, 9, 8, 11, 10, 12, 13>>>>

idx16 ==
    <<<<15, 14, 13, 12, 11, 10, 9, 8, 7, 6, 5, 4, 3, 2, 1, 0>>,
      <<7, 6, 5, 4, 3, 2, 1, 0, 15, 14, 13, 12, 11, 10, 9, 8>>,
      <<3, 2, 1, 0, 7, 6, 5, 4, 11, 10, 9, 8, 15, 14, 13, 12>>,
      <<1, 0, 8, 9, 5, 4, 12, 13, 2, 3, 11, 10, 6, 7, 15, 14>>,
      <<0, 4, 3, 2, 1, 10, 9, 8, 7, 6, 5, 14, 13, 12, 11, 15>>,
      <<0, 2, 1, 4, 3, 9, 8, 10, 6, 5, 7, 12, 11, 14, 13, 15>>,
      <<0, 1, 3, 2, 6, 7, 4, 5, 10, 11, 8, 9, 13, 12, 14, 15>>,
      <<0, 1, 2, 3, 5, 4, 7, 6, 9, 8, 11, 10, 12, 13, 14, 15>>,
      <<0, 1, 2, 4, 3, 6, 5, 8, 7, 11, 9, 12, 11, 13, 14, 15>>>>

manual ==
    [n \in {1, 2, 3, 4, 5, 6, 7, 8, 9, 10, 11, 12, 14, 16} |->
        CASE n = 1 -> idx1
          [] n = 2 -> idx2
          [] n = 3 -> idx3
          [] n = 4 -> idx4
          [] n = 5 -> idx5
          [] n = 6 -> idx6
          [] n = 7 -> idx7
          [] n = 8 -> idx8
          [] n = 9 -> idx9
          [] n = 10 -> idx10
          [] n = 11 -> idx11
          [] n = 12 -> idx12
          [] n = 14 -> idx14
          [] n = 16 -> idx16]

----------------------------------------------------------------------------
(* bitonic_sorting_network_base *)

_next_log(n) == CHOOSE k \in 0..n : 2^k >= n /\ \A j \in 0..k - 1 : 2^j < n

num_rounds_for(n) == (_next_log(n) * (_next_log(n) + 1)) \div 2

\* The <<k, m>> of every round.
BitonicRounds(n) ==
    FlattenSeq([k \in 1.._next_log(n) |-> [m \in 1..k |-> <<k - 1, m - 1>>]])

\* _fill_idx: the element that i is compared with in the round, and whether
\* the two are put the other way round; an element without a partner keeps
\* its place.
_fill_idx(n, round, i) ==
    LET k == round[1]
        d == 2^(k - round[2])
        j == IF (i & d) = 0 THEN i + d ELSE i - d
    IN  [j |-> IF j >= n THEN i ELSE j, inv |-> (i \div 2^(k + 1)) % 2 = 1]

----------------------------------------------------------------------------
(* sorting_network<N>: size N, rounds, index, inv, min and max *)

is_specialized(n) == n \in DOMAIN manual

network(n) ==
    IF is_specialized(n)
    THEN [r \in 1..Len(manual[n]) |->
             [i \in 0..n - 1 |-> [j |-> manual[n][r][i + 1], inv |-> FALSE]]]
    ELSE [r \in 1..Len(BitonicRounds(n)) |->
             [i \in 0..n - 1 |-> _fill_idx(n, BitonicRounds(n)[r], i)]]

min(inv, i, j) == IF inv THEN i > j ELSE i < j

max(inv, i, j) == IF inv THEN i < j ELSE i > j

_min_max_cpy(a, b, is_min, is_max) ==
    IF is_min THEN IF a < b THEN a ELSE b
    ELSE IF is_max THEN IF a < b THEN b ELSE a ELSE a

\* sort_round: every element of the other array by a single_sort_step.
sort_round(a, row) ==
    <<>> \o [e \in 1..Len(a) |->
        LET i == e - 1
            j == row[i].j
        IN  _min_max_cpy(a[e], a[j + 1], min(row[i].inv, i, j), max(row[i].inv, i, j))]

sort(a) == FoldLeft(sort_round, a, network(Len(a)))

----------------------------------------------------------------------------
Ones(a) == Len(SelectSeq(a, LAMBDA e : e = 1))

InOrder(a) == \A e \in 1..Len(a) - 1 : a[e] <= a[e + 1]

\* By the zero-one principle a network sorts everything if it sorts zeros and
\* ones: the result is in order and has as many ones as the input, so no
\* element is lost or doubled, and there are as many rounds as were promised.
SortLaws(a) ==
    /\ LET sorted == sort(a) IN InOrder(sorted) /\ Ones(sorted) = Ones(a)
    /\ ~is_specialized(Len(a)) => Len(network(Len(a))) = num_rounds_for(Len(a))
    /\ Len(a) = 4 => num_rounds_for(4) = Len(manual[4])

\* Elements compared in a round are compared with each other.
MutualLaw(n) ==
    \A r \in 1..Len(network(n)) : \A i \in 0..n - 1 : network(n)[r][network(n)[r][i].j].j = i
==============================================================================
