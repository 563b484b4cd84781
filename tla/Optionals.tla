----------------------------- MODULE Optionals -----------------------------
(***************************************************************************)
(* tribool, and the types that may or may not have a value: valid_if with  *)
(* its policies, optionally_valid, optional_reference and tuples of them.  *)
(* A valid_if always stores a value; its policy says whether it counts.    *)
(***************************************************************************)
EXTENDS Integers, Sequences, SequencesExt, FiniteSets

CONSTANTS
    OptVals,                \* values stored; 0 is T{}
    OptFuns                 \* functions on them that callers pass

ASSUME OptionalsAssumption ==
    /\ 0 \in OptVals
    /\ OptVals \subseteq Int
    /\ OptFuns \subseteq [OptVals -> OptVals]

-----------------------------------------------------------------------------
(* tribool.                                                                *)

Indeterminate == "unknown"

Tri(value, known) == IF ~known THEN Indeterminate ELSE IF value THEN "true" ELSE "false"

Tribools == {"true", "false", Indeterminate}

\* The conversion to bool, operator ! and, by way of operator ~, the weak
\* conversion, which takes what is not known for true.
IsTrue(t) == t = "true"

IsFalse(t) == t = "false"

WeaklyTrue(t) == t # "false"

TriValueOr(t, fallback) == IF t # Indeterminate THEN t = "true" ELSE fallback

TriAnd(a, b) ==
    IF IsFalse(a) THEN "false" ELSE IF IsTrue(a) THEN b
    ELSE IF IsFalse(b) THEN "false" ELSE Indeterminate

TriOr(a, b) ==
    IF IsTrue(a) THEN "true" ELSE IF IsFalse(a) THEN b
    ELSE IF IsTrue(b) THEN "true" ELSE Indeterminate

TriEqual(a, b) == Tri(a = b, a # Indeterminate /\ b # Indeterminate)

TriUnequal(a, b) == Tri(a # b, a # Indeterminate /\ b # Indeterminate)

TriTransform(t, f) == IF t # Indeterminate THEN Tri(f[t = "true"], TRUE) ELSE Indeterminate

-----------------------------------------------------------------------------
(* Policies of valid_if.  The bounds are template parameters.              *)

IsPowerOf2(v) == v > 0 /\ \E e \in 0..v : v = 2^e

\* Policies that do not look at the value, the flag of optionally_valid and an
\* indicator with a parameter among them.
FlagPolicy(policy, flag, value) ==
    CASE policy = "flag" -> flag
      [] policy = "always" -> TRUE
      [] policy = "never" -> FALSE
      [] policy = "indicated" -> flag = value

SignPolicy(policy, v) ==
    CASE policy = "nonzero" -> v > 0 \/ v < 0
      [] policy = "positive" -> v > 0
      [] policy = "nonneg" -> v >= 0

IntervalPolicy(policy, v, min, max) ==
    CASE policy = "between" -> min <= v /\ v <= max
      [] policy = "0_1" -> 0 <= v /\ v <= 1
      [] policy = "ge0_lt1" -> 0 <= v /\ v < 1
      [] policy = "gt0_lt1" -> 0 < v /\ v < 1

ComparePolicy(policy, v, cmp) ==
    CASE policy = "not" -> v # cmp
      [] policy = "greater" -> v > cmp
      [] policy = "less" -> v < cmp

-----------------------------------------------------------------------------
(* The values: has is has_value(), val what is stored or referred to.      *)

Just(v) == [has |-> TRUE, val |-> v]

Nothing == [has |-> FALSE, val |-> 0]

\* A valid_if that counts as empty may store anything, a null reference stores
\* nothing; kind tells them apart.
Opts(kind) == IF kind = "reference" THEN {Just(v) : v \in OptVals} \cup {Nothing}
              ELSE [has : BOOLEAN, val : OptVals]

AndThen(o, f) == IF o.has THEN f[o.val] ELSE Nothing

Transform(o, f) == IF o.has THEN Just(f[o.val]) ELSE Nothing

OrElse(o, p) == IF o.has THEN o ELSE p

ValueOr(o, fallback) == IF o.has THEN o.val ELSE fallback

\* The comparisons with a value, and with another optional.
OptCompare(o, v, Op(_, _)) == Tri(Op(o.val, v), o.has)

OptCompareOpt(o, p, Op(_, _)) == Tri(Op(o.val, p.val), o.has /\ p.has)

OptEqual(o, v) == OptCompare(o, v, LAMBDA x, y : x = y)

OptEqualOpt(o, p) == OptCompareOpt(o, p, LAMBDA x, y : x = y)

OptLess(o, p) == OptCompareOpt(o, p, LAMBDA x, y : x < y)

\* get() is the address of what is stored, for a valid_if whether it counts or
\* not, so that member() calls a member function of it and ref() refers to it.
GetIsNull(kind, o) == kind = "reference" /\ ~o.has

CallMember(kind, o, f) == IF GetIsNull(kind, o) THEN Nothing ELSE Just(f[o.val])

\* member() of a data member, here a function of the value; one that is an
\* optional itself is passed on.
MemberOf(o, m) == IF o.has THEN Just(m[o.val]) ELSE Nothing

MemberOfOpt(o, m) == IF o.has THEN m[o.val] ELSE Nothing

\* ref() and refers_to() of places: a reference to at, as far as it is known.
RefersTo(o, at) == Tri(o.val = at, o.has)

\* either_or, as it is written out.
EitherOr(o, fallback) == IF o.has THEN o.val ELSE fallback

\* optional_iterator: what find in a range returns, and what insert makes of it.
IteratorOpt(s, v) ==
    LET p == SelectInSeq(s, LAMBDA x : x = v) IN IF p # 0 THEN Just(s[p]) ELSE Nothing

IteratorInsert(s, v) == IF IteratorOpt(s, v).has THEN s ELSE Append(s, v)

\* optional_like_tuple.
MeldHas(os) == \A i \in DOMAIN os : os[i].has

MeldValueOr(os, fallbacks) == [i \in DOMAIN os |-> ValueOr(os[i], fallbacks[i])]

MeldTransform(os, f) == IF MeldHas(os) THEN Just(f[[i \in DOMAIN os |-> os[i].val]]) ELSE Nothing

-----------------------------------------------------------------------------
(* What is done to an optionally_valid object: an operation and its        *)
(* argument.  The assignment of a value does not touch the flag.           *)

OptOps == ({"construct", "assign"} \X {Just(v) : v \in OptVals}) \cup
          ({"assign_optional", "move"} \X Opts("valid_if")) \cup {<<"reset", Nothing>>}

OptApply(o, op) ==
    CASE op[1] = "construct" -> op[2]
      [] op[1] = "assign" -> [o EXCEPT !.val = op[2].val]
      [] op[1] = "assign_optional" -> IF op[2].has THEN op[2] ELSE Nothing
      [] op[1] = "move" -> op[2]
      [] op[1] = "reset" -> Nothing

OptAfter(ops) == FoldLeft(OptApply, Nothing, ops)

-----------------------------------------------------------------------------
(* Laws.                                                                   *)

\* tribool is Kleene's logic: and and or are minimum and maximum of the order
\* false, unknown, true, they and the comparisons are what every choice of the
\* unknown gives when all choices agree.
TriRank(t) == CASE t = "false" -> 0 [] t = Indeterminate -> 1 [] t = "true" -> 2

Possible(t) == IF t = Indeterminate THEN BOOLEAN ELSE {t = "true"}

Agreed(S) == IF Cardinality(S) = 1 THEN Tri(CHOOSE x \in S : TRUE, TRUE) ELSE Indeterminate

TriboolLaws(a, b) ==
    /\ TriRank(TriAnd(a, b)) = (IF TriRank(a) < TriRank(b) THEN TriRank(a) ELSE TriRank(b))
    /\ TriRank(TriOr(a, b)) = (IF TriRank(a) > TriRank(b) THEN TriRank(a) ELSE TriRank(b))
    /\ TriEqual(a, b) = Agreed({x = y : x \in Possible(a), y \in Possible(b)})
    /\ TriUnequal(a, b) = TriTransform(TriEqual(a, b), [x \in BOOLEAN |-> ~x])
    /\ ~(IsTrue(a) /\ IsFalse(a))
    /\ WeaklyTrue(a) = (IsTrue(a) \/ a = Indeterminate)
    /\ \A x \in BOOLEAN : TriValueOr(a, x) \in Possible(a)

\* The combinators compose as those of an optional do, empty values compare as
\* not known, and a tuple has a value when all of its members do.
OptionalLaws(o, p) ==
    /\ \A f, g \in OptFuns :
          /\ Transform(Transform(o, f), g) = Transform(o, [v \in OptVals |-> g[f[v]]])
          /\ LET K(h) == [v \in OptVals |-> IF v < h[v] THEN Nothing ELSE Just(h[v])]
             IN  AndThen(AndThen(o, K(f)), K(g)) = AndThen(o, [v \in OptVals |-> AndThen(K(f)[v], K(g))])
          /\ o.has => CallMember("valid_if", o, f) = Transform(o, f)
    /\ ValueOr(OrElse(o, p), 0) = ValueOr(o, ValueOr(p, 0))
    /\ LET eq == OptEqualOpt(o, p)
           lt == OptLess(o, p)
           gt == OptLess(p, o)
       IN  /\ (eq = Indeterminate) = ~(o.has /\ p.has)
           /\ eq # Indeterminate => Cardinality({i \in 1..3 : <<eq, lt, gt>>[i] = "true"}) = 1
    /\ \A f \in OptFuns : MemberOf(o, f) = Transform(o, f) /\ MemberOfOpt(o, [v \in OptVals |-> p]) = AndThen(o, [v \in OptVals |-> p])
    /\ RefersTo(o, p.val) = OptEqual(o, p.val)
    /\ EitherOr(o, p.val) = ValueOr(o, p.val)
    /\ \A s \in {<<>>, <<o.val>>, <<o.val, p.val>>} : IteratorOpt(IteratorInsert(s, p.val), p.val) = Just(p.val)
    /\ MeldTransform(<<o, p>>, [vs \in OptVals \X OptVals |-> vs[1] + vs[2]]).has = (o.has /\ p.has)
    /\ MeldHas(<<o, p>>) => MeldValueOr(<<o, p>>, <<7, 7>>) = <<o.val, p.val>>

\* An optionally_valid that has a value has the last one stored in it; a value
\* assigned to an empty one is stored and does not count.
SlotLaws(ops) ==
    LET o == OptAfter(ops)
        flags == SelectSeq(ops, LAMBDA op : op[1] # "assign")
    IN  /\ o.has = (flags # <<>> /\ Last(flags)[2].has)
        /\ o.has => o.val = Last(ops)[2].val

\* The policies for numbers are the sets that their names say.
PolicyLaws(v, min, max) ==
    /\ SignPolicy("positive", v) = (SignPolicy("nonneg", v) /\ SignPolicy("nonzero", v))
    /\ IntervalPolicy("between", v, min, max) = ~(ComparePolicy("less", v, min) \/ ComparePolicy("greater", v, max))
    /\ ComparePolicy("not", v, min) = (ComparePolicy("less", v, min) \/ ComparePolicy("greater", v, min))
    /\ IntervalPolicy("ge0_lt1", v, 0, 0) \/ IntervalPolicy("gt0_lt1", v, 0, 0) => IntervalPolicy("0_1", v, 0, 0)
    /\ IsPowerOf2(v) => SignPolicy("positive", v) /\ \A d \in 3..v : (v % d = 0) => d % 2 = 0
    /\ \A flag \in BOOLEAN : FlagPolicy("flag", flag, 0) = FlagPolicy("indicated", flag, TRUE)
=============================================================================
