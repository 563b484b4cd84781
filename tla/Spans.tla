------------------------------- MODULE Spans -------------------------------
(***************************************************************************)
(* basic_span, its algorithms and basic_offset_ptr.  The algorithms see a  *)
(* span as the sequence of its elements, addresses as numbers; a position  *)
(* is counted from 0, and none is -1.                                      *)
(***************************************************************************)
EXTENDS Integers, Sequences, SequencesExt, FiniteSets

NoPos == -1

Clamp(v, lo, hi) == IF v < lo THEN lo ELSE IF hi < v THEN hi ELSE v

Outside == -99

\* A span from iterator b to iterator e: with e before b the distance is
\* negative, which is the size of a zero-terminated span, and the span goes on
\* from b, past the end of what it was cut from if need be.
Between(s, b, e) ==
    IF b <= e THEN SubSeq(s, b + 1, e)
    ELSE [k \in 1..(b - e) |-> IF b + k <= Len(s) THEN s[b + k] ELSE Outside]

Subspan(s, b, e) == Between(s, Clamp(b, 0, Len(s)), Clamp(e, 0, Len(s)))

Slice(s, i, l) == Subspan(s, i, i + l)

SkipN(s, l) == Between(s, Clamp(l, 0, Len(s)), Len(s))

HeadN(s, l) == Between(s, 0, Clamp(l, 0, Len(s)))

Snip(s, l) == HeadN(s, Len(s) - l)

Shrink(s, l) == Snip(SkipN(s, l), l)

TailN(s, l) == SkipN(s, Len(s) - l)

AreEqual(s, t) == Len(s) = Len(t) /\ \A i \in DOMAIN s : s[i] = t[i]

StartsWith(s, with) == AreEqual(HeadN(s, Len(with)), with)

EndsWith(s, with) == AreEqual(TailN(s, Len(with)), with)

StripPrefix(s, prefix) == IF StartsWith(s, prefix) THEN SkipN(s, Len(prefix)) ELSE s

StripSuffix(s, suffix) == IF EndsWith(s, suffix) THEN Snip(s, Len(suffix)) ELSE s

\* Positions where a search may stop; the end is not one.
Hits(s, what) == {p \in 0..(Len(s) - 1) : StartsWith(SkipN(s, p), what)}

FindPosition(s, what) ==
    IF Hits(s, what) = {} THEN NoPos ELSE CHOOSE p \in Hits(s, what) : \A q \in Hits(s, what) : p <= q

ReverseFindPosition(s, what) ==
    IF Hits(s, what) = {} THEN NoPos ELSE CHOOSE p \in Hits(s, what) : \A q \in Hits(s, what) : q <= p

SpanContains(s, what) == Hits(s, what) # {}

\* find_element_if; the predicate is given as the set of the elements it holds for.
FindElementIf(s, such) ==
    LET ps == {p \in 0..(Len(s) - 1) : s[p + 1] \in such}
    IN  IF ps = {} THEN NoPos ELSE CHOOSE p \in ps : \A q \in ps : p <= q

FindElement(s, e) == FindElementIf(s, {e})

HasElement(s, e) == FindElement(s, e) # NoPos

SkipUntil(s, such) == IF FindElementIf(s, such) # NoPos THEN SkipN(s, FindElementIf(s, such)) ELSE s

TakeUntil(s, such) == IF FindElementIf(s, such) # NoPos THEN HeadN(s, FindElementIf(s, such)) ELSE s

FindIn(s, what) == IF FindPosition(s, what) # NoPos THEN SkipN(s, FindPosition(s, what)) ELSE <<>>

ValueOr(p, fallback) == IF p = NoPos THEN fallback ELSE p

SliceBefore(s, what) == HeadN(s, ValueOr(FindPosition(s, what), Len(s)))

SliceAfter(s, what) == SkipN(s, ValueOr(FindPosition(s, what), Len(s)) + Len(what))

SplitByFirst(s, what) == <<SliceBefore(s, what), SliceAfter(s, what)>>

SplitByFirstElement(s, e) ==
    LET p == ValueOr(FindElement(s, e), Len(s)) IN <<HeadN(s, p), SkipN(s, p + 1)>>

SplitByLast(s, what) ==
    LET p == ValueOr(ReverseFindPosition(s, what), Len(s)) IN <<HeadN(s, p), SkipN(s, p + Len(what))>>

\* slice_inside_brackets(): one bracket and one element are cut off at the ends
\* of what was read until the depth was zero, or the elements ran out.
SliceInsideBrackets(s, left, right) ==
    LET from == FindElement(s, left)
        t == SkipN(s, from)
        Depth(n) == Cardinality({i \in 1..n : t[i] = left}) - Cardinality({i \in 1..n : t[i] = right})
        stops == {n \in 2..Len(t) : Depth(n) <= 0}
        pos == IF stops = {} THEN Len(t) ELSE CHOOSE n \in stops : \A k \in stops : n <= k
    IN  IF from = NoPos THEN <<>> ELSE Shrink(HeadN(t, pos), 1)

\* for_each_delimited() with a delimiter that is not empty: with an empty one it
\* does not end.
Delimited(s, delim) ==
    LET F[n \in 0..Len(s)] ==           \* the pieces of the last n elements
          LET t == TailN(s, n)
              p == FindPosition(t, delim)
          IN  IF p = NoPos THEN <<t>> ELSE <<HeadN(t, p)>> \o F[n - p - Len(delim)]
    IN  F[Len(s)]

\* for_each_chunk() with a length that is not zero.
Chunks(s, len) == [k \in 1..((Len(s) + len - 1) \div len) |-> Slice(s, (k - 1) * len, len)]

\* copy(), fill() and reverse() return the part of the target written.
CopySpan(from, to) == [i \in DOMAIN to |-> IF i <= Len(from) THEN from[i] ELSE to[i]]

FillSpan(s, v) == [i \in DOMAIN s |-> v]

\* make_index(): sorts the indices that idx holds already.
MakeIndex(s, idx) ==
    IF Len(idx) # Len(s) THEN idx ELSE SortSeq(idx, LAMBDA l, r : s[l + 1] < s[r + 1])

IsSortedSpan(s) == \A i \in 1..(Len(s) - 1) : s[i] <= s[i + 1]

\* make_span_getter() and make_span_putter(): the result and the next position.
GetNext(s, i) == IF i < Len(s) THEN <<s[i + 1], i + 1>> ELSE <<NoPos, i>>

PutNext(s, i, v) == IF i < Len(s) THEN <<[s EXCEPT ![i + 1] = v], i + 1>> ELSE <<s, i>>

-----------------------------------------------------------------------------
(* Spans as addresses: [at, size], the size negative for a zero-terminated *)
(* string.                                                                 *)

SpanSize(s) == IF s.size < 0 THEN -s.size ELSE s.size

EndAddr(s) == s.at + SpanSize(s)

Encloses(s, a) == s.at <= a /\ a <= EndAddr(s)

ContainsSpan(s, t) == s.at <= t.at /\ EndAddr(t) <= EndAddr(s)

Overlaps(s, t) == Encloses(s, t.at) \/ Encloses(s, EndAddr(t)) \/ Encloses(t, s.at) \/ Encloses(t, EndAddr(s))

CanAccommodate(s, count, size, align) == s.at % align = 0 /\ EndAddr(s) - s.at >= count * size

\* as_bytes() of a span of elements, and accommodate() of bytes: whole elements.
AsBytes(s, size) == [at |-> s.at, size |-> SpanSize(s) * size]

Accommodate(s, size) == [at |-> s.at, size |-> SpanSize(s) \div size]

\* A span with one element is an optional value.
SpanValueOr(s, fallback) == IF Len(s) = 1 THEN s[1] ELSE fallback

\* A basic_offset_ptr keeps the distance from itself, of the width of its type,
\* zero for null; when copied it points to where the other one points.
Narrow(d, width) == ((d + 2^(width - 1)) % 2^width) - 2^(width - 1)

OffsetTo(target, self, width) == IF target = 0 THEN 0 ELSE Narrow(target - self, width)

TargetOf(offs, self) == IF offs = 0 THEN 0 ELSE self + offs

CopiedOffset(offs, other, self, width) ==
    IF offs = 0 THEN 0 ELSE Narrow(offs + OffsetTo(other, self, width), width)

SteppedOffset(offs, self, d, width) == OffsetTo(TargetOf(offs, self) + d, self, width)

-----------------------------------------------------------------------------
Joined(pieces, delim) ==
    FoldLeft(LAMBDA acc, p : acc \o delim \o p, Head(pieces), Tail(pieces))

\* Cutting a span loses nothing, whatever the numbers: the parts put together
\* again are the span; and searches agree with each other.
CutLaws(s, i, l) ==
    /\ HeadN(s, i) \o SkipN(s, i) = s /\ Snip(s, i) \o TailN(s, i) = s
    /\ l >= 0 /\ i >= 0 => Slice(s, i, l) = HeadN(SkipN(s, i), l)
    /\ i <= l => \A k \in DOMAIN Subspan(s, i, l) : Subspan(s, i, l)[k] = s[Clamp(i, 0, Len(s)) + k]
    /\ l > 0 => FlattenSeq(Chunks(s, l)) = s /\ \A k \in DOMAIN Chunks(s, l) : Len(Chunks(s, l)[k]) \in 1..l
    /\ LET n == GetNext(s, i) IN i \in 0..(Len(s) - 1) => PutNext(s, i, n[1]) = <<s, n[2]>>

SearchLaws(s, what) ==
    LET p == FindPosition(s, what)
        r == ReverseFindPosition(s, what)
        first == SplitByFirst(s, what)
        last == SplitByLast(s, what)
    IN  /\ (p = NoPos) = ~SpanContains(s, what) /\ (p = NoPos) = (r = NoPos) /\ p <= r
        /\ p # NoPos => first[1] \o what \o first[2] = s /\ last[1] \o what \o last[2] = s
        /\ p # NoPos => FindIn(s, what) = what \o SliceAfter(s, what)
        /\ p = NoPos => first = <<s, <<>>>> /\ last = <<s, <<>>>>
        /\ p # NoPos /\ what # <<>> => ~SpanContains(SubSeq(first[1] \o what, 1, Len(first[1]) + Len(what) - 1), what)
        /\ what # <<>> => /\ Joined(Delimited(s, what), what) = s
                          /\ \A k \in DOMAIN Delimited(s, what) : ~SpanContains(Delimited(s, what)[k], what)
        /\ StartsWith(s, what) => what \o StripPrefix(s, what) = s
        /\ EndsWith(s, what) => StripSuffix(s, what) \o what = s
        /\ Len(what) = 1 => SplitByFirstElement(s, what[1]) = first /\ HasElement(s, what[1]) = (p # NoPos)
        /\ Len(what) = 1 => TakeUntil(s, {what[1]}) = first[1]
        /\ Len(what) = 1 /\ p # NoPos => SkipUntil(s, {what[1]}) = SkipN(s, p)
        /\ SpanValueOr(what, NoPos) = NoPos <=> Len(what) # 1

\* What is inside brackets that are closed is balanced, and the brackets around
\* it are the first that open and the ones that close them.
BracketLaws(s, left, right) ==
    LET inside == SliceInsideBrackets(s, left, right)
        from == FindElement(s, left)
        Depth(t) == Cardinality({i \in DOMAIN t : t[i] = left}) - Cardinality({i \in DOMAIN t : t[i] = right})
    IN  from # NoPos /\ Depth(SkipN(s, from)) <= 0 =>
            /\ StartsWith(SkipN(s, from), <<left>> \o inside \o <<right>>)
            /\ Depth(inside) = 0 /\ \A n \in 0..Len(inside) : Depth(HeadN(inside, n)) >= 0

\* An index made from a permutation of the positions orders the elements, and
\* is a permutation still; what is copied is found where it was put.
IndexLaws(s, t) ==
    LET idx == MakeIndex(s, [i \in DOMAIN s |-> i - 1]) IN
    /\ IsSortedSpan([i \in DOMAIN s |-> s[idx[i] + 1]])
    /\ {idx[i] : i \in DOMAIN s} = 0..(Len(s) - 1)
    /\ Len(s) <= Len(t) => HeadN(CopySpan(s, t), Len(s)) = s /\ SkipN(CopySpan(s, t), Len(s)) = SkipN(t, Len(s))
    /\ \A v \in {0, 1} : IsSortedSpan(FillSpan(s, v))

\* A span contained in another overlaps it, overlapping is mutual, and spans with
\* an address in common overlap, the ones that only touch too; bytes made of
\* elements are those elements again.
AddressLaws(s, t, size) ==
    /\ ContainsSpan(s, t) => Overlaps(s, t)
    /\ Overlaps(s, t) = Overlaps(t, s)
    /\ Overlaps(s, t) = (s.at <= EndAddr(t) /\ t.at <= EndAddr(s))
    /\ Accommodate(AsBytes(s, size), size).size = SpanSize(s)
    /\ CanAccommodate(s, SpanSize(s) \div size, size, 1)

\* A copy of an offset_ptr points where the original does, wherever the copy is,
\* and a step goes from there, as long as the distances fit the offset's type
\* and none of them is zero.
OffsetLaws(target, self, other, width) ==
    LET fits(d) == d # 0 /\ d \in -(2^(width - 1))..(2^(width - 1) - 1)
        offs == OffsetTo(target, other, width)
    IN  /\ target = 0 => CopiedOffset(offs, other, self, width) = 0
        /\ target # 0 /\ fits(target - self) /\ fits(target - other) =>
              /\ TargetOf(offs, other) = target
              /\ TargetOf(CopiedOffset(offs, other, self, width), self) = target
              /\ fits(target + 1 - self) =>
                    TargetOf(SteppedOffset(target - self, self, 1, width), self) = target + 1
=============================================================================
