----------------------------- MODULE MultiByte -----------------------------
(***************************************************************************)
(* The multi-byte encoding of numbers, and what rests on it: blocks stored *)
(* with their size, lists of strings, the paths made of such a list, and   *)
(* the encryption by the main context.  A byte is a number, a block or a   *)
(* string is the sequence of its bytes, and a pointer into a string is the *)
(* count of the bytes before it.                                           *)
(***************************************************************************)
EXTENDS Integers, Sequences, SequencesExt, FiniteSets, Bitwise

S == INSTANCE Spans

Byte == 0..255

-----------------------------------------------------------------------------
(* multi_byte.                                                             *)

\* code_point is valid below this value, valid_sequence_length in this range.
InvalidCodePoint == 2147483647

IsCodePoint(cp) == 0 <= cp /\ cp < InvalidCodePoint

Lengths == 1..6

MaxCodePoint(len) == <<127, 2047, 65535, 2097151, 67108863, 2147483647>>[len]

HeadCodeMask(len) == <<128, 224, 240, 248, 252, 254>>[len]

HeadCodeFromMask(mask) == (mask * 2) % 256

\* One more than the largest data of a head byte, the inverted mask, and of a
\* tail byte.
HeadDataRange(len) == 256 - HeadCodeMask(len)

TailDataRange == 64

TailCode == 128

\* b & mask, of a mask that leaves out the lowest bits.
Masked(b, range) == b - (b % range)

IsHeadOf(b, len) == Masked(b, HeadDataRange(len)) = HeadCodeFromMask(HeadCodeMask(len))

IsHeadByte(b) == \E len \in Lengths : IsHeadOf(b, len)

IsTailByte(b) == Masked(b, TailDataRange) = TailCode

\* The first of the lengths in a set, or 0, which is not valid.
FirstLength(set) == IF set = {} THEN 0 ELSE CHOOSE len \in set : \A k \in set : len <= k

\* The largest code point of a length is encoded with the next one.
RequiredLength(cp) == FirstLength({len \in Lengths : MaxCodePoint(len) > cp})

SequenceLength(b) == FirstLength({len \in Lengths : IsHeadOf(b, len)})

IsValidEncoding(seq) ==
    LET len == SequenceLength(seq[1])
    IN  len # 0 /\ len <= Len(seq) /\ \A i \in 2..len : IsTailByte(seq[i])

\* The tails are not looked at: whatever they are, their data are taken.
DecodeFrom(src, len) ==
    FoldLeft(LAMBDA cp, b : cp * TailDataRange + (b % TailDataRange), src[1] % HeadDataRange(len), SubSeq(src, 2, len))

\* do_decode_code_point: a source of exactly the length will do ...
DecodeCodePoint(src, len) ==
    IF len # 0 /\ len - 1 < Len(src) THEN DecodeFrom(src, len) ELSE InvalidCodePoint

\* ... and do_decode_length_and_code_point: here it has to be longer.
DecodeLengthAndCodePoint(src) ==
    LET len == IF src = <<>> THEN 0 ELSE SequenceLength(src[1])
    IN  <<len, IF len # 0 /\ len < Len(src) THEN DecodeFrom(src, len) ELSE InvalidCodePoint>>

\* The data of the i-th byte of a sequence, as a shift to the right.
Shifted(cp, i, len) == cp \div TailDataRange^(len - i)

EncodeByte(cp, i, len) ==
    IF i = 1 THEN HeadCodeFromMask(HeadCodeMask(len)) + (Shifted(cp, i, len) % HeadDataRange(len))
    ELSE TailCode + (Shifted(cp, i, len) % TailDataRange)

EncodeInto(cp, dest, len) == [i \in DOMAIN dest |-> IF i <= len THEN EncodeByte(cp, i, len) ELSE dest[i]]

\* encode_code_point: the length, 0 if there is no room for it, and the block.
EncodeCodePoint(cp, dest) ==
    LET len == RequiredLength(cp)
    IN  IF IsCodePoint(cp) /\ len # 0 /\ len - 1 < Len(dest) THEN <<len, EncodeInto(cp, dest, len)>> ELSE <<0, dest>>

\* encode_code_point into a string, with the help of an array of seven.
Encoded(cp) ==
    LET e == EncodeCodePoint(cp, [i \in 1..7 |-> 0]) IN SubSeq(e[2], 1, e[1])

EncodeNil(dest) == IF dest = <<>> THEN <<0, dest>> ELSE <<1, [dest EXCEPT ![1] = 255]>>

\* Of code points that are valid.
EncodingBytesRequired(cps) == FoldLeft(LAMBDA n, cp : n + RequiredLength(cp), 0, cps)

\* How many sequences the bytes hold, -1 if one of them does not begin with a
\* head; the bytes do not end inside of the last one.
DecodingCodePointsRequired(bytes) ==
    LET F[i \in 1..(Len(bytes) + 1)] ==
          IF i > Len(bytes) THEN 0
          ELSE LET len == SequenceLength(bytes[i])
               IN  IF len = 0 \/ F[i + len] = -1 THEN -1 ELSE F[i + len] + 1
    IN  F[1]

\* encode_code_points: whether all were encoded, how far it came, the block.
EncodeCodePoints(cps, dest) ==
    FoldLeft(LAMBDA r, cp :
                 LET e == EncodeCodePoint(cp, SubSeq(r.dest, r.at + 1, Len(r.dest)))
                 IN  IF ~r.done THEN r
                     ELSE IF ~IsCodePoint(cp) \/ r.at >= Len(r.dest) \/ e[1] = 0 THEN [r EXCEPT !.done = FALSE]
                     ELSE [done |-> TRUE, at |-> r.at + e[1], dest |-> SubSeq(r.dest, 1, r.at) \o e[2]],
             [done |-> TRUE, at |-> 0, dest |-> dest], cps)

\* decode_code_points: whether as many as asked for are there, and those read.
DecodeCodePoints(bytes, count) ==
    FoldLeft(LAMBDA r, k :
                 LET sub == SubSeq(bytes, r.at + 1, Len(bytes))
                     len == IF sub = <<>> THEN 0 ELSE SequenceLength(sub[1])
                     cp == DecodeCodePoint(sub, len)
                 IN  IF ~r.done THEN r
                     ELSE IF ~IsCodePoint(cp) THEN [r EXCEPT !.done = FALSE]
                     ELSE [done |-> TRUE, at |-> r.at + len, cps |-> Append(r.cps, cp)],
             [done |-> TRUE, at |-> 0, cps |-> <<>>], [k \in 1..count |-> k])

-----------------------------------------------------------------------------
(* size_and_data: a block after its encoded size.                          *)

Joined(blocks) == FlattenSeq(blocks)

\* store_data_with_size: the part of the destination that was used, and the
\* destination, which begins with a nil when it is too small.
StoreDataWithSize(src, dst) ==
    LET e == EncodeCodePoint(Len(src), dst)
    IN  IF RequiredLength(Len(src)) + Len(src) <= Len(dst)
        THEN LET all == S!CopySpan(S!HeadN(e[2], e[1]) \o src, e[2]) IN <<S!HeadN(all, e[1] + Len(src)), all>>
        ELSE <<(<<>>), EncodeNil(dst)[2]>>

\* Of a buffer, which is resized first.
StoreInBuffer(src) == StoreDataWithSize(src, [i \in 1..(Len(src) + 16) |-> 0])[1]

\* The sizes in front of a block, or nothing.
SkipAndDataLength(src) ==
    LET d == DecodeLengthAndCodePoint(src) IN IF d[1] # 0 /\ IsCodePoint(d[2]) THEN <<d>> ELSE <<>>

SkipDataWithSize(src) ==
    LET d == SkipAndDataLength(src) IN IF d = <<>> THEN 0 ELSE d[1][1] + d[1][2]

GetDataWithSize(src) ==
    LET d == SkipAndDataLength(src) IN IF d = <<>> THEN <<>> ELSE S!HeadN(S!SkipN(src, d[1][1]), d[1][2])

\* The blocks for_each_data_with_size calls the function with.
EachDataWithSize(src) ==
    LET F[n \in 0..Len(src)] ==                \* those in the last n bytes
          LET rest == S!TailN(src, n)
              d == SkipAndDataLength(rest)
              end == IF n < d[1][1] + d[1][2] THEN n ELSE d[1][1] + d[1][2]
          IN  IF d = <<>> THEN <<>> ELSE <<SubSeq(rest, d[1][1] + 1, end)>> \o F[n - end]
    IN  F[Len(src)]

\* The bytes with which scramble fills the target from a source.
Scramble(from) ==
    LET n == Len(from)
        seed == 165 ^^ from[n]
    IN  [i \in 1..n |-> from[i] ^^ (from[n + 1 - i] ^^ (IF i = 1 THEN seed ELSE from[i - 1]))]

\* The padding after a block: it is scrambled over and over.  With an empty
\* block and something to be padded the code does not end.
Padding(src, size) ==
    [i \in 1..size |->
        LET before == ((i - 1) \div Len(src)) * Len(src)
        IN  Scramble(S!HeadN(src, size - before))[i - before]]

\* pad_and_store_data_with_size into a destination with room enough: the size,
\* the data, the padding.
PadAndStore(src, padded) ==
    Encoded(Len(src)) \o src \o (IF src = <<>> THEN <<>> ELSE Padding(src, padded - Len(src)))

\* get_padded_data_with_size: the content, and how many bytes of it are data.
GetPadded(src) ==
    LET d == SkipAndDataLength(src)
    IN  IF d = <<>> THEN [content |-> <<>>, size |-> 0] ELSE [content |-> S!SkipN(src, d[1][1]), size |-> d[1][2]]

-----------------------------------------------------------------------------
(* main_ctx: encryption with a key and a nonce.                            *)

\* main_ctx_do_scramble and main_ctx_do_unscramble: of every eight bytes the
\* bits of one value become one byte.
Transposed(block) ==
    [i \in DOMAIN block |->
        LET first == ((i - 1) \div 8) * 8
            by == i - 1 - first
        IN  FoldLeft(LAMBDA b, bi : b + (((block[first + bi + 1] \div 2^by) % 2) * 2^bi), 0, [k \in 1..8 |-> k - 1])]

ScrambleEncrypted(input) ==
    LET size == ((Len(input) \div 8) + (IF Len(input) % 8 # 0 THEN 1 ELSE 0)) * 8
        stored == PadAndStore(input, size)
        head == Len(stored) - size
    IN  S!HeadN(stored, head) \o Transposed(S!SkipN(stored, head))

\* What cannot be read in whole groups is refused, as nothing.
UnscrambleEncrypted(input) ==
    LET p == GetPadded(input)
    IN  IF Len(p.content) % 8 # 0 THEN <<>> ELSE <<S!HeadN(Transposed(p.content), p.size)>>

Mixed(nonce, key, block) ==
    [i \in DOMAIN block |-> (block[i] ^^ key[((i - 1) % Len(key)) + 1]) ^^ nonce[((i - 1) % Len(nonce)) + 1]]

\* encrypt_shared and decrypt_shared: nothing without a nonce or a key.
EncryptShared(nonce, key, input) ==
    IF nonce = <<>> \/ key = <<>> THEN <<>> ELSE <<Mixed(nonce, key, ScrambleEncrypted(input))>>

DecryptShared(nonce, key, input) ==
    IF nonce = <<>> \/ key = <<>> THEN <<>> ELSE UnscrambleEncrypted(Mixed(nonce, key, input))

-----------------------------------------------------------------------------
(* string_list: each string between its length and its length again.  The  *)
(* lists are ones that were made by these functions.                       *)

HeaderSize(elem) == SequenceLength(elem[1])

ValueSize(elem, len) ==
    LET cp == DecodeCodePoint(elem, len) IN IF IsCodePoint(cp) THEN cp ELSE 0

RevSeekHeaderStart(list) ==
    LET heads == {i \in 0..(Len(list) - 1) : IsHeadByte(list[i + 1])}
    IN  IF heads = {} THEN 0 ELSE CHOOSE i \in heads : \A k \in heads : k <= i

FrontValue(list) == S!Slice(list, HeaderSize(list), ValueSize(list, HeaderSize(list)))

BackValue(list) ==
    LET i == RevSeekHeaderStart(list)
        header == S!SkipN(list, i)
        l == ValueSize(header, HeaderSize(header))
    IN  S!Slice(list, i - l, l)

WithoutBack(list) ==
    LET i == RevSeekHeaderStart(list)
        header == S!SkipN(list, i)
        k == HeaderSize(header)
    IN  S!HeadN(list, i - k - ValueSize(header, k))

PushBack(list, value) == list \o Encoded(Len(value)) \o value \o Encoded(Len(value))

\* element: its header and footer, and the value in between.
Fit(s) == S!HeadN(s, 2 * HeaderSize(s) + ValueSize(s, HeaderSize(s)))

ElementValue(elem) == S!Slice(elem, HeaderSize(elem), ValueSize(elem, HeaderSize(elem)))

\* for_each_elem.
ElementsOf(list) ==
    LET F[n \in 0..Len(list)] ==               \* those in the last n bytes
          LET elem == Fit(S!TailN(list, n)) IN IF n < 2 THEN <<>> ELSE <<elem>> \o F[n - Len(elem)]
    IN  F[Len(list)]

ForEach(list) == LET es == ElementsOf(list) IN [i \in DOMAIN es |-> ElementValue(es[i])]

ElementCount(list) == Len(ElementsOf(list))

\* rev_for_each: the footer is looked for backwards, and the element begins
\* where its length says.
RevFit(list, i) ==
    LET foot == S!SkipN(list, i)
        all == 2 * HeaderSize(foot) + ValueSize(foot, HeaderSize(foot))
    IN  S!Slice(list, i - all + HeaderSize(foot), all)

RevForEach(list) ==
    LET F[n \in 0..Len(list)] ==               \* those in the first n bytes
          LET elem == RevFit(list, RevSeekHeaderStart(S!HeadN(list, n)))
          IN  IF n < 2 THEN <<>> ELSE <<ElementValue(elem)>> \o F[n - Len(elem)]
    IN  F[Len(list)]

\* iterator and rev_iterator: the value, and where the next one is; the end of
\* the reverse ones is before the first byte.
IterValue(list, pos) == ElementValue(Fit(S!SkipN(list, pos)))

IterNext(list, pos) == pos + Len(Fit(S!SkipN(list, pos)))

RevSeek(list, pos) == RevSeekHeaderStart(S!HeadN(list, pos + 1))

RevIterValue(list, pos) == ElementValue(RevFit(list, RevSeek(list, pos)))

RevIterNext(list, pos) ==
    LET head == S!SkipN(list, RevSeek(list, pos))
    IN  RevSeek(list, pos) - (HeaderSize(head) + ValueSize(head, HeaderSize(head)) + 1)

\* split and join.
SplitInto(dst, str, sep) == FoldLeft(PushBack, dst, S!Delimited(str, sep))

Split(str, sep) == <<SplitInto(<<>>, str, sep), Len(S!Delimited(str, sep))>>

\* for_each_separated_c_str: a string is what a separator ends, and not the rest
\* behind the last one; the first that is too short ends the list.
SeparatedCStr(str, sep) ==
    LET ended == S!Snip(S!Delimited(str, <<sep>>), 1)
        short == {i \in DOMAIN ended : Len(ended[i]) < (IF sep = 0 THEN 2 ELSE 1)}
    IN  IF short = {} THEN ended ELSE S!HeadN(ended, FirstLength(short) - 1)

SplitCStrInto(dst, str, sep) == FoldLeft(PushBack, dst, SeparatedCStr(str, sep))

JoinList(list, sep, trail) ==
    LET vs == ForEach(list)
    IN  Joined([i \in DOMAIN vs |-> IF i = 1 THEN vs[i] ELSE sep \o vs[i]]) \o (IF trail THEN sep ELSE <<>>)

-----------------------------------------------------------------------------
(* basic_string_path: a list and the count of its elements.                *)

EmptyPath == [size |-> 0, str |-> <<>>]

\* The zeros at the end of a name are cut off.
Fixed(name) == S!HeadN(name, FoldLeft(LAMBDA n, i : IF name[i] # 0 THEN i ELSE n, 0, [i \in DOMAIN name |-> i]))

PathPushBack(path, name) == [size |-> path.size + 1, str |-> PushBack(path.str, Fixed(name))]

PathPushBackElem(path, elem) == [size |-> path.size + 1, str |-> path.str \o elem]

PathOf(names) == FoldLeft(PathPushBack, EmptyPath, names)

\* The length that _init reserves, and asserts in the end.
AssertedLength(names) == FoldLeft(LAMBDA n, name : n + Len(name), 2 * Len(names), names)

PathOfText(text, sep) == LET s == Split(text, sep) IN [size |-> s[2], str |-> s[1]]

Concatenated(a, b) == [size |-> a.size + b.size, str |-> a.str \o b.str]

IsEmptyPath(path) == path.str = <<>>

PathFront(path) == FrontValue(path.str)

PathBack(path) == BackValue(path.str)

StartsWithEntry(path, entry) == ~IsEmptyPath(path) /\ PathFront(path) = entry

EndsWithEntry(path, entry) == ~IsEmptyPath(path) /\ PathBack(path) = entry

IsEntry(path, entry) == path.size = 1 /\ PathBack(path) = entry

PathPopBack(path) == [size |-> path.size - 1, str |-> WithoutBack(path.str)]

\* parent() with no more than the elements there are: emptiness is asked of the
\* path itself, and not of the copy from which they are removed.
Parent(path, n) ==
    IF IsEmptyPath(path) THEN path ELSE FoldLeft(LAMBDA p, k : PathPopBack(p), path, [k \in 1..n |-> k])

\* From begin() to end(), and from rbegin() to rend().
Iterated(path) ==
    LET F[n \in 0..Len(path.str)] ==
          LET pos == Len(path.str) - n
          IN  IF n = 0 THEN <<>> ELSE <<IterValue(path.str, pos)>> \o F[n - (IterNext(path.str, pos) - pos)]
    IN  F[Len(path.str)]

RevIterated(path) ==
    LET F[n \in 0..Len(path.str)] ==
          IF n = 0 THEN <<>> ELSE <<RevIterValue(path.str, n - 1)>> \o F[RevIterNext(path.str, n - 1) + 1]
    IN  F[Len(path.str)]

Element(path, idx) == Iterated(path)[idx + 1]

Wildcard == <<42>>

EntriesMatch(elem, patt) == elem = patt \/ patt = Wildcard

MatchAsFarAs(path, pattern, n) == \A i \in 1..n : EntriesMatch(Iterated(path)[i], Iterated(pattern)[i])

Like(path, pattern) == path.size = pattern.size /\ MatchAsFarAs(path, pattern, path.size)

PathStartsWith(path, pattern) == path.size >= pattern.size /\ MatchAsFarAs(path, pattern, pattern.size)

RequiredBytes(size) == size + 2 * RequiredLength(size)

AsString(path, sep, trail) == JoinList(path.str, sep, trail)

-----------------------------------------------------------------------------
(* Laws.                                                                   *)

\* A code point is read back from its bytes, the first of which is the only one
\* that could begin a sequence; without room for them nothing is written.
CodePointLaws(cp) ==
    LET seq == Encoded(cp)
        len == RequiredLength(cp)
    IN  /\ len = Len(seq) /\ SequenceLength(seq[1]) = len /\ ToSet(seq) \subseteq Byte
        /\ \A i \in DOMAIN seq : IsHeadByte(seq[i]) = (i = 1) /\ IsTailByte(seq[i]) = (i > 1)
        /\ IsValidEncoding(seq) /\ DecodeCodePoint(seq, len) = cp
        /\ DecodeLengthAndCodePoint(seq \o <<0>>) = <<len, cp>>
        /\ DecodeLengthAndCodePoint(seq) = <<len, InvalidCodePoint>>
        /\ \A room \in 0..7 :
              LET dest == [i \in 1..room |-> 255] IN
              EncodeCodePoint(cp, dest) =
                IF room < len THEN <<0, dest>> ELSE <<len, seq \o SubSeq(dest, len + 1, room)>>
        /\ SequenceLength(EncodeNil(<<seq[1]>>)[2][1]) = 0

\* Bytes that are valid stand for a code point that needs as many, or less, or
\* is the largest one of their length.
BytesLaws(bytes) ==
    IsValidEncoding(bytes) =>
        LET len == SequenceLength(bytes[1])
            cp == DecodeCodePoint(bytes, len)
        IN  \/ cp = MaxCodePoint(len)
            \/ RequiredLength(cp) < len
            \/ Encoded(cp) = SubSeq(bytes, 1, len)

\* Code points are all encoded or it is said that they are not, and the counts
\* announced are the counts of the bytes and of the code points.
CodePointsLaws(cps, room) ==
    LET e == EncodeCodePoints(cps, [i \in 1..room |-> 0])
        bytes == SubSeq(e.dest, 1, e.at)
    IN  /\ e.done = (EncodingBytesRequired(cps) <= room)
        /\ Len(e.dest) = room
        /\ e.done =>
              /\ e.at = EncodingBytesRequired(cps)
              /\ DecodingCodePointsRequired(bytes) = Len(cps)
              /\ DecodeCodePoints(bytes, Len(cps)).cps = cps
              /\ ~DecodeCodePoints(bytes, Len(cps) + 1).done
        /\ cps # <<>> /\ Last(cps) > 127 => DecodingCodePointsRequired(Tail(Encoded(Last(cps)))) = -1

\* Blocks stored with their sizes one after another are found again, but not an
\* empty one at the very end; a block that does not fit leaves a nil behind.
BlocksLaws(blocks, room) ==
    LET all == Joined([i \in DOMAIN blocks |-> StoreInBuffer(blocks[i])])
        dst == [i \in 1..room |-> 7]
    IN  /\ EachDataWithSize(all) =
              IF blocks # <<>> /\ Last(blocks) = <<>> THEN Front(blocks) ELSE blocks
        /\ blocks # <<>> =>
              LET src == blocks[1]
                  stored == StoreDataWithSize(src, dst)
              IN  /\ Len(stored[2]) = room
                  /\ stored[1] # <<>> =>
                        /\ stored[1] = StoreInBuffer(src)
                        /\ GetDataWithSize(stored[1]) = src
                        /\ SkipDataWithSize(stored[1] \o <<9>>) = Len(stored[1])
                        /\ GetDataWithSize(stored[1] \o <<9>>) = src
                  /\ stored[1] = <<>> =>
                        /\ room < Len(src) + RequiredLength(Len(src))
                        /\ SkipDataWithSize(stored[2]) = 0 /\ GetDataWithSize(stored[2]) = <<>>

\* What was encrypted is decrypted with the same key and nonce, whatever the
\* padding took, and comes in whole groups behind its size.
SecretLaws(nonce, key, input) ==
    LET e == EncryptShared(nonce, key, input)
    IN  /\ (e = <<>>) = (nonce = <<>> \/ key = <<>>)
        /\ e # <<>> =>
              /\ DecryptShared(nonce, key, e[1]) = <<input>>
              /\ (Len(e[1]) - RequiredLength(Len(input))) % 8 = 0

\* A path has the elements it was made of, in whatever direction it is read, up
\* to the zeros at the end of their names.
PathLaws(names, sep) ==
    LET p == PathOf(names)
        vs == [i \in DOMAIN names |-> Fixed(names[i])]
    IN  /\ p.size = Len(names)
        /\ Iterated(p) = vs /\ RevIterated(p) = Reverse(vs)
        /\ ForEach(p.str) = vs /\ RevForEach(p.str) = Reverse(vs) /\ ElementCount(p.str) = p.size
        /\ Len(p.str) = FoldLeft(LAMBDA n, v : n + RequiredBytes(Len(v)), 0, vs)
        /\ (Len(p.str) = AssertedLength(names)) = (Len(Joined(names)) - Len(Joined(vs))
              = 2 * Cardinality({i \in DOMAIN vs : Len(vs[i]) >= 127}))
        /\ FoldLeft(PathPushBackElem, EmptyPath, ElementsOf(p.str)) = p
        /\ \A n \in 0..Len(names) : Parent(p, n) = PathOf(SubSeq(names, 1, Len(names) - n))
        /\ names # <<>> =>
              /\ StartsWithEntry(p, vs[1]) /\ EndsWithEntry(p, Last(vs))
              /\ IsEntry(p, vs[1]) = (Len(names) = 1)
              /\ \A i \in DOMAIN vs : Element(p, i - 1) = vs[i]
        /\ names # <<>> /\ (\A i \in DOMAIN vs : ~S!SpanContains(vs[i], sep)) =>
              PathOfText(AsString(p, sep, FALSE), sep) = p
        /\ AsString(p, sep, TRUE) = AsString(p, sep, FALSE) \o sep

\* The text that was split is the text that is joined, and what is cut from a C
\* string are the parts that are ended.
TextLaws(text, sep) ==
    LET cut == SeparatedCStr(text, sep[1])
    IN  /\ AsString(PathOfText(text, sep), sep, FALSE) = text
        /\ ForEach(SplitCStrInto(<<>>, text, sep[1])) = cut
        /\ S!StartsWith(text, JoinList(SplitCStrInto(<<>>, text, sep[1]), <<sep[1]>>, cut # <<>>))

\* A path is like itself and like what differs in wildcards, and starts with
\* what it was put together from.
PatternLaws(a, b) ==
    LET p == PathOf(a)
        q == PathOf(b)
    IN  /\ Concatenated(p, q) = PathOf(a \o b)
        /\ PathStartsWith(Concatenated(p, q), p)
        /\ PathStartsWith(p, q) = (Len(b) <= Len(a) /\ Like(Parent(p, IF Len(b) <= Len(a) THEN Len(a) - Len(b) ELSE 0), q))
        /\ Like(p, q) /\ Like(q, p) => \A i \in DOMAIN a : a[i] = b[i]
        /\ Like(p, PathOf([i \in DOMAIN a |-> IF i \in DOMAIN b /\ b[i] = a[i] THEN a[i] ELSE Wildcard]))
=============================================================================
