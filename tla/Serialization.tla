--------------------------- MODULE Serialization ---------------------------
(***************************************************************************)
(* Values written by the string, portable and fast backends into a block   *)
(* of bytes and read back.  A shape says what is written: the kind of a    *)
(* plain value, or a list, tuple, struct or optional of shapes.  Text is a *)
(* sequence of characters, the bytes of the fast backend are numbers.      *)
(***************************************************************************)
EXTENDS Integers, Sequences, SequencesExt, FiniteSets

Plain == {"bool", "byte", "char", "short", "ushort", "size", "name", "str", "float"}

ByteRange == 256

Quote == "quote"

Tick == "tick"

Hex == <<"0", "1", "2", "3", "4", "5", "6", "7", "8", "9", "A", "B", "C", "D", "E", "F">>

\* The characters of the samples and their codes.
Chars == [c \in {"a", ";", "'", "|"} |-> CASE c = "a" -> 97 [] c = ";" -> 59 [] c = "'" -> 39 [] c = "|" -> 124]

Magnitude(v) == IF v < 0 THEN -v ELSE v

\* The digits of v in the base, the least significant one first.
DigitsOf(v, base) ==
    LET n == CHOOSE k \in 1..16 : base^k > v /\ (k = 1 \/ base^(k - 1) <= v)
    IN  [k \in 1..n |-> Hex[((v \div base^(k - 1)) % base) + 1]]

\* printf's %d, and the portable backend's signed and unsigned numbers.
Decimal(v) == (IF v < 0 THEN <<"-">> ELSE <<>>) \o Reverse(DigitsOf(Magnitude(v), 10))

Unsigned(v) == DigitsOf(v, 16)

Signed(v) == <<IF v < 0 THEN "-" ELSE "+">> \o Unsigned(Magnitude(v))

-----------------------------------------------------------------------------
(* float_utils: a number is its class, its sign, the FracBits of its        *)
(* fraction after the leading one and the exponent frexp() gives.           *)

FracBits == 3

MaxFraction == 2^(FracBits + 2)

Decompose(f) ==
    CASE f.cls = "zero" -> <<0, IF f.neg THEN 1 ELSE 0>>
      [] f.cls = "inf" -> <<0, IF f.neg THEN 3 ELSE 2>>
      [] f.cls = "nan" -> <<0, IF f.neg THEN 5 ELSE 4>>
      [] OTHER -> <<((f.man * MaxFraction) \div 2^FracBits) * 2 + (IF f.neg THEN 1 ELSE 0), f.exp>>

Compose(d) ==
    IF d[1] = 0 /\ d[2] \in 0..5
    THEN [cls |-> <<"zero", "inf", "nan">>[(d[2] \div 2) + 1], neg |-> d[2] % 2 = 1, man |-> 0, exp |-> 0]
    ELSE [cls |-> "normal", neg |-> d[1] % 2 = 1, man |-> ((d[1] \div 2) * 2^FracBits) \div MaxFraction, exp |-> d[2]]

-----------------------------------------------------------------------------
(* The sink of a block of bytes: what fits is written.  asserted says that *)
(* an assertion failed, at which a build with assertions stops; the rest   *)
(* is what a build without them does.                                      *)

Sink(room) == [room |-> room, out |-> <<>>, saves |-> <<>>, err |-> {}, asserted |-> FALSE]

RemainingSize(s) == s.room - Len(s.out)

PutWhatFits(s, data) ==     \* mutant of Put
    [s EXCEPT !.out = SubSeq(@ \o data, 1, Min({s.room, Len(@ \o data)}))]

Put(s, data) ==
    IF RemainingSize(s) < Len(data)
    THEN [s EXCEPT !.out = @ \o SubSeq(data, 1, RemainingSize(s)), !.err = @ \cup {"incomplete_write"}]
    ELSE [s EXCEPT !.out = @ \o data]

BeginWork(s) == [s EXCEPT !.saves = Append(@, Len(s.out))]

Commit(s) == [s EXCEPT !.saves = Front(@)]

Rollback(s) == [s EXCEPT !.out = SubSeq(@, 1, Last(s.saves)), !.saves = Front(@)]

ReplaceWith(s, data) ==
    IF s.room < Len(data) THEN [s EXCEPT !.err = @ \cup {"too_much_data"}] ELSE [s EXCEPT !.out = data]

\* packed_block_data_sink: an empty packed block is a failure to pack.
Finalize(s, packed) ==
    IF packed = <<>> THEN [s EXCEPT !.err = @ \cup {"backend_error"}] ELSE ReplaceWith(s, packed)

\* write_some(): how much of the data has been written.
WriteSome(s, data) ==
    IF Put(s, data).err = {} THEN Len(data) ELSE RemainingSize(s)

-----------------------------------------------------------------------------
(* The backends' writers.                                                  *)

Number(B, kind, v) ==
    CASE B = "string" /\ kind = "byte" -> <<Hex[(v \div 16) + 1], Hex[(v % 16) + 1]>>
      [] B = "string" /\ kind # "byte" -> Decimal(v)
      [] B = "portable" /\ kind \in {"byte", "ushort"} -> Unsigned(v)
      [] B = "portable" /\ kind \notin {"byte", "ushort"} -> Signed(v)

TextOne(B, kind, v) ==
    CASE kind = "bool" /\ B = "string" -> IF v THEN <<"t", "r", "u", "e">> ELSE <<"f", "a", "l", "s", "e">>
      [] kind = "bool" /\ B = "portable" -> IF v THEN <<"T">> ELSE <<"U">>
      [] kind = "char" /\ B = "string" -> <<"'", v, "'">>
      [] kind = "char" /\ B = "portable" -> Signed(Chars[v])
      [] kind \in {"byte", "short", "ushort", "size"} -> Number(B, kind, v)
      [] kind = "float" -> Unsigned(Decompose(v)[1]) \o <<Tick>> \o Signed(Decompose(v)[2])
      [] kind = "name" -> v
      [] kind = "str" -> <<Quote>> \o Number(B, "size", Len(v)) \o <<"|">> \o v \o <<Quote>>

Width(kind) == IF kind \in {"bool", "byte", "char"} THEN 1 ELSE 2

FastBytes(kind, v) ==
    LET n == IF kind = "bool" THEN IF v THEN 1 ELSE 0 ELSE v % 2^16
    IN  IF kind = "char" THEN <<v>> ELSE [k \in 1..Width(kind) |-> (n \div ByteRange^(k - 1)) % ByteRange]

\* A value of a fixed size is written whole or not at all; whether the text of
\* a string fits is not looked at.
FastFixed(s, kind, v) ==
    IF RemainingSize(s) < Width(kind) THEN [s EXCEPT !.err = @ \cup {"incomplete_write"}]
    ELSE Put(s, FastBytes(kind, v))

FastString(s, v) ==
    LET t == FastFixed(s, "size", Len(v))
    IN  IF t.err # {} THEN t ELSE [Put(t, v) EXCEPT !.err = t.err]

PutOne(B, s, kind, v) ==
    CASE B = "fast" -> IF kind \in {"name", "str"} THEN FastString(s, v) ELSE FastFixed(s, kind, v)
      [] B # "fast" -> Put(s, TextOne(B, kind, v) \o <<";">>)

\* write() of a span: stops at the first value that fails.
PutAll(B, s, kind, vs) ==
    FoldLeft(LAMBDA t, v : IF t.err # {} THEN t ELSE PutOne(B, t, kind, v), s, vs)

\* plain_serializer: when not a single value was written there was too much
\* data, it asserts, though a block sink says incomplete_write then and a span
\* may be empty.
PutSpan(B, s, kind, vs) ==
    LET t == PutAll(B, s, kind, vs)
        none == vs = <<>> \/ PutOne(B, s, kind, vs[1]).err # {}
    IN  [t EXCEPT !.asserted = @ \/ (none /\ "too_much_data" \notin t.err)]

WriteOne(B, s, kind, v) == PutSpan(B, s, kind, <<v>>)

\* What surrounds the values; the fast backend writes the counts only.
Around(B, s, text) == IF B = "fast" THEN s ELSE Put(s, text)

PutCount(B, s, open, n) ==
    IF B = "fast" THEN FastFixed(s, "size", n) ELSE Put(s, <<open>> \o Number(B, "size", n) \o <<"|">>)

Closing(B, c) == IF B = "string" THEN <<c, ";">> ELSE <<c>>

-----------------------------------------------------------------------------
(* The serializers.                                                        *)

RECURSIVE Write(_, _, _, _)

\* common_serializer: every element is a transaction of the sink.
WriteEach(B, s, sh, vs) ==
    FoldLeft(LAMBDA t, v :
               IF t.err # {} THEN t
               ELSE LET w == Write(B, BeginWork(t), sh, v)
                    IN  IF w.err = {} THEN Commit(w)
                        ELSE IF w.err = {"too_much_data"} THEN [Rollback(w) EXCEPT !.err = {"incomplete_write"}]
                        ELSE w,
             s, vs)

WriteElements(B, s, sh, vs) ==
    IF sh.t \in Plain THEN PutSpan(B, s, sh.t, vs) ELSE WriteEach(B, s, sh, vs)

\* Tuples and structs: nothing more is written after an error.
WriteFields(B, s, shs, vs, names) ==
    FoldLeft(LAMBDA t, i :
               IF t.err # {} THEN t
               ELSE LET u == IF names = <<>> THEN t ELSE Around(B, t, names[i] \o <<":">>)
                    IN  IF u.err # {} THEN u ELSE Write(B, u, shs[i], vs[i]),
             s, [i \in DOMAIN vs |-> i])

Write(B, s, sh, v) ==
    LET Body(open, n, close, W(_)) ==
          LET b == PutCount(B, s, open, n) IN IF b.err # {} THEN b ELSE Around(B, W(b), Closing(B, close))
    IN  CASE sh.t \in {"array", "vector"} -> Body("[", Len(v), "]", LAMBDA b : WriteElements(B, b, sh.of, v))
          [] sh.t = "tuple" -> Body("[", Len(v), "]", LAMBDA b : WriteFields(B, b, sh.of, v, <<>>))
          [] sh.t = "struct" -> Body("{", Len(v), "}", LAMBDA b : WriteFields(B, b, sh.of, v, sh.names))
          [] sh.t = "optional" ->
               Body("[", Len(v), "]", LAMBDA b : IF v = <<>> THEN b ELSE Write(B, b, sh.of, v[1]))
          [] sh.t = "enum" ->
               IF B = "fast" THEN WriteOne(B, s, "byte", IndexFirstSubSeq(<<v>>, sh.names))
               ELSE WriteOne(B, s, "name", v)
          [] OTHER -> WriteOne(B, s, sh.t, v)

Serialize(B, sh, v, room) ==
    LET b == Around(B, Sink(room), <<"<">>)
    IN  IF b.err # {} THEN b ELSE Around(B, Write(B, b, sh, v), <<">", "nul">>)

-----------------------------------------------------------------------------
(* The source and the backends' readers: a result is the value, what is    *)
(* left of the data and the errors.                                        *)

None == [none |-> TRUE]

Got(v, src) == [v |-> v, src |-> src, err |-> {}]

Failed(src, e) == [v |-> None, src |-> src, err |-> {e}]

PopN(src, n) == SubSeq(src, n + 1, Len(src))

Require(src, what) ==
    IF Len(src) < Len(what) THEN Failed(src, "not_enough_data")
    ELSE IF IsPrefix(what, src) THEN Got(None, PopN(src, Len(what)))
    ELSE Failed(src, "invalid_format")

\* r, and what F makes of the rest of its data if there was no error.
Then(r, F(_)) == IF r.err # {} THEN r ELSE F(r)

\* The characters before the delimiter; none when there is no delimiter.
StringBefore(src, delim) ==
    IF delim \in Range(src) THEN SubSeq(src, 1, SelectInSeq(src, LAMBDA c : c = delim) - 1) ELSE <<>>

IsDigit(c, base) == \E k \in 1..base : Hex[k] = c

DigitValue(c) == CHOOSE k \in 0..15 : Hex[k + 1] = c

\* sscanf(): the number at the start; what follows it is not looked at.
Scanned(text, base) ==
    LET neg == text # <<>> /\ text[1] = "-"
        t == IF neg THEN Tail(text) ELSE text
        len == CHOOSE n \in 0..Len(t) : /\ \A i \in 1..n : IsDigit(t[i], base)
                                        /\ n = Len(t) \/ ~IsDigit(t[n + 1], base)
        v == FoldLeft(LAMBDA acc, c : acc * base + DigitValue(c), 0, SubSeq(t, 1, len))
    IN  IF len = 0 THEN <<>> ELSE <<IF neg THEN -v ELSE v>>

ScanOne(src, delim, base) ==
    LET text == StringBefore(src, delim) IN
    IF text = <<>> THEN Failed(src, "not_enough_data")
    ELSE IF Scanned(text, base) = <<>> THEN Failed(src, "invalid_format")
    ELSE Got(Scanned(text, base)[1], PopN(src, Len(text) + 1))

ReadUnsigned(src, delim, bits) ==
    LET text == StringBefore(src, delim) IN
    IF text = <<>> THEN Failed(src, "not_enough_data")
    ELSE IF \E i \in DOMAIN text : ~IsDigit(text[i], 16) THEN Failed(src, "invalid_format")
    ELSE Got(FoldRight(LAMBDA c, acc : acc * 16 + DigitValue(c), text, 0) % 2^bits, PopN(src, Len(text) + 1))

ReadSigned(src, delim, bits) ==
    IF src = <<>> \/ src[1] \notin {"+", "-"} THEN Failed(src, "invalid_format")
    ELSE LET r == ReadUnsigned(Tail(src), delim, bits)
         IN  IF r.err # {} THEN r
             ELSE IF r.v >= 2^(bits - 1) THEN Failed(r.src, "invalid_format")
             ELSE Got(IF src[1] = "-" THEN -r.v ELSE r.v, r.src)

ReadNumber(B, kind, src, delim) ==
    IF B = "string" THEN ScanOne(src, delim, IF kind = "byte" THEN 16 ELSE 10)
    ELSE IF kind = "byte" THEN ReadUnsigned(src, delim, 8)
    ELSE IF kind = "ushort" THEN ReadUnsigned(src, delim, 16)
    ELSE ReadSigned(src, delim, IF kind = "char" THEN 8 ELSE 16)

ReadBool(B, src, delim) ==
    LET yes == TextOne(B, "bool", TRUE)
        no == TextOne(B, "bool", FALSE)
    IN  IF IsPrefix(yes, src) THEN [Require(PopN(src, Len(yes)), <<delim>>) EXCEPT !.v = TRUE]
        ELSE IF IsPrefix(no, src) THEN [Require(PopN(src, Len(no)), <<delim>>) EXCEPT !.v = FALSE]
        ELSE Failed(src, IF Len(src) < Len(no) THEN "not_enough_data" ELSE "unexpected_data")

ReadChar(src, delim) ==
    Then(Require(src, <<"'">>), LAMBDA q :
      IF q.src = <<>> THEN Failed(q.src, "not_enough_data")
      ELSE [Require(Tail(q.src), <<"'", delim>>) EXCEPT !.v = q.src[1]])

ReadName(src, delim) ==
    LET text == StringBefore(src, delim)
    IN  IF text = <<>> THEN Failed(src, "not_enough_data") ELSE Got(text, PopN(src, Len(text) + 1))

ReadString(B, src, delim) ==
    Then(Require(src, <<Quote>>), LAMBDA q :
      Then(ReadNumber(B, "size", q.src, "|"), LAMBDA n :
        IF Len(n.src) < n.v THEN Failed(n.src, "not_enough_data")
        ELSE [Require(PopN(n.src, n.v), <<Quote, delim>>) EXCEPT !.v = SubSeq(n.src, 1, n.v)]))

ReadFloat(src, delim) ==
    Then(ReadUnsigned(src, Tick, 16), LAMBDA f :
      Then(ReadSigned(f.src, delim, 16), LAMBDA e : Got(Compose(<<f.v, e.v>>), e.src)))

FastRead(kind, src) ==
    LET w == Width(kind)
        n == IF kind = "char" THEN src[1] ELSE FoldRight(LAMBDA b, acc : acc * ByteRange + b, SubSeq(src, 1, w), 0)
    IN  IF Len(src) < w THEN Failed(src, "not_enough_data")
        ELSE Got(CASE kind = "bool" -> n = 1
                   [] kind = "short" -> IF n >= 2^15 THEN n - 2^16 ELSE n
                   [] OTHER -> n, PopN(src, w))

\* Values of a fixed size are read together, as many as there are, but a span
\* of none has not enough data for one.
FastReadSpan(kind, n, src) ==
    LET done == Min({n, Len(src) \div Width(kind)})
    IN  IF done = 0 THEN [v |-> <<>>, src |-> src, err |-> {"not_enough_data"}]
        ELSE [v |-> [i \in 1..done |-> FastRead(kind, PopN(src, (i - 1) * Width(kind))).v],
              src |-> PopN(src, done * Width(kind)), err |-> IF done < n THEN {"incomplete_read"} ELSE {}]

FastReadString(src) ==
    Then(FastRead("size", src), LAMBDA n :
      IF Len(n.src) < n.v THEN Failed(n.src, "not_enough_data")
      ELSE Got(SubSeq(n.src, 1, n.v), PopN(n.src, n.v)))

ReadOne(B, kind, src) ==
    CASE B = "fast" -> IF kind \in {"name", "str"} THEN FastReadString(src) ELSE FastRead(kind, src)
      [] B # "fast" ->
           CASE kind = "bool" -> ReadBool(B, src, ";")
             [] kind = "char" /\ B = "string" -> ReadChar(src, ";")
             [] kind = "name" -> ReadName(src, ";")
             [] kind = "str" -> ReadString(B, src, ";")
             [] kind = "float" -> ReadFloat(src, ";")
             [] kind = "char" /\ B = "portable" ->
                  Then(ReadNumber(B, kind, src, ";"), LAMBDA r : [r EXCEPT !.v = CHOOSE c \in DOMAIN Chars : Chars[c] = r.v])
             [] OTHER -> ReadNumber(B, kind, src, ";")

ReadCount(B, open, src) ==
    IF B = "fast" THEN FastRead("size", src)
    ELSE Then(Require(src, <<open>>), LAMBDA q : ReadNumber(B, "size", q.src, "|"))

RequireText(B, src, text) == IF B = "fast" THEN Got(None, src) ELSE Require(src, text)

-----------------------------------------------------------------------------
(* The deserializers.                                                      *)

RECURSIVE Read(_, _, _)

WithError(r, e) == [r EXCEPT !.err = @ \cup e]

\* The values of a span are read one after the other: plain ones until an error,
\* others until the data ends.
StopPlain(err) == err # {}

StopCommon(err) == err \cap {"not_enough_data", "backend_error"} # {}

\* Reads the parts of shapes shs, each after its name if they have names, and
\* keeps those without an error.
ReadEach(B, shs, names, plain, src) ==
    FoldLeft(LAMBDA acc, i :
               IF IF plain THEN StopPlain(acc.err) ELSE StopCommon(acc.err) THEN acc
               ELSE LET p == IF names = <<>> THEN Got(None, acc.src)
                             ELSE RequireText(B, acc.src, names[i] \o <<":">>)
                        r == Then(p, LAMBDA q : Read(B, shs[i], q.src))
                    IN  [v |-> IF r.err = {} THEN Append(acc.v, r.v) ELSE acc.v, src |-> r.src, err |-> acc.err \cup r.err],
             Got(<<>>, src), [i \in DOMAIN shs |-> i])

FixedSize == Plain \ {"name", "str"}

ReadElements(B, sh, n, src) ==
    IF B = "fast" /\ sh.t \in FixedSize THEN FastReadSpan(sh.t, n, src)
    ELSE ReadEach(B, [i \in 1..n |-> sh], <<>>, sh.t \in Plain, src)

CountErrors(n, wanted, what) ==
    IF n < wanted THEN {"missing_" \o what} ELSE IF n > wanted THEN {"excess_" \o what} ELSE {}

Finished(B, r, close) == LET f == RequireText(B, r.src, Closing(B, close)) IN [r EXCEPT !.src = f.src, !.err = @ \cup f.err]

Read(B, sh, src) ==
    LET Counted(open, close, wanted, what, R(_, _)) ==
          LET c == ReadCount(B, open, src)
              e == IF c.err # {} THEN {} ELSE CountErrors(c.v, wanted, what)
          IN  IF c.err # {} \/ ~(e \subseteq {"excess_" \o what}) THEN WithError(c, e)
              ELSE WithError(Finished(B, R(c, e), close), e)
        Fields(c, e, names) ==
          IF e # {} THEN Got(<<>>, c.src) ELSE ReadEach(B, sh.of, names, TRUE, c.src)
    IN  CASE sh.t = "array" -> Counted("[", "]", sh.n, "element", LAMBDA c, e : ReadElements(B, sh.of, sh.n, c.src))
          [] sh.t = "vector" ->
               Then(ReadCount(B, "[", src), LAMBDA c : Finished(B, ReadElements(B, sh.of, c.v, c.src), "]"))
          [] sh.t = "tuple" -> Counted("[", "]", Len(sh.of), "element",
                                       LAMBDA c, e : Fields(c, e, <<>>))
          [] sh.t = "struct" -> Counted("{", "}", Len(sh.of), "member",
                                        LAMBDA c, e : Fields(c, e, sh.names))
          [] sh.t = "optional" ->         \* a value is read whatever the count is
               Then(ReadCount(B, "[", src), LAMBDA c :
                 IF c.v > 1 THEN WithError(c, {"excess_element"})
                 ELSE LET r == Finished(B, Read(B, sh.of, c.src), "]") IN [r EXCEPT !.v = <<r.v>>])
          [] sh.t = "enum" ->
               Then(ReadOne(B, IF B = "fast" THEN "byte" ELSE "name", src), LAMBDA r :
                 IF B = "fast" /\ r.v \in DOMAIN sh.names THEN Got(sh.names[r.v], r.src)
                 ELSE IF B # "fast" /\ r.v \in Range(sh.names) THEN r
                 ELSE WithError(r, {"unexpected_data"}))
          [] OTHER -> ReadOne(B, sh.t, src)

\* begin() skips blanks.
SkipBlanks(src) ==
    LET n == CHOOSE k \in 0..Len(src) : (\A i \in 1..k : src[i] = " ") /\ (k = Len(src) \/ src[k + 1] # " ")
    IN  PopN(src, n)

Deserialize(B, sh, src) ==
    Then(IF B = "fast" THEN Got(None, src) ELSE Require(SkipBlanks(src), <<"<">>), LAMBDA b :
      LET r == Read(B, sh, b.src)
          f == RequireText(B, r.src, <<">", "nul">>)
      IN  [r EXCEPT !.src = f.src, !.err = @ \cup f.err])

-----------------------------------------------------------------------------
(* Fragments: a span written in parts, as many values at a time as fit.    *)

\* The fragment written and the offset after it.
WriteFragment(B, kind, vs, offset, room) ==
    LET rest == SubSeq(vs, offset + 1, Len(vs))
        o == WriteOne(B, Sink(room), "size", offset)
        h == IF o.err # {} THEN o ELSE WriteOne(B, o, "size", Len(rest))
        Fits(n) == PutAll(B, h, kind, SubSeq(rest, 1, n)).err = {}
        written == CHOOSE n \in 0..Len(rest) : Fits(n) /\ (n = Len(rest) \/ ~Fits(n + 1))
    IN  IF h.err # {} THEN [out |-> h.out, offset |-> offset]
        ELSE [out |-> PutAll(B, h, kind, rest).out, offset |-> offset + written]

\* dst has the values read so far, none of them twice counted.
ReadFragment(B, kind, dst, src) ==
    LET o == ReadOne(B, "size", src)
        n == Then(o, LAMBDA q : ReadOne(B, "size", q.src))
        r == ReadElements(B, [t |-> kind], n.v, n.src)
    IN  IF n.err # {} THEN dst
        ELSE [i \in DOMAIN dst |-> IF i - o.v \in DOMAIN r.v THEN <<r.v[i - o.v]>> ELSE dst[i]]

-----------------------------------------------------------------------------
(* serialize_buffer_for(): the size of the buffer for a value.             *)

ScalarSize(kind) ==
    CASE kind = "bool" -> 8
      [] kind \in {"byte", "char"} -> 4
      [] kind \in {"short", "ushort"} -> 6
      [] kind = "name" -> 12
      [] kind \in {"float", "size"} -> 24

RECURSIVE BufferSize(_, _, _)

BufferSize(sh, v, named) ==
    CASE sh.t = "str" -> 12 + named + 2 + Len(v)
      [] sh.t = "array" -> FoldLeft(LAMBDA acc, e : acc + 2 + BufferSize(sh.of, e, 0), 12 + named, v)
      [] sh.t = "tuple" -> FoldLeft(LAMBDA acc, i : acc + 2 + BufferSize(sh.of[i], v[i], 0), 12 + named + 2, [i \in DOMAIN v |-> i])
      [] sh.t = "struct" -> FoldLeft(LAMBDA acc, i : acc + 2 + BufferSize(sh.of[i], v[i], Len(sh.names[i])),
                                     12 + named + 2, [i \in DOMAIN v |-> i])
      [] sh.t = "enum" -> 12 + named + 2 + 96
      [] OTHER -> 12 + named + 2 + ScalarSize(sh.t)

-----------------------------------------------------------------------------
\* What a backend cannot give back: an empty optional or name, an empty list of
\* plain values of a fixed size in the fast form, the lowest value of a signed
\* type in the portable form, the powers of two that look like zeros and
\* infinities.
RECURSIVE CanReturn(_, _, _)
CanReturn(B, sh, v) ==
    CASE sh.t \in {"array", "vector"} -> /\ B = "fast" /\ sh.of.t \in FixedSize => v # <<>>
                                         /\ \A i \in DOMAIN v : CanReturn(B, sh.of, v[i])
      [] sh.t \in {"tuple", "struct"} -> \A i \in DOMAIN v : CanReturn(B, sh.of[i], v[i])
      [] sh.t = "optional" -> v # <<>> /\ CanReturn(B, sh.of, v[1])
      [] sh.t = "name" -> B = "fast" \/ v # <<>>
      [] sh.t = "short" -> B = "portable" => v # -(2^15)
      [] sh.t = "float" -> B = "portable" /\ ~(v.cls = "normal" /\ ~v.neg /\ v.man = 0 /\ v.exp \in 0..5)
      [] OTHER -> TRUE

\* There is an empty list of plain values in the value.
RECURSIVE HasEmptySpan(_, _)
HasEmptySpan(sh, v) ==
    CASE sh.t \in {"array", "vector"} -> IF v = <<>> THEN sh.of.t \in Plain ELSE \E i \in DOMAIN v : HasEmptySpan(sh.of, v[i])
      [] sh.t \in {"tuple", "struct"} -> \E i \in DOMAIN v : HasEmptySpan(sh.of[i], v[i])
      [] sh.t = "optional" -> v # <<>> /\ HasEmptySpan(sh.of, v[1])
      [] OTHER -> FALSE

Unlimited == 1000

\* A value that was written into a block with room for it is read back as it was
\* and nothing is left over; with less room the writer or the reader says so, and
\* the reader never takes the cut data for a value.  The assertions of a debug
\* build fail for empty spans, and else only where the write was incomplete.
RoundTripLaws(B, sh, v, room) ==
    LET whole == Serialize(B, sh, v, Unlimited)
        back == Deserialize(B, sh, whole.out)
        cut == Serialize(B, sh, v, room)
    IN  /\ whole.err = {} /\ whole.saves = <<>> /\ (whole.asserted <=> HasEmptySpan(sh, v))
        /\ cut.asserted /\ ~whole.asserted => cut.err = {"incomplete_write"}
        /\ CanReturn(B, sh, v) => back = Got(v, <<>>)
        /\ room < Len(whole.out) => /\ IsPrefix(cut.out, whole.out)
                                    /\ Deserialize(B, sh, cut.out).err # {}
                                    /\ B # "fast" => cut.err = {"incomplete_write"}
        /\ room >= Len(whole.out) => cut.out = whole.out /\ cut.err = {}
        /\ sh.t = "struct" /\ B # "fast" => Len(whole.out) <= BufferSize(sh, v, 0)
        /\ WriteSome(Sink(room), whole.out) = Len(Put(Sink(room), whole.out).out)
        /\ Finalize(whole, cut.out).out = IF cut.out = <<>> THEN whole.out ELSE cut.out

\* Fragments read in any order, and more than once, make the span.
FragmentLaws(B, kind, vs, rooms, order) ==
    LET frags == FoldLeft(LAMBDA acc, r :
                            LET w == WriteFragment(B, kind, vs, acc.offset, r)
                            IN  [offset |-> w.offset, outs |-> Append(acc.outs, w.out)],
                          [offset |-> 0, outs |-> <<>>], rooms)
        dst == FoldLeft(LAMBDA d, k : ReadFragment(B, kind, d, frags.outs[k]), [i \in DOMAIN vs |-> <<>>], order)
    IN  /\ \A i \in DOMAIN vs : dst[i] \in {<<>>, <<vs[i]>>}
        /\ frags.offset = Len(vs) /\ Range(order) = DOMAIN rooms => dst = [i \in DOMAIN vs |-> <<vs[i]>>]

FloatRoundTrips(f) == Compose(Decompose(f)) = f
=============================================================================
