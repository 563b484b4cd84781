-------------------------------- MODULE Bits --------------------------------
(***************************************************************************)
(* Numbers of limited width and what is packed into them: limits, bitfield,*)
(* byteset, biteset, bit_density and the identifiers that rest on them.    *)
(***************************************************************************)
EXTENDS Integers, Sequences, SequencesExt, FiniteSets

-----------------------------------------------------------------------------
(* limits: an arithmetic type is its kind, its sign and its width.         *)

NumTypes(widths) == [int : {TRUE}, sig : BOOLEAN, bits : widths]

Lowest(T) == IF T.sig THEN -(2^(T.bits - 1)) ELSE 0

Highest(T) == IF T.sig THEN 2^(T.bits - 1) - 1 ELSE 2^T.bits - 1

ValuesOf(T) == Lowest(T)..Highest(T)

ImplicitlyWithin(D, S) == D.int = S.int /\ D.sig = S.sig /\ D.bits >= S.bits

WithinCheck(D, S, v) ==
    CASE D.int # S.int -> ImplicitlyWithin(D, S)
      [] D.int = S.int /\ D.sig = S.sig -> Lowest(D) <= v /\ v <= Highest(D)
      [] D.int = S.int /\ ~D.sig /\ S.sig -> D.int /\ ~(v < 0) /\ v <= Highest(D)
      [] D.int = S.int /\ D.sig /\ ~S.sig -> v <= Highest(D)

IsWithinLimits(D, S, v) == ImplicitlyWithin(D, S) \/ WithinCheck(D, S, v)

\* Dst(value) of integers keeps the low bits.
CastTo(D, v) == ((v - Lowest(D)) % 2^D.bits) + Lowest(D)

ConvertIfFits(D, S, v) == IF IsWithinLimits(D, S, v) THEN {CastTo(D, v)} ELSE {}

\* assign_if_fits: the result and what dst is afterwards.
AssignIfFits(D, S, v, dst) ==
    IF IsWithinLimits(D, S, v) THEN <<TRUE, CastTo(D, v)>> ELSE <<FALSE, dst>>

\* The magnitude of the lowest value does not fit: assigned back it is the
\* lowest value again.
AbsIn(T, v) == CastTo(T, IF v < 0 THEN -v ELSE v)

AreSafeToAdd(T, l, r) ==
    \/ T.sig /\ (l < 0) # (r < 0)
    \/ LET a == IF T.sig THEN AbsIn(T, l) ELSE l
           b == IF T.sig THEN AbsIn(T, r) ELSE r
       IN  Highest(T) - a > b

\* safe_add: whether its assertion holds, and the sum.
SafeAdd(T, l, r) == <<AreSafeToAdd(T, l, r), l + r>>

SafeAddEq(T, l, r, c) == SafeAdd(T, l, r)[1] /\ SafeAdd(T, l, r)[2] = c

SafeAddLt(T, l, r, c) == SafeAdd(T, l, r)[1] /\ SafeAdd(T, l, r)[2] < c

SafeAddGt(T, l, r, c) == SafeAdd(T, l, r)[1] /\ SafeAdd(T, l, r)[2] > c

ArgsWithinLimits(Ds, S, vs) == \A i \in DOMAIN vs : IsWithinLimits(Ds[i], S, vs[i])

-----------------------------------------------------------------------------
(* bitfield: the set of the bits; a bit_type may stand for several of them.*)

HasBit(f, b) == b \subseteq f

HasAllBits(f, bs) == \A b \in bs : HasBit(f, b)

HasAnyBit(f, bs) == \E b \in bs : HasBit(f, b)

HasNoneOf(f, bs) == \A b \in bs : ~HasBit(f, b)

HasAtMost(f, b) == f = {} \/ f = b

SetBit(f, b) == f \cup b

ClearBit(f, b) == f \ b

Complement(f, all) == all \ f

-----------------------------------------------------------------------------
(* byteset: bytes with the most significant one first.                     *)

ByteBits == 8

BytesOf(n, init) == [i \in 1..n |-> (init \div 2^(ByteBits * (n - i))) % 2^ByteBits]

BytesAs(bytes) == FoldLeft(LAMBDA acc, b : acc * 2^ByteBits + b, 0, bytes)

\* The byte-wise comparison, an element of {-1, 0, 1}.
CompareBytes(a, b) ==
    LET diff == {i \in DOMAIN a : a[i] # b[i]} IN
    IF diff = {} THEN 0
    ELSE LET first == CHOOSE i \in diff : \A j \in diff : i <= j
         IN  IF a[first] < b[first] THEN -1 ELSE 1

-----------------------------------------------------------------------------
(* biteset<N, B>: N bites of B bits in a row of bytes.                     *)

StoreSize(N, B) ==
    ((N * B) \div ByteBits) + (IF (N * B) % ByteBits # 0 THEN 1 ELSE 0)

LesserOf(x, y) == IF x < y THEN x ELSE y

\* The pieces of the bits from bb to be, in units of unit bits each: the unit,
\* the offset in it and the length.  The recursion that visits them stops after
\* the seventh.
MaxPieces == 7

Pieces(bb, be, unit) ==
    LET cells == {c \in bb \div unit .. (be - 1) \div unit : c < bb \div unit + MaxPieces}
        Begin(c) == IF c * unit < bb THEN bb ELSE c * unit
    IN  [i \in 1..Cardinality(cells) |->
            LET c == bb \div unit + i - 1
            IN  [cell |-> c, ofs |-> Begin(c) - c * unit, len |-> LesserOf(be, (c + 1) * unit) - Begin(c)]]

ExtractBits(v, unit, p) == (v \div 2^(unit - p.ofs - p.len)) % 2^p.len

GatherBits(from, unit, bb, be) ==
    FoldLeft(LAMBDA acc, p :
                acc * 2^p.len + (IF p.cell < Len(from) THEN ExtractBits(from[p.cell + 1], unit, p) ELSE 0),
             0, Pieces(bb, be, unit))

MakeBytes(N, B, init) ==
    [i \in 1..StoreSize(N, B) |->
        IF B = ByteBits THEN init[i]
        ELSE GatherBits(init, B, (i - 1) * ByteBits, i * ByteBits)]

GetCell(B, bytes, i) ==
    IF B = ByteBits THEN bytes[i + 1]
    ELSE GatherBits(bytes, ByteBits, i * B, (i + 1) * B)

\* The bits of a byte that a piece covers, replaced.
PutBits(byte, p, bits) ==
    byte - ExtractBits(byte, ByteBits, p) * 2^(ByteBits - p.ofs - p.len)
         + bits * 2^(ByteBits - p.ofs - p.len)

\* The state of the recursion is the value shifted to the top of the cell type
\* and the bytes written so far.
SetCell(B, bytes, i, value) ==
    IF B = ByteBits THEN [bytes EXCEPT ![i + 1] = value]
    ELSE FoldLeft(LAMBDA st, p :
                    [rest |-> st.rest - p.len,
                     bytes |-> [st.bytes EXCEPT ![p.cell + 1] =
                                   PutBits(@, p, (value \div 2^(st.rest - p.len)) % 2^p.len)]],
                  [rest |-> B, bytes |-> bytes], Pieces(i * B, (i + 1) * B, ByteBits)).bytes

\* swap of two value proxies of one biteset.
SwapCells(B, bytes, i, j) ==
    LET a == GetCell(B, bytes, i) IN SetCell(B, SetCell(B, bytes, i, GetCell(B, bytes, j)), j, a)

\* What the iterators visit.
CellsOf(N, B, bytes) == [i \in 1..N |-> GetCell(B, bytes, i - 1)]

-----------------------------------------------------------------------------
(* bit_density.  The window w is at least 16 bits wide.                    *)

WindowBits == 16

DissolvedLength(len, bits) == (len * ByteBits) \div bits + (IF (len * ByteBits) % bits # 0 THEN 1 ELSE 0)

ConcentratedLength(len, bits) == (len * bits) \div ByteBits + (IF (len * bits) % ByteBits # 0 THEN 1 ELSE 0)

\* push: as many units of bits as the r bits of the window hold.
PushUnits(st, bits) ==
    LET n == st.r \div bits
    IN  [st EXCEPT !.r = @ - n * bits,
                   !.out = @ \o [i \in 1..n |-> (st.w \div 2^(st.r - i * bits)) % 2^bits]]

DissolveBits(bytes, bits) ==
    LET end == FoldLeft(LAMBDA st, b :
                            PushUnits([st EXCEPT !.w = (@ * 2^ByteBits + b) % 2^WindowBits, !.r = @ + ByteBits], bits),
                        [w |-> 0, r |-> 0, out |-> <<>>], bytes)
    IN  IF end.r > 0 THEN Append(end.out, (end.w * 2^(bits - end.r)) % 2^bits) ELSE end.out

ConcentrateBits(units, bits) ==
    FoldLeft(LAMBDA st, u :
                LET w == (st.w * 2^bits + (u % 2^bits)) % 2^WindowBits
                    r == st.r + bits
                IN  IF r >= ByteBits
                    THEN [w |-> w, r |-> r - ByteBits,
                          out |-> Append(st.out, (w \div 2^(r - ByteBits)) % 2^ByteBits)]
                    ELSE [st EXCEPT !.w = w, !.r = r],
             [w |-> 0, r |-> 0, out |-> <<>>], units).out

-----------------------------------------------------------------------------
(* identifiers of up to M characters, each an index into a set of 2^B - 1  *)
(* characters; NUL and every character not in the set encode as invalid.   *)

InvalidChar(B) == 2^B - 1

EncodeChar(B, c) == IF c \in 0..(InvalidChar(B) - 1) THEN c ELSE InvalidChar(B)

CanBeEncoded(M, B, str) == Len(str) <= M /\ \A i \in DOMAIN str : str[i] \in 0..(InvalidChar(B) - 1)

MakeIdentifier(M, B, str) ==
    MakeBytes(M, B, [i \in 1..M |-> IF i <= Len(str) THEN EncodeChar(B, str[i]) ELSE InvalidChar(B)])

IdentifierValue(id) == BytesAs(id)

IsEmptyIdentifier(id) == IdentifierValue(id) = 0

\* size: 0 when empty, else up to the first bite that is invalid.
IdentifierSize(M, B, id) ==
    IF IsEmptyIdentifier(id) THEN 0
    ELSE LET ends == {s \in 0..(M - 1) : GetCell(B, id, s) >= InvalidChar(B)}
         IN  IF ends = {} THEN M ELSE CHOOSE s \in ends : \A t \in ends : s <= t

IdentifierName(M, B, id) == [i \in 1..IdentifierSize(M, B, id) |-> GetCell(B, id, i - 1)]

\* increment adds one to the last bite, with a carry to the left; the last value
\* of all wraps around to the empty identifier.
IncrementIdentifier(M, B, id) ==
    LET open == {p \in 0..(M - 1) : GetCell(B, id, p) + 1 < 2^B} IN
    IF open = {} THEN [i \in DOMAIN id |-> 0]
    ELSE LET p == CHOOSE q \in open : \A o \in open : o <= q
         IN  FoldLeft(LAMBDA v, i : SetCell(B, v, i, 0),
                      SetCell(B, id, p, GetCell(B, id, p) + 1), [i \in 1..(M - 1 - p) |-> p + i])

\* basic_identifier_value keeps the number only.
IdentifierFromValue(M, B, value) == BytesOf(StoreSize(M, B), value)

\* message_id: two identifier values of idBits bits in one number.
MessageId(class, method, idBits) == class * 2^idBits + method

ClassOf(msg, idBits) == msg \div 2^idBits

MethodOf(msg, idBits) == msg % 2^idBits

IsValidMessage(msg, idBits) == ClassOf(msg, idBits) # 0 /\ MethodOf(msg, idBits) # 0

\* byte_to_identifier and dec_to_identifier: the digits of their names.
HexName(b) == <<"0", "x", (b \div 16) % 16, b % 16>>

DecName(n) ==
    LET len == CHOOSE k \in 1..10 : (k = 10 \/ n < 10^k) /\ (k > 1 => n >= 10^(k - 1))
    IN  [i \in 1..len |-> (n \div 10^(len - i)) % 10]

-----------------------------------------------------------------------------
(* Laws.                                                                   *)

\* A value is converted exactly when the destination has it, and then it is kept;
\* otherwise the destination is left alone.  A sum called safe fits, unless an
\* operand is the lowest value, whose magnitude does not.
LimitsLaws(D, S, v, w) ==
    /\ IsWithinLimits(D, S, v) = (v \in ValuesOf(D))
    /\ ConvertIfFits(D, S, v) = {v} \cap ValuesOf(D)
    /\ AssignIfFits(D, S, v, 0) = (IF v \in ValuesOf(D) THEN <<TRUE, v>> ELSE <<FALSE, 0>>)
    /\ ArgsWithinLimits(<<D, D>>, S, <<v, w>>) = ({v, w} \subseteq ValuesOf(D))
    /\ AreSafeToAdd(S, v, w) => v + w \in ValuesOf(S) \/ (S.sig /\ Lowest(S) \in {v, w})
    /\ SafeAddEq(S, v, w, v + w) = AreSafeToAdd(S, v, w)
    /\ ~SafeAddGt(S, v, w, Highest(S))
    /\ SafeAddLt(S, v, w, Lowest(S)) => S.sig /\ Lowest(S) \in {v, w}

\* What is set is there, what is cleared is not there as a whole, and neither
\* touches a bit that is not named.
BitfieldLaws(f, a, b, all) ==
    /\ HasBit(SetBit(f, a), a)
    /\ a # {} => ~HasBit(ClearBit(f, a), a)
    /\ a \cap b = {} => HasBit(ClearBit(SetBit(f, b), a), b)
    /\ HasNoneOf(f, {a, b}) = ~HasAnyBit(f, {a, b})
    /\ HasAllBits(f, {a, b}) = HasBit(f, a \cup b)
    /\ HasAtMost(ClearBit(f, Complement(a, all)), a) = (ClearBit(f, Complement(a, all)) \in {{}, a})
    /\ Complement(Complement(f, all), all) = f

\* A biteset has the bites it is made of, setting one of them changes no other,
\* and its bytes compare as its bites do.
BitesetLaws(N, B, init, i, j, v) ==
    LET bytes == MakeBytes(N, B, init) IN
    /\ CellsOf(N, B, bytes) = init
    /\ CellsOf(N, B, SetCell(B, bytes, i, v)) = [init EXCEPT ![i + 1] = v]
    /\ CellsOf(N, B, SwapCells(B, bytes, i, j)) = [init EXCEPT ![i + 1] = init[j + 1], ![j + 1] = init[i + 1]]
    /\ BytesOf(Len(bytes), BytesAs(bytes)) = bytes
    /\ LET c == [init EXCEPT ![i + 1] = v]
       IN  CompareBytes(bytes, MakeBytes(N, B, c)) = CompareBytes(init, c)

\* Concentrating what was dissolved gives it back, and the lengths announced
\* are the length of the one and enough for the other.
DensityLaws(bytes, bits) ==
    /\ ConcentrateBits(DissolveBits(bytes, bits), bits) = bytes
    /\ Len(DissolveBits(bytes, bits)) = DissolvedLength(Len(bytes), bits)
    /\ LET units == [i \in DOMAIN bytes |-> bytes[i] % 2^bits]
       IN  /\ Len(ConcentrateBits(units, bits)) \in {ConcentratedLength(Len(units), bits) - 1,
                                                     ConcentratedLength(Len(units), bits)}
           /\ \A k \in DOMAIN ConcentrateBits(units, bits) :
                 DissolveBits(ConcentrateBits(units, bits), bits)[k] = units[k]

\* A name that can be encoded is read back, except that the name of only the
\* first character at full length is the empty identifier; names differ exactly
\* when values do, and increment visits the values in order.
IdentifierLaws(M, B, str) ==
    LET id == MakeIdentifier(M, B, str)
        unit == 2^(ByteBits * StoreSize(M, B) - M * B)
        next == IncrementIdentifier(M, B, id)
    IN  /\ IdentifierName(M, B, id) =
              (IF str = [k \in 1..M |-> 0] THEN <<>> ELSE str)
        /\ CanBeEncoded(M, B, str)
        /\ IdentifierFromValue(M, B, IdentifierValue(id)) = id
        /\ IdentifierValue(next) = (IdentifierValue(id) + unit) % 2^(ByteBits * StoreSize(M, B))
        /\ IsEmptyIdentifier(id) = (str = [k \in 1..M |-> 0])
        /\ LET v == IdentifierValue(id) % 256
               m == MessageId(v, str[1], 8)
           IN  ClassOf(m, 8) = v /\ MethodOf(m, 8) = str[1] /\ IsValidMessage(m, 8) = (v # 0 /\ str[1] # 0)

\* The digits of a number's name are digits and say the number.
NumberNameLaws(n) ==
    /\ FoldLeft(LAMBDA acc, d : acc * 10 + d, 0, DecName(n)) = n
    /\ n >= 10 => DecName(n)[1] # 0
    /\ HexName(n % 256)[3] * 16 + HexName(n % 256)[4] = n % 256
=============================================================================
