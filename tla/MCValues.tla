------------------------------ MODULE MCValues ------------------------------
(***************************************************************************)
(* The operators that compute values, applied to samples of their inputs.  *)
(* A step takes one sample, which has to obey the laws of its kind.        *)
(***************************************************************************)
EXTENDS Bits, Optionals, Sudoku, TLC

A == INSTANCE ProgramArgs
P == INSTANCE Spans
Z == INSTANCE Serialization
T == INSTANCE ValueTree
X == INSTANCE MultiByte
M == INSTANCE Matrices
U == INSTANCE Units
N == INSTANCE NetworkSort

VARIABLE sample

MCFuns == [OptVals -> OptVals]

Seqs(set, from, to) == UNION {[1..n -> set] : n \in from..to}

-----------------------------------------------------------------------------
BitSamples ==
    {s \in [kind : {"limits"}, d : NumTypes({2, 3}), s : NumTypes({2, 3}), v : -4..7, w : -4..7] :
        {s.v, s.w} \subseteq ValuesOf(s.s)}
    \cup [kind : {"bitfield"}, f : SUBSET (0..2), a : SUBSET (0..2), b : SUBSET (0..2)]
    \cup UNION {[kind : {"biteset"}, bits : {bn[1]}, n : {bn[2]},
                 init : [1..bn[2] -> {0, 1, 2^(bn[1] - 1), 2^bn[1] - 1}],
                 i : 0..(bn[2] - 1), j : {0, bn[2] - 1}, v : {0, 2^bn[1] - 2}] :
                   bn \in {<<2, 5>>, <<3, 3>>, <<5, 3>>, <<6, 3>>, <<8, 2>>, <<9, 2>>, <<11, 2>>}}
    \cup [kind : {"density"}, bytes : Seqs({0, 1, 90, 255}, 0, 3), bits : 1..8]
    \cup [kind : {"identifier"}, str : Seqs(0..6, 1, 3)]
    \cup [kind : {"number"}, n : {0, 7, 9, 10, 42, 99, 100, 999, 1000, 123456, 99999999, 1000000000, 2147483647}]

BitLaws(sp) ==
    CASE sp.kind = "limits" -> LimitsLaws(sp.d, sp.s, sp.v, sp.w)
      [] sp.kind = "bitfield" -> BitfieldLaws(sp.f, sp.a, sp.b, 0..2)
      [] sp.kind = "biteset" -> BitesetLaws(sp.n, sp.bits, sp.init, sp.i, sp.j, sp.v)
      [] sp.kind = "density" -> DensityLaws(sp.bytes, sp.bits)
      [] sp.kind = "identifier" -> IdentifierLaws(3, 3, sp.str)
      [] sp.kind = "number" -> NumberNameLaws(sp.n)
      [] OTHER -> TRUE

OptSamples ==
    [kind : {"tribool"}, a : Tribools, b : Tribools]
    \cup [kind : {"optional"}, o : Opts("valid_if"), p : Opts("valid_if")]
    \cup [kind : {"slot"}, ops : Seqs(OptOps, 1, 2)]
    \cup [kind : {"policy"}, v : -3..9, min : -1..1, max : 0..3]

OptLaws(sp) ==
    CASE sp.kind = "tribool" -> TriboolLaws(sp.a, sp.b)
      [] sp.kind = "optional" -> OptionalLaws(sp.o, sp.p)
      [] sp.kind = "slot" -> SlotLaws(sp.ops)
      [] sp.kind = "policy" -> PolicyLaws(sp.v, sp.min, sp.max)
      [] OTHER -> TRUE

-----------------------------------------------------------------------------
SpanSamples ==
    [kind : {"cut"}, s : Seqs({1, 2}, 0, 4), i : -1..5, l : -1..5]
    \cup [kind : {"search"}, s : Seqs({1, 2}, 0, 5), what : Seqs({1, 2}, 0, 2)]
    \cup [kind : {"bracket"}, s : Seqs({0, 1, 2}, 0, 6)]
    \cup [kind : {"index"}, s : Seqs({1, 2}, 0, 4), t : Seqs({3}, 0, 4)]
    \cup [kind : {"address"}, s : [at : 1..4, size : -2..3], t : [at : 1..4, size : -2..3], size : 1..2]
    \cup [kind : {"offset"}, target : 0..9, self : 1..9, other : 1..9]
    \cup [kind : {"args"}, args : Seqs({"x", "y"}, 1, 4)]
    \cup [kind : {"keys"}, k : Seqs({"a", ".", "_", "-"}, 1, 2), l : Seqs({"a", ".", "_", "-"}, 1, 2)]
    \cup [kind : {"flags"}, f : [1..3 -> {"none", "unreadable", "true", "false"}]]

SpanLaws(sp) ==
    CASE sp.kind = "cut" -> P!CutLaws(sp.s, sp.i, sp.l)
      [] sp.kind = "search" -> P!SearchLaws(sp.s, sp.what)
      [] sp.kind = "bracket" -> P!BracketLaws(sp.s, 1, 2)
      [] sp.kind = "index" -> P!IndexLaws(sp.s, sp.t)
      [] sp.kind = "address" -> P!AddressLaws(sp.s, sp.t, sp.size)
      [] sp.kind = "offset" -> P!OffsetLaws(sp.target, sp.self, sp.other, 4)
      [] sp.kind = "args" -> \A what \in {"x", "z"} : A!ArgLaws(sp.args, what)
      [] sp.kind = "keys" -> A!KeyNameLaws(sp.k, sp.l, [c \in P!Range(sp.k) \cup P!Range(sp.l) |-> IF c = "a" THEN "A" ELSE c])
      [] sp.kind = "flags" -> A!ConfigLaws(sp.f[1], sp.f[2], sp.f[3])
      [] OTHER -> TRUE

-----------------------------------------------------------------------------
Of(t) == [t |-> t]

\* Shapes of values, and values that have them.
Listed(set) == FoldSet(LAMBDA x, list : Append(list, x), <<>>, set)
Like(shape, values) == Listed({<<shape, v>> : v \in values})
Shaped ==
    Like(Of("bool"), BOOLEAN) \o Like(Of("byte"), {0, 9, 255}) \o Like(Of("char"), DOMAIN Z!Chars)
    \o Like(Of("short"), {-32768, -10, 0, 32767}) \o Like(Of("ushort"), {0, 10, 65535})
    \o Like(Of("name"), {<<>>, <<"a">>, <<"a", "a">>}) \o Like(Of("str"), {<<>>, <<"a", ";">>, <<"|", "'">>})
    \o Like([t |-> "array", of |-> Of("short"), n |-> 3], {<<0, -1, 17>>})
    \o Like([t |-> "vector", of |-> Of("str")], {<<>>, <<(<<"a">>), <<";">>>>})
    \o Like([t |-> "vector", of |-> Of("ushort")], {<<>>, <<1, 300>>})
    \o Like([t |-> "vector", of |-> [t |-> "vector", of |-> Of("byte")]], {<<>>, <<(<<>>), <<7>>>>, <<(<<7>>)>>})
    \o Like([t |-> "optional", of |-> Of("byte")], {<<>>, <<7>>})
    \o Like([t |-> "enum", names |-> <<(<<"a">>), <<"a", "a">>>>], {<<"a">>, <<"a", "a">>})
    \o Like([t |-> "tuple", of |-> <<Of("bool"), Of("str")>>], {<<TRUE, s>> : s \in {<<>>, <<"a">>}})
    \o Like([t |-> "struct", of |-> <<Of("ushort"), [t |-> "tuple", of |-> <<Of("char"), Of("str")>>]>>,
             names |-> <<(<<"a">>), <<"a", "a">>>>],
            {<<n, <<"a", s>>>> : n \in {0, 300}, s \in {<<>>, <<"a", "'">>}})

CodecSamples ==
    [kind : {"codec"}, B : {"string", "portable", "fast"}, x : DOMAIN Shaped, room : {0, 1, 2, 3, 5, 8, 13, 21, 34}]
    \cup {[kind |-> "float", cls |-> c, neg |-> b, man |-> f, exp |-> e] :
            c \in {"normal"}, b \in BOOLEAN, f \in 0..7, e \in -2..7}
    \cup {[kind |-> "float", cls |-> c, neg |-> b, man |-> 0, exp |-> 0] : c \in {"zero", "inf", "nan"}, b \in BOOLEAN}
    \cup [kind : {"fragments"}, B : {"string", "portable", "fast"}, vs : {<<>>, <<5>>, <<0, 9, 255, 17>>},
          rooms : Seqs({3, 8, 13}, 1, 3), order : Seqs(1..3, 1, 3)]

CodecLaws(sp) ==
    CASE sp.kind = "codec" -> Z!RoundTripLaws(sp.B, Shaped[sp.x][1], Shaped[sp.x][2], sp.room)
      [] sp.kind = "float" ->
            Z!RoundTripLaws("portable", Of("float"), [cls |-> sp.cls, neg |-> sp.neg, man |-> sp.man, exp |-> sp.exp], 4)
      [] sp.kind = "fragments" -> ToSet(sp.order) \subseteq DOMAIN sp.rooms =>
            Z!FragmentLaws(sp.B, "byte", sp.vs, sp.rooms, sp.order)
      [] OTHER -> TRUE

-----------------------------------------------------------------------------
I(v) == T!Scalar("int", v)
Str(v) == T!Scalar("str", v)
Mem(n, v) == [name |-> n, val |-> v]

Leaves == {I("1"), I("-1"), Str("a"), T!Scalar("null", "")}
Flat == {T!Obj(<<>>), T!Arr(<<>>), T!Arr(<<I("1"), I("2"), I("1")>>)}
        \cup {T!Obj(<<Mem("a", v)>>) : v \in Leaves} \cup {T!Obj(<<Mem("a", v), Mem("b", w)>>) : v, w \in Leaves}
        \cup {T!Arr(<<v>>) : v \in Leaves} \cup {T!Arr(<<v, w>>) : v, w \in Leaves}
Inner == {T!Obj(<<>>), T!Arr(<<I("1"), I("-1"), T!Scalar("real", "1.5")>>), T!Obj(<<Mem("a", I("1")), Mem("a@t", I("2"))>>),
          T!Obj(<<Mem("a@t", T!Obj(<<Mem("b", I("1"))>>)), Mem("b", I("2"))>>), Str("a"), I("1")}
Deep == {T!Obj(<<Mem("a", v), Mem("b", w)>>) : v, w \in Inner} \cup {T!Arr(<<v, w>>) : v, w \in Inner}
Trees == Leaves \cup Flat \cup Deep
TreePaths == Seqs({"a", "b", "1", "a@t"}, 0, 2)

\* Trees as directories: structures and texts only, some with tagged names.
Directories ==
    {t \in Flat \cup Deep : \A p \in T!PathsOf(t) : T!Find(t, p, <<>>).val.k \in {"obj", "str"}}
    \cup {T!Obj(<<Mem("a", T!Obj(<<Mem("b", Str("a")), Mem("b@u", Str("b"))>>)), Mem("a@t", v)>>) :
            v \in {T!Obj(<<>>), Str("c"), T!Obj(<<Mem("b@t", T!Obj(<<>>))>>)}}
Scalars == {I("1"), I("300"), I("-1"), I("big"), Str("70000"), Str("yes"), T!Scalar("bool", "true"),
            T!Scalar("null", ""), T!Scalar("real", "1.5")}
UrlMembers ==
    <<Mem("scheme", Str("s")), Mem("domain", Str("d")), Mem("login", Str("l")), Mem("password", Str("p")), Mem("port", I("300")),
      Mem("args", T!Obj(<<Mem("x", Str("1")), Mem("y", I("1"))>>)), Mem("fragment", Str("f"))>>

TextSize(t) == FoldLeft(LAMBDA a, tok : a + tok.n, 0, T!Tokens(t))
Cut(n, c, d) == <<[i \in 1..c |-> i], [i \in 1..(d - c) |-> c + i], [i \in 1..(n - d) |-> d + i]>>

TreeSamples ==
    [kind : {"tree"}, t : Trees]
    \cup [kind : {"directory"}, t : Directories, path : TreePaths, tags : {<<>>, <<"t">>, <<"t", "u">>, <<"u", "t">>}]
    \cup [kind : {"fetch"}, t : Scalars \cup {T!Arr(q) : q \in Seqs(Scalars, 0, 2)}]
    \cup [kind : {"overlay"}, a : Flat \cup Inner, b : Inner, t : Inner]
    \cup {[kind |-> "url", t |-> T!Obj(SelectSeq(UrlMembers, LAMBDA m : m.name \in parts))] :
            parts \in SUBSET {UrlMembers[i].name : i \in DOMAIN UrlMembers}}
    \cup {s \in [kind : {"stream"}, t : Leaves \cup Flat \cup {T!Obj(<<Mem("a", v)>>) : v \in Inner},
                 extra : 0..2, least : 3..4, c : 0..20, d : 0..20] :
            s.c <= s.d /\ s.d <= TextSize(s.t) + s.extra}

TreeLaws(sp) ==
    CASE sp.kind = "tree" ->
            /\ \A stops \in {{}} \cup {{p} : p \in T!PathsOf(sp.t) \ {<<>>}} : T!TraversalLaws(sp.t, stops)
            /\ T!BothWaysLaw(sp.t)
            /\ \A names \in {<<"a">>, <<"b", "a">>, <<"a", "b">>}, type \in {"int32", "string"} :
                  T!StructLaws(sp.t, names, type)
            /\ \A c \in {"json", "yaml", "filesystem", "empty"}, p \in TreePaths :
                  T!CompoundLaws(T!MakeCompound(c, sp.t), p, "int32")
      [] sp.kind = "directory" -> T!FsLaws(sp.t, sp.path, sp.tags)
      [] sp.kind = "fetch" ->
            \A room \in 1..2, type \in {"bool", "byte", "int16", "int64", "uint16", "float", "string", "tribool"} :
                T!FetchLaws(sp.t, room, type)
      [] sp.kind = "overlay" -> \A p \in TreePaths : T!OverlayLaws(<<sp.a, sp.b>>, sp.t, p)
      [] sp.kind = "url" -> T!UrlLaws(sp.t)
      [] sp.kind = "stream" ->
            T!StreamLaws(sp.t, Cut(TextSize(sp.t) + sp.extra, sp.c, sp.d), sp.least, sp.extra)
      [] OTHER -> TRUE

-----------------------------------------------------------------------------
Long(n) == [i \in 1..n |-> 97]
Ramp(n) == [i \in 1..n |-> (i * 37) % 256]

Boundaries == {0, 65, 2147483646} \cup {X!MaxCodePoint(len) + d : len \in 1..5, d \in -1..1} \cup {X!MaxCodePoint(6) - 2}
Names == {<<>>, <<97>>, <<128>>, <<0, 97>>, <<97, 0, 0>>, <<97, 47>>}

TextSamples ==
    [kind : {"code_point"}, cp : Boundaries \cup {2^k : k \in 0..30}]
    \cup [kind : {"bytes"}, bytes : Seqs({0, 65, 127, 128, 191, 193, 224, 240, 252, 254, 255}, 1, 3)
                                    \cup {<<252>> \o q : q \in [1..5 -> {128, 191}]}]
    \cup [kind : {"code_points"}, cps : Seqs({0, 127, 2047, 2147483646}, 0, 3), room : {0, 1, 2, 3, 5, 9, 20}]
    \cup [kind : {"blocks"}, blocks : Seqs({<<>>, <<1>>, <<255, 0, 128>>, Ramp(127)}, 0, 3), room : {0, 1, 2, 4, 127, 128, 129}]
    \cup [kind : {"secret"}, nonce : Seqs({0, 170}, 0, 2), key : Seqs({1, 255}, 0, 2),
       input : {Ramp(n) : n \in {0, 1, 3, 7, 8, 9, 15, 16, 17, 127}}]
    \cup [kind : {"path"}, names : Seqs(Names, 0, 3), sep : {<<47>>, <<58, 58>>}]
    \cup [kind : {"path"}, names : Seqs({<<128>>, Long(126), Long(127), Long(128)}, 1, 2), sep : {<<47>>}]
    \cup [kind : {"text"}, text : Seqs({97, 47}, 0, 6), sep : {<<47>>, <<97>>}]
    \cup [kind : {"text"}, text : {q \o <<0, 0>> : q \in Seqs({97, 0}, 0, 5)}, sep : {<<0>>}]
    \cup [kind : {"pattern"}, a : Seqs({<<97>>, <<98>>, <<42>>}, 0, 3), b : Seqs({<<97>>, <<42>>}, 0, 3)]

TextLaws(sp) ==
    CASE sp.kind = "code_point" -> X!CodePointLaws(sp.cp)
      [] sp.kind = "bytes" -> X!BytesLaws(sp.bytes)
      [] sp.kind = "code_points" -> X!CodePointsLaws(sp.cps, sp.room)
      [] sp.kind = "blocks" -> X!BlocksLaws(sp.blocks, sp.room)
      [] sp.kind = "secret" -> X!SecretLaws(sp.nonce, sp.key, sp.input)
      [] sp.kind = "path" -> X!PathLaws(sp.names, sp.sep)
      [] sp.kind = "text" -> X!TextLaws(sp.text, sp.sep)
      [] sp.kind = "pattern" -> X!PatternLaws(sp.a, sp.b)
      [] OTHER -> TRUE

-----------------------------------------------------------------------------
Q(n) == M!Q(n)
F(n, d) == M!Frac(n, d)
Vec(n, set) == [1..n -> {Q(i) : i \in set}]

\* Matrices of c columns and r rows, kept by rows or by columns.
Pattern(c, r, ks) ==
    {M!Matrix(rm, [i \in 1..(IF rm THEN r ELSE c) |->
                     [j \in 1..(IF rm THEN c ELSE r) |-> Q(((5 * i * i + 3 * j + k * i * j) % 7) - 2)]]) :
        rm \in BOOLEAN, k \in ks}
All2 == {M!Matrix(rm, <<(<<v[1], v[2]>>), <<v[3], v[4]>>>>) : rm \in BOOLEAN, v \in Vec(4, -1..2)}
All3 == {M!Matrix(TRUE, <<(<<v[1], v[2], v[3]>>), <<v[4], v[5], v[6]>>, <<v[7], v[8], v[9]>>>>) : v \in Vec(9, {0, 1})}

\* The determinants by their definition.
Minor(m, i, j) == M!get_rm(m, i, j)[1]
Det2(m) == Minor(m, 0, 0) * Minor(m, 1, 1) - Minor(m, 0, 1) * Minor(m, 1, 0)
Det3(m) ==
    LET e(i, j) == Minor(m, i, j) IN
    e(0, 0) * (e(1, 1) * e(2, 2) - e(1, 2) * e(2, 1)) - e(0, 1) * (e(1, 0) * e(2, 2) - e(1, 2) * e(2, 0))
      + e(0, 2) * (e(1, 0) * e(2, 1) - e(1, 1) * e(2, 0))

\* Angles by their sine and cosine.
Angles == {<<Q(0), Q(1)>>, <<F(3, 5), F(4, 5)>>, <<F(-5, 13), F(12, 13)>>, <<Q(-1), Q(0)>>}
Boxes == {<<Q(-1), Q(2), Q(0), Q(1), Q(1), Q(3)>>, <<Q(-2), Q(-1), Q(1), Q(3), Q(2), Q(5)>>}
Constructors ==
    Listed([kind : {"translation", "scale"}, v : {<<Q(1), Q(2), Q(3)>>, <<Q(-1), Q(0), F(1, 2)>>}])
    \o Listed([kind : {"uniform_scale"}, v : {Q(2), Q(-3)}])
    \o Listed([kind : {"reflection"}, i : 0..2, v : BOOLEAN])
    \o Listed([kind : {"rotation"}, i : 0..2, v : Angles])
    \o Listed([kind : {"ortho", "perspective"}, v : Boxes])
    \o Listed([kind : {"looking_at"}, v : {<<Q(12), Q(15), Q(16)>>}, i : {<<Q(0), Q(0), Q(0)>>}])
    \o Listed([kind : {"orbiting"}, v : Angles \X {<<F(3, 5), F(4, 5)>>}, i : {<<Q(1), Q(-2), Q(0)>>}])

SimpleAngles == {<<Q(0), Q(1)>>, <<F(3, 5), F(-4, 5)>>}

MatrixSamples ==
    [kind : {"matrices"}, a : Pattern(2, 2, 0..5), b : Pattern(3, 2, 0..5)]
    \cup [kind : {"matrices"}, a : Pattern(3, 2, 0..5), b : Pattern(2, 3, 0..5)]
    \cup [kind : {"matrices"}, a : Pattern(4, 4, 0..1), b : Pattern(4, 4, 1..2)]
    \cup [kind : {"inverse2"}, a : All2, b : Pattern(2, 2, {1})]
    \cup [kind : {"inverse3"}, a : All3, b : Pattern(3, 3, {1})]
    \cup [kind : {"constructors"}, c : DOMAIN Constructors, d : DOMAIN Constructors]

MatrixLaws(sp) ==
    CASE sp.kind = "matrices" -> M!MatrixLaws(sp.a, sp.b)
      [] sp.kind = "inverse2" -> M!InverseLaws(sp.a, sp.b, Det2(sp.a))
      [] sp.kind = "inverse3" -> M!InverseLaws(sp.a, sp.b, Det3(sp.a))
      [] sp.kind = "constructors" -> M!ConstructorLaws(Constructors[sp.c], Constructors[sp.d])
      [] OTHER -> TRUE

Rays == {[origin |-> o, direction |-> d] : o \in {<<Q(0), Q(0), Q(-2)>>, <<Q(1), Q(1), Q(3)>>, <<Q(-4), Q(0), Q(0)>>},
                                           d \in {<<Q(0), Q(0), Q(1)>>, <<Q(1), Q(0), Q(0)>>, <<Q(1), Q(-1), Q(-2)>>}}
Quaternions == Vec(4, {-1, 2}) \cup {<<F(3, 5), Q(0), Q(0), F(4, 5)>>, <<Q(0), Q(1), Q(0), Q(0)>>}

SpaceSamples ==
    [kind : {"simd"}, a : Vec(2, 0..2) \cup Vec(3, 0..1), b : Vec(2, {-1, 2}) \cup Vec(3, {1, 2})]
    \cup [kind : {"algebra"}, a : Vec(3, {-1, 2}), b : Vec(3, {0, 1}), p : Quaternions, q : {<<Q(1), Q(2), Q(0), Q(-1)>>, <<F(3, 5), Q(0), Q(0), F(4, 5)>>}]
    \cup [kind : {"hit"}, ray : Rays, a : Vec(3, {0}), b : Vec(3, {0, 2}), c : Vec(3, {-1, 3})]
    \cup [kind : {"sphere"}, ray : Rays, at : Vec(3, {0, 1}), r : {Q(1), Q(2), Q(3)}]
    \cup [kind : {"spherical"}, v : {<<F(i * 12, 25), F(j * 3, 5), F(k * 16, 25)>> : i, j, k \in {-1, 1}}]
    \cup [kind : {"numbers"}, n : 0..8, k : 0..6, x : {Q(-1), F(1, 2), Q(3)}, y : {Q(-2), Q(1), F(7, 3)}]
    \cup [kind : {"box"}, v : Boxes \cup {M!perspective_x(F(1, 2), F(4, 3), Q(1), Q(10)), M!perspective_y(F(1, 2), F(4, 3), Q(1), Q(10)),
                                          M!perspective_square(F(1, 3), Q(1), Q(2))}]
    \cup [kind : {"orbit"}, to : Vec(3, {0, 2}), r : {Q(1), Q(2)}, a : SimpleAngles, e : SimpleAngles]
    \cup [kind : {"look"}, e : {<<Q(12), Q(15), Q(16)>>, <<Q(-3), Q(0), Q(4)>>}, o : Vec(3, {0, 1})]
    \cup [kind : {"curve"}, k : 1..8, j : 0..1, order : 1..3, n : 1..3, t : {Q(-2), Q(0), F(1, 2), F(-4, 3), F(7, 3), Q(1)}]

SpaceLaws(sp) ==
    CASE sp.kind = "simd" -> Len(sp.a) = Len(sp.b) => M!SimdLaws(sp.a, sp.b, Q(9))
      [] sp.kind = "algebra" -> M!AlgebraLaws(sp.a, sp.b, sp.p, sp.q)
      [] sp.kind = "hit" -> M!HitLaws(sp.ray, sp.a, sp.b, sp.c)
      [] sp.kind = "sphere" -> M!SphereLaws(sp.ray, Append(sp.at, sp.r))
      [] sp.kind = "spherical" -> M!SphericalLaw(sp.v)
      [] sp.kind = "numbers" -> M!NumberLaws(sp.n, sp.k, sp.x, sp.y)
      [] sp.kind = "box" -> M!ProjectionLaws(sp.v)
      [] sp.kind = "orbit" -> M!OrbitLaws(sp.to, sp.r, sp.a, sp.e)
      [] sp.kind = "look" -> M!LookLaws(M!VAdd(sp.e, sp.o), sp.o)
      [] sp.kind = "curve" ->
            M!CurveLaws([i \in 1..sp.k |-> Q((i * i + sp.j * i) % 5)], sp.order, sp.n, sp.t)
      [] OTHER -> TRUE

-----------------------------------------------------------------------------
Dims ==
    {U!dimless} \cup {<<(<<i, p>>)>> : i \in {3, 4, 5}, p \in {-1, 1, 2}}
    \cup {<<(<<i, p>>), <<j, q>>>> : i \in {3, 4}, j \in {5, 6}, p \in {-1, 1}, q \in {-2, 1, 2}}
    \cup {U!dimensions[k] : k \in DOMAIN U!dimensions}
Named == {U!si[n] : n \in {"degree", "turn", "minute", "hour", "degree_celsius", "degree_fahrenheit", "gram", "kilometer",
                           "centimeter", "byte", "kilonewton"}}
Measured == Named \cup {U!unit(u.dims) : u \in Named}
Multiplied ==
    {U!si[n] : n \in {"degree", "minute", "hour", "kilometer", "gram", "tonne", "degree_fahrenheit", "kilonewton"}}
    \cup {U!unit(U!dimension(n)) : n \in {"length", "mass", "time"}}

UnitSamples ==
    [kind : {"dimensions"}, a : Dims, b : Dims]
    \cup {s \in [kind : {"conversion"}, u1 : Measured, u2 : Measured, u3 : Measured] :
            s.u1.dims = s.u2.dims /\ s.u2.dims = s.u3.dims}
    \cup [kind : {"product"}, u1 : Multiplied, u2 : Multiplied]
    \cup [kind : {"angle"}, i : -3..5]

UnitLaws(sp) ==
    CASE sp.kind = "dimensions" -> U!DimensionLaws(sp.a, sp.b)
      [] sp.kind = "conversion" -> U!ConversionLaws(sp.u1, sp.u2, sp.u3, Q(1), Q(3))
      [] sp.kind = "product" -> U!ProductLaws(sp.u1, sp.u2, Q(2), Q(3))
      [] sp.kind = "angle" -> U!AngleLaw(F(sp.i, 2))
      [] OTHER -> TRUE

-----------------------------------------------------------------------------
\* The 288 full boards of rank 2, row by row.
RowCells(y) == <<Cell(<<0, y \div 2, 0, y % 2>>), Cell(<<0, y \div 2, 1, y % 2>>),
                 Cell(<<1, y \div 2, 0, y % 2>>), Cell(<<1, y \div 2, 1, y % 2>>)>>
Rows == {r \in [1..4 -> Glyphs] : \A i, j \in 1..4 : i # j => r[i] # r[j]}
WithRow(b, y, r) ==
    <<>> \o [n \in BoardCells |->
        IF n \in ToSet(RowCells(y)) THEN {r[CHOOSE i \in 1..4 : RowCells(y)[i] = n]} ELSE b[n]]
More(bs, y) == {b \in {WithRow(b, y, r) : b \in bs, r \in Rows} : ValidBoard(b)}
Full == More(More(More(More({EmptyBoard}, 0), 1), 2), 3)
Some == {b \in Full : b[1] = {0} /\ b[2] = {1}}
Kept(b, cells) == <<>> \o [n \in BoardCells |-> IF n \in cells THEN b[n] ELSE {}]
Mixed(a, b) == <<>> \o [n \in BoardCells |-> IF n <= 4 THEN a[n] ELSE IF n >= 13 THEN b[n] ELSE {}]
CellSets == {{}, {7}, {1, 5, 9}, {1, 6, 11, 16}, {1, 2, 3, 4, 13, 14, 15}, 1..16}

PuzzleSamples ==
    {[kind |-> "solve", board |-> Kept(b, k)] : b \in Some, k \in CellSets}
    \cup {[kind |-> "solve", board |-> Mixed(a, b)] : a, b \in Some}
    \cup {[kind |-> "generate", board |-> calculate_alternatives(Kept(b, k))] : b \in Some, k \in {{}, {1, 5, 9}}}
    \cup [kind : {"patch"}, w : 1..7, h : 1..7, xmin : {-13, -1, 0, 4}, ymin : {-13, 0, 4}]
    \cup {[kind |-> "sort", a |-> a] : a \in Seqs({0, 1}, 1, 10) \cup [1..12 -> {0, 1}]}

PuzzleLaws(sp) ==
    CASE sp.kind = "solve" -> SolveLaws(sp.board, Full)
      [] sp.kind = "generate" -> GenerateLaw(sp.board)
      [] sp.kind = "patch" -> PatchLaws(3, sp.w, sp.h, sp.xmin, sp.ymin)
      [] sp.kind = "sort" -> N!SortLaws(sp.a)
      [] OTHER -> TRUE

-----------------------------------------------------------------------------
\* A behaviour begins with the choice of what to take samples of.
Subjects == {"bits", "optionals", "spans", "codecs", "texts", "trees", "matrices", "space", "units", "puzzles"}

Start(subject) == [kind |-> "start", of |-> subject]

ValuesInit == boards = <<>> /\ \E subject \in Subjects : sample = Start(subject)

Take(subject, samples) == sample = Start(subject) /\ sample' \in samples /\ UNCHANGED boards

ValuesNext ==
    \/ Take("bits", BitSamples) \/ Take("optionals", OptSamples) \/ Take("spans", SpanSamples)
    \/ Take("codecs", CodecSamples) \/ Take("trees", TreeSamples) \/ Take("matrices", MatrixSamples)
    \/ Take("texts", TextSamples)
    \/ Take("space", SpaceSamples) \/ Take("units", UnitSamples) \/ Take("puzzles", PuzzleSamples)

ValuesSpec == ValuesInit /\ [][ValuesNext]_<<sample, boards>>

\* What is computed obeys the laws of what it stands for: numbers in limited
\* widths, packed bits, identifiers, optional values, spans, vectors, matrices
\* and curves, quantities with units, solved puzzles and sorted arrays.
ValueLaws(sp) ==
    /\ BitLaws(sp) /\ OptLaws(sp) /\ SpanLaws(sp)
    /\ MatrixLaws(sp) /\ SpaceLaws(sp) /\ UnitLaws(sp) /\ PuzzleLaws(sp)

\* Every sample of what the pure parts of the library compute obeys its law.
ValuesObeyTheirLaws == [][ValueLaws(sample')]_sample

\* What is written is read back, in whatever pieces it comes and whichever way
\* it is looked at, and what was cut off is noticed (serialization, multi_byte,
\* string_list, value_tree).
DecodedAsEncoded == [][CodecLaws(sample') /\ TextLaws(sample') /\ TreeLaws(sample')]_sample

-----------------------------------------------------------------------------
\* Arrays of thirteen, for which there is no manual network.
NetworkSamples == {[kind |-> "network", a |-> a] : a \in [1..13 -> {0, 1}]}

NetworkSpec == ValuesInit /\ [][Take("puzzles", NetworkSamples)]_<<sample, boards>>

\* "is sorted": what network_sorter returns is in order, whatever the size.
NetworksSort == sample.kind = "network" => N!InOrder(N!sort(sample.a))
=============================================================================
