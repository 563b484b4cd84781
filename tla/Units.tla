------------------------------- MODULE Units -------------------------------
(***************************************************************************)
(* Dimensions, scales, units and quantities of eagine.core.units.  What    *)
(* the templates compute at compile time is computed here by operators:    *)
(* nothing_t is <<>>, dims<H, T> is <<H>> \o T, and dim_pow<D, P> is       *)
(* <<dim_num, P>>.  Values are the fractions of Vectors.  A base unit is   *)
(* known by the number of its dimension, the unit of nothing_t by 0.       *)
(***************************************************************************)
EXTENDS Vectors

----------------------------------------------------------------------------
(* base.cpp: scales *)

\* A number that is no power of ten stands for pi.
_pi == Frac(22, 7)

one == <<"one">>

constant(i) == <<"constant", i>>

pi == <<"pi">>

rational(num, den) == <<"rational", num, den>>

power(x, y) == <<"power", x, y>>

inverted(s) == <<"inverted", s>>

multiplied(s1, s2) == <<"multiplied", s1, s2>>

divided(s1, s2) == <<"divided", s1, s2>>

recombined(s1, s2) == multiplied(s1, s2)

Power(x, y) == FoldLeft(Mul, One, [i \in 1..Abs(y) |-> IF y < 0 THEN Frac(1, x) ELSE Q(x)])

RECURSIVE to_base(_, _), from_base(_, _)
to_base(s, v) ==
    CASE s[1] = "one" -> v
      [] s[1] = "constant" -> Mul(v, Q(s[2]))
      [] s[1] = "pi" -> Mul(v, _pi)
      [] s[1] = "rational" -> Div(Mul(v, Q(s[2])), Q(s[3]))
      [] s[1] = "power" -> Mul(v, Power(s[2], s[3]))
      [] s[1] = "inverted" -> from_base(s[2], v)
      [] s[1] = "multiplied" -> to_base(s[3], to_base(s[2], v))
      [] s[1] = "divided" -> from_base(s[3], to_base(s[2], v))

from_base(s, v) ==
    CASE s[1] = "one" -> v
      [] s[1] = "constant" -> Div(v, Q(s[2]))
      [] s[1] = "pi" -> Div(v, _pi)
      [] s[1] = "rational" -> Div(Mul(v, Q(s[3])), Q(s[2]))
      [] s[1] = "power" -> Div(v, Power(s[2], s[3]))
      [] s[1] = "inverted" -> to_base(s[2], v)
      [] s[1] = "multiplied" -> from_base(s[3], from_base(s[2], v))
      [] s[1] = "divided" -> to_base(s[3], from_base(s[2], v))

prefixes ==
    [nano |-> power(1000, -3), micro |-> power(1000, -2), milli |-> power(1000, -1),
     centi |-> power(10, -2), deci |-> power(10, -1), deca |-> power(10, 1),
     hecto |-> power(10, 2), kilo |-> power(1000, 1), mega |-> power(1000, 2),
     giga |-> power(1000, 3), tera |-> power(1000, 4), kibi |-> power(1024, 1),
     mebi |-> power(1024, 2), gibi |-> power(1024, 3), tebi |-> power(1024, 4)]

----------------------------------------------------------------------------
(* base.cpp: dimensions *)

dim_num ==
    [angle |-> 1, solid_angle |-> 2, mass |-> 3, length |-> 4, time |-> 5,
     temperature |-> 6, electric_current |-> 7, number_of_cycles |-> 8,
     number_of_decays |-> 9, luminous_intensity |-> 10,
     amount_of_substance |-> 11, amount_of_information |-> 12]

\* dims<nothing_t, nothing_t>, and unit_scales<nothing_t, nothing_t>
dimless == <<<<0, 0>>>>

no_scales == <<<<0, one>>>>

collapse_tail(x, empty) == IF x = empty THEN <<>> ELSE x

RECURSIVE pow_of_dim(_, _), dim_add(_, _), dim_sub(_, _)
pow_of_dim(d, ds) ==
    IF ds \in {<<>>, dimless} THEN 0
    ELSE IF Head(ds)[1] = d THEN Head(ds)[2] ELSE pow_of_dim(d, Tail(ds))

get_pow(ds, d) == pow_of_dim(d, ds)

dim_add(a, b) ==
    LET ct(x) == collapse_tail(x, dimless)
        p == Head(a)[2] + Head(b)[2]
    IN  CASE a = <<>> -> b
          [] a # <<>> /\ b \in {<<>>, dimless} -> a
          [] a = dimless /\ b \notin {<<>>, dimless} -> b
          [] OTHER ->
             IF Head(a)[1] = Head(b)[1]
             THEN IF p = 0 THEN dim_add(Tail(a), Tail(b))
                  ELSE <<<<Head(a)[1], p>>>> \o ct(dim_add(Tail(a), Tail(b)))
             ELSE IF Head(a)[1] < Head(b)[1]
             THEN <<Head(a)>> \o ct(dim_add(Tail(a), b))
             ELSE <<Head(b)>> \o ct(dim_add(a, Tail(b)))

dim_sub(a, b) ==
    LET ct(x) == collapse_tail(x, dimless)
        p == Head(a)[2] - Head(b)[2]
        Negated == <<Head(b)[1], -Head(b)[2]>>
    IN  CASE b \in {<<>>, dimless} -> IF a = <<>> THEN dimless ELSE a
          [] b \notin {<<>>, dimless} /\ a \in {<<>>, dimless} ->
             <<Negated>> \o ct(dim_sub(<<>>, Tail(b)))
          [] OTHER ->
             IF Head(a)[1] = Head(b)[1]
             THEN IF p = 0 THEN dim_sub(Tail(a), Tail(b))
                  ELSE <<<<Head(a)[1], p>>>> \o ct(dim_sub(Tail(a), Tail(b)))
             ELSE IF Head(a)[1] < Head(b)[1]
             THEN <<Head(a)>> \o ct(dim_sub(Tail(a), b))
             ELSE <<Negated>> \o ct(dim_sub(a, Tail(b)))

dimension(name) == <<<<dim_num[name], 1>>>>

velocity == dim_sub(dimension("length"), dimension("time"))

acceleration == dim_sub(velocity, dimension("time"))

area == dim_add(dimension("length"), dimension("length"))

force == dim_add(acceleration, dimension("mass"))

energy == dim_add(force, dimension("length"))

watts == dim_sub(energy, dimension("time"))

tension == dim_sub(watts, dimension("electric_current"))

charge == dim_add(dimension("electric_current"), dimension("time"))

magnetic_flux == dim_sub(energy, dimension("electric_current"))

mechanical_dimensions ==
    [frequency |-> dim_sub(dimension("number_of_cycles"), dimension("time")),
     radioactivity |-> dim_sub(dimension("number_of_decays"), dimension("time")),
     area |-> area,
     volume |-> dim_add(area, dimension("length")),
     mass_density |-> dim_sub(dimension("mass"), dim_add(area, dimension("length"))),
     angular_velocity |-> dim_sub(dimension("angle"), dimension("time")),
     velocity |-> velocity, acceleration |-> acceleration,
     momentum |-> dim_add(velocity, dimension("mass")),
     force |-> force, energy |-> energy, power |-> watts,
     pressure |-> dim_sub(force, area)]

electrical_dimensions ==
    [electric_charge |-> charge, electric_tension |-> tension,
     electrical_capacitance |-> dim_sub(charge, tension),
     electrical_conductance |-> dim_sub(dimension("electric_current"), tension),
     electrical_resistance |-> dim_sub(tension, dimension("electric_current")),
     magnetic_flux |-> magnetic_flux,
     magnetic_field_strength |-> dim_sub(magnetic_flux, area),
     inductance |-> dim_sub(magnetic_flux, dimension("electric_current"))]

dimensions == mechanical_dimensions @@ electrical_dimensions

----------------------------------------------------------------------------
(* base.cpp: the scales of a unit, a sequence of <<base unit, scale>> *)

\* si::base_unit: the base unit of mass is the kilogram, a scaled gram.
base_unit(d) == <<IF d = dim_num.mass THEN prefixes.kilo ELSE one, d>>

get_scale(us, sbu) ==
    LET here == SelectInSeq(us, LAMBDA e : e[1] = sbu[2])
    IN  IF us = no_scales \/ here = 0 THEN sbu[1]
        ELSE IF sbu[1] = one THEN us[here][2] ELSE divided(us[here][2], sbu[1])

RECURSIVE merge(_, _)
merge(a, b) ==
    CASE a = <<>> /\ b = <<>> -> no_scales
      [] a # <<>> /\ b \in {<<>>, no_scales} -> a
      [] a \in {<<>>, no_scales} /\ b \notin {<<>>, no_scales} -> b
      [] a = <<>> /\ b = no_scales -> b
      [] OTHER ->
         IF Head(a)[1] = Head(b)[1]
         THEN <<Head(a)>> \o collapse_tail(merge(Tail(a), Tail(b)), no_scales)
         ELSE IF Head(a)[1] < Head(b)[1]
         THEN <<Head(a)>> \o collapse_tail(merge(Tail(a), b), no_scales)
         ELSE <<Head(b)>> \o collapse_tail(merge(a, Tail(b)), no_scales)

RECURSIVE insert(_, _, _)
insert(us, u, s) ==
    IF us \in {<<>>, no_scales} THEN <<<<u, s>>>>
    ELSE IF Head(us)[1] = u THEN <<<<u, s>>>> \o Tail(us)
    ELSE <<Head(us)>> \o insert(Tail(us), u, s)

\* _sc_unit_sc_hlp::_pow: a scale is applied once for every unit of the power.
RECURSIVE _pow(_, _, _)
_pow(v, s, e) ==
    IF e = 0 THEN v
    ELSE IF e > 0 THEN _pow(to_base(s, v), s, e - 1)
    ELSE _pow(from_base(s, v), s, e + 1)

_hlp(dir, v, ds, us) ==
    FoldLeft(LAMBDA w, dp : _pow(w, get_scale(us, base_unit(dp[1])), dir * dp[2]),
             v, IF ds = dimless THEN <<>> ELSE ds)

----------------------------------------------------------------------------
(* unit.cpp: units *)

unit(ds) == [dims |-> ds, conv |-> "none", us |-> <<>>]

custom_dim_unit(ds, conv) == [dims |-> ds, conv |-> conv, us |-> <<>>]

scaled_dim_unit(ds, us) == [dims |-> ds, conv |-> "scaled", us |-> us]

make_scaled_base_dim_unit(scale, name) ==
    scaled_dim_unit(dimension(name), <<<<dim_num[name], scale>>>>)

\* add_none_unit_scale_t: a scale that belongs to no base unit.
make_scaled_unit(scale, u) == scaled_dim_unit(u.dims, <<<<0, scale>>>>)

lit_result(u) == IF u.conv = "none" THEN scaled_dim_unit(u.dims, no_scales) ELSE u

celsius_to_base(v) == Add(v, Frac(27315, 100))

celsius_from_base(v) == Sub(v, Frac(27315, 100))

fahrenheit_to_base(v) == Add(Div(Sub(v, Q(32)), Frac(18, 10)), Frac(27315, 100))

fahrenheit_from_base(v) == Sub(Mul(v, Frac(18, 10)), Frac(45967, 100))

conv_to_base(u, v) ==
    CASE u.conv = "celsius" -> celsius_to_base(v)
      [] u.conv = "fahrenheit" -> fahrenheit_to_base(v)
      [] u.conv = "scaled" -> _hlp(1, v, u.dims, u.us)

conv_from_base(u, v) ==
    CASE u.conv = "celsius" -> celsius_from_base(v)
      [] u.conv = "fahrenheit" -> fahrenheit_from_base(v)
      [] u.conv = "scaled" -> _hlp(-1, v, u.dims, u.us)

is_convertible(u1, u2) == u1.dims = u2.dims

same_dimension(u1, u2) == u1.dims = u2.dims

\* Units whose first scale belongs to no base unit have converters of their own.
has_none_scale(u) == u.conv = "scaled" /\ u.us # no_scales /\ Head(u.us)[1] = 0

value_conv(u1, u2, v) ==
    CASE u1 = u2 -> v
      [] u1 # u2 /\ u2.conv = "none" ->
         IF has_none_scale(u1) THEN to_base(Head(u1.us)[2], v) ELSE conv_to_base(u1, v)
      [] u1.conv = "none" /\ u2.conv # "none" ->
         IF has_none_scale(u2) THEN from_base(Head(u2.us)[2], v) ELSE conv_from_base(u2, v)
      [] OTHER ->
         IF has_none_scale(u1) /\ has_none_scale(u2) /\ Tail(u1.us) = Tail(u2.us)
         THEN from_base(Head(u2.us)[2], to_base(Head(u1.us)[2], v))
         ELSE conv_from_base(u2, conv_to_base(u1, v))

add_result(u1, u2) == IF u1.conv = "none" THEN u1 ELSE IF u2.conv = "none" THEN u2 ELSE u1

sub_result(u1, u2) == add_result(u1, u2)

BothScaled(u1, u2) == u1.conv = "scaled" /\ u2.conv = "scaled"

mul_l_operand(u1, u2) ==
    IF BothScaled(u1, u2) THEN scaled_dim_unit(u1.dims, merge(u1.us, u2.us))
    ELSE unit(u1.dims)

\* Of two custom units that are not both scaled, the right one gets the
\* dimension of the left one.
mul_r_operand(u1, u2) ==
    IF BothScaled(u1, u2) THEN scaled_dim_unit(u2.dims, merge(u1.us, u2.us))
    ELSE unit(IF "none" \notin {u1.conv, u2.conv} THEN u1.dims ELSE u2.dims)

mul_result(u1, u2) ==
    LET ds == dim_add(u1.dims, u2.dims)
    IN  IF BothScaled(u1, u2) THEN scaled_dim_unit(ds, merge(u1.us, u2.us)) ELSE unit(ds)

div_result(u1, u2) ==
    LET ds == dim_sub(u1.dims, u2.dims)
    IN  IF BothScaled(u1, u2) THEN scaled_dim_unit(ds, merge(u1.us, u2.us)) ELSE unit(ds)

----------------------------------------------------------------------------
(* si.cpp *)

angle_units ==
    [degree |-> make_scaled_base_dim_unit(divided(pi, constant(180)), "angle"),
     gradian |-> make_scaled_base_dim_unit(divided(pi, constant(200)), "angle"),
     quarter |-> make_scaled_base_dim_unit(divided(pi, constant(2)), "angle"),
     turn |-> make_scaled_base_dim_unit(multiplied(constant(2), pi), "angle"),
     pi_rad |-> make_scaled_base_dim_unit(pi, "angle")]

time_units ==
    [millisecond |-> make_scaled_unit(rational(1, 1000), unit(dimension("time"))),
     minute |-> make_scaled_unit(constant(60), unit(dimension("time"))),
     hour |-> make_scaled_unit(constant(3600), unit(dimension("time"))),
     day |-> make_scaled_unit(constant(86400), unit(dimension("time")))]

kelvin == unit(dimension("temperature"))

temperature_units ==
    [millikelvin |-> make_scaled_base_dim_unit(prefixes.milli, "temperature"),
     kilokelvin |-> make_scaled_base_dim_unit(prefixes.kilo, "temperature"),
     degree_celsius |-> custom_dim_unit(kelvin.dims, "celsius"),
     degree_fahrenheit |-> custom_dim_unit(kelvin.dims, "fahrenheit")]

counted_units ==
    [kilomole |-> make_scaled_base_dim_unit(prefixes.kilo, "amount_of_substance"),
     kilohertz |-> make_scaled_unit(prefixes.kilo, unit(dimensions.frequency)),
     megahertz |-> make_scaled_unit(prefixes.mega, unit(dimensions.frequency)),
     gigahertz |-> make_scaled_unit(prefixes.giga, unit(dimensions.frequency)),
     kilobecquerel |-> make_scaled_unit(prefixes.kilo, unit(dimensions.radioactivity)),
     megabecquerel |-> make_scaled_unit(prefixes.mega, unit(dimensions.radioactivity)),
     gigabecquerel |-> make_scaled_unit(prefixes.giga, unit(dimensions.radioactivity))]

length_units ==
    [kilometer |-> make_scaled_base_dim_unit(prefixes.kilo, "length"),
     decimeter |-> make_scaled_base_dim_unit(prefixes.deci, "length"),
     centimeter |-> make_scaled_base_dim_unit(prefixes.centi, "length"),
     millimeter |-> make_scaled_base_dim_unit(prefixes.milli, "length")]

mass_units ==
    [gram |-> make_scaled_base_dim_unit(one, "mass"),
     milligram |-> make_scaled_base_dim_unit(prefixes.milli, "mass"),
     tonne |-> make_scaled_base_dim_unit(prefixes.mega, "mass"),
     kilocandela |-> make_scaled_base_dim_unit(prefixes.kilo, "luminous_intensity")]

mechanical_units ==
    [kilonewton |-> make_scaled_unit(prefixes.kilo, unit(force)),
     meganewton |-> make_scaled_unit(prefixes.mega, unit(force)),
     kilojoule |-> make_scaled_unit(prefixes.kilo, unit(energy)),
     megajoule |-> make_scaled_unit(prefixes.mega, unit(energy)),
     kilowatt |-> make_scaled_unit(prefixes.kilo, unit(watts)),
     megawatt |-> make_scaled_unit(prefixes.mega, unit(watts)),
     kilopascal |-> make_scaled_unit(prefixes.kilo, unit(dimensions.pressure)),
     megapascal |-> make_scaled_unit(prefixes.mega, unit(dimensions.pressure))]

electrical_units ==
    [kiloampere |-> make_scaled_base_dim_unit(prefixes.kilo, "electric_current"),
     milliampere |-> make_scaled_base_dim_unit(prefixes.milli, "electric_current"),
     millicoulomb |-> make_scaled_unit(prefixes.milli, unit(charge)),
     kilocoulomb |-> make_scaled_unit(prefixes.kilo, unit(charge)),
     millivolt |-> make_scaled_unit(prefixes.milli, unit(tension)),
     kilovolt |-> make_scaled_unit(prefixes.kilo, unit(tension)),
     microfarad |-> make_scaled_unit(prefixes.micro, unit(dimensions.electrical_capacitance)),
     millifarad |-> make_scaled_unit(prefixes.milli, unit(dimensions.electrical_capacitance)),
     kilofarad |-> make_scaled_unit(prefixes.kilo, unit(dimensions.electrical_capacitance)),
     millisiemens |-> make_scaled_unit(prefixes.milli, unit(dimensions.electrical_conductance)),
     milliohm |-> make_scaled_unit(prefixes.milli, unit(dimensions.electrical_resistance)),
     kiloohm |-> make_scaled_unit(prefixes.kilo, unit(dimensions.electrical_resistance)),
     milliweber |-> make_scaled_unit(prefixes.milli, unit(magnetic_flux)),
     kiloweber |-> make_scaled_unit(prefixes.kilo, unit(magnetic_flux)),
     millitesla |-> make_scaled_unit(prefixes.milli, unit(dimensions.magnetic_field_strength)),
     millihenry |-> make_scaled_unit(prefixes.milli, unit(dimensions.inductance))]

bit == unit(dimension("amount_of_information"))

information_units ==
    [byte |-> make_scaled_unit(constant(8), bit),
     kilobyte |-> make_scaled_unit(recombined(prefixes.kilo, constant(8)), bit),
     kibibyte |-> make_scaled_unit(recombined(prefixes.kibi, constant(8)), bit),
     megabyte |-> make_scaled_unit(recombined(prefixes.mega, constant(8)), bit),
     mebibyte |-> make_scaled_unit(recombined(prefixes.mebi, constant(8)), bit)]

si == angle_units @@ time_units @@ temperature_units @@ counted_units @@ length_units
      @@ mass_units @@ mechanical_units @@ electrical_units @@ information_units

----------------------------------------------------------------------------
(* quantity.cpp *)

tagged_quantity(v, u) == [v |-> v, u |-> u]

to(q, u) == tagged_quantity(value_conv(q.u, u, q.v), u)

PlusAssign(a, b) == tagged_quantity(Add(a.v, value_conv(b.u, a.u, b.v)), a.u)

MinusAssign(a, b) == tagged_quantity(Sub(a.v, value_conv(b.u, a.u, b.v)), a.u)

QtyEq(a, b) == a.v = value_conv(b.u, a.u, b.v)

QtyLt(a, b) == Lt(a.v, value_conv(b.u, a.u, b.v))

QtyLe(a, b) == Le(a.v, value_conv(b.u, a.u, b.v))

QtyPlus(a, b) ==
    LET ur == add_result(a.u, b.u)
    IN  tagged_quantity(Add(value_conv(a.u, ur, a.v), value_conv(b.u, ur, b.v)), ur)

QtyMinus(a, b) ==
    LET ur == sub_result(a.u, b.u)
    IN  tagged_quantity(Sub(value_conv(a.u, ur, a.v), value_conv(b.u, ur, b.v)), ur)

QtyTimes(a, b) ==
    tagged_quantity(Mul(value_conv(a.u, mul_l_operand(a.u, b.u), a.v),
                        value_conv(b.u, mul_r_operand(a.u, b.u), b.v)), mul_result(a.u, b.u))

QtyDividedBy(a, b) ==
    tagged_quantity(Div(value_conv(a.u, mul_l_operand(a.u, b.u), a.v),
                        value_conv(b.u, mul_r_operand(a.u, b.u), b.v)), div_result(a.u, b.u))

QtyScaled(a, c) == tagged_quantity(Mul(a.v, c), a.u)

QtySplit(a, c) == tagged_quantity(Div(a.v, c), a.u)

(* units.cpp *)

radian == unit(dimension("angle"))

right_angles_(v) == tagged_quantity(Div(Mul(v, _pi), Q(2)), radian)

turns_(v) == tagged_quantity(Mul(Mul(v, _pi), Q(2)), radian)

degrees_(v) == tagged_quantity(v, si.degree)

(* strings.cpp: the symbol of a unit is a product of symbols and powers *)

RECURSIVE compose_str(_)
compose_str(ds) ==
    IF ds = <<>> \/ ds = dimless THEN <<>>
    ELSE (IF Head(ds)[2] = 0 THEN <<>>
          ELSE <<[prefix |-> base_unit(Head(ds)[1])[1], base |-> Head(ds)[1],
                  superscript |-> IF Head(ds)[2] = 1 THEN <<>> ELSE <<Head(ds)[2]>>]>>)
         \o compose_str(Tail(ds))

----------------------------------------------------------------------------
(* What these promise. *)

Combined(a, b, Op(_, _)) ==
    {<<d, Op(pow_of_dim(d, a), pow_of_dim(d, b))>> : d \in 1..12} \ {<<d, 0>> : d \in 1..12}

Powers(ds) == IF ds = dimless THEN {} ELSE ToSet(ds)

\* Whatever is multiplied or divided, the dimension of the result has the sums
\* or differences of the powers, in one sorted form without zeros, so equal
\* dimensions are one type (dim_add, dim_sub and their cancelled heads and
\* tails), dividing by what was multiplied returns the first, and the symbol
\* names every base unit once.
DimensionLaws(a, b) ==
    LET sum == dim_add(a, b)
        dif == dim_sub(a, b)
        Sorted(s) == \A i \in 1..Len(s) - 1 : s[i][1] < s[i + 1][1]
    IN  /\ Powers(sum) = Combined(a, b, +)
        /\ Powers(dif) = Combined(a, b, -)
        /\ Sorted(sum) /\ Sorted(dif)
        /\ sum # <<>> => dim_sub(sum, b) = a
        /\ dim_add(dif, b) \in {a, IF a = dimless THEN <<>> ELSE a}
        /\ sum = dim_add(b, a)
        /\ {<<t.base, IF t.superscript = <<>> THEN 1 ELSE t.superscript[1]>> :
              t \in ToSet(compose_str(sum))} = Powers(sum)

\* Units of one dimension convert there and back without loss, a conversion
\* by way of a third unit is the direct one, and sums, differences and
\* comparisons of quantities agree with their values in the base unit,
\* whichever unit each operand was given in.
ConversionLaws(u1, u2, u3, v, w) ==
    LET a == tagged_quantity(v, u1)
        b == tagged_quantity(w, u2)
        base == unit(u1.dims)
        B(q) == to(q, base).v
    IN  /\ to(to(a, u2), u1) = a
        /\ to(to(a, u2), u3) = to(a, u3)
        /\ QtyEq(a, b) = (B(a) = B(b)) /\ QtyLt(a, b) = Lt(B(a), B(b))
        /\ QtyLe(a, b) = Le(B(a), B(b)) /\ QtyEq(a, b) = QtyEq(b, a)
        /\ {u1.conv, u2.conv} \subseteq {"none", "scaled"} =>
           /\ B(QtyPlus(a, b)) = Add(B(a), B(b))
           /\ B(QtyMinus(a, b)) = Sub(B(a), B(b))
           /\ QtyPlus(a, b).v = to(PlusAssign(a, b), QtyPlus(a, b).u).v
           /\ QtyMinus(a, b).v = to(MinusAssign(a, b), QtyMinus(a, b).u).v

\* Multiplying or dividing quantities multiplies or divides their values in
\* base units, unless both are scaled and one of them by a scale of no base
\* unit: of a mixed product only that scale is converted (Mixed).
Mixed(u1, u2) == BothScaled(u1, u2) /\ (has_none_scale(u1) \/ has_none_scale(u2))

ProductLaws(u1, u2, v, w) ==
    LET a == tagged_quantity(v, u1)
        b == tagged_quantity(w, u2)
        B(q) == to(q, unit(q.u.dims)).v
        compiles == is_convertible(u2, mul_r_operand(u1, u2))
        MassFree(u) == pow_of_dim(dim_num.mass, u.dims) = 0
    IN  (compiles /\ ~Mixed(u1, u2)) =>
        /\ (MassFree(u1) /\ MassFree(u2)) \/ ~BothScaled(u1, u2) =>
              B(QtyTimes(a, b)) = Mul(B(a), B(b)) /\ B(QtyDividedBy(a, b)) = Div(B(a), B(b))
        /\ u1.dims = u2.dims => QtyDividedBy(a, b).u.dims = dimless
        /\ QtyTimes(a, b).u.dims = dim_add(u1.dims, u2.dims)

\* Angles: turns, right angles and degrees agree.
AngleLaw(v) ==
    /\ turns_(v) = right_angles_(Mul(v, Q(4)))
    /\ to(degrees_(Mul(v, Q(360))), radian) = turns_(v)
    /\ to(turns_(v), si.turn).v = v
============================================================================
