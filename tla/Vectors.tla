------------------------------ MODULE Vectors ------------------------------
(***************************************************************************)
(* simd data, scalars, vectors, points, quaternions, geometric primitives  *)
(* and their intersections.  Elements are exact fractions <<n, d>> in      *)
(* lowest terms, d > 0; <<0, 0>> is what floating point calls not a number *)
(* or an infinity.  What rounding does to an element is left out, what     *)
(* lane goes where and which case is taken is not.                         *)
(***************************************************************************)
EXTENDS Integers, Sequences, SequencesExt, FiniteSets, Bitwise

Abs(n) == IF n < 0 THEN -n ELSE n

greatest_common_divisor[l \in Nat, r \in Nat] ==
    IF r = 0 THEN l ELSE greatest_common_divisor[r, l % r]

NaN == <<0, 0>>

Frac(n, d) ==
    IF d = 0 THEN NaN
    ELSE LET g == greatest_common_divisor[Abs(n), Abs(d)]
             s == IF d < 0 THEN -1 ELSE 1
         IN  <<(s * n) \div g, Abs(d) \div g>>

Q(n) == <<n, 1>>

Zero == Q(0)

One == Q(1)

Add(a, b) == Frac(a[1] * b[2] + b[1] * a[2], a[2] * b[2])

Neg(a) == <<-a[1], a[2]>>

Sub(a, b) == Add(a, Neg(b))

Mul(a, b) == Frac(a[1] * b[1], a[2] * b[2])

Div(a, b) == IF b[1] = 0 THEN NaN ELSE Frac(a[1] * b[2], a[2] * b[1])

Lt(a, b) == a[1] * b[2] < b[1] * a[2]

Le(a, b) == ~Lt(b, a)

Root(n) == CHOOSE r \in 0..n : r * r = n

Sqrt(a) == Frac(Root(a[1]), Root(a[2]))

----------------------------------------------------------------------------
(* functions.cpp *)

is_positive_power_of_2(v) == v > 0 /\ (v & (v - 1)) = 0

signum(x) == IF Lt(x, Zero) THEN Q(-1) ELSE One

minimum(s) == FoldLeft(LAMBDA a, b : IF Lt(a, b) THEN a ELSE b, Head(s), Tail(s))

maximum(s) == FoldLeft(LAMBDA a, b : IF Lt(b, a) THEN a ELSE b, Head(s), Tail(s))

\* ratio and reciprocal: a sequence of at most one value.
ratio(a, b) == IF b[1] # 0 THEN <<Div(a, b)>> ELSE <<>>

reciprocal(x) == IF x[1] # 0 THEN <<Div(One, x)>> ELSE <<>>

clamp(x, min, max) == IF Lt(x, min) THEN min ELSE IF Lt(max, x) THEN max ELSE x

ramp(x, start, end) == Div(Sub(clamp(x, start, end), start), Sub(end, start))

blend(a, b, alpha) == Add(Mul(a, Sub(One, alpha)), Mul(b, alpha))

interpolate_linear(a, b, coef) == Add(Mul(Sub(One, coef), a), Mul(coef, b))

factorial[n \in Nat] == IF n > 0 THEN n * factorial[n - 1] ELSE 1

binomial(n, k) ==
    IF n >= 0 /\ k >= 0 /\ k <= n THEN factorial[n] \div (factorial[k] * factorial[n - k]) ELSE 0

fibonacci(n) == FoldLeft(LAMBDA f, i : <<f[2], f[1] + f[2]>>, <<0, 1>>, [i \in 1..n |-> i])[2]

----------------------------------------------------------------------------
(* simd_data.cpp and ops.cpp.  Data of n elements have 4 lanes where 3 are *)
(* kept in a vector register; what the fourth one holds is not an element. *)

SimdSizes == [uint8 |-> {2, 4, 8, 16, 32}, uint16 |-> {4}, uint32 |-> {2, 4}, uint64 |-> {2, 4}, int8 |-> {8},
              int16 |-> {4}, int32 |-> {2, 4}, int64 |-> {2, 4}, float |-> {2, 3, 4}, double |-> {2, 3, 4}]

has_simd_data(type, n, avx) ==
    n \in CASE type \in {"uint8", "int8"} -> {2, 4, 8, 16}
            [] type = "int16" -> {2, 4, 8}
            [] type = "int32" -> {2, 4}
            [] type \in {"int64", "uint64"} -> {2}
            [] type = "float" -> {2, 3, 4}
            [] type = "double" -> IF avx THEN {2, 3, 4} ELSE {2}
            [] OTHER -> {}

Lanes(n, simd) == IF simd /\ n = 3 THEN 4 ELSE n

Data(s, simd, pad) == s \o [k \in 1..(Lanes(Len(s), simd) - Len(s)) |-> pad]

Elements(d, n) == SubSeq(d, 1, n)

fill(n, v) == [k \in 1..n |-> v]

Each(Op(_), a) == [k \in DOMAIN a |-> Op(a[k])]

Each2(Op(_, _), a, b) == [k \in DOMAIN a |-> Op(a[k], b[k])]

is_zero(a) == \A k \in DOMAIN a : a[k] = Zero

vector_equal(l, r) == is_zero(Each2(Sub, l, r))

vector_compare(l, r) ==
    LET differ == {k \in DOMAIN l : l[k] # r[k]}
        first == CHOOSE k \in differ : \A j \in differ : k <= j
    IN  IF differ = {} THEN 0 ELSE IF Lt(l[first], r[first]) THEN -1 ELSE 1

vector_less(l, r) == vector_compare(l, r) = -1

axis(n, i, v) == [k \in 1..n |-> IF k = i + 1 THEN v ELSE Zero]

from_array(n, d) == SubSeq(d, 1, n)

from_saafv(n, d, v) == [k \in 1..n |-> IF k <= Len(d) THEN d[k] ELSE v]

\* The first elements, and what the caller adds where there are too few.
cast(v, more, n) == IF n > Len(v) THEN v \o SubSeq(more, 1, n - Len(v)) ELSE SubSeq(v, 1, n)

\* The mask of three elements of a register has the first one in its fourth place.
shuffle(d, mask, simd) ==
    LET m == IF simd /\ Len(mask) = 3 THEN Append(mask, 0) ELSE mask
    IN  [k \in DOMAIN m |-> d[m[k] + 1]]

\* With 3 elements in 4 lanes the second operand begins at 4, not at 3.
shuffle2(d, e, mask, n, simd) ==
    IF simd
    THEN LET at == [k \in DOMAIN mask |-> IF n = 3 /\ mask[k] >= 3 THEN mask[k] + 1 ELSE mask[k]]
         IN  [k \in DOMAIN at |-> (d \o e)[at[k] + 1]]
    ELSE [k \in DOMAIN mask |-> IF mask[k] < n THEN d[mask[k] + 1] ELSE e[(mask[k] % n) + 1]]

view(rows) == FlattenSeq(rows)

abs(v) == Each(LAMBDA x : IF Lt(x, Zero) THEN Neg(x) ELSE x, v)

diff(a, b) == abs(Each2(Sub, a, b))

\* Every lane gets the sum: by shuffles, or by running sums forth and back.
hsum_shuffled(d, n) ==
    LET With(x, y, mask) == Each2(Add, x, shuffle(y, mask, TRUE))
    IN  CASE n = 2 -> With(d, d, <<1, 0>>)
          [] n = 3 -> With(With(d, d, <<1, 0, 0>>), d, <<2, 2, 1>>)
          [] n = 4 -> LET p == With(d, d, <<1, 0, 3, 2>>) IN With(p, p, <<2, 3, 0, 1>>)
          [] n = 8 -> LET p == With(d, d, <<1, 0, 3, 2, 5, 4, 7, 6>>)
                          q == With(p, p, <<2, 3, 0, 1, 6, 7, 4, 5>>)
                      IN  With(q, q, <<4, 5, 6, 7, 0, 1, 2, 3>>)
          [] OTHER -> d

hsum_looped(d, n) ==
    LET forth == FoldLeft(LAMBDA v, i : [v EXCEPT ![i] = Add(@, v[i - 1])], d, [i \in 1..(n - 1) |-> i + 1])
    IN  FoldLeft(LAMBDA v, i : [v EXCEPT ![i] = v[i + 1]], forth, [i \in 1..(n - 1) |-> n - i])

hsum(d, n, simd) == IF simd /\ n \in {2, 3, 4, 8} THEN hsum_shuffled(d, n) ELSE hsum_looped(d, n)

esum(d, n, simd) == IF simd /\ n > 1 THEN hsum(d, n, TRUE)[1] ELSE FoldLeft(Add, Zero, Elements(d, n))

\* The fourth lane is divided by one, whatever it holds.
sdiv(a, b, n, simd) == Each2(Div, a, IF simd /\ n = 3 THEN Append(Elements(b, 3), One) ELSE b)

----------------------------------------------------------------------------
(* vector.cpp and scalar.cpp, on elements *)

vector_from(v, rest) == v \o rest

VAdd(a, b) == Each2(Add, a, b)

VSub(a, b) == Each2(Sub, a, b)

VMul(a, b) == Each2(Mul, a, b)

VNeg(a) == Each(Neg, a)

Scaled(a, c) == Each(LAMBDA x : Mul(x, c), a)

Shrunk(a, c) == Each(LAMBDA x : Div(x, c), a)

dot(a, b) == FoldLeft(Add, Zero, VMul(a, b))

magnitude(a) == Sqrt(dot(a, a))

is_unit(a) == dot(a, a) = One

close_to(a, b) == magnitude(VSub(a, b)) = Zero

normalized(a) == Shrunk(a, magnitude(a))

shuffled(a, mask) == shuffle(a, mask, FALSE)

perpendicular(a) == <<Neg(a[2]), a[1]>>

cross(a, b) == VSub(VMul(shuffled(a, <<1, 2, 0>>), shuffled(b, <<2, 0, 1>>)),
                    VMul(shuffled(b, <<1, 2, 0>>), shuffled(a, <<2, 0, 1>>)))

flattened(vs) == FlattenSeq(vs)

(* quaternion.cpp: i, j, k and the real part *)

Quaternion(real, imag) == Append(imag, real)

imag(q) == SubSeq(q, 1, 3)

conjugate(q) == Quaternion(q[4], VNeg(imag(q)))

q_inverse(q) == Quaternion(Div(q[4], dot(q, q)), Shrunk(VNeg(imag(q)), dot(q, q)))

q_multiply(p, q) ==
    LET sp(s) == VMul(Each(Q, s), p)
    IN  <<dot(sp(<<1, 1, -1, 1>>), shuffled(q, <<3, 2, 1, 0>>)),
          dot(sp(<<-1, 1, 1, 1>>), shuffled(q, <<2, 3, 0, 1>>)),
          dot(sp(<<1, -1, 1, 1>>), shuffled(q, <<1, 0, 3, 2>>)),
          dot(sp(<<-1, -1, -1, 1>>), shuffled(q, <<0, 1, 2, 3>>))>>

q_rotate(q, v) == imag(q_multiply(q_multiply(q, Quaternion(Zero, v)), conjugate(q)))

----------------------------------------------------------------------------
(* primitives.cpp and intersection.cpp *)

plane(p, n) == Append(n, Neg(dot(n, p)))

normal(pl) == SubSeq(pl, 1, 3)

plane_distance(pl) == Neg(pl[4])

line(origin, direction) == [origin |-> origin, direction |-> direction]

line_between(bgn, end) == line(bgn, VSub(end, bgn))

point_at(l, t) == VAdd(l.origin, Scaled(l.direction, t))

destination(l) == VAdd(l.origin, l.direction)

triangle(a, b, c) == [a |-> a, ab |-> line_between(a, b), ac |-> line_between(a, c)]

triangle_center(a, b, c) == Shrunk(VAdd(VAdd(a, b), c), Q(3))

triangle_normal(tri, cw) ==
    IF cw THEN cross(tri.ac.direction, tri.ab.direction) ELSE cross(tri.ab.direction, tri.ac.direction)

sphere(center, radius) == Append(center, radius)

nearest_ray_param(t0, t1) ==
    LET ahead == SelectSeq(<<t0, t1>>, LAMBDA t : Len(t) = 1 /\ Le(Zero, t[1]))
    IN  IF ahead = <<>> THEN <<>> ELSE <<minimum(Each(LAMBDA t : t[1], ahead))>>

\* Both parameters, each a sequence of at most one.  b is not positive for a
\* line that touches the sphere and for one that misses it.
line_sphere_intersection_params(ray, sph) ==
    LET ld == ray.direction
        oc == VSub(ray.origin, SubSeq(sph, 1, 3))
        a == Mul(Q(-2), dot(ld, oc))
        b == Sub(Mul(Mul(Q(2), dot(ld, oc)), Mul(Q(2), dot(ld, oc))),
                 Mul(Mul(Q(4), dot(ld, ld)), Sub(dot(oc, oc), Mul(sph[4], sph[4]))))
        d == Mul(Q(2), dot(ld, ld))
        Valid(t) == IF Lt(Zero, d) THEN <<t>> ELSE <<>>
        invd == IF Lt(Zero, d) THEN Div(One, d) ELSE One
    IN  IF Lt(Zero, b)
        THEN <<Valid(Mul(Add(a, Sqrt(b)), invd)), Valid(Mul(Sub(a, Sqrt(b)), invd))>>
        ELSE <<Valid(Mul(a, invd)), <<>>>>

line_sphere_intersection(ray, sph) ==
    Each(LAMBDA t : Each(LAMBDA p : point_at(ray, p), t), line_sphere_intersection_params(ray, sph))

nearest_line_sphere_intersection(ray, sph) ==
    LET ts == line_sphere_intersection_params(ray, sph)
        Size(t) == abs(<<t[1]>>)[1]
        nearest == IF ts[1] = <<>> THEN <<>>
                   ELSE IF ts[2] # <<>> /\ ~Lt(Size(ts[1]), Size(ts[2])) THEN ts[2] ELSE ts[1]
    IN  Each(LAMBDA p : point_at(ray, p), nearest)

line_triangle_intersection_param(ray, tri) ==
    LET h == cross(ray.direction, tri.ac.direction)
        f == reciprocal(dot(tri.ab.direction, h))
        s == VSub(ray.origin, tri.a)
        u == Mul(f[1], dot(s, h))
        q == cross(s, tri.ab.direction)
        v == Mul(f[1], dot(ray.direction, q))
        t == Mul(f[1], dot(tri.ac.direction, q))
    IN  IF f # <<>> /\ Le(Zero, u) /\ Le(u, One) /\ Le(Zero, v) /\ Le(Add(u, v), One) /\ Le(Zero, t)
        THEN <<t>> ELSE <<>>

line_plane_intersection_param(ray, pln) ==
    LET ddn == dot(ray.direction, normal(pln))
        t == Div(Sub(plane_distance(pln), dot(ray.origin, normal(pln))), ddn)
    IN  IF ddn # Zero /\ Le(Zero, t) THEN <<t>> ELSE <<>>

line_intersection(ray, t) == Each(LAMBDA p : point_at(ray, p), t)

(* coordinates.cpp: an angle is its <<cosine, sine>> *)

NoTurn == <<One, Zero>>

to_cartesian(azim, elev) ==
    LET c == abs(<<elev[1]>>)[1] IN <<Mul(azim[1], c), elev[2], Mul(Neg(azim[2]), c)>>

\* The azimuth of -arctan(z, x) and the elevation of arcsin(y).
to_unit_spherical(v) ==
    LET flat == Sqrt(Sub(One, Mul(v[2], v[2])))
    IN  <<IF v[2] # Zero /\ flat # Zero THEN <<Div(v[1], flat), Neg(Div(v[3], flat))>> ELSE NoTurn, <<flat, v[2]>>>>

----------------------------------------------------------------------------

\* Where data are kept in a vector register and where they are not, every
\* operation gives the same elements, whatever the spare lane holds.
SimdLaws(a, b, pad) ==
    LET n == Len(a)
        D(s) == Data(s, TRUE, pad)
        Sum == FoldLeft(Add, Zero, a)
        masks == {[k \in 1..n |-> (k + j) % n] : j \in 0..(n - 1)} \cup {[k \in 1..n |-> n - k]}
        masks2 == {[k \in 1..n |-> (2 * k + j) % (2 * n)] : j \in 0..(2 * n - 1)}
    IN  /\ \A simd \in BOOLEAN :
             /\ Elements(hsum(Data(a, simd, pad), n, simd), n) = fill(n, Sum)
             /\ esum(Data(a, simd, pad), n, simd) = Sum
             /\ is_zero(b) \/ Elements(sdiv(Data(a, simd, pad), Data(b, simd, pad), n, simd), n) = Each2(Div, a, b)
        /\ \A m \in masks : Elements(shuffle(D(a), m, TRUE), n) = shuffled(a, m)
        /\ \A m \in masks2 : /\ Elements(shuffle2(D(a), D(b), m, n, TRUE), n) = shuffle2(a, b, m, n, FALSE)
                             /\ shuffle2(a, b, m, n, FALSE) = [k \in 1..n |-> (a \o b)[m[k] + 1]]
        /\ vector_less(a, b) \/ vector_less(b, a) \/ vector_equal(a, b)
        /\ vector_less(a, b) => ~vector_less(b, a) /\ ~vector_equal(a, b)
        /\ \A m \in 1..(n + 2) : cast(a, fill(2, pad), m) = from_saafv(m, a, pad)
        /\ is_zero(diff(a, b)) <=> a = b

\* Every size that has simd data has a definition of them.
SimdTypesLaw == \A t \in DOMAIN SimdSizes \ {"int8", "int16"}, n \in 1..32, avx \in BOOLEAN :
                  has_simd_data(t, n, avx) => n \in SimdSizes[t]

\* Dot and cross product, quaternions and their rotations obey the laws of
\* the algebra they implement.
AlgebraLaws(a, b, p, q) ==
    /\ dot(cross(a, b), a) = Zero /\ dot(cross(a, b), b) = Zero
    /\ cross(a, b) = VNeg(cross(b, a))
    /\ Add(dot(cross(a, b), cross(a, b)), Mul(dot(a, b), dot(a, b))) = Mul(dot(a, a), dot(b, b))
    /\ dot(perpendicular(a), SubSeq(a, 1, 2)) = Zero
    /\ LET r == q_multiply(p, q)
       IN  /\ imag(r) = VAdd(VAdd(Scaled(imag(q), p[4]), Scaled(imag(p), q[4])), cross(imag(p), imag(q)))
           /\ r[4] = Sub(Mul(p[4], q[4]), dot(imag(p), imag(q)))
           /\ dot(r, r) = Mul(dot(p, p), dot(q, q))
           /\ conjugate(r) = q_multiply(conjugate(q), conjugate(p))
           /\ q_rotate(r, a) = q_rotate(p, q_rotate(q, a))
    /\ q # fill(4, Zero) => q_multiply(q, q_inverse(q)) = Quaternion(One, fill(3, Zero))
    /\ is_unit(q) => dot(q_rotate(q, a), q_rotate(q, b)) = dot(a, b)

\* What an intersection finds is a point of both: of the line ahead of its
\* origin and of the plane, the triangle or the sphere.
HitLaws(ray, a, b, c) ==
    LET tri == triangle(a, b, c)
        n == triangle_normal(tri, FALSE)
        pl == plane(a, n)
        onPlane == line_plane_intersection_param(ray, pl)
        onTriangle == line_triangle_intersection_param(ray, tri)
        Inside(x) == LET side(from, to) == dot(n, cross(VSub(to, from), VSub(x, from)))
                     IN  Le(Zero, side(a, b)) /\ Le(Zero, side(b, c)) /\ Le(Zero, side(c, a))
    IN  n # fill(3, Zero) =>
        /\ triangle_normal(tri, TRUE) = VNeg(n)
        /\ \A x \in ToSet(line_intersection(ray, onPlane)) : dot(VSub(x, a), n) = Zero
        /\ onTriangle # <<>> <=> (onPlane # <<>> /\ Inside(point_at(ray, onPlane[1])))
        /\ onTriangle # <<>> => onTriangle = onPlane

\* The discriminant of the quadratic equation of a line and a sphere.
Reach(ray, sph) ==
    LET oc == VSub(ray.origin, SubSeq(sph, 1, 3))
    IN  Sub(Mul(dot(ray.direction, oc), dot(ray.direction, oc)),
            Mul(dot(ray.direction, ray.direction), Sub(dot(oc, oc), Mul(sph[4], sph[4]))))

HasRoot(x) == \E n \in 0..Abs(x[1]), d \in 0..x[2] : n * n = x[1] /\ d * d = x[2]

\* The points line_sphere_intersection returns lie on the sphere.
PointsOnSphere(ray, sph) ==
    \A p \in UNION {ToSet(x) : x \in ToSet(line_sphere_intersection(ray, sph))} \cup ToSet(nearest_line_sphere_intersection(ray, sph)) :
        LET r == VSub(p, SubSeq(sph, 1, 3)) IN dot(r, r) = Mul(sph[4], sph[4])

\* A line that reaches the sphere: all its points, the nearest of them first.
SphereLaws(ray, sph) ==
    LET ts == line_sphere_intersection_params(ray, sph)
        near == nearest_line_sphere_intersection(ray, sph)
        Far(p) == LET r == VSub(p, ray.origin) IN dot(r, r)
    IN  (Le(Zero, Reach(ray, sph)) /\ HasRoot(Reach(ray, sph)) /\ ~is_zero(ray.direction)) =>
        /\ PointsOnSphere(ray, sph)
        /\ (ts[2] = <<>>) <=> (Reach(ray, sph) = Zero)
        /\ \A x \in ToSet(line_sphere_intersection(ray, sph)) : \A p \in ToSet(x) : Le(Far(near[1]), Far(p))
        /\ \A t \in ToSet(nearest_ray_param(ts[1], ts[2])) : Le(Zero, t)

\* A unit vector that is not level comes back from its spherical coordinates.
SphericalLaw(v) ==
    LET s == to_unit_spherical(v)
    IN  v[2] # Zero => to_cartesian(s[1], s[2]) = v

\* The functions of numbers against their definitions.
NumberLaws(n, k, x, y) ==
    /\ is_positive_power_of_2(n) <=> \E e \in 0..10 : n = 2^e
    /\ (n > 0 /\ k > 0) => LET g == greatest_common_divisor[n, k]
                           IN  {i \in 1..n : n % i = 0 /\ k % i = 0} = {i \in 1..g : g % i = 0}
    /\ (n > 0 /\ k > 0) => binomial(n, k) = binomial(n - 1, k - 1) + binomial(n - 1, k)
    /\ binomial(n, k) = IF k <= n THEN Cardinality({s \in SUBSET (1..n) : Cardinality(s) = k}) ELSE 0
    /\ fibonacci(n + 2) = fibonacci(n) + fibonacci(n + 1)
    /\ Lt(x, y) => \A z \in {x, y, Q(n), Q(-k)} :
          /\ Le(x, clamp(z, x, y)) /\ Le(clamp(z, x, y), y)
          /\ blend(x, y, ramp(z, x, y)) = clamp(z, x, y)
          /\ interpolate_linear(x, y, ramp(z, x, y)) = clamp(z, x, y)
    /\ \A i \in ToSet(ratio(x, y)) : Mul(i, y) = x
    /\ Mul(signum(x), abs(<<x>>)[1]) = x
    /\ minimum(<<x, y, Q(n)>>) \in {x, y, Q(n)} /\ \A z \in {x, y, Q(n)} :
          Le(minimum(<<x, y, Q(n)>>), z) /\ Le(z, maximum(<<x, y, Q(n)>>))

=============================================================================
