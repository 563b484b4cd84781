------------------------------ MODULE Matrices ------------------------------
(***************************************************************************)
(* Matrices in both major orders, their constructors, the elimination that *)
(* inverts them, and Bezier curves.  A matrix is its major order and its   *)
(* major vectors: rows when rm, columns otherwise.  Rows and columns are   *)
(* counted from 0.  An angle is its <<cosine, sine>>.                      *)
(***************************************************************************)
EXTENDS Vectors

Matrix(rm, v) == [rm |-> rm, v |-> v]

rows(m) == IF m.rm THEN Len(m.v) ELSE Len(m.v[1])

columns(m) == IF m.rm THEN Len(m.v[1]) ELSE Len(m.v)

get_rm(m, ri, ci) == IF m.rm THEN m.v[ri + 1][ci + 1] ELSE m.v[ci + 1][ri + 1]

get_cm(m, ci, ri) == IF m.rm THEN m.v[ri + 1][ci + 1] ELSE m.v[ci + 1][ri + 1]

set_rm(m, ri, ci, x) == IF m.rm THEN [m EXCEPT !.v[ri + 1][ci + 1] = x] ELSE [m EXCEPT !.v[ci + 1][ri + 1] = x]

set_cm(m, ci, ri, x) == IF m.rm THEN [m EXCEPT !.v[ri + 1][ci + 1] = x] ELSE [m EXCEPT !.v[ci + 1][ri + 1] = x]

\* The default constructor.
unit(c, r, rm) ==
    Matrix(rm, IF rm THEN [i \in 1..r |-> [j \in 1..c |-> IF i = j THEN One ELSE Zero]]
                     ELSE [j \in 1..c |-> [i \in 1..r |-> IF i = j THEN One ELSE Zero]])

from_data(c, r, rm, d) ==
    LET n == IF rm THEN c ELSE r
    IN  Matrix(rm, [i \in 1..(IF rm THEN r ELSE c) |-> from_array(n, SubSeq(d, (i - 1) * n + 1, Len(d)))])

\* The upper left part of a larger matrix.
from_matrix(c, r, m) ==
    Matrix(m.rm, [i \in 1..(IF m.rm THEN r ELSE c) |-> cast(m.v[i], <<>>, IF m.rm THEN c ELSE r)])

\* 4 x 4: two rounds of shuffles of pairs of vectors.
transpose_4x4(m, dst) ==
    LET S(a, b, mask) == shuffle2(a, b, mask, 4, TRUE)
        q0 == S(m.v[1], m.v[2], <<0, 1, 4, 5>>)
        q1 == S(m.v[1], m.v[2], <<2, 3, 6, 7>>)
        q2 == S(m.v[3], m.v[4], <<0, 1, 4, 5>>)
        q3 == S(m.v[3], m.v[4], <<2, 3, 6, 7>>)
    IN  Matrix(dst, <<S(q0, q2, <<0, 2, 4, 6>>), S(q0, q2, <<1, 3, 5, 7>>),
                      S(q1, q3, <<0, 2, 4, 6>>), S(q1, q3, <<1, 3, 5, 7>>)>>)

Cells(m) == [k \in 1..(rows(m) * columns(m)) |-> <<(k - 1) \div columns(m), (k - 1) % columns(m)>>]

transpose_any(m, dst) ==
    LET swap == dst # m.rm
        r == unit(IF swap THEN columns(m) ELSE rows(m), IF swap THEN rows(m) ELSE columns(m), dst)
    IN  FoldLeft(LAMBDA t, ij : IF swap THEN set_rm(t, ij[1], ij[2], get_rm(m, ij[1], ij[2]))
                                        ELSE set_rm(t, ij[2], ij[1], get_rm(m, ij[1], ij[2])), r, Cells(m))

transpose_tpl(m, dst) == IF rows(m) = 4 /\ columns(m) = 4 THEN transpose_4x4(m, dst) ELSE transpose_any(m, dst)

transposed(m) == transpose_tpl(m, m.rm)

reordered(m) == transpose_tpl(m, ~m.rm)

as_row_major(m) == IF m.rm THEN m ELSE reordered(m)

as_column_major(m) == IF m.rm THEN reordered(m) ELSE m

major_vector(m, i) == m.v[i + 1]

minor_vector(m, i) == major_vector(reordered(m), i)

row(m, i) == IF m.rm THEN major_vector(m, i) ELSE minor_vector(m, i)

column(m, i) == IF m.rm THEN minor_vector(m, i) ELSE major_vector(m, i)

\* Of a square matrix of 3 or 4.
translation_of(m) ==
    LET n == rows(m) - 1
    IN  IF m.rm THEN [i \in 1..n |-> m.v[i][n + 1]] ELSE cast(major_vector(m, n), <<>>, n)

\* Always a row major product of a row major and a column major matrix.
multiply(a, b) ==
    LET l == as_row_major(a)
        r == as_column_major(b)
    IN  Matrix(TRUE, [i \in 1..rows(l) |-> [j \in 1..columns(r) |-> dot(row(l, i - 1), column(r, j - 1))]])

multiply_vector(m, v) == [i \in 1..rows(m) |-> dot(row(as_row_major(m), i - 1), v)]

----------------------------------------------------------------------------
(* Elimination: [a, b: row major, ok] *)

Rows(n) == [i \in 1..n |-> i]

Swapped(v, i, k) == [v EXCEPT ![i] = v[k], ![k] = v[i]]

\* Row i becomes the pivot row, or is swapped with the first one below it
\* that can be; the rows below lose their element of that column.
EliminateBelow(s, i) ==
    LET n == Len(s.a)
        below == {k \in (i + 1)..n : s.a[k][i] # Zero}
        k0 == CHOOSE k \in below : \A j \in below : k <= j
        p == IF s.a[i][i] = Zero /\ below # {} THEN [s EXCEPT !.a = Swapped(@, i, k0), !.b = Swapped(@, i, k0)] ELSE s
        inv == Div(One, p.a[i][i])
        ai == Scaled(p.a[i], inv)
        bi == Scaled(p.b[i], inv)
        Less(v, vi, d) == IF d = Zero THEN v ELSE VSub(v, Scaled(vi, d))
    IN  IF ~s.ok THEN s
        ELSE IF p.a[i][i] = Zero THEN [p EXCEPT !.ok = FALSE]
        ELSE [a |-> [k \in 1..n |-> IF k = i THEN ai ELSE IF k > i THEN Less(p.a[k], ai, p.a[k][i]) ELSE p.a[k]],
              b |-> [k \in 1..n |-> IF k = i THEN bi ELSE IF k > i THEN Less(p.b[k], bi, p.a[k][i]) ELSE p.b[k]],
              ok |-> TRUE]

gauss_rows(a, b) == FoldLeft(EliminateBelow, [a |-> a, b |-> b, ok |-> TRUE], Rows(Len(a)))

EliminateAbove(s, i) ==
    LET Less(v, vi, d) == IF d = Zero THEN v ELSE VSub(v, Scaled(vi, d))
    IN  [s EXCEPT !.a = [k \in DOMAIN s.a |-> IF k < i THEN Less(s.a[k], s.a[i], s.a[k][i]) ELSE s.a[k]],
                  !.b = [k \in DOMAIN s.b |-> IF k < i THEN Less(s.b[k], s.b[i], s.a[k][i]) ELSE s.b[k]]]

gauss_jordan_rows(a, b) ==
    LET s == gauss_rows(a, b)
    IN  IF s.ok THEN FoldLeft(EliminateAbove, s, Reverse(Rows(Len(a)))) ELSE s

\* Row major arguments are changed in place, column major ones only by success.
InOrders(a, b, s) ==
    LET Back(m, v) == IF m.rm THEN Matrix(TRUE, v) ELSE IF s.ok THEN reordered(Matrix(TRUE, v)) ELSE m
    IN  [a |-> Back(a, s.a), b |-> Back(b, s.b), ok |-> s.ok]

gauss_elimination(a, b) == InOrders(a, b, gauss_rows(as_row_major(a).v, as_row_major(b).v))

gauss_jordan_elimination(a, b) == InOrders(a, b, gauss_jordan_rows(as_row_major(a).v, as_row_major(b).v))

identity(n, rm) == Matrix(rm, [i \in 1..n |-> axis(n, i - 1, One)])

\* A sequence of at most one matrix.
inverse_matrix(m) ==
    LET s == gauss_jordan_elimination(m, identity(rows(m), m.rm)) IN IF s.ok THEN <<s.b>> ELSE <<>>

----------------------------------------------------------------------------
(* Constructors of 4 x 4 matrices: [kind, v, i], where i is an axis *)

Mat4(rm, r0, r1, r2, r3) == Matrix(rm, <<r0, r1, r2, r3>>)

Diagonal(rm, v) == Mat4(rm, <<v[1], Zero, Zero, Zero>>, <<Zero, v[2], Zero, Zero>>, <<Zero, Zero, v[3], Zero>>, <<Zero, Zero, Zero, One>>)

translation(v, rm) ==
    IF rm THEN Mat4(TRUE, <<One, Zero, Zero, v[1]>>, <<Zero, One, Zero, v[2]>>, <<Zero, Zero, One, v[3]>>, <<Zero, Zero, Zero, One>>)
    ELSE Mat4(FALSE, <<One, Zero, Zero, Zero>>, <<Zero, One, Zero, Zero>>, <<Zero, Zero, One, Zero>>, Append(v, One))

translation_multiply(a, b) == VAdd(a, b)

scale(v, rm) == Diagonal(rm, v)

scale_multiply(a, b) == VMul(a, b)

uniform_scale(x, rm) == Diagonal(rm, <<x, x, x>>)

uniform_scale_multiply(a, b) == Mul(a, b)

\* reflect says whether axis i is reflected.
reflection(i, reflect, rm) == Diagonal(rm, [k \in 1..3 |-> IF k = i + 1 /\ reflect THEN Q(-1) ELSE One])

reflection_multiply(a, b) == a # b

rotation(i, angle, rm) ==
    LET c == angle[1]
        s == IF rm THEN angle[2] ELSE Neg(angle[2])
    IN  CASE i = 0 -> Mat4(rm, <<One, Zero, Zero, Zero>>, <<Zero, c, Neg(s), Zero>>, <<Zero, s, c, Zero>>, <<Zero, Zero, Zero, One>>)
          [] i = 1 -> Mat4(rm, <<c, Zero, s, Zero>>, <<Zero, One, Zero, Zero>>, <<Neg(s), Zero, c, Zero>>, <<Zero, Zero, Zero, One>>)
          [] i = 2 -> Mat4(rm, <<c, Neg(s), Zero, Zero>>, <<s, c, Zero, Zero>>, <<Zero, Zero, One, Zero>>, <<Zero, Zero, Zero, One>>)

\* The sum of the angles.
rotation_multiply(a, b) == <<Sub(Mul(a[1], b[1]), Mul(a[2], b[2])), Add(Mul(a[1], b[2]), Mul(a[2], b[1]))>>

\* A box: left, right, bottom, top, near, far.
ortho(v, rm) ==
    LET d(k) == Sub(v[k + 1], v[k])
        s(k) == Add(v[k + 1], v[k])
        m00 == Div(Q(2), d(1))
        m11 == Div(Q(2), d(3))
        m22 == Neg(Div(Q(2), d(5)))
        m3(k) == Neg(Div(s(k), d(k)))
    IN  IF rm THEN Mat4(TRUE, <<m00, Zero, Zero, m3(1)>>, <<Zero, m11, Zero, m3(3)>>, <<Zero, Zero, m22, m3(5)>>, <<Zero, Zero, Zero, One>>)
        ELSE Mat4(FALSE, <<m00, Zero, Zero, Zero>>, <<Zero, m11, Zero, Zero>>, <<Zero, Zero, m22, Zero>>, <<m3(1), m3(3), m3(5), One>>)

perspective(v, rm) ==
    LET d(k) == Sub(v[k + 1], v[k])
        s(k) == Add(v[k + 1], v[k])
        m00 == Div(Mul(Q(2), v[5]), d(1))
        m11 == Div(Mul(Q(2), v[5]), d(3))
        m22 == Neg(Div(s(5), d(5)))
        m20 == Div(s(1), d(1))
        m21 == Div(s(3), d(3))
        m23 == Q(-1)
        m32 == Neg(Div(Mul(Mul(Q(2), v[6]), v[5]), d(5)))
    IN  IF rm THEN Mat4(TRUE, <<m00, Zero, m20, Zero>>, <<Zero, m11, m21, Zero>>, <<Zero, Zero, m22, m32>>, <<Zero, Zero, m23, Zero>>)
        ELSE Mat4(FALSE, <<m00, Zero, Zero, Zero>>, <<Zero, m11, Zero, Zero>>, <<m20, m21, m22, m23>>, <<Zero, Zero, m32, Zero>>)

\* tan is the tangent of half of the field of view.
perspective_x(tan, aspect, near, far) ==
    LET r == Mul(near, tan) IN <<Neg(r), r, Div(Neg(r), aspect), Div(r, aspect), near, far>>

perspective_y(tan, aspect, near, far) ==
    LET t == Mul(near, tan) IN <<Mul(Neg(t), aspect), Mul(t, aspect), Neg(t), t, near, far>>

perspective_square(tan, near, far) ==
    LET r == Mul(near, tan) IN <<Neg(r), r, Neg(r), r, near, far>>

\* t is the level vector that the up vector is made from.
looking_at_y_up(eye, target, rm) ==
    LET z == normalized(VSub(eye, target))
        t == <<z[3], Zero, Neg(z[1])>>
        y == normalized(cross(z, t))
        x == cross(y, z)
        Row(a) == Append(a, Neg(dot(a, t)))
        m == Mat4(TRUE, Row(x), Row(y), Row(z), <<Zero, Zero, Zero, One>>)
    IN  IF rm THEN m ELSE reordered(m)

orbit_axes(azimuth, elevation) ==
    LET x == <<Neg(azimuth[2]), Zero, Neg(azimuth[1])>>
        z == <<Mul(elevation[1], azimuth[1]), elevation[2], Mul(elevation[1], Neg(azimuth[2]))>>
    IN  [x |-> x, z |-> z, y |-> cross(z, x)]

orbiting_y_up(target, radius, azimuth, elevation, rm) ==
    LET o == orbit_axes(azimuth, elevation)
        Row(a) == Append(a, Sub(Mul(Neg(radius), dot(a, o.z)), dot(a, target)))
        m == Mat4(TRUE, Row(o.x), Row(o.y), Row(o.z), <<Zero, Zero, Zero, One>>)
    IN  IF rm THEN m ELSE reordered(m)

\* What a constructor makes, and the constructor in the other major order.
constructed(c, rm) ==
    CASE c.kind = "translation" -> translation(c.v, rm)
      [] c.kind = "scale" -> scale(c.v, rm)
      [] c.kind = "uniform_scale" -> uniform_scale(c.v, rm)
      [] c.kind = "reflection" -> reflection(c.i, c.v, rm)
      [] c.kind = "rotation" -> rotation(c.i, c.v, rm)
      [] c.kind = "ortho" -> ortho(c.v, rm)
      [] c.kind = "perspective" -> perspective(c.v, rm)
      [] c.kind = "looking_at" -> looking_at_y_up(c.v, c.i, rm)
      [] c.kind = "orbiting" -> orbiting_y_up(c.i, Q(2), c.v[1], c.v[2], rm)

\* A product of two constructors of a kind is one again where the kind has it.
HasProduct(c, d) ==
    \/ c.kind = d.kind /\ c.kind \in {"translation", "scale", "uniform_scale"}
    \/ c.kind = d.kind /\ c.kind \in {"reflection", "rotation"} /\ c.i = d.i

constructor_product(c, d) ==
    [c EXCEPT !.v = CASE c.kind = "translation" -> translation_multiply(c.v, d.v)
                      [] c.kind = "scale" -> scale_multiply(c.v, d.v)
                      [] c.kind = "uniform_scale" -> uniform_scale_multiply(c.v, d.v)
                      [] c.kind = "reflection" -> reflection_multiply(c.v, d.v)
                      [] c.kind = "rotation" -> rotation_multiply(c.v, d.v)]

multiply_constructors(c, d) ==
    IF HasProduct(c, d) THEN constructed(constructor_product(c, d), TRUE)
    ELSE multiply(constructed(c, TRUE), constructed(d, FALSE))

----------------------------------------------------------------------------
(* Bezier curves of an order, on points of one dimension *)

are_connected(n, order) == n - 1 # order /\ (n - 1) % order = 0

are_separated(n, order) == n % (order + 1) = 0

points_are_ok(n, order) == n > 0 /\ (are_connected(n, order) \/ are_separated(n, order))

bezier(ps, t) ==
    LET m == Len(ps) - 1
        pow(b, e) == FoldLeft(Mul, One, [k \in 1..e |-> b])
        coef(i) == Mul(Mul(pow(t, i), pow(Sub(One, t), m - i)), Q(binomial(m, i)))
    IN  FoldLeft(Add, Zero, [k \in 1..(m + 1) |-> Mul(ps[k], coef(k - 1))])

Curves(ps, order) == [ps |-> ps, order |-> order, connected |-> are_connected(Len(ps), order)]

segment_step(c) == IF c.connected THEN c.order ELSE c.order + 1

segment_count(c) == IF c.connected THEN (Len(c.ps) - 1) \div c.order ELSE Len(c.ps) \div (c.order + 1)

segment(c, at) == SubSeq(c.ps, at + 1, at + c.order + 1)

Floor(a) == a[1] \div a[2]

wrap(t) ==
    IF Lt(t, Zero) THEN Add(t, Q(Floor(Neg(t)) + 1)) ELSE IF Lt(One, t) THEN Sub(t, Q(Floor(t))) ELSE t

position01(c, t) ==
    LET at == IF Le(One, t) THEN Zero ELSE t
        toffs == Mul(at, Q(segment_count(c)))
    IN  bezier(segment(c, Floor(toffs) * segment_step(c)), Sub(toffs, Q(Floor(toffs))))

position(c, t) == position01(c, wrap(t))

approximate(c, n) ==
    [k \in 1..(segment_count(c) * n + 1) |->
        IF k > segment_count(c) * n THEN Last(c.ps)
        ELSE bezier(segment(c, ((k - 1) \div n) * segment_step(c)), Frac((k - 1) % n, n))]

derivative(c) ==
    [ps |-> [k \in 1..(segment_count(c) * c.order) |->
               LET at == ((k - 1) \div c.order) * segment_step(c) + ((k - 1) % c.order) + 1
               IN  Mul(Sub(c.ps[at + 1], c.ps[at]), Q(c.order))],
     order |-> c.order - 1, connected |-> FALSE]

cubic_bezier_loop(ps, r) ==
    LET n == Len(ps)
        p(i) == ps[(i % n) + 1]
    IN  Append(FlattenSeq([k \in 1..n |->
                  LET i == k - 1
                  IN  <<p(i), Add(p(i), Mul(Sub(p(i + 1), p(n + i - 1)), r)), Add(p(i + 1), Mul(Sub(p(i), p(i + 2)), r))>>]),
               ps[1])

----------------------------------------------------------------------------

SameMatrix(m, n) ==
    /\ rows(m) = rows(n) /\ columns(m) = columns(n)
    /\ \A i \in 0..(rows(m) - 1), j \in 0..(columns(m) - 1) : get_rm(m, i, j) = get_rm(n, i, j)

\* The elements of a matrix do not depend on its major order: not when it is
\* reordered, transposed, cut or multiplied, by shuffles or one by one.
MatrixLaws(a, b) ==
    LET Of(m, i, j) == get_cm(m, j, i)
        Orders(m) == {as_row_major(m), as_column_major(m)}
    IN  /\ \A m \in Orders(a) : SameMatrix(m, a) /\ reordered(reordered(m)) = m
        /\ SameMatrix(transpose_any(a, a.rm), transposed(a)) /\ SameMatrix(transpose_any(a, ~a.rm), reordered(a))
        /\ \A i \in 0..(rows(a) - 1), j \in 0..(columns(a) - 1) :
              /\ row(a, i)[j + 1] = Of(a, i, j) /\ column(a, j)[i + 1] = Of(a, i, j)
              /\ get_rm(transposed(a), j, i) = Of(a, i, j)
              /\ set_rm(a, i, j, NaN) = set_cm(a, j, i, NaN)
              /\ Of(from_matrix(j + 1, i + 1, a), i, j) = Of(a, i, j)
        /\ from_data(columns(a), rows(a), a.rm, view(a.v)) = a
        /\ columns(a) = rows(b) =>
              \A m \in Orders(a), n \in Orders(b) :
                 LET p == multiply(m, n)
                 IN  /\ rows(p) = rows(a) /\ columns(p) = columns(b)
                     /\ \A i \in 0..(rows(p) - 1), j \in 0..(columns(p) - 1) :
                          Of(p, i, j) = FoldLeft(Add, Zero, [k \in 1..columns(a) |-> Mul(Of(a, i, k - 1), Of(b, k - 1, j))])
                     /\ \A j \in 0..(columns(b) - 1) : multiply_vector(m, column(n, j)) = column(p, j)

\* Gauss-Jordan elimination inverts a matrix exactly when it can be inverted,
\* and solves for the other one; a column major matrix is left alone otherwise.
InverseLaws(a, b, det) ==
    LET n == rows(a)
        s == gauss_jordan_elimination(a, b)
        i == inverse_matrix(a)
    IN  /\ s.ok <=> det # 0
        /\ i # <<>> <=> s.ok
        /\ s.ok => /\ SameMatrix(s.a, identity(n, TRUE))
                   /\ SameMatrix(multiply(a, s.b), b)
                   /\ SameMatrix(multiply(a, i[1]), identity(n, TRUE))
                   /\ SameMatrix(multiply(i[1], a), identity(n, TRUE))
                   /\ LET g == gauss_elimination(a, b)
                      IN  g.ok /\ \A r \in 0..(n - 1) : get_rm(g.a, r, r) = One /\ \A c \in 0..(r - 1) : get_rm(g.a, r, c) = Zero
        /\ ~s.ok => (a.rm \/ s.a = a) /\ (b.rm \/ s.b = b)

\* A constructor describes the same matrix in both major orders, and a product
\* of constructors is the product of their matrices.
ConstructorLaws(c, d) ==
    /\ SameMatrix(constructed(c, TRUE), constructed(c, FALSE))
    /\ SameMatrix(multiply_constructors(c, d), multiply(constructed(c, TRUE), constructed(d, TRUE)))
    /\ c.kind \in {"rotation", "reflection"} =>
          SameMatrix(multiply(constructed(c, TRUE), transposed(constructed(c, TRUE))), identity(4, TRUE))
    /\ c.kind = "translation" => \A rm \in BOOLEAN : translation_of(constructed(c, rm)) = c.v

\* Projections map the corners of their volume to the corners of the cube.
ProjectionLaws(v) ==
    LET O(x, y, z) == multiply_vector(ortho(v, FALSE), <<x, y, z, One>>)
        P(x, y, z) == LET p == multiply_vector(perspective(v, TRUE), <<x, y, z, One>>) IN Shrunk(p, p[4])
        Far(k) == Div(Mul(v[k], v[6]), v[5])
        C(a, b, c) == <<Q(a), Q(b), Q(c), One>>
    IN  /\ O(v[1], v[3], Neg(v[5])) = C(-1, -1, -1) /\ O(v[2], v[4], Neg(v[6])) = C(1, 1, 1)
        /\ P(v[1], v[3], Neg(v[5])) = C(-1, -1, -1) /\ P(v[2], v[4], Neg(v[5])) = C(1, 1, -1)
        /\ P(Far(1), Far(4), Neg(v[6])) = C(-1, 1, 1)

\* The camera that orbits a target sees its own position as the origin and the
\* target straight ahead, at the radius.
OrbitLaws(target, radius, azimuth, elevation) ==
    LET m == orbiting_y_up(target, radius, azimuth, elevation, FALSE)
        o == orbit_axes(azimuth, elevation)
        See(p) == SubSeq(multiply_vector(m, Append(p, One)), 1, 3)
    IN  /\ \A a \in {o.x, o.y, o.z} : is_unit(a)
        /\ dot(o.x, o.y) = Zero /\ dot(o.y, o.z) = Zero /\ dot(o.z, o.x) = Zero
        /\ See(VAdd(target, Scaled(o.z, radius))) = fill(3, Zero)
        /\ See(target) = <<Zero, Zero, Neg(radius)>>

\* The camera of looking_at_y_up is turned the right way: the target is straight
\* ahead of the eye and up is up.  That it sees the eye as the origin does not
\* hold: the code moves by the axis t where it means the eye.
LookLaws(eye, target) ==
    LET m == looking_at_y_up(eye, target, TRUE)
        Turn(p) == SubSeq(multiply_vector(m, Append(p, Zero)), 1, 3)
        ahead == Turn(VSub(target, eye))
    IN  ahead[1] = Zero /\ ahead[2] = Zero /\ Lt(ahead[3], Zero) /\ Le(Zero, Turn(<<Zero, One, Zero>>)[2])

\* de Casteljau's construction of a point of a curve.
Casteljau[ps \in Seq(Seq(Int)), t \in Seq(Int)] ==
    IF Len(ps) = 1 THEN ps[1] ELSE Casteljau[[k \in 1..(Len(ps) - 1) |-> blend(ps[k], ps[k + 1], t)], t]

\* Curves: the points of an approximation are points of the curve, in order,
\* from its first to its last point; a loop closes and goes through its points.
\* A single point passes for a connected curve without a segment.
CurveLaws(ps, order, n, t) ==
    LET c == Curves(ps, order)
        s == segment_count(c)
        a == approximate(c, n)
        loop == Curves(cubic_bezier_loop(ps, Frac(1, 3)), 3)
        d == derivative(c)
    IN  (points_are_ok(Len(ps), order) /\ s > 0) =>
        /\ Casteljau[segment(c, 0), t] = bezier(segment(c, 0), t)
        /\ Le(Zero, wrap(t)) /\ Le(wrap(t), One) /\ Sub(wrap(t), t)[2] = 1
        /\ a[1] = ps[1] /\ Last(a) = Last(ps) /\ \A k \in 1..(s * n) : a[k] = position01(c, Frac(k - 1, s * n))
        /\ position(c, Zero) = ps[1]
        /\ loop.ps[1] = Last(loop.ps) /\ segment_count(loop) = Len(ps)
        /\ \A k \in 1..Len(ps) : position01(loop, Frac(k - 1, Len(ps))) = ps[k]
        /\ (order > 1 /\ ~are_connected(Len(d.ps), order - 1)) =>
              /\ points_are_ok(Len(d.ps), order - 1) /\ segment_count(d) = s
              /\ \A i \in 0..(s - 1) : Last(segment(c, i * segment_step(c))) =
                   Add(segment(c, i * segment_step(c))[1], Div(FoldLeft(Add, Zero, segment(d, i * order)), Q(order)))

=============================================================================
