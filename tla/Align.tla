------------------------------- MODULE Align --------------------------------
(***************************************************************************)
(* Rotation fitting, src/gen/sinew_align.c, on fixed-point numbers: a      *)
(* double is a whole number of units of 1/Unit, and every product,         *)
(* quotient and square root is rounded to one.  Unit is coarse, so the     *)
(* constants that stand for "next to nothing" in the code are EPS, Tiny    *)
(* and Small here.  The turns of the loops of sinew_align and sinew_ns30   *)
(* and the sweeps of sinew_jacobi9 are steps.                              *)
(*                                                                         *)
(* A 3x3 matrix is a function of rows, m[i][j] for the code's m[3*i + j],  *)
(* with indices from 1.                                                    *)
(***************************************************************************)
EXTENDS Integers, Sequences

CONSTANTS
    Unit,     \* 1.0
    EPS,      \* SINEW_EPS
    Tiny,     \* 1e-9, 1e-12 and 1e-20: no larger than this is zero
    Small,    \* 1e-6, the distance from -1 of a cosine that counts as -1
    Tol,      \* 1e-2 in sinew_valid9
    Turns,    \* 30 turns of sinew_ns30
    Sweeps,   \* 50 sweeps of sinew_jacobi9 at most
    AlignCalls,  \* <<targets, sources>> of the calls of sinew_align
    KabschCalls  \* the matrices sinew_kabsch is called with directly

Ix == 1 .. 3
Vector == [Ix -> Int]
Matrix == [Ix -> Vector]

\* The vectors that sinew_align is called with are in the range of Sqrt below.
Input == {v \in Vector : \A k \in Ix : v[k] =< 37000 /\ v[k] >= -37000}

ASSUME AlignAssumption ==
    /\ Unit \in Nat /\ Unit >= 40
    /\ EPS \in Nat \ {0} /\ Tiny \in Nat
    /\ Small \in Nat \ {0} /\ 5 * Small =< Unit
    /\ Turns \in Nat /\ Sweeps \in Nat
    /\ \A c \in AlignCalls :
         c \in Seq(Input) \X Seq(Input) /\ Len(c[1]) = Len(c[2])
    /\ \A m \in KabschCalls : m \in Matrix

VARIABLES
    call,      \* "align" or "kabsch"
    pairs,     \* the targets and the sources
    h,         \* the covariance
    stage,     \* "call", "ns", "jacobi" or "done"
    turn,      \* of the loop of that stage
    mat, vec,  \* its matrices: r, or a and v
    out        \* out_r

alignVars == <<call, pairs, h, stage, turn, mat, vec, out>>

-----------------------------------------------------------------------------
(* Numbers, vectors and matrices.                                          *)

Rounded(x, d) == (x + d \div 2) \div d
Times(x, y) == Rounded(x * y, Unit)
Over(x, y) == Rounded(x * Unit, y)
Abs(x) == IF x < 0 THEN -x ELSE x
Larger(x, y) == IF x > y THEN x ELSE y

\* The integer part of the square root of n < 2^32, bit by bit.
Bit(n, r, b) == IF (r + b) * (r + b) =< n THEN r + b ELSE r
FourBits(n, r, b) == Bit(n, Bit(n, Bit(n, Bit(n, r, 8 * b), 4 * b), 2 * b), b)

\* sqrt of a number of units squared, in units.
Sqrt(n) == FourBits(n, FourBits(n, FourBits(n, FourBits(n, 0, 4096), 256), 16), 1)

v3_dot(a, b) == Rounded(a[1] * b[1] + a[2] * b[2] + a[3] * b[3], Unit)

v3_cross(a, b) ==
    <<Rounded(a[2] * b[3] - a[3] * b[2], Unit),
      Rounded(a[3] * b[1] - a[1] * b[3], Unit),
      Rounded(a[1] * b[2] - a[2] * b[1], Unit)>>

v3_norm(a) == Sqrt(a[1] * a[1] + a[2] * a[2] + a[3] * a[3])

\* Scaled by s / t: the code divides first, here the product is rounded once.
v3_scale(a, s, t) == <<Rounded(a[1] * s, t), Rounded(a[2] * s, t), Rounded(a[3] * s, t)>>
Scale9(m, s, t) == <<v3_scale(m[1], s, t), v3_scale(m[2], s, t), v3_scale(m[3], s, t)>>

Zero3 == <<0, 0, 0>>
Zero9 == <<Zero3, Zero3, Zero3>>
Identity == [i \in Ix |-> [j \in Ix |-> IF i = j THEN Unit ELSE 0]]
Plus(m, n) == [i \in Ix |-> [j \in Ix |-> m[i][j] + n[i][j]]]
Outer(a, b) == [i \in Ix |-> [j \in Ix |-> Times(a[i], b[j])]]
Column(m, j) == <<m[1][j], m[2][j], m[3][j]>>
Apply(m, x) == <<v3_dot(m[1], x), v3_dot(m[2], x), v3_dot(m[3], x)>>

sinew_det9(m) == v3_dot(m[1], v3_cross(m[2], m[3]))

sinew_transpose9(m) == <<Column(m, 1), Column(m, 2), Column(m, 3)>>

sinew_mul9(a, b) ==
    LET bt == sinew_transpose9(b) IN <<Apply(bt, a[1]), Apply(bt, a[2]), Apply(bt, a[3])>>

\* m^T m, which ns30, valid9 and kabsch each write out.
Gram(m) == sinew_mul9(sinew_transpose9(m), m)

NegateLastColumn(m) == [i \in Ix |-> [m[i] EXCEPT ![3] = -@]]

\* The largest absolute row sum, in ns30 and regularize.
RowSum(m) ==
    LET s(i) == Abs(m[i][1]) + Abs(m[i][2]) + Abs(m[i][3])
    IN  Larger(s(1), Larger(s(2), s(3)))

-----------------------------------------------------------------------------
(* One pair of vectors.                                                    *)

Unitary(a) == v3_scale(a, Unit, Larger(v3_norm(a), EPS))

Clamp(d) == IF d < -Unit THEN -Unit ELSE IF d > Unit THEN Unit ELSE d

\* A half turn about an axis x at right angles to b, for a = -b.
HalfTurn(bu) ==
    LET w  == IF 10 * Abs(bu[1]) > 6 * Unit THEN <<0, Unit, 0>> ELSE <<Unit, 0, 0>>
        x0 == v3_cross(bu, w)
        x  == v3_scale(x0, Unit, v3_norm(x0))
    IN  [i \in Ix |-> [j \in Ix |-> Rounded(2 * x[i] * x[j], Unit) - Identity[i][j]]]

\* Slip: the branch for opposite vectors is left out.
RodriguesNoHalfTurn(a, b) ==
    LET au == Unitary(a) bu == Unitary(b)
        d  == Clamp(v3_dot(au, bu))
        v  == v3_cross(bu, au)
        k  == <<<<0, -v[3], v[2]>>, <<v[3], 0, -v[1]>>, <<-v[2], v[1], 0>>>>
        kk == sinew_mul9(k, k)
        f  == Over(Unit, Larger(1, Unit + d))
    IN  Plus(Identity, Plus(k, Scale9(kk, f, Unit)))

sinew_rodrigues(a, b) ==
    LET au == Unitary(a) bu == Unitary(b)
        d  == Clamp(v3_dot(au, bu))
        v  == v3_cross(bu, au)
        k  == <<<<0, -v[3], v[2]>>, <<v[3], 0, -v[1]>>, <<-v[2], v[1], 0>>>>
        kk == sinew_mul9(k, k)
        f  == Over(Unit, Unit + d)
    IN  IF d < -Unit + Small
        THEN HalfTurn(bu)
        ELSE Plus(Identity, Plus(k, Scale9(kk, f, Unit)))

-----------------------------------------------------------------------------
(* Several pairs: the covariance and its fast orthogonalisation.           *)

\* A vector of the length of a0 at right angles to a0 and a1.
Normal(a0, a1) ==
    LET n == v3_cross(a0, a1) IN v3_scale(n, v3_norm(a0), v3_norm(n) + EPS)


\* The first two pairs, when they span planes, add the planes' normals.
WithNormals(m, a0, a1, b0, b1) ==
    IF v3_norm(v3_cross(a0, a1)) > Tiny /\ v3_norm(v3_cross(b0, b1)) > Tiny
    THEN LET vs == Normal(a0, a1) vd == Normal(b0, b1)
         IN  Plus(m, Outer(vs, vd))
    ELSE m

\* vol is 0 or, on whole matrices of this size, more than 1e-6: rw is 1 or 0.
sinew_regularize(m) ==
    LET scale == Larger(RowSum(m), EPS)
        add   == IF sinew_det9(m) = 0 THEN Rounded(scale, 20) ELSE 0
    IN  [i \in Ix |-> [m[i] EXCEPT ![i] = @ + add]]

\* Slip: the largest entry of the first column instead of the largest row sum.
ScaledByEntry(m) ==
    LET s == Larger(Abs(m[1][1]), Larger(Abs(m[2][1]), Abs(m[3][1])))
    IN  Scale9(m, Unit, s + EPS)

\* sinew_ns30 before its loop, and one turn of it.
Scaled(m) == Scale9(m, Unit, RowSum(m) + EPS)

NewtonSchulz(m) ==
    LET rtr  == Gram(m)
        term == [i \in Ix |-> [j \in Ix |-> 3 * Identity[i][j] - rtr[i][j]]]
        rn   == sinew_mul9(m, term)
    IN  Scale9(rn, 1, 2)

sinew_valid9(m) ==
    LET d == sinew_det9(m) g == Gram(m)
    IN  /\ d > 0 /\ Abs(d - Unit) =< Tol
        /\ \A i, j \in Ix : Abs(g[i][j] - Identity[i][j]) =< Tol

-----------------------------------------------------------------------------
(* The fallback: Kabsch with a Jacobi eigendecomposition.                  *)

\* <<cos phi, sin phi>> for phi = atan2(2 apq, aqq - app) / 2.
HalfAngle(y, x) ==
    LET len == Sqrt(x * x + y * y)
        big == Sqrt(Unit * Over(len + Abs(x), 2 * len))   \* the larger of |cos|, |sin|
        sml == Rounded(Over(Abs(y), len) * Unit, 2 * big)
        sgn == IF y < 0 THEN -1 ELSE 1
    IN  IF x >= 0 THEN <<big, sgn * sml>> ELSE <<sml, sgn * big>>

\* Columns p and q of m turned.
Turned(m, p, q, cs) ==
    LET c == cs[1] s == cs[2]
        row(x) == [x EXCEPT ![p] = Rounded(c * x[p] - s * x[q], Unit),
                            ![q] = Rounded(s * x[p] + c * x[q], Unit)]
    IN  <<row(m[1]), row(m[2]), row(m[3])>>

\* One rotation of sinew_jacobi9, of columns, rows and eigenvectors.
Rotate(av, p, q) ==
    LET a   == av[1]
        apq == a[p][q]
        cs  == HalfAngle(2 * apq, a[q][q] - a[p][p])
        ac  == Turned(a, p, q, cs)
    IN  IF Abs(apq) =< Tiny THEN av
        ELSE <<sinew_transpose9(Turned(sinew_transpose9(ac), p, q, cs)),
               Turned(av[2], p, q, cs)>>

Diagonal(a) == Abs(a[1][2]) + Abs(a[1][3]) + Abs(a[2][3]) =< Tiny


\* The three compare-and-swaps that sort the eigenvalues, the largest first.
SwapIf(o, w, a, b) ==
    IF w[o[b]] > w[o[a]] THEN [o EXCEPT ![a] = o[b], ![b] = o[a]] ELSE o
Order(w) == SwapIf(SwapIf(SwapIf(<<1, 2, 3>>, w, 1, 2), w, 1, 3), w, 2, 3)

\* A left singular vector without a singular value is the cross product of the
\* other two, in the order of the columns.
FillColumn(u, sig, c) ==
    IF sig[c] > Tiny THEN u
    ELSE [u EXCEPT ![c] = v3_cross(u[(c % 3) + 1], u[((c + 1) % 3) + 1])]

\* sinew_kabsch after sinew_jacobi9 has left eigenvalues in a and vectors in vc.
KabschFrom(m, a, vc) ==
    LET w   == <<a[1][1], a[2][2], a[3][3]>>
        ord == Order(w)
        sg(c)  == Sqrt(Larger(w[ord[c]], 0) * Unit)
        sig == <<sg(1), sg(2), sg(3)>>
        vcol(c) == Column(vc, ord[c])
        ucol(c) == IF sig[c] > Tiny
                   THEN LET x == Apply(m, vcol(c))
                        IN  <<Over(x[1], sig[c]), Over(x[2], sig[c]), Over(x[3], sig[c])>>
                   ELSE Zero3
        u0  == <<ucol(1), ucol(2), ucol(3)>>
        ut  == FillColumn(FillColumn(FillColumn(u0, sig, 1), sig, 2), sig, 3)
        u   == sinew_transpose9(ut)
        vt  == <<vcol(1), vcol(2), vcol(3)>>
        ud  == IF sinew_det9(sinew_mul9(u, vt)) < 0 THEN NegateLastColumn(u) ELSE u
    IN  sinew_mul9(ud, vt)

-----------------------------------------------------------------------------
(* The calls.                                                              *)

AlignInit ==
    /\ \/ call = "align" /\ pairs \in AlignCalls /\ h = Zero9
       \/ call = "kabsch" /\ pairs = <<<<>>, <<>>>> /\ h \in KabschCalls
    /\ stage = "call" /\ turn = 0
    /\ mat = Identity /\ vec = Identity /\ out = Identity

\* One turn of the loop that sums the outer products of the pairs.
sinew_align ==
    /\ stage = "call" /\ call = "align" /\ turn < Len(pairs[2])
    /\ turn' = turn + 1
    /\ LET a == pairs[1][turn'] b == pairs[2][turn']
       IN  h' = Plus(h, Outer(a, b))
    /\ UNCHANGED <<call, pairs, stage, mat, vec, out>>

\* The vector k of a list, or zero when there is none.
Nth(l, k) == IF k =< Len(l) THEN l[k] ELSE Zero3

Return(m) == stage' = "done" /\ out' = m /\ UNCHANGED <<turn, mat, vec>>

\* sinew_finish_align up to the loop of sinew_ns30.
sinew_finish_align ==
    /\ stage = "call" /\ call = "align" /\ turn = Len(pairs[2])
    /\ LET a0 == Nth(pairs[1], 1) a1 == Nth(pairs[1], 2)
           b0 == Nth(pairs[2], 1) b1 == Nth(pairs[2], 2)
       IN  \/ /\ Len(pairs[2]) = 1
              /\ Return(sinew_rodrigues(a0, b0))
              /\ UNCHANGED h
           \/ /\ Len(pairs[2]) # 1
              /\ h' = sinew_regularize(WithNormals(h, a0, a1, b0, b1))
              /\ stage' = "ns" /\ turn' = 0
              /\ mat' = Scaled(h')
              /\ UNCHANGED <<vec, out>>
    /\ UNCHANGED <<call, pairs>>

\* sinew_kabsch up to the loop of sinew_jacobi9.
StartKabsch ==
    /\ stage' = "jacobi" /\ turn' = 0
    /\ mat' = Gram(h) /\ vec' = Identity
    /\ UNCHANGED out

sinew_kabsch == stage = "call" /\ call = "kabsch" /\ StartKabsch /\ UNCHANGED <<call, pairs, h>>

\* Turn by turn; then a reflection becomes a rotation, and if the result is not
\* valid the fallback takes over.
sinew_ns30 ==
    /\ stage = "ns"
    /\ \/ /\ turn < Turns
          /\ turn' = turn + 1 /\ mat' = NewtonSchulz(mat)
          /\ UNCHANGED <<stage, vec, out>>
       \/ /\ turn = Turns
          /\ LET m == IF sinew_det9(mat) < 0 THEN NegateLastColumn(mat) ELSE mat
             IN  IF sinew_valid9(m) THEN Return(m) ELSE StartKabsch
    /\ UNCHANGED <<call, pairs, h>>

\* Sweep by sweep until the matrix is diagonal.
sinew_jacobi9 ==
    /\ stage = "jacobi"
    /\ IF turn < Sweeps /\ ~ Diagonal(mat)
       THEN LET av == Rotate(Rotate(Rotate(<<mat, vec>>, 1, 2), 1, 3), 2, 3)
            IN  turn' = turn + 1 /\ mat' = av[1] /\ vec' = av[2] /\ UNCHANGED <<stage, out>>
       ELSE Return(KabschFrom(h, mat, vec))
    /\ UNCHANGED <<call, pairs, h>>

AlignNext == sinew_align \/ sinew_finish_align \/ sinew_kabsch \/ sinew_ns30 \/ sinew_jacobi9

AlignSpec == AlignInit /\ [][AlignNext]_alignVars

-----------------------------------------------------------------------------
(* Properties.                                                             *)

Done(c) == stage = "done" /\ call = c

\* x and y agree to a fiftieth.
Near(x, y) == \A k \in 1 .. 3 : 50 * Abs(x[k] - y[k]) =< Unit

\* out takes every source to its target.
Recovers == \A k \in 1 .. Len(pairs[2]) : Near(Apply(out, pairs[2][k]), pairs[1][k])

\* One pair, turned into each other by some rotation: sinew_rodrigues returns a
\* rotation, and one that takes the source to the target, opposite, equal and
\* zero vectors included, although its formula divides by 1 + cos.
RodriguesRotates ==
    Done("align") /\ Len(pairs[2]) = 1 => sinew_valid9(out) /\ Recovers


\* The loop of sinew_ns30 cannot run away: from its scaling on, the sum of the
\* squares of the entries is at most 3, for singular and reflecting matrices too,
\* but for the rounding of one turn.
NsBounded ==
    stage = "ns" => LET g == Gram(mat) IN g[1][1] + g[2][2] + g[3][3] =< 3 * Unit + 14

Trace(m, n) == LET p == sinew_mul9(sinew_transpose9(m), n) IN p[1][1] + p[2][2] + p[3][3]

\* The rotations that take axes to axes.
AxisRotations ==
    {m \in {[i \in Ix |-> [j \in Ix |-> IF p[i] = j THEN s[i] * Unit ELSE 0]] :
               p \in {q \in [Ix -> Ix] : q[1] # q[2] /\ q[1] # q[3] /\ q[2] # q[3]},
               s \in [Ix -> {-1, 1}]} : sinew_det9(m) > 0}


=============================================================================
