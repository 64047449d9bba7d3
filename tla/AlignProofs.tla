---------------------------- MODULE AlignProofs -----------------------------
(***************************************************************************)
(* What Align guarantees at any precision, for every list of pairs in range*)
(* and every matrix: the loop of sinew_ns30 cannot run away, nothing       *)
(* divides by zero, and sinew_kabsch sorts its eigenvalues.                *)
(***************************************************************************)
EXTENDS Align, TLAPS

-----------------------------------------------------------------------------
(* Numbers.                                                                *)

\* A rounded quotient is within half of the divisor of the exact one.
LEMMA RoundedIs ==
    ASSUME NEW x \in Int, NEW d \in Nat \ {0}
    PROVE  /\ Rounded(x, d) \in Int
           /\ 2 * (d * Rounded(x, d)) =< 2 * x + d
           /\ 2 * (d * Rounded(x, d)) >= 2 * x - d
<1> DEFINE y == x + d \div 2
           q == y \div d
<1>1. d \div 2 \in Int /\ 2 * (d \div 2) =< d /\ 2 * (d \div 2) >= d - 1
      BY Z3
<1>2. y \in Int
      BY <1>1
<1>3. q \in Int /\ d * q =< y /\ d * q > y - d
  <2> HIDE DEF y
  <2>1. QED BY <1>2, Z3
<1> DEFINE p == d * q
<1>4. p \in Int
      BY <1>3, Z3
<1> HIDE DEF q
<1>5. 2 * p =< 2 * x + d /\ 2 * p >= 2 * x - d
  <2> HIDE DEF p
  <2>1. p =< y /\ p > y - d
        BY <1>3 DEF p
  <2>2. QED BY <1>1, <1>4, <2>1
<1>6. QED BY <1>3, <1>5 DEF Rounded, q

\* A square is the square of the absolute value.
LEMMA SquareAbs ==
    ASSUME NEW x \in Int
    PROVE  x * x = Abs(x) * Abs(x) /\ Abs(x) \in Nat /\ x =< Abs(x) /\ -x =< Abs(x)
<1>1. CASE x < 0 BY <1>1, Z3 DEF Abs
<1>2. CASE ~ (x < 0) BY <1>2 DEF Abs
<1>3. QED BY <1>1, <1>2

\* A number no larger than c has a square no larger than that of c.
LEMMA SquareAtMost ==
    ASSUME NEW x \in Int, NEW c \in Nat, x =< c, x >= -c
    PROVE  x * x =< c * c
<1>1. (c - x) * (c + x) >= 0
      BY Z3
<1>2. QED BY <1>1, Z3

\* One bit of the square root: what is below the root stays below, and what the
\* bits still to come could reach shrinks by half.
LEMMA BitIs ==
    ASSUME NEW n \in Nat, NEW r \in Nat, NEW b \in Nat, r * r =< n
    PROVE  /\ Bit(n, r, b) \in Nat
           /\ Bit(n, r, b) * Bit(n, r, b) =< n
           /\ n < (r + 2 * b) * (r + 2 * b) => n < (Bit(n, r, b) + b) * (Bit(n, r, b) + b)
           /\ b > 0 /\ Bit(n, r, b) = 0 => n < b * b
<1>1. CASE (r + b) * (r + b) =< n
  <2>1. Bit(n, r, b) = r + b
        BY <1>1 DEF Bit
  <2>2. (r + b) + b = r + 2 * b /\ r + b \in Nat
        OBVIOUS
  <2>3. QED BY <1>1, <2>1, <2>2
<1>2. CASE ~ ((r + b) * (r + b) =< n)
  <2>1. Bit(n, r, b) = r
        BY <1>2 DEF Bit
  <2>2. n < (r + b) * (r + b)
        BY <1>2, Z3
  <2>3. QED BY <2>1, <2>2
<1>3. QED BY <1>1, <1>2

\* Four bits, from 8 * b down to b.
LEMMA FourBitsIs ==
    ASSUME NEW n \in Nat, NEW r \in Nat, NEW b \in Nat, r * r =< n
    PROVE  /\ FourBits(n, r, b) \in Nat
           /\ FourBits(n, r, b) * FourBits(n, r, b) =< n
           /\ n < (r + 16 * b) * (r + 16 * b)
                => n < (FourBits(n, r, b) + b) * (FourBits(n, r, b) + b)
           /\ b > 0 /\ FourBits(n, r, b) = 0 => n < b * b
<1> DEFINE r1 == Bit(n, r, 8 * b)
           r2 == Bit(n, r1, 4 * b)
           r3 == Bit(n, r2, 2 * b)
           r4 == Bit(n, r3, b)
           b8 == 8 * b  b4 == 4 * b  b2 == 2 * b
<1>1. FourBits(n, r, b) = r4
      BY DEF FourBits
<1>2. b8 \in Nat /\ b4 \in Nat /\ b2 \in Nat /\ 16 * b = 2 * b8 /\ b8 = 2 * b4 /\ b4 = 2 * b2
      OBVIOUS
<1>3. r1 = Bit(n, r, b8) /\ r2 = Bit(n, r1, b4) /\ r3 = Bit(n, r2, b2) /\ r4 = Bit(n, r3, b)
      OBVIOUS
<1> HIDE DEF b8, b4, r1, r2, r3, r4
<1>4. r1 \in Nat /\ r1 * r1 =< n /\ (n < (r + 2 * b8) * (r + 2 * b8) => n < (r1 + b8) * (r1 + b8))
  <2> HIDE DEF b2
  <2>1. QED BY <1>2, <1>3, BitIs
<1>5. r2 \in Nat /\ r2 * r2 =< n /\ (n < (r1 + b8) * (r1 + b8) => n < (r2 + b4) * (r2 + b4))
  <2> HIDE DEF b2
  <2>1. QED BY <1>2, <1>3, <1>4, BitIs, Zenon
<1>6. r3 \in Nat /\ r3 * r3 =< n /\ (n < (r2 + b4) * (r2 + b4) => n < (r3 + b2) * (r3 + b2))
  <2> HIDE DEF b2
  <2>1. QED BY <1>2, <1>3, <1>5, BitIs, Zenon
<1>7. /\ r4 \in Nat /\ r4 * r4 =< n /\ (n < (r3 + b2) * (r3 + b2) => n < (r4 + b) * (r4 + b))
      /\ b > 0 /\ r4 = 0 => n < b * b
      BY <1>3, <1>6, BitIs, Zenon
<1> HIDE DEF b2
<1>8. n < (r + 16 * b) * (r + 16 * b) => n < (r4 + b) * (r4 + b)
      BY <1>2, <1>4, <1>5, <1>6, <1>7
<1>9. QED BY <1>1, <1>7, <1>8

\* Sixteen bits give the integer part of the square root of a number of 32 bits.
LEMMA SqrtIs ==
    ASSUME NEW n \in Nat
    PROVE  /\ Sqrt(n) \in Nat
           /\ Sqrt(n) * Sqrt(n) =< n
           /\ n < 65536 * 65536 => n < (Sqrt(n) + 1) * (Sqrt(n) + 1)
           /\ n > 0 => Sqrt(n) > 0
<1> DEFINE r1 == FourBits(n, 0, 4096)
           r2 == FourBits(n, r1, 256)
           r3 == FourBits(n, r2, 16)
           r4 == FourBits(n, r3, 1)
<1>1. Sqrt(n) = r4
      BY DEF Sqrt
<1>2. r1 = FourBits(n, 0, 4096) /\ r2 = FourBits(n, r1, 256) /\ r3 = FourBits(n, r2, 16)
      /\ r4 = FourBits(n, r3, 1)
      OBVIOUS
<1> HIDE DEF r1, r2, r3, r4
<1>3. ASSUME NEW r \in Nat, r * r =< n, NEW b \in Nat, NEW c \in Nat, c = 16 * b
      PROVE  /\ FourBits(n, r, b) \in Nat /\ FourBits(n, r, b) * FourBits(n, r, b) =< n
             /\ n < (r + c) * (r + c) => n < (FourBits(n, r, b) + b) * (FourBits(n, r, b) + b)
      BY <1>3, FourBitsIs
<1> DEFINE z == 0  b1 == 4096  b2 == 256  b3 == 16  b4 == 1  b0 == 65536
<1>4. /\ z \in Nat /\ z * z =< n /\ b0 \in Nat /\ b1 \in Nat /\ b2 \in Nat /\ b3 \in Nat /\ b4 \in Nat
      /\ b0 = 16 * b1 /\ b1 = 16 * b2 /\ b2 = 16 * b3 /\ b3 = 16 * b4
      /\ (z + b0) * (z + b0) = 65536 * 65536
      OBVIOUS
<1>5. r1 = FourBits(n, z, b1) /\ r2 = FourBits(n, r1, b2) /\ r3 = FourBits(n, r2, b3)
      /\ r4 = FourBits(n, r3, b4)
      BY <1>2
<1>6. \A x : x + b4 = x + 1
      OBVIOUS
<1> HIDE DEF z, b0, b1, b2, b3, b4
<1>7. r1 \in Nat /\ r1 * r1 =< n /\ (n < (z + b0) * (z + b0) => n < (r1 + b1) * (r1 + b1))
      BY <1>3, <1>4, <1>5
<1>8. r2 \in Nat /\ r2 * r2 =< n /\ (n < (r1 + b1) * (r1 + b1) => n < (r2 + b2) * (r2 + b2))
      BY <1>3, <1>4, <1>5, <1>7
<1>9. r3 \in Nat /\ r3 * r3 =< n /\ (n < (r2 + b2) * (r2 + b2) => n < (r3 + b3) * (r3 + b3))
      BY <1>3, <1>4, <1>5, <1>8
<1>10. r4 \in Nat /\ r4 * r4 =< n /\ (n < (r3 + b3) * (r3 + b3) => n < (r4 + b4) * (r4 + b4))
      BY <1>3, <1>4, <1>5, <1>9
<1>11. n < 65536 * 65536 => n < (r4 + 1) * (r4 + 1)
      BY <1>4, <1>6, <1>7, <1>8, <1>9, <1>10
<1>12. r4 = 0 => n < 1
  <2>1. r4 = 0 => n < 1 * 1
        BY <1>2, <1>9, FourBitsIs
  <2>2. QED BY <2>1
<1>13. QED BY <1>1, <1>10, <1>11, <1>12

-----------------------------------------------------------------------------
(* Vectors and matrices, exactly: without the rounding of v3_dot.          *)

Dot(a, b) == a[1] * b[1] + a[2] * b[2] + a[3] * b[3]

\* The inequality of Cauchy and Schwarz.
LEMMA Cauchy ==
    ASSUME NEW a \in Vector, NEW b \in Vector
    PROVE  Dot(a, b) * Dot(a, b) =< Dot(a, a) * Dot(b, b)
<1> DEFINE a1 == a[1] a2 == a[2] a3 == a[3] b1 == b[1] b2 == b[2] b3 == b[3]
<1>1. a1 \in Int /\ a2 \in Int /\ a3 \in Int /\ b1 \in Int /\ b2 \in Int /\ b3 \in Int
      BY DEF Vector, Ix
<1> SUFFICES (a1 * b1 + a2 * b2 + a3 * b3) * (a1 * b1 + a2 * b2 + a3 * b3)
               =< (a1 * a1 + a2 * a2 + a3 * a3) * (b1 * b1 + b2 * b2 + b3 * b3)
      BY DEF Dot
<1> HIDE DEF a1, a2, a3, b1, b2, b3
<1> DEFINE u == a1 * b2 - a2 * b1
           v == a1 * b3 - a3 * b1
           w == a2 * b3 - a3 * b2
<1>2. (a1 * a1 + a2 * a2 + a3 * a3) * (b1 * b1 + b2 * b2 + b3 * b3)
        = (a1 * b1 + a2 * b2 + a3 * b3) * (a1 * b1 + a2 * b2 + a3 * b3)
            + u * u + v * v + w * w
      BY <1>1, Z3
<1>3. u \in Int /\ v \in Int /\ w \in Int
      BY <1>1, Z3
<1>4. u * u >= 0 /\ v * v >= 0 /\ w * w >= 0
  <2> HIDE DEF u, v, w
  <2>1. QED BY <1>3, Z3
<1>5. QED BY <1>1, <1>2, <1>3, <1>4, Z3

\* A vector's product with itself is a sum of squares.
LEMMA DotSquare ==
    ASSUME NEW a \in Vector
    PROVE  /\ Dot(a, a) = a[1] * a[1] + a[2] * a[2] + a[3] * a[3]
           /\ Dot(a, a) >= 0
<1> DEFINE p == a[1]  q == a[2]  r == a[3]
<1>1. p \in Int /\ q \in Int /\ r \in Int
      BY DEF Vector, Ix
<1>2. Dot(a, a) = p * p + q * q + r * r
      BY DEF Dot
<1> HIDE DEF p, q, r
<1>3. p * p >= 0 /\ q * q >= 0 /\ r * r >= 0
      BY <1>1, Z3
<1>4. p * p + q * q + r * r >= 0
      BY <1>1, <1>3, Z3
<1>5. QED BY <1>2, <1>4 DEF p, q, r

\* A product of whole numbers is one.
LEMMA DotType ==
    ASSUME NEW a \in Vector, NEW b \in Vector
    PROVE  /\ Dot(a, b) \in Int
           /\ v3_dot(a, b) = Rounded(Dot(a, b), Unit) /\ v3_dot(a, b) \in Int
<1>1. a[1] \in Int /\ a[2] \in Int /\ a[3] \in Int /\ b[1] \in Int /\ b[2] \in Int /\ b[3] \in Int
      BY DEF Vector, Ix
<1>2. Dot(a, b) \in Int
      BY <1>1 DEF Dot
<1>3. v3_dot(a, b) = Rounded(Dot(a, b), Unit)
      BY DEF v3_dot, Dot
<1>4. QED BY <1>2, <1>3, RoundedIs, AlignAssumption

\* The order of the factors does not matter.
LEMMA DotSwap ==
    ASSUME NEW a \in Vector, NEW b \in Vector
    PROVE  Dot(a, b) = Dot(b, a)
<1>1. a[1] \in Int /\ a[2] \in Int /\ a[3] \in Int /\ b[1] \in Int /\ b[2] \in Int /\ b[3] \in Int
      BY DEF Vector, Ix
<1>2. a[1] * b[1] = b[1] * a[1] /\ a[2] * b[2] = b[2] * a[2] /\ a[3] * b[3] = b[3] * a[3]
      BY <1>1
<1>3. QED BY <1>2 DEF Dot

\* Three whole numbers are a vector.
LEMMA VectorOf ==
    ASSUME NEW x \in Int, NEW y \in Int, NEW z \in Int
    PROVE  <<x, y, z>> \in Vector
  BY DEF Vector, Ix

\* And three vectors are a matrix.
LEMMA MatrixOf ==
    ASSUME NEW x \in Vector, NEW y \in Vector, NEW z \in Vector
    PROVE  <<x, y, z>> \in Matrix
  BY DEF Matrix, Ix

\* A column of a matrix is a vector of its entries.
LEMMA ColumnType ==
    ASSUME NEW m \in Matrix, NEW j \in Ix
    PROVE  /\ Column(m, j) \in Vector
           /\ \A i \in Ix : Column(m, j)[i] = m[i][j] /\ m[i] \in Vector /\ m[i][j] \in Int
<1>1. \A i \in Ix : m[i] \in Vector /\ m[i][j] \in Int
      BY DEF Matrix, Vector
<1>2. Column(m, j) \in Vector
      BY <1>1, VectorOf DEF Column, Ix
<1>3. QED BY <1>1, <1>2 DEF Column, Ix

\* A scaled matrix is one, entry by entry.
LEMMA Scale9Type ==
    ASSUME NEW m \in Matrix, NEW s \in Int, NEW t \in Nat \ {0}
    PROVE  /\ Scale9(m, s, t) \in Matrix
           /\ \A i, j \in Ix : Scale9(m, s, t)[i][j] = Rounded(m[i][j] * s, t)
<1>1. \A i, j \in Ix : m[i][j] * s \in Int
      BY ColumnType
<1>2. \A i, j \in Ix : Rounded(m[i][j] * s, t) \in Int
      BY <1>1, RoundedIs, Zenon
<1>3. \A i \in Ix : /\ v3_scale(m[i], s, t) \in Vector
                   /\ \A j \in Ix : v3_scale(m[i], s, t)[j] = Rounded(m[i][j] * s, t)
      BY <1>2, VectorOf DEF v3_scale, Ix
<1>4. QED BY <1>3, MatrixOf DEF Scale9, Ix

\* The columns of a matrix are the rows of its transpose.
LEMMA TransposeType ==
    ASSUME NEW m \in Matrix
    PROVE  /\ sinew_transpose9(m) \in Matrix
           /\ \A j \in Ix : sinew_transpose9(m)[j] = Column(m, j)
<1>1. \A j \in Ix : Column(m, j) \in Vector
      BY ColumnType
<1>2. QED BY <1>1, MatrixOf DEF sinew_transpose9, Ix

\* A matrix times a vector is a vector of products.
LEMMA ApplyType ==
    ASSUME NEW m \in Matrix, NEW x \in Vector
    PROVE  /\ Apply(m, x) \in Vector
           /\ \A i \in Ix : Apply(m, x)[i] = v3_dot(m[i], x)
<1>1. \A i \in Ix : v3_dot(m[i], x) \in Int
      BY DotType DEF Matrix
<1>2. QED BY <1>1, VectorOf DEF Apply, Ix

\* A product of matrices is one, row by column.
LEMMA MulType ==
    ASSUME NEW m \in Matrix, NEW n \in Matrix
    PROVE  /\ sinew_mul9(m, n) \in Matrix
           /\ \A i, j \in Ix : sinew_mul9(m, n)[i][j] = v3_dot(Column(n, j), m[i])
<1> DEFINE nt == sinew_transpose9(n)
<1>1. nt \in Matrix /\ \A j \in Ix : nt[j] = Column(n, j)
      BY TransposeType
<1>2. sinew_mul9(m, n) = <<Apply(nt, m[1]), Apply(nt, m[2]), Apply(nt, m[3])>>
      BY DEF sinew_mul9
<1> HIDE DEF nt
<1>3. \A i \in Ix : m[i] \in Vector
      BY DEF Matrix
<1>4. \A i \in Ix : Apply(nt, m[i]) \in Vector /\ sinew_mul9(m, n)[i] = Apply(nt, m[i])
      BY <1>1, <1>2, <1>3, ApplyType DEF Ix
<1>5. \A i, j \in Ix : Apply(nt, m[i])[j] = v3_dot(nt[j], m[i])
      BY <1>1, <1>3, ApplyType
<1>6. sinew_mul9(m, n) \in Matrix
      BY <1>2, <1>4, MatrixOf DEF Ix
<1>7. QED BY <1>1, <1>4, <1>5, <1>6

-----------------------------------------------------------------------------
(* One turn without rounding.  V stands for the square of the fixed point's *)
(* unit, so that the exact Gram matrix of a rotation is V times Identity.   *)

\* The squares of a matrix's entries, added up.
Squares(m) == Dot(m[1], m[1]) + Dot(m[2], m[2]) + Dot(m[3], m[3])

\* Column j of V * Identity - m^T m: how far m is from a rotation.
Defect(m, j) ==
    [k \in Ix |-> (IF k = j THEN Unit * Unit ELSE 0) - Dot(Column(m, k), Column(m, j))]

\* Entry (i, j) of m (3 V * Identity - m^T m), twice what a turn computes.
Exact(m, i, j) == 2 * (Unit * Unit) * m[i][j] + Dot(m[i], Defect(m, j))

\* The defect's entries are whole numbers.
LEMMA DefectType ==
    ASSUME NEW m \in Matrix, NEW j \in Ix
    PROVE  /\ Defect(m, j) \in Vector
           /\ \A k \in Ix : Defect(m, j)[k] = (IF k = j THEN Unit * Unit ELSE 0)
                                              - Dot(Column(m, k), Column(m, j))
           /\ \A i \in Ix : Exact(m, i, j) \in Int
<1>1. Unit \in Int /\ Unit * Unit \in Int
      BY AlignAssumption
<1>2. \A k \in Ix : Dot(Column(m, k), Column(m, j)) \in Int
      BY ColumnType, DotType
<1>3. Defect(m, j) \in Vector
      BY <1>1, <1>2 DEF Defect, Vector
<1>4. \A i \in Ix : m[i][j] \in Int /\ Dot(m[i], Defect(m, j)) \in Int
      BY <1>3, ColumnType, DotType
<1>5. \A i \in Ix : Exact(m, i, j) \in Int
      BY <1>1, <1>4 DEF Exact
<1>6. QED BY <1>3, <1>5 DEF Defect

\* The column of a matrix is as long as the defect on the diagonal leaves it.
LEMMA ColumnLength ==
    ASSUME NEW m \in Matrix, NEW j \in Ix
    PROVE  m[1][j] * m[1][j] + m[2][j] * m[2][j] + m[3][j] * m[3][j] = Unit * Unit - Defect(m, j)[j]
<1>1. Defect(m, j)[j] = Unit * Unit - Dot(Column(m, j), Column(m, j))
      BY DefectType
<1>2. Dot(Column(m, j), Column(m, j))
         = m[1][j] * m[1][j] + m[2][j] * m[2][j] + m[3][j] * m[3][j]
      BY ColumnType DEF Dot, Ix
<1>3. m[1][j] \in Int /\ m[2][j] \in Int /\ m[3][j] \in Int /\ Unit * Unit \in Int
      BY ColumnType, AlignAssumption DEF Ix
<1> DEFINE l == m[1][j] * m[1][j] + m[2][j] * m[2][j] + m[3][j] * m[3][j]
           V == Unit * Unit
<1>4. l \in Int
      BY <1>3
<1> HIDE DEF l, V
<1>5. Defect(m, j)[j] = V - l
      BY <1>1, <1>2 DEF l, V
<1>6. l = V - Defect(m, j)[j]
      BY <1>3, <1>4, <1>5 DEF V
<1>7. QED BY <1>6 DEF l, V

\* The column against the turn's change of it: the defect's diagonal, less the
\* squares of the defect.
LEMMA ColumnChange ==
    ASSUME NEW m \in Matrix, NEW j \in Ix
    PROVE  LET x == Defect(m, j)
           IN  m[1][j] * Dot(m[1], x) + m[2][j] * Dot(m[2], x) + m[3][j] * Dot(m[3], x)
                   = Unit * Unit * x[j] - Dot(x, x)
<1> DEFINE x == Defect(m, j)
           V == Unit * Unit
           x1 == x[1]  x2 == x[2]  x3 == x[3]
           a1 == m[1][1]  a2 == m[1][2]  a3 == m[1][3]
           b1 == m[2][1]  b2 == m[2][2]  b3 == m[2][3]
           c1 == m[3][1]  c2 == m[3][2]  c3 == m[3][3]
           u == m[1][j]  v == m[2][j]  w == m[3][j]
           g(k) == u * m[1][k] + v * m[2][k] + w * m[3][k]
           g1 == g(1)  g2 == g(2)  g3 == g(3)
           d1 == IF 1 = j THEN V ELSE 0
           d2 == IF 2 = j THEN V ELSE 0
           d3 == IF 3 = j THEN V ELSE 0
<1>1. x \in Vector /\ V \in Int
      BY DefectType, AlignAssumption
<1>2. x1 \in Int /\ x2 \in Int /\ x3 \in Int
      BY <1>1 DEF Vector, Ix
<1>3. /\ a1 \in Int /\ a2 \in Int /\ a3 \in Int
      /\ b1 \in Int /\ b2 \in Int /\ b3 \in Int
      /\ c1 \in Int /\ c2 \in Int /\ c3 \in Int
      BY ColumnType DEF Ix
<1>4. u \in Int /\ v \in Int /\ w \in Int
      BY ColumnType DEF Ix
<1>5. Dot(m[1], x) = a1 * x1 + a2 * x2 + a3 * x3 /\ Dot(m[2], x) = b1 * x1 + b2 * x2 + b3 * x3
      /\ Dot(m[3], x) = c1 * x1 + c2 * x2 + c3 * x3 /\ Dot(x, x) = x1 * x1 + x2 * x2 + x3 * x3
      BY DEF Dot
<1>6. /\ g1 = u * a1 + v * b1 + w * c1 /\ g2 = u * a2 + v * b2 + w * c2
      /\ g3 = u * a3 + v * b3 + w * c3
      OBVIOUS
<1>7. g1 \in Int /\ g2 \in Int /\ g3 \in Int /\ d1 \in Int /\ d2 \in Int /\ d3 \in Int
      BY <1>1, <1>3, <1>4, <1>6
<1>8. ASSUME NEW k \in Ix PROVE x[k] = (IF k = j THEN V ELSE 0) - g(k)
  <2>1. Column(m, k) \in Vector /\ Column(m, j) \in Vector
        BY ColumnType
  <2>2. Dot(Column(m, k), Column(m, j)) = m[1][k] * u + m[2][k] * v + m[3][k] * w
        BY ColumnType DEF Dot, Ix
  <2>3. m[1][k] \in Int /\ m[2][k] \in Int /\ m[3][k] \in Int
        BY ColumnType DEF Ix
  <2>4. m[1][k] * u + m[2][k] * v + m[3][k] * w = g(k)
        BY <1>4, <2>3
  <2>5. QED BY <2>2, <2>4, DefectType
<1>9. x1 = d1 - g1 /\ x2 = d2 - g2 /\ x3 = d3 - g3
      BY <1>8 DEF Ix
<1>10. x1 * d1 + x2 * d2 + x3 * d3 = V * x[j]
  <2>1. CASE j = 1 BY <2>1, <1>1, <1>2
  <2>2. CASE j = 2 BY <2>2, <1>1, <1>2
  <2>3. CASE j = 3 BY <2>3, <1>1, <1>2
  <2>4. QED BY <2>1, <2>2, <2>3 DEF Ix
<1> DEFINE xj == x[j]
<1>11. xj \in Int
      BY <1>1 DEF Vector
<1> HIDE DEF x1, x2, x3, a1, a2, a3, b1, b2, b3, c1, c2, c3, u, v, w, g, g1, g2, g3, d1, d2, d3, V, xj, x
<1>12. u * (a1 * x1 + a2 * x2 + a3 * x3) + v * (b1 * x1 + b2 * x2 + b3 * x3)
           + w * (c1 * x1 + c2 * x2 + c3 * x3) = x1 * g1 + x2 * g2 + x3 * g3
      BY <1>2, <1>3, <1>4, <1>6, Z3
<1>13. x1 * g1 + x2 * g2 + x3 * g3
           = x1 * d1 + x2 * d2 + x3 * d3 - (x1 * x1 + x2 * x2 + x3 * x3)
  <2>1. g1 = d1 - x1 /\ g2 = d2 - x2 /\ g3 = d3 - x3
        BY <1>2, <1>7, <1>9
  <2>2. QED BY <1>2, <1>7, <2>1, Z3
<1>14. u * Dot(m[1], x) + v * Dot(m[2], x) + w * Dot(m[3], x) = V * xj - Dot(x, x)
  <2>1. x1 * d1 + x2 * d2 + x3 * d3 = V * xj
        BY <1>10 DEF xj
  <2>2. u * (a1 * x1 + a2 * x2 + a3 * x3) + v * (b1 * x1 + b2 * x2 + b3 * x3)
            + w * (c1 * x1 + c2 * x2 + c3 * x3) = V * xj - (x1 * x1 + x2 * x2 + x3 * x3)
        BY <1>1, <1>2, <1>3, <1>4, <1>7, <1>11, <1>12, <1>13, <2>1, Z3
  <2>3. QED BY <1>5, <2>2
<1>15. QED BY <1>14 DEF u, v, w, V, xj, x

\* A turn makes no column longer than V: what it adds to a short one, and takes
\* from a long one, is what the column is away from V.
LEMMA ExactBound ==
    ASSUME NEW m \in Matrix, NEW j \in Ix, Squares(m) =< 4 * (Unit * Unit)
    PROVE  Exact(m, 1, j) * Exact(m, 1, j) + Exact(m, 2, j) * Exact(m, 2, j)
               + Exact(m, 3, j) * Exact(m, 3, j) =< 4 * ((Unit * Unit) * ((Unit * Unit) * (Unit * Unit)))
<1> DEFINE V == Unit * Unit
           x == Defect(m, j)
           xj == x[j]
           s == Dot(x, x)
           c1 == m[1][j]  c2 == m[2][j]  c3 == m[3][j]
           y1 == Dot(m[1], x)  y2 == Dot(m[2], x)  y3 == Dot(m[3], x)
           f1 == Dot(m[1], m[1])  f2 == Dot(m[2], m[2])  f3 == Dot(m[3], m[3])
<1>1. x \in Vector /\ m[1] \in Vector /\ m[2] \in Vector /\ m[3] \in Vector
      BY DefectType, ColumnType DEF Ix
<1>2. /\ V \in Int /\ xj \in Int /\ s \in Int /\ c1 \in Int /\ c2 \in Int /\ c3 \in Int
      /\ y1 \in Int /\ y2 \in Int /\ y3 \in Int /\ f1 \in Int /\ f2 \in Int /\ f3 \in Int
  <2>1. V \in Int BY AlignAssumption
  <2>2. xj \in Int BY <1>1 DEF Vector
  <2>3. c1 \in Int /\ c2 \in Int /\ c3 \in Int BY ColumnType DEF Ix
  <2>4. QED BY <1>1, <2>1, <2>2, <2>3, DotType
<1>3. y1 * y1 =< f1 * s /\ y2 * y2 =< f2 * s /\ y3 * y3 =< f3 * s
      BY <1>1, Cauchy
<1>4. s >= 0
      BY <1>1, DotSquare
<1>5. c1 * c1 + c2 * c2 + c3 * c3 = V - xj
      BY ColumnLength
<1>6. c1 * y1 + c2 * y2 + c3 * y3 = V * xj - s
      BY ColumnChange
<1>7. f1 + f2 + f3 =< 4 * V
      BY DEF Squares
<1>8. /\ Exact(m, 1, j) = 2 * V * c1 + y1 /\ Exact(m, 2, j) = 2 * V * c2 + y2
      /\ Exact(m, 3, j) = 2 * V * c3 + y3
      BY DEF Exact
<1> HIDE DEF V, x, xj, s, c1, c2, c3, y1, y2, y3, f1, f2, f3
<1> DEFINE cc == c1 * c1 + c2 * c2 + c3 * c3
           cy == c1 * y1 + c2 * y2 + c3 * y3
           yy == y1 * y1 + y2 * y2 + y3 * y3
<1>9. (2 * V * c1 + y1) * (2 * V * c1 + y1) + (2 * V * c2 + y2) * (2 * V * c2 + y2)
          + (2 * V * c3 + y3) * (2 * V * c3 + y3) = 4 * (V * V) * cc + 4 * V * cy + yy
      BY <1>2, Z3
<1>10. 4 * (V * V) * (V - xj) + 4 * V * (V * xj - s) = 4 * (V * (V * V)) - 4 * V * s
      BY <1>2, Z3
<1>11. yy =< (f1 + f2 + f3) * s
      BY <1>2, <1>3, Z3
<1>12. (f1 + f2 + f3) * s =< 4 * V * s
      BY <1>2, <1>4, <1>7, Z3
<1>13. 4 * (V * V) * cc + 4 * V * cy + yy =< 4 * (V * (V * V))
  <2>1. cc = V - xj /\ cy = V * xj - s
        BY <1>5, <1>6
  <2>2. yy \in Int
        BY <1>2
  <2> HIDE DEF cc, cy, yy
  <2>3. 4 * (V * V) * cc + 4 * V * cy = 4 * (V * (V * V)) - 4 * V * s
        BY <1>10, <2>1
  <2>4. QED BY <1>2, <1>11, <1>12, <2>2, <2>3, Z3
<1>14. QED BY <1>8, <1>9, <1>13 DEF V

-----------------------------------------------------------------------------
(* One turn with rounding.                                                 *)

\* The absolute values of a row, added up.
RowLength(x) == Abs(x[1]) + Abs(x[2]) + Abs(x[3])

\* Against the squares of the row: between them and three times as much.
LEMMA RowLengthIs ==
    ASSUME NEW x \in Vector
    PROVE  /\ RowLength(x) \in Nat
           /\ RowLength(x) * RowLength(x) =< 3 * Dot(x, x)
           /\ Dot(x, x) =< RowLength(x) * RowLength(x)
<1> DEFINE p == Abs(x[1])  q == Abs(x[2])  r == Abs(x[3])
<1>1. x[1] \in Int /\ x[2] \in Int /\ x[3] \in Int
      BY DEF Vector, Ix
<1>2. p \in Nat /\ q \in Nat /\ r \in Nat
      BY <1>1 DEF Abs
<1>3. x[1] * x[1] = p * p /\ x[2] * x[2] = q * q /\ x[3] * x[3] = r * r
      BY <1>1, SquareAbs
<1>4. Dot(x, x) = p * p + q * q + r * r
      BY <1>3, DotSquare
<1>5. RowLength(x) = p + q + r
      BY DEF RowLength
<1> HIDE DEF p, q, r
<1>6. p + q + r \in Nat
      BY <1>2
<1>7. (p - q) * (p - q) >= 0 /\ (p - r) * (p - r) >= 0 /\ (q - r) * (q - r) >= 0
      BY <1>2, Z3
<1>8. (p + q + r) * (p + q + r) =< 3 * (p * p + q * q + r * r)
      BY <1>2, <1>7, Z3
<1>9. p * q >= 0 /\ p * r >= 0 /\ q * r >= 0
      BY <1>2, Z3
<1>10. p * p + q * q + r * r =< (p + q + r) * (p + q + r)
      BY <1>2, <1>9, Z3
<1>11. QED BY <1>4, <1>5, <1>6, <1>8, <1>10

\* The entries of a turn's result, rounding by rounding: the Gram matrix, the
\* product with the term, and the half of it.
LEMMA TurnIs ==
    ASSUME NEW m \in Matrix
    PROVE  /\ NewtonSchulz(m) \in Matrix
           /\ \A i, j \in Ix :
                \E t \in Vector :
                  /\ \A k \in Ix : t[k] = (IF k = j THEN 3 * Unit ELSE 0)
                                          - v3_dot(Column(m, j), Column(m, k))
                  /\ NewtonSchulz(m)[i][j] = Rounded(v3_dot(t, m[i]) * 1, 2)
<1> DEFINE rtr  == Gram(m)
           term == [i \in Ix |-> [j \in Ix |-> 3 * Identity[i][j] - rtr[i][j]]]
           rn   == sinew_mul9(m, term)
<1>1. NewtonSchulz(m) = Scale9(rn, 1, 2)
      BY DEF NewtonSchulz
<1>2. rtr \in Matrix /\ \A i, j \in Ix : rtr[i][j] = v3_dot(Column(m, j), Column(m, i))
      BY TransposeType, MulType DEF Gram
<1>3. \A i, j \in Ix : Identity[i][j] \in Int /\ 3 * Identity[i][j] = IF i = j THEN 3 * Unit ELSE 0
      BY AlignAssumption DEF Identity, Ix
<1>4. \A i, j \in Ix : rtr[i][j] \in Int
      BY <1>2, ColumnType
<1> HIDE DEF rtr
<1>5. term \in Matrix
      BY <1>3, <1>4 DEF Matrix, Vector
<1>6. \A i, j \in Ix : term[i][j] = (IF i = j THEN 3 * Unit ELSE 0) - v3_dot(Column(m, j), Column(m, i))
      BY <1>2, <1>3
<1> HIDE DEF term
<1>7. rn \in Matrix /\ \A i, j \in Ix : rn[i][j] = v3_dot(Column(term, j), m[i])
      BY <1>5, MulType
<1> HIDE DEF rn
<1>8. Scale9(rn, 1, 2) \in Matrix /\ \A i, j \in Ix : Scale9(rn, 1, 2)[i][j] = Rounded(rn[i][j] * 1, 2)
      BY <1>7, Scale9Type
<1>9. ASSUME NEW i \in Ix, NEW j \in Ix
      PROVE  \E t \in Vector :
               /\ \A k \in Ix : t[k] = (IF k = j THEN 3 * Unit ELSE 0)
                                       - v3_dot(Column(m, j), Column(m, k))
               /\ NewtonSchulz(m)[i][j] = Rounded(v3_dot(t, m[i]) * 1, 2)
  <2>1. Column(term, j) \in Vector /\ \A k \in Ix : Column(term, j)[k] = term[k][j]
        BY <1>5, ColumnType
  <2>2. \A k \in Ix : Column(term, j)[k] = (IF k = j THEN 3 * Unit ELSE 0)
                                           - v3_dot(Column(m, j), Column(m, k))
        BY <1>6, <2>1
  <2>3. NewtonSchulz(m)[i][j] = Rounded(v3_dot(Column(term, j), m[i]) * 1, 2)
        BY <1>1, <1>7, <1>8
  <2>4. QED BY <2>1, <2>2, <2>3
<1>10. QED BY <1>1, <1>8, <1>9

\* Rounding moves an entry by little: half a unit for the product, one for the
\* half, and half a unit of each entry of the Gram matrix times the row.
LEMMA TurnError ==
    ASSUME NEW m \in Matrix, NEW i \in Ix, NEW j \in Ix
    PROVE  LET d == 4 * (Unit * Unit) * NewtonSchulz(m)[i][j] - 2 * Exact(m, i, j)
               b == Unit * (RowLength(m[i]) + 3 * Unit)
           IN  d \in Int /\ b \in Nat /\ d =< b /\ -d =< b
<1>1. PICK t \in Vector :
        /\ \A k \in Ix : t[k] = (IF k = j THEN 3 * Unit ELSE 0) - v3_dot(Column(m, j), Column(m, k))
        /\ NewtonSchulz(m)[i][j] = Rounded(v3_dot(t, m[i]) * 1, 2)
      BY TurnIs
<1> DEFINE U == Unit
           n == NewtonSchulz(m)[i][j]
           q == v3_dot(t, m[i])
           r1 == m[i][1]  r2 == m[i][2]  r3 == m[i][3]
           t1 == t[1]  t2 == t[2]  t3 == t[3]
           p == t1 * r1 + t2 * r2 + t3 * r3
           x == Defect(m, j)
           x1 == x[1]  x2 == x[2]  x3 == x[3]
           rj == m[i][j]
           d1 == IF 1 = j THEN U * U ELSE 0
           d2 == IF 2 = j THEN U * U ELSE 0
           d3 == IF 3 = j THEN U * U ELSE 0
           e1 == 2 * (U * t1) - 2 * (2 * d1 + x1)
           e2 == 2 * (U * t2) - 2 * (2 * d2 + x2)
           e3 == 2 * (U * t3) - 2 * (2 * d3 + x3)
<1>2. U \in Nat /\ U >= 40 /\ U * U \in Int
      BY AlignAssumption
<1>3. m[i] \in Vector /\ x \in Vector /\ n \in Int /\ rj \in Int
      BY TurnIs, ColumnType, DefectType
<1>4. /\ r1 \in Int /\ r2 \in Int /\ r3 \in Int /\ t1 \in Int /\ t2 \in Int /\ t3 \in Int
      /\ x1 \in Int /\ x2 \in Int /\ x3 \in Int /\ q \in Int
      BY <1>3, DotType DEF Vector, Ix
<1>5. p \in Int /\ Dot(t, m[i]) = p
      BY <1>4 DEF Dot
<1>6. d1 \in Int /\ d2 \in Int /\ d3 \in Int
      BY <1>2
<1>7. 4 * n =< 2 * q + 2 /\ 4 * n >= 2 * q - 2
  <2>1. n = Rounded(q, 2)
        BY <1>1, <1>4
  <2> HIDE DEF n, q
  <2>2. 2 * (2 * n) =< 2 * q + 2 /\ 2 * (2 * n) >= 2 * q - 2
        BY <1>4, <2>1, RoundedIs
  <2>3. QED BY <1>3, <1>4, <2>2
<1>8. 2 * (U * q) =< 2 * p + U /\ 2 * (U * q) >= 2 * p - U
  <2>1. q = Rounded(p, U)
        BY <1>3, <1>5, DotType
  <2> HIDE DEF p, q
  <2>2. QED BY <1>2, <1>5, <2>1, RoundedIs
<1>9. ASSUME NEW k \in Ix
      PROVE  LET dk == IF k = j THEN U * U ELSE 0
             IN  /\ 2 * (U * t[k]) - 2 * (2 * dk + x[k]) =< U
                 /\ 2 * (U * t[k]) - 2 * (2 * dk + x[k]) >= -U
  <2> DEFINE dk == IF k = j THEN U * U ELSE 0
             ek == IF k = j THEN 3 * U ELSE 0
             g == Dot(Column(m, k), Column(m, j))
             gr == v3_dot(Column(m, j), Column(m, k))
             tk == t[k]
             xk == x[k]
  <2>1. g \in Int /\ gr \in Int /\ gr = Rounded(Dot(Column(m, j), Column(m, k)), U)
        BY ColumnType, DotType
  <2>2. Dot(Column(m, j), Column(m, k)) = g
        BY ColumnType, DotSwap
  <2>3. 2 * (U * gr) =< 2 * g + U /\ 2 * (U * gr) >= 2 * g - U
    <3>1. gr = Rounded(g, U)
          BY <2>1, <2>2
    <3> HIDE DEF gr, g
    <3>2. QED BY <1>2, <2>1, <3>1, RoundedIs
  <2>4. tk = ek - gr /\ xk = dk - g /\ tk \in Int /\ xk \in Int
        BY <1>1, <1>3, DefectType DEF Vector
  <2>5. U * ek = 3 * dk /\ ek \in Int /\ dk \in Int
        BY <1>2
  <2> HIDE DEF dk, ek, g, gr, tk, xk, U, x
  <2>6. 2 * (U * tk) = 2 * (3 * dk) - 2 * (U * gr)
        BY <1>2, <2>1, <2>4, <2>5, Z3
  <2>7. /\ 2 * (U * tk) - 2 * (2 * dk + xk) =< U
        /\ 2 * (U * tk) - 2 * (2 * dk + xk) >= -U
        BY <1>2, <2>1, <2>3, <2>4, <2>5, <2>6, Z3
  <2>8. QED BY <2>7 DEF dk, tk, xk
<1>10. e1 =< U /\ e1 >= -U /\ e2 =< U /\ e2 >= -U /\ e3 =< U /\ e3 >= -U
      BY <1>9 DEF Ix
<1>11. Exact(m, i, j) = r1 * (2 * d1 + x1) + r2 * (2 * d2 + x2) + r3 * (2 * d3 + x3)
  <2>1. Exact(m, i, j) = 2 * (U * U) * rj + (r1 * x1 + r2 * x2 + r3 * x3)
        BY DEF Exact, Dot
  <2>2. (U * U) * rj = r1 * d1 + r2 * d2 + r3 * d3
    <3>1. CASE j = 1 BY <3>1, <1>2, <1>4, Z3
    <3>2. CASE j = 2 BY <3>2, <1>2, <1>4, Z3
    <3>3. CASE j = 3 BY <3>3, <1>2, <1>4, Z3
    <3>4. QED BY <3>1, <3>2, <3>3 DEF Ix
  <2> DEFINE V == U * U
  <2> HIDE DEF rj, r1, r2, r3, x1, x2, x3, d1, d2, d3, V, x
  <2>3. V * rj = r1 * d1 + r2 * d2 + r3 * d3 /\ V \in Int
        BY <1>2, <2>2 DEF V
  <2>4. 2 * V * rj + (r1 * x1 + r2 * x2 + r3 * x3)
           = r1 * (2 * d1 + x1) + r2 * (2 * d2 + x2) + r3 * (2 * d3 + x3)
        BY <1>3, <1>4, <1>6, <2>3, Z3
  <2>5. QED BY <2>1, <2>4 DEF V
<1> DEFINE a1 == Abs(r1)  a2 == Abs(r2)  a3 == Abs(r3)
           E == Exact(m, i, j)
<1>12. /\ a1 \in Nat /\ r1 =< a1 /\ -r1 =< a1 /\ a2 \in Nat /\ r2 =< a2 /\ -r2 =< a2
       /\ a3 \in Nat /\ r3 =< a3 /\ -r3 =< a3
      BY <1>4, SquareAbs, Zenon
<1>13. RowLength(m[i]) = a1 + a2 + a3
      BY DEF RowLength
<1>14. E \in Int
      BY DefectType
<1>15. e1 \in Int /\ e2 \in Int /\ e3 \in Int
      BY <1>2, <1>4, <1>6
<1>16. 2 * (U * p) = 2 * E + (r1 * e1 + r2 * e2 + r3 * e3)
  <2> DEFINE w1 == 2 * d1 + x1  w2 == 2 * d2 + x2  w3 == 2 * d3 + x3
  <2>1. w1 \in Int /\ w2 \in Int /\ w3 \in Int
        BY <1>4, <1>6
  <2>2. E = r1 * w1 + r2 * w2 + r3 * w3
        BY <1>11
  <2>3. e1 = 2 * (U * t1) - 2 * w1 /\ e2 = 2 * (U * t2) - 2 * w2 /\ e3 = 2 * (U * t3) - 2 * w3
        OBVIOUS
  <2> HIDE DEF w1, w2, w3, e1, e2, e3, E, r1, r2, r3, t1, t2, t3, U
  <2>4. 2 * (U * (t1 * r1 + t2 * r2 + t3 * r3))
           = 2 * (r1 * w1 + r2 * w2 + r3 * w3)
             + (r1 * (2 * (U * t1) - 2 * w1) + r2 * (2 * (U * t2) - 2 * w2)
                + r3 * (2 * (U * t3) - 2 * w3))
        BY <1>2, <1>4, <2>1, Z3
  <2>5. QED BY <2>2, <2>3, <2>4
<1> HIDE DEF U, n, q, r1, r2, r3, p, e1, e2, e3, a1, a2, a3, E
<1>17. ASSUME NEW r \in Int, NEW a \in Nat, NEW e \in Int, r =< a, -r =< a, e =< U, e >= -U
       PROVE  r * e \in Int /\ r * e =< a * U /\ r * e >= -(a * U)
  <2>1. (a - r) * (U + e) >= 0 /\ (a + r) * (U - e) >= 0
        /\ (a - r) * (U - e) >= 0 /\ (a + r) * (U + e) >= 0
        BY <1>2, <1>17, Z3
  <2>2. QED BY <1>2, <1>17, <2>1, Z3
<1>18. /\ r1 * e1 \in Int /\ r1 * e1 =< a1 * U /\ r1 * e1 >= -(a1 * U)
       /\ r2 * e2 \in Int /\ r2 * e2 =< a2 * U /\ r2 * e2 >= -(a2 * U)
       /\ r3 * e3 \in Int /\ r3 * e3 =< a3 * U /\ r3 * e3 >= -(a3 * U)
      BY <1>4, <1>10, <1>12, <1>15, <1>17, Zenon
<1>19. /\ (U * U) * (4 * n) =< (U * U) * (2 * q + 2)
       /\ (U * U) * (4 * n) >= (U * U) * (2 * q - 2)
      BY <1>2, <1>3, <1>4, <1>7, Z3
<1>20. /\ U * (2 * (U * q)) =< U * (2 * p + U)
       /\ U * (2 * (U * q)) >= U * (2 * p - U)
      BY <1>2, <1>4, <1>5, <1>8, Z3
<1> DEFINE z1 == r1 * e1  z2 == r2 * e2  z3 == r3 * e3
           d == 4 * (U * U) * n - 2 * E
           b == U * (a1 + a2 + a3 + 3 * U)
<1>21. d \in Int /\ b \in Nat
  <2>1. a1 + a2 + a3 + 3 * U \in Nat
        BY <1>2, <1>12
  <2>2. QED BY <1>2, <1>3, <1>14, <2>1, Z3
<1>22. d =< b /\ -d =< b
  <2>1. z1 \in Int /\ z2 \in Int /\ z3 \in Int /\ 2 * (U * p) = 2 * E + (z1 + z2 + z3)
        /\ z1 =< a1 * U /\ z1 >= -(a1 * U) /\ z2 =< a2 * U /\ z2 >= -(a2 * U)
        /\ z3 =< a3 * U /\ z3 >= -(a3 * U)
        BY <1>16, <1>18
  <2> HIDE DEF z1, z2, z3
  <2>2. QED BY <1>2, <1>3, <1>4, <1>5, <1>12, <1>14, <1>19, <1>20, <2>1, Z3
<1>23. QED BY <1>13, <1>21, <1>22 DEF U, n, E

\* So the square of an entry is not much more than the square of the exact one.
LEMMA EntryBound ==
    ASSUME NEW m \in Matrix, NEW i \in Ix, NEW j \in Ix
    PROVE  LET n == NewtonSchulz(m)[i][j]
           IN  64 * (Unit * ((Unit * Unit) * (Unit * Unit))) * (n * n)
                   =< 16 * (Unit + 2) * (Exact(m, i, j) * Exact(m, i, j))
                      + (Unit * (Unit + 2)) * ((Unit * Unit) * (18 * Dot(m[i], m[i]) + 27 * (Unit * Unit)))
<1> DEFINE U == Unit
           V == U * U
           n == NewtonSchulz(m)[i][j]
           a == 2 * Exact(m, i, j)
           E == Exact(m, i, j)
           l == RowLength(m[i])
           f == Dot(m[i], m[i])
           d == 4 * V * n - a
           b == U * (l + 3 * U)
<1>1. U \in Nat /\ U >= 40 /\ V \in Int
      BY AlignAssumption
<1>2. m[i] \in Vector /\ n \in Int
      BY TurnIs, ColumnType
<1>3. E \in Int /\ l \in Nat /\ f \in Int /\ l * l =< 3 * f
      BY <1>2, DefectType, RowLengthIs, DotType
<1>4. d \in Int /\ b \in Nat /\ d =< b /\ -d =< b
      BY TurnError
<1> HIDE DEF n, E, l, f, d, b, U
<1>5. d * d =< b * b
  <2>1. (b - d) * (b + d) >= 0
        BY <1>4, Z3
  <2>2. QED BY <1>4, <2>1, Z3
<1>6. 2 * (b * b) =< V * (18 * f + 27 * V)
  <2>1. b * b = V * ((l + 3 * U) * (l + 3 * U))
        BY <1>1, <1>3, Z3 DEF b
  <2>2. (2 * l - 3 * U) * (2 * l - 3 * U) >= 0
        BY <1>1, <1>3, Z3
  <2>3. 2 * ((l + 3 * U) * (l + 3 * U)) =< 18 * f + 27 * V
        BY <1>1, <1>3, <2>2, Z3
  <2> DEFINE k == (l + 3 * U) * (l + 3 * U)
             g == 18 * f + 27 * V
  <2>4. k \in Int /\ g \in Int /\ 2 * k =< g /\ V >= 0
        BY <1>1, <1>3, <2>3, Z3
  <2> HIDE DEF k, g, V
  <2>5. V * (2 * k) =< V * g
        BY <1>1, <2>4, Z3
  <2>6. 2 * (V * k) = V * (2 * k)
        BY <1>1, <2>4, Z3
  <2>7. QED BY <2>1, <2>5, <2>6 DEF k, g
<1>7. a = 2 * E /\ a \in Int
      BY <1>3 DEF E
<1> HIDE DEF a
<1>8. (2 * a - U * d) * (2 * a - U * d) >= 0
      BY <1>1, <1>4, <1>7, Z3
<1>9. 2 * U * ((a + d) * (a + d)) =< 2 * (U + 2) * (a * a) + (U * (U + 2)) * (d * d)
      BY <1>1, <1>4, <1>7, <1>8, Z3
<1>10. a + d = 4 * V * n
      BY <1>1, <1>2, <1>7, Z3 DEF d
<1> DEFINE c == U * (U + 2)
<1>11. c \in Nat
      BY <1>1, Z3
<1> HIDE DEF V
<1>12. 4 * U * ((4 * V * n) * (4 * V * n)) =< 4 * (U + 2) * (a * a) + c * (2 * (d * d))
      BY <1>1, <1>2, <1>4, <1>7, <1>9, <1>10, Z3
<1> HIDE DEF c
<1>13. c * (2 * (d * d)) =< c * (V * (18 * f + 27 * V))
  <2> DEFINE k == 2 * (d * d)  g == V * (18 * f + 27 * V)
  <2>1. k \in Int /\ g \in Int
        BY <1>1, <1>3, <1>4, Z3
  <2>2. k =< g
        BY <1>1, <1>3, <1>4, <1>5, <1>6, Z3
  <2> HIDE DEF k, g
  <2>3. c * k =< c * g
        BY <1>11, <2>1, <2>2, Z3
  <2>4. QED BY <2>3 DEF k, g
<1>14. 4 * U * ((4 * V * n) * (4 * V * n)) = 64 * (U * (V * V)) * (n * n)
      BY <1>1, <1>2, Z3
<1>15. 4 * (U + 2) * (a * a) = 16 * (U + 2) * (E * E)
      BY <1>1, <1>3, <1>7, Z3
<1>16. 64 * (U * (V * V)) * (n * n) =< 16 * (U + 2) * (E * E) + c * (V * (18 * f + 27 * V))
  <2> DEFINE p == 64 * (U * (V * V)) * (n * n)
             q == 16 * (U + 2) * (E * E)
             r == c * (2 * (d * d))
             s == c * (V * (18 * f + 27 * V))
  <2>1. p \in Int /\ q \in Int /\ r \in Int /\ s \in Int
        BY <1>1, <1>2, <1>3, <1>4, <1>11, Z3
  <2>2. p =< q + r /\ r =< s
        BY <1>12, <1>13, <1>14, <1>15
  <2> HIDE DEF p, q, r, s
  <2>3. p =< q + s
        BY <2>1, <2>2
  <2>4. QED BY <2>3 DEF p, q, s
<1>17. QED BY <1>16 DEF U, V, n, E, f, c

\* The bound that a turn preserves.
Bounded9(m) == m \in Matrix /\ Squares(m) =< 3 * (Unit * Unit) + 13 * Unit

\* The squares of a matrix, added up column by column.
LEMMA SquaresByColumn ==
    ASSUME NEW m \in Matrix
    PROVE  LET c(j) == m[1][j] * m[1][j] + m[2][j] * m[2][j] + m[3][j] * m[3][j]
           IN  /\ Squares(m) = c(1) + c(2) + c(3)
               /\ c(1) \in Int /\ c(2) \in Int /\ c(3) \in Int /\ Squares(m) \in Int
<1> DEFINE a1 == m[1][1]  a2 == m[1][2]  a3 == m[1][3]
           b1 == m[2][1]  b2 == m[2][2]  b3 == m[2][3]
           c1 == m[3][1]  c2 == m[3][2]  c3 == m[3][3]
<1>1. /\ a1 \in Int /\ a2 \in Int /\ a3 \in Int
      /\ b1 \in Int /\ b2 \in Int /\ b3 \in Int
      /\ c1 \in Int /\ c2 \in Int /\ c3 \in Int
      BY ColumnType DEF Ix
<1>2. Squares(m) = (a1 * a1 + a2 * a2 + a3 * a3) + (b1 * b1 + b2 * b2 + b3 * b3)
                   + (c1 * c1 + c2 * c2 + c3 * c3)
      BY DEF Squares, Dot
<1> HIDE DEF a1, a2, a3, b1, b2, b3, c1, c2, c3
<1>3. Squares(m) = (a1 * a1 + b1 * b1 + c1 * c1) + (a2 * a2 + b2 * b2 + c2 * c2)
                   + (a3 * a3 + b3 * b3 + c3 * c3)
      BY <1>1, <1>2, Z3
<1>4. /\ a1 * a1 + b1 * b1 + c1 * c1 \in Int /\ a2 * a2 + b2 * b2 + c2 * c2 \in Int
      /\ a3 * a3 + b3 * b3 + c3 * c3 \in Int /\ Squares(m) \in Int
      BY <1>1, <1>3, Z3
<1>5. QED BY <1>3, <1>4 DEF a1, a2, a3, b1, b2, b3, c1, c2, c3

\* The three entries of a column of a turn's result.
LEMMA ColumnBound ==
    ASSUME NEW m \in Matrix, NEW j \in Ix, Squares(m) =< 4 * (Unit * Unit)
    PROVE  LET n == NewtonSchulz(m)
           IN  64 * (Unit * ((Unit * Unit) * (Unit * Unit)))
                   * (n[1][j] * n[1][j] + n[2][j] * n[2][j] + n[3][j] * n[3][j])
                 =< 64 * (Unit + 2) * ((Unit * Unit) * ((Unit * Unit) * (Unit * Unit)))
                    + (Unit * (Unit + 2)) * ((Unit * Unit) * (18 * Squares(m) + 81 * (Unit * Unit)))
<1> DEFINE U == Unit
           V == U * U
           k == U * (V * V)
           c == U * (U + 2)
           F == Squares(m)
           n1 == NewtonSchulz(m)[1][j]  n2 == NewtonSchulz(m)[2][j]  n3 == NewtonSchulz(m)[3][j]
           E1 == Exact(m, 1, j)  E2 == Exact(m, 2, j)  E3 == Exact(m, 3, j)
           f1 == Dot(m[1], m[1])  f2 == Dot(m[2], m[2])  f3 == Dot(m[3], m[3])
<1>1. U \in Nat /\ V \in Int /\ k \in Int /\ c \in Int
  <2>1. U \in Nat /\ V \in Int BY AlignAssumption
  <2>2. QED BY <2>1, Z3
<1>2. n1 \in Int /\ n2 \in Int /\ n3 \in Int
      BY TurnIs, ColumnType DEF Ix
<1>3. E1 \in Int /\ E2 \in Int /\ E3 \in Int
      BY DefectType DEF Ix
<1>4. f1 \in Int /\ f2 \in Int /\ f3 \in Int /\ F = f1 + f2 + f3
      BY ColumnType, DotType DEF Ix, Squares
<1>5. E1 * E1 + E2 * E2 + E3 * E3 =< 4 * (V * (V * V))
      BY ExactBound
<1>6. /\ 64 * k * (n1 * n1) =< 16 * (U + 2) * (E1 * E1) + c * (V * (18 * f1 + 27 * V))
      /\ 64 * k * (n2 * n2) =< 16 * (U + 2) * (E2 * E2) + c * (V * (18 * f2 + 27 * V))
      /\ 64 * k * (n3 * n3) =< 16 * (U + 2) * (E3 * E3) + c * (V * (18 * f3 + 27 * V))
      BY EntryBound DEF Ix
<1> HIDE DEF U, V, k, c, F, n1, n2, n3, E1, E2, E3, f1, f2, f3
<1> DEFINE S == E1 * E1 + E2 * E2 + E3 * E3
           w1 == c * (V * (18 * f1 + 27 * V))
           w2 == c * (V * (18 * f2 + 27 * V))
           w3 == c * (V * (18 * f3 + 27 * V))
           W == V * (V * V)
<1>7. S \in Int /\ w1 \in Int /\ w2 \in Int /\ w3 \in Int /\ W \in Int
      BY <1>1, <1>3, <1>4, Z3
<1>8. w1 + w2 + w3 = c * (V * (18 * F + 81 * V))
      BY <1>1, <1>4, Z3
<1> HIDE DEF w1, w2, w3
<1>9. 64 * k * (n1 * n1 + n2 * n2 + n3 * n3) =< 16 * (U + 2) * S + (w1 + w2 + w3)
  <2>1. /\ 64 * k * (n1 * n1) =< 16 * (U + 2) * (E1 * E1) + w1
        /\ 64 * k * (n2 * n2) =< 16 * (U + 2) * (E2 * E2) + w2
        /\ 64 * k * (n3 * n3) =< 16 * (U + 2) * (E3 * E3) + w3
        BY <1>6 DEF w1, w2, w3
  <2>2. QED BY <1>1, <1>2, <1>3, <1>7, <2>1, Z3
<1>10. S =< 4 * W
      BY <1>5
<1> HIDE DEF S, W
<1>11. 16 * (U + 2) * S =< 64 * (U + 2) * W
      BY <1>1, <1>7, <1>10, Z3
<1>12. 64 * k * (n1 * n1 + n2 * n2 + n3 * n3) =< 64 * (U + 2) * W + (w1 + w2 + w3)
  <2> DEFINE p == 64 * k * (n1 * n1 + n2 * n2 + n3 * n3)
             q == 16 * (U + 2) * S
             r == 64 * (U + 2) * W
  <2>1. p \in Int /\ q \in Int /\ r \in Int
        BY <1>1, <1>2, <1>7, Z3
  <2>2. p =< q + (w1 + w2 + w3) /\ q =< r
        BY <1>9, <1>11
  <2> HIDE DEF p, q, r
  <2>3. p =< r + (w1 + w2 + w3)
        BY <1>7, <2>1, <2>2
  <2>4. QED BY <2>3 DEF p, r
<1>13. QED BY <1>8, <1>12 DEF U, V, k, c, F, n1, n2, n3, W

\* A positive factor on both sides can be left out.
LEMMA Cancel ==
    ASSUME NEW k \in Nat \ {0}, NEW x \in Int, NEW y \in Int, k * x =< k * y
    PROVE  x =< y
<1>1. k * (y - x) >= 0
      BY Z3
<1>2. y - x \in Int
      OBVIOUS
<1> DEFINE z == y - x
<1> HIDE DEF z
<1>3. z >= 0
      BY <1>1, <1>2, Z3 DEF z
<1>4. QED BY <1>2, <1>3 DEF z

\* The bound on the squares is the bound on the diagonal of the Gram matrix.
LEMMA BoundedTrace ==
    ASSUME NEW m, Bounded9(m)
    PROVE  Gram(m)[1][1] + Gram(m)[2][2] + Gram(m)[3][3] =< 3 * Unit + 14
<1> DEFINE U == Unit
           g1 == Gram(m)[1][1]  g2 == Gram(m)[2][2]  g3 == Gram(m)[3][3]
           c(j) == m[1][j] * m[1][j] + m[2][j] * m[2][j] + m[3][j] * m[3][j]
           c1 == c(1)  c2 == c(2)  c3 == c(3)
<1>1. m \in Matrix /\ Squares(m) =< 3 * (U * U) + 13 * U
      BY DEF Bounded9
<1>2. U \in Nat /\ U >= 40
      BY AlignAssumption
<1>3. ASSUME NEW j \in Ix
      PROVE  /\ Gram(m)[j][j] \in Int
             /\ 2 * (U * Gram(m)[j][j]) =< 2 * c(j) + U
  <2>1. Column(m, j) \in Vector /\ \A i \in Ix : Column(m, j)[i] = m[i][j]
        BY <1>1, ColumnType
  <2>2. Gram(m)[j][j] = v3_dot(Column(m, j), Column(m, j))
        BY <1>1, TransposeType, MulType DEF Gram
  <2>3. Dot(Column(m, j), Column(m, j)) = c(j) /\ Dot(Column(m, j), Column(m, j)) \in Int
        BY <2>1, DotSquare, DotType DEF Ix
  <2>4. Gram(m)[j][j] = Rounded(c(j), U) /\ c(j) \in Int
        BY <2>1, <2>2, <2>3, DotType
  <2> DEFINE gj == Gram(m)[j][j]  cj == c(j)
  <2> HIDE DEF gj, cj
  <2>5. gj = Rounded(cj, U) /\ cj \in Int
        BY <2>4 DEF gj, cj
  <2> HIDE DEF c, U
  <2>6. gj \in Int /\ 2 * (U * gj) =< 2 * cj + U
        BY <1>2, <2>5, RoundedIs
  <2>7. QED BY <2>6 DEF gj, cj
<1>4. /\ c1 \in Int /\ c2 \in Int /\ c3 \in Int /\ c1 + c2 + c3 =< 3 * (U * U) + 13 * U
      BY <1>1, SquaresByColumn
<1>5. /\ g1 \in Int /\ g2 \in Int /\ g3 \in Int
      /\ 2 * (U * g1) =< 2 * c1 + U /\ 2 * (U * g2) =< 2 * c2 + U /\ 2 * (U * g3) =< 2 * c3 + U
      BY <1>3 DEF Ix
<1> DEFINE g == g1 + g2 + g3
<1> HIDE DEF U, g1, g2, g3, c, c1, c2, c3
<1>6. U * (2 * g) =< U * (6 * U + 29)
      BY <1>2, <1>4, <1>5, Z3
<1>7. 2 * g \in Int /\ 6 * U + 29 \in Int
      BY <1>2, <1>5
<1>8. 2 * g =< 6 * U + 29
  <2> DEFINE p == 2 * g  q == 6 * U + 29
  <2> HIDE DEF p, q
  <2>1. p =< q
        BY <1>2, <1>6, <1>7, Cancel DEF p, q
  <2>2. QED BY <2>1 DEF p, q
<1>9. g1 + g2 + g3 =< 3 * U + 14
      BY <1>2, <1>5, <1>8
<1>10. QED BY <1>9 DEF U, g1, g2, g3

\* A turn of sinew_ns30 preserves the bound.
LEMMA TurnBound ==
    ASSUME NEW m, Bounded9(m)
    PROVE  Bounded9(NewtonSchulz(m))
<1> DEFINE U == Unit
           V == U * U
           n == NewtonSchulz(m)
           F == Squares(m)
           G == Squares(n)
           B == 3 * V + 13 * U
           Q == V * V
           c(j) == n[1][j] * n[1][j] + n[2][j] * n[2][j] + n[3][j] * n[3][j]
           c1 == c(1)  c2 == c(2)  c3 == c(3)
           R == 64 * (U + 2) * (V * (V * V)) + (U * (U + 2)) * (V * (18 * F + 81 * V))
<1>1. m \in Matrix /\ F =< B
      BY DEF Bounded9
<1>2. n \in Matrix
      BY <1>1, TurnIs
<1>3. U \in Nat /\ U >= 40 /\ V \in Int /\ V >= 40 * U /\ B \in Int
  <2>1. U \in Nat /\ U >= 40 BY AlignAssumption
  <2>2. QED BY <2>1, Z3
<1>4. F \in Int /\ G \in Int /\ c1 \in Int /\ c2 \in Int /\ c3 \in Int /\ G = c1 + c2 + c3
      BY <1>1, <1>2, SquaresByColumn
<1>5. F =< 4 * V
  <2> HIDE DEF U, V, F
  <2>1. QED BY <1>1, <1>3, <1>4, Z3
<1>6. 64 * (U * Q) * c1 =< R /\ 64 * (U * Q) * c2 =< R /\ 64 * (U * Q) * c3 =< R
      BY <1>1, <1>5, ColumnBound, SMTT(20) DEF Ix
<1>7. R \in Int /\ Q \in Int /\ Q > 0
  <2> HIDE DEF U, F
  <2>1. QED BY <1>3, <1>4, Z3
<1>8. 64 * (U * Q) * G =< 3 * R
  <2> DEFINE K == 64 * (U * Q)
  <2>1. K \in Int
        BY <1>3, <1>7, Z3
  <2> HIDE DEF U, V, Q, R, G, F, c, c1, c2, c3, K
  <2>2. K * c1 =< R /\ K * c2 =< R /\ K * c3 =< R
        BY <1>6 DEF K
  <2>3. K * (c1 + c2 + c3) =< 3 * R
        BY <1>4, <1>7, <2>1, <2>2, Z3
  <2>4. QED BY <1>4, <2>3 DEF K
<1>9. 3 * R =< Q * (192 * (U + 2) * V + (U + 2) * (405 * U + 702))
  <2> DEFINE A == U * (U + 2) * V
  <2> HIDE DEF U, F
  <2>1. A \in Int /\ A >= 0
        BY <1>3, Z3
  <2>2. A * (54 * F + 243 * V) =< A * (405 * V + 702 * U)
    <3> DEFINE x == 54 * F + 243 * V  y == 405 * V + 702 * U
    <3>1. x \in Int /\ y \in Int /\ x =< y
          BY <1>1, <1>3, <1>4, Z3
    <3> HIDE DEF x, y, A
    <3>2. A * x =< A * y
          BY <2>1, <3>1, Z3
    <3>3. QED BY <3>2 DEF x, y
  <2>3. 3 * R = 192 * (U + 2) * (V * (V * V)) + A * (54 * F + 243 * V)
        BY <1>3, <1>4, Z3
  <2>4. 192 * (U + 2) * (V * (V * V)) + A * (405 * V + 702 * U)
           = Q * (192 * (U + 2) * V + (U + 2) * (405 * U + 702))
        BY <1>3, Z3
  <2> DEFINE p == 192 * (U + 2) * (V * (V * V))
             q == A * (54 * F + 243 * V)
             r == A * (405 * V + 702 * U)
  <2>5. p \in Int /\ q \in Int /\ r \in Int
        BY <1>3, <1>4, Z3
  <2>6. 3 * R = p + q /\ q =< r /\ p + r = Q * (192 * (U + 2) * V + (U + 2) * (405 * U + 702))
        BY <2>2, <2>3, <2>4
  <2> HIDE DEF p, q, r, R
  <2>7. 3 * R =< p + r
        BY <2>5, <2>6
  <2>8. QED BY <2>6, <2>7
<1> DEFINE T == 192 * (U + 2) * V + (U + 2) * (405 * U + 702)
<1>10. T \in Int /\ T =< 64 * U * B
  <2> HIDE DEF U
  <2>1. 43 * V - 1512 * U - 1404 >= 0
        BY <1>3, Z3
  <2>2. 64 * U * B - T = 43 * V - 1512 * U - 1404
        BY <1>3, Z3
  <2>3. T \in Int /\ 64 * U * B \in Int
        BY <1>3, Z3
  <2>4. QED BY <2>1, <2>2, <2>3, Z3
<1>11. (64 * U) * G =< T
  <2> HIDE DEF U, V, Q, R, G, T
  <2>1. 64 * (U * Q) * G = Q * ((64 * U) * G) /\ (64 * U) * G \in Int
        BY <1>3, <1>4, <1>7, Z3
  <2>2. 3 * R =< Q * T
        BY <1>9 DEF T
  <2>3. Q * ((64 * U) * G) =< Q * T
    <3> DEFINE x == Q * ((64 * U) * G)  y == Q * T
    <3>1. x \in Int /\ y \in Int
          BY <1>7, <1>10, <2>1, Z3
    <3>2. x =< 3 * R /\ 3 * R =< y
          BY <1>8, <2>1, <2>2
    <3> HIDE DEF x, y
    <3>3. x =< y
          BY <1>7, <3>1, <3>2
    <3>4. QED BY <3>3 DEF x, y
  <2> DEFINE g == (64 * U) * G
  <2> HIDE DEF g
  <2>4. g \in Int /\ Q * g =< Q * T /\ Q \in Nat \ {0}
        BY <1>7, <2>1, <2>3 DEF g
  <2>5. g =< T
        BY <1>10, <2>4, Cancel
  <2>6. QED BY <2>5 DEF g
<1>12. G =< B
  <2> DEFINE W == 64 * U
  <2>1. W \in Nat \ {0}
        BY <1>3
  <2> HIDE DEF U, G, B, T
  <2>2. W * B \in Int /\ W * G \in Int /\ T =< W * B /\ W * G =< T
        BY <1>3, <1>4, <1>10, <1>11, Z3
  <2> HIDE DEF W
  <2>3. W * G =< W * B
        BY <1>10, <2>2, Z3
  <2>4. QED BY <1>3, <1>4, <2>1, <2>3, Cancel
<1>13. QED BY <1>2, <1>12 DEF Bounded9

\* No row of the scaled matrix is longer than 1, but for its rounding.
LEMMA ScaledRow ==
    ASSUME NEW x \in Vector, NEW s \in Nat \ {0}, RowLength(x) =< s
    PROVE  /\ v3_scale(x, Unit, s) \in Vector
           /\ RowLength(v3_scale(x, Unit, s)) =< Unit + 1
<1> DEFINE U == Unit
           y == v3_scale(x, U, s)
           S(k) == 2 * (s * Abs(y[k])) =< 2 * (U * Abs(x[k])) + s
<1>1. U \in Nat /\ x[1] \in Int /\ x[2] \in Int /\ x[3] \in Int
      BY AlignAssumption DEF Vector, Ix
<1>2. ASSUME NEW a \in Int
      PROVE  LET r == Rounded(a * U, s)
             IN  r \in Int /\ 2 * (s * Abs(r)) =< 2 * (U * Abs(a)) + s
  <2> DEFINE r == Rounded(a * U, s)
             e == a * U
  <2>1. e \in Int /\ Abs(a) \in Nat /\ a =< Abs(a) /\ -a =< Abs(a)
        BY <1>1, SquareAbs
  <2>2. e =< U * Abs(a) /\ -e =< U * Abs(a)
    <3> DEFINE b == Abs(a)
    <3> HIDE DEF b
    <3>1. b \in Nat /\ a =< b /\ -a =< b
          BY <2>1 DEF b
    <3>2. U * (b - a) >= 0 /\ U * (b + a) >= 0
          BY <1>1, <3>1, Z3
    <3>3. e =< U * b /\ -e =< U * b
          BY <1>1, <3>1, <3>2, Z3
    <3>4. QED BY <3>3 DEF b
  <2>3. r \in Int /\ 2 * (s * r) =< 2 * e + s /\ 2 * (s * r) >= 2 * e - s
    <3> HIDE DEF e
    <3>1. r = Rounded(e, s) BY DEF e
    <3> HIDE DEF r
    <3>2. QED BY <2>1, <3>1, RoundedIs
  <2> DEFINE w == U * Abs(a)
  <2>4. w \in Int /\ e =< w /\ -e =< w
        BY <1>1, <2>1, <2>2
  <2> HIDE DEF r, e, w
  <2>5. CASE r < 0
    <3>1. Abs(r) = -r
          BY <2>5 DEF Abs
    <3>2. s * (-r) = -(s * r)
          BY <2>3, Z3
    <3>3. 2 * (s * Abs(r)) =< 2 * w + s
          BY <2>1, <2>3, <2>4, <3>1, <3>2, Z3
    <3>4. QED BY <2>3, <3>3 DEF w, r, e
  <2>6. CASE ~ (r < 0)
    <3>1. Abs(r) = r
          BY <2>6 DEF Abs
    <3>3. 2 * (s * Abs(r)) =< 2 * w + s
          BY <2>1, <2>3, <2>4, <3>1, Z3
    <3>4. QED BY <2>3, <3>3 DEF w, r, e
  <2>7. QED BY <2>5, <2>6
<1>3. y[1] = Rounded(x[1] * U, s) /\ y[2] = Rounded(x[2] * U, s) /\ y[3] = Rounded(x[3] * U, s)
      BY DEF v3_scale
<1>4. y[1] \in Int /\ y[2] \in Int /\ y[3] \in Int /\ S(1) /\ S(2) /\ S(3)
      BY <1>1, <1>2, <1>3
<1>5. y \in Vector
      BY <1>3, <1>4, VectorOf DEF v3_scale
<1> DEFINE a1 == Abs(x[1])  a2 == Abs(x[2])  a3 == Abs(x[3])
           b1 == Abs(y[1])  b2 == Abs(y[2])  b3 == Abs(y[3])
<1>6. a1 \in Nat /\ a2 \in Nat /\ a3 \in Nat /\ b1 \in Nat /\ b2 \in Nat /\ b3 \in Nat
      BY <1>1, <1>4, SquareAbs, Zenon
<1>7. /\ 2 * (s * b1) =< 2 * (U * a1) + s /\ 2 * (s * b2) =< 2 * (U * a2) + s
      /\ 2 * (s * b3) =< 2 * (U * a3) + s /\ a1 + a2 + a3 =< s
      BY <1>4 DEF RowLength
<1> DEFINE l == b1 + b2 + b3
<1> HIDE DEF a1, a2, a3, b1, b2, b3, U
<1>8. U * (a1 + a2 + a3) =< U * s
      BY <1>1, <1>6, <1>7, Z3
<1>9. s * (2 * l) =< s * (2 * U + 3)
      BY <1>1, <1>6, <1>7, <1>8, Z3
<1>10. 2 * l =< 2 * U + 3
  <2>1. 2 * l \in Int /\ 2 * U + 3 \in Int
        BY <1>1, <1>6
  <2> DEFINE p == 2 * l  q == 2 * U + 3
  <2> HIDE DEF p, q
  <2>2. p =< q
        BY <1>9, <2>1, Cancel DEF p, q
  <2>3. QED BY <2>2 DEF p, q
<1>11. l =< U + 1
      BY <1>1, <1>6, <1>10
<1>12. QED BY <1>5, <1>11 DEF RowLength, U, b1, b2, b3

\* sinew_ns30's scaling establishes the bound, whatever the covariance is.
LEMMA ScaledBound ==
    ASSUME NEW m \in Matrix
    PROVE  Bounded9(Scaled(m))
<1> DEFINE s == RowSum(m) + EPS
           n == Scaled(m)
<1>1. \A i \in Ix : m[i] \in Vector /\ RowLength(m[i]) \in Nat
      BY RowLengthIs, SMTT(20) DEF Matrix
<1>2. RowSum(m) \in Nat /\ \A i \in Ix : RowLength(m[i]) =< RowSum(m)
      BY <1>1 DEF RowSum, RowLength, Larger, Ix
<1>3. s \in Nat \ {0} /\ \A i \in Ix : RowLength(m[i]) =< s
      BY <1>1, <1>2, AlignAssumption
<1>4. n = Scale9(m, Unit, s)
      BY DEF Scaled
<1> HIDE DEF s
<1>5. \A i \in Ix : n[i] = v3_scale(m[i], Unit, s)
      BY <1>4 DEF Scale9, Ix
<1>6. n \in Matrix
      BY <1>3, <1>4, Scale9Type, AlignAssumption
<1> DEFINE U == Unit
<1>7. \A i \in Ix : n[i] \in Vector /\ RowLength(n[i]) =< U + 1
      BY <1>1, <1>3, <1>5, ScaledRow
<1>8. U \in Nat /\ U >= 40
      BY AlignAssumption
<1> HIDE DEF n, U
<1>9. ASSUME NEW i \in Ix PROVE Dot(n[i], n[i]) \in Int /\ Dot(n[i], n[i]) =< (U + 1) * (U + 1)
  <2> DEFINE l == RowLength(n[i])  f == Dot(n[i], n[i])
  <2>1. l \in Nat /\ l =< U + 1 /\ f \in Int /\ f =< l * l
        BY <1>7, RowLengthIs, DotType
  <2> HIDE DEF l, f
  <2>2. f =< (U + 1) * (U + 1)
        BY <1>8, <2>1, Z3
  <2>3. QED BY <2>1, <2>2 DEF f
<1> DEFINE f1 == Dot(n[1], n[1])  f2 == Dot(n[2], n[2])  f3 == Dot(n[3], n[3])
<1>10. /\ f1 \in Int /\ f2 \in Int /\ f3 \in Int /\ Squares(n) = f1 + f2 + f3
       /\ f1 =< (U + 1) * (U + 1) /\ f2 =< (U + 1) * (U + 1) /\ f3 =< (U + 1) * (U + 1)
      BY <1>9 DEF Ix, Squares
<1> HIDE DEF f1, f2, f3
<1>11. f1 + f2 + f3 =< 3 * (U * U) + 13 * U
      BY <1>8, <1>10, Z3
<1>12. QED BY <1>6, <1>10, <1>11 DEF Bounded9, U, n

\* The length of a vector is a natural number.
LEMMA NormType ==
    ASSUME NEW a \in Vector
    PROVE  v3_norm(a) \in Nat
<1>1. Dot(a, a) \in Nat /\ v3_norm(a) = Sqrt(Dot(a, a))
      BY DotType, DotSquare DEF v3_norm, Dot
<1>2. QED BY <1>1, SqrtIs

\* Only the zero vector has no length.
LEMMA NormPositive ==
    ASSUME NEW a \in Vector, a # Zero3
    PROVE  v3_norm(a) \in Nat \ {0}
<1> DEFINE x == a[1]  y == a[2]  z == a[3]
<1>1. x \in Int /\ y \in Int /\ z \in Int
      BY DEF Vector, Ix
<1>2. x # 0 \/ y # 0 \/ z # 0
      BY DEF Zero3, Vector, Ix
<1>3. v3_norm(a) = Sqrt(x * x + y * y + z * z)
      BY DEF v3_norm
<1> HIDE DEF x, y, z
<1> DEFINE n == x * x + y * y + z * z
<1>4. n \in Nat \ {0}
  <2>1. x * x >= 0 /\ y * y >= 0 /\ z * z >= 0
        BY <1>1, Z3
  <2>2. (x # 0 => x * x > 0) /\ (y # 0 => y * y > 0) /\ (z # 0 => z * z > 0)
        BY <1>1, Z3
  <2>3. QED BY <1>1, <1>2, <2>1, <2>2, Z3
<1> HIDE DEF n
<1>5. Sqrt(n) \in Nat /\ Sqrt(n) > 0
      BY <1>4, SqrtIs
<1>6. QED BY <1>3, <1>5 DEF n

\* A cross product of vectors is a vector.
LEMMA CrossType ==
    ASSUME NEW a \in Vector, NEW b \in Vector
    PROVE  v3_cross(a, b) \in Vector
<1>1. a[1] \in Int /\ a[2] \in Int /\ a[3] \in Int /\ b[1] \in Int /\ b[2] \in Int /\ b[3] \in Int
      BY DEF Vector, Ix
<1>2. /\ a[2] * b[3] - a[3] * b[2] \in Int /\ a[3] * b[1] - a[1] * b[3] \in Int
      /\ a[1] * b[2] - a[2] * b[1] \in Int
      BY <1>1
<1>3. \A x \in Int : Rounded(x, Unit) \in Int
      BY RoundedIs, AlignAssumption
<1> DEFINE p == a[2] * b[3] - a[3] * b[2]  q == a[3] * b[1] - a[1] * b[3]
           r == a[1] * b[2] - a[2] * b[1]
<1>4. v3_cross(a, b) = <<Rounded(p, Unit), Rounded(q, Unit), Rounded(r, Unit)>>
      BY DEF v3_cross
<1> HIDE DEF p, q, r
<1>5. p \in Int /\ q \in Int /\ r \in Int
      BY <1>2 DEF p, q, r
<1>6. QED BY <1>3, <1>4, <1>5, VectorOf

\* A scaled vector is one, entry by entry, if the divisor is positive.
LEMMA ScaleType ==
    ASSUME NEW a \in Vector, NEW s \in Int, NEW t \in Nat \ {0}
    PROVE  /\ v3_scale(a, s, t) \in Vector
           /\ \A k \in Ix : v3_scale(a, s, t)[k] = Rounded(a[k] * s, t)
<1>1. a[1] * s \in Int /\ a[2] * s \in Int /\ a[3] * s \in Int
      BY DEF Vector, Ix
<1>2. \A x \in Int : Rounded(x, t) \in Int
      BY RoundedIs
<1> DEFINE p == a[1] * s  q == a[2] * s  r == a[3] * s
<1>3. v3_scale(a, s, t) = <<Rounded(p, t), Rounded(q, t), Rounded(r, t)>>
      BY DEF v3_scale
<1>4. \A k \in Ix : v3_scale(a, s, t)[k] = Rounded(a[k] * s, t)
      BY DEF v3_scale, Ix
<1> HIDE DEF p, q, r
<1>5. p \in Int /\ q \in Int /\ r \in Int
      BY <1>1 DEF p, q, r
<1>6. QED BY <1>2, <1>3, <1>4, <1>5, VectorOf

\* The normal that finish_align adds divides by a length plus EPS.
LEMMA NormalType ==
    ASSUME NEW a \in Vector, NEW b \in Vector
    PROVE  Normal(a, b) \in Vector
<1>1. v3_cross(a, b) \in Vector /\ v3_norm(a) \in Nat /\ v3_norm(v3_cross(a, b)) \in Nat
      BY CrossType, NormType
<1>2. v3_norm(v3_cross(a, b)) + EPS \in Nat \ {0}
      BY <1>1, AlignAssumption
<1>3. QED BY <1>1, <1>2, ScaleType DEF Normal

\* The sum of outer products, of the pairs and of the normals.
LEMMA PlusOuterType ==
    ASSUME NEW m \in Matrix, NEW a \in Vector, NEW b \in Vector
    PROVE  Plus(m, Outer(a, b)) \in Matrix
<1>1. \A i, j \in Ix : a[i] * b[j] \in Int
      BY DEF Vector
<1>2. \A i, j \in Ix : Times(a[i], b[j]) \in Int
      BY <1>1, RoundedIs, AlignAssumption DEF Times
<1>3. \A i, j \in Ix : m[i][j] \in Int
      BY ColumnType
<1>4. \A i, j \in Ix : m[i][j] + Outer(a, b)[i][j] \in Int
      BY <1>2, <1>3 DEF Outer
<1>5. QED BY <1>4 DEF Plus, Matrix, Vector

\* With or without normals, the covariance is a matrix.
LEMMA WithNormalsType ==
    ASSUME NEW m \in Matrix, NEW a0 \in Vector, NEW a1 \in Vector, NEW b0 \in Vector, NEW b1 \in Vector
    PROVE  WithNormals(m, a0, a1, b0, b1) \in Matrix
  BY NormalType, PlusOuterType DEF WithNormals

\* So it is with a bump on its diagonal.
LEMMA RegularizeType ==
    ASSUME NEW m \in Matrix
    PROVE  sinew_regularize(m) \in Matrix
<1> DEFINE scale == Larger(RowSum(m), EPS)
           add   == IF sinew_det9(m) = 0 THEN Rounded(scale, 20) ELSE 0
<1>1. \A i, j \in Ix : m[i] \in Vector /\ m[i][j] \in Int
      BY ColumnType
<1>2. scale \in Int
  <2>1. RowSum(m) \in Int
        BY <1>1, RowLengthIs DEF RowSum, RowLength, Larger, Ix
  <2>2. QED BY <2>1, AlignAssumption DEF Larger
<1>3. add \in Int
      BY <1>2, RoundedIs
<1>4. sinew_regularize(m) = [i \in Ix |-> [m[i] EXCEPT ![i] = @ + add]]
      BY DEF sinew_regularize
<1> HIDE DEF add
<1>5. \A i \in Ix : [m[i] EXCEPT ![i] = @ + add] \in Vector
      BY <1>1, <1>3 DEF Vector
<1>6. QED BY <1>4, <1>5, Zenon DEF Matrix

\* An input is a vector.
LEMMA InputType == \A v \in Input : v \in Vector
  BY DEF Input

\* The first and the second vector of a list, or zero.
LEMMA NthType ==
    ASSUME NEW l \in Seq(Input), NEW k \in Nat \ {0}
    PROVE  Nth(l, k) \in Input /\ Nth(l, k) \in Vector
<1>1. Zero3 \in Input
  <2>1. Zero3 \in Vector
        BY VectorOf DEF Zero3
  <2>2. \A i \in Ix : Zero3[i] = 0
        BY DEF Zero3, Ix
  <2>3. QED BY <2>1, <2>2 DEF Input
<1>2. CASE k =< Len(l)
  <2>1. k \in 1 .. Len(l)
        BY <1>2
  <2>2. QED BY <1>2, <2>1, InputType DEF Nth
<1>3. CASE ~ (k =< Len(l))
      BY <1>1, <1>3, InputType DEF Nth
<1>4. QED BY <1>2, <1>3

-----------------------------------------------------------------------------
(* Every quotient is defined: what the code divides by is never zero.      *)

\* The matrices that are written out, and the sum of two.
LEMMA MatrixForms ==
    /\ Identity \in Matrix /\ Zero9 \in Matrix
    /\ \A m, n \in Matrix : Plus(m, n) \in Matrix
    /\ \A m \in Matrix : NegateLastColumn(m) \in Matrix /\ Gram(m) \in Matrix
<1>1. Unit \in Int
      BY AlignAssumption
<1>2. Identity \in Matrix
      BY <1>1 DEF Identity, Matrix, Vector
<1>3. Zero9 \in Matrix
      BY VectorOf, MatrixOf DEF Zero9, Zero3
<1>4. ASSUME NEW m \in Matrix, NEW n \in Matrix PROVE Plus(m, n) \in Matrix
  <2>1. \A i, j \in Ix : m[i][j] \in Int /\ n[i][j] \in Int
        BY ColumnType
  <2>2. \A i, j \in Ix : m[i][j] + n[i][j] \in Int
        BY <2>1
  <2>3. QED BY <2>2 DEF Plus, Matrix, Vector
<1>5. ASSUME NEW m \in Matrix PROVE NegateLastColumn(m) \in Matrix /\ Gram(m) \in Matrix
  <2>1. \A i, j \in Ix : m[i] \in Vector /\ m[i][j] \in Int /\ 3 \in Ix
        BY ColumnType DEF Ix
  <2>2. \A i \in Ix : [m[i] EXCEPT ![3] = -@] \in Vector
        BY <2>1 DEF Vector
  <2>3. NegateLastColumn(m) \in Matrix
        BY <2>2 DEF NegateLastColumn, Matrix
  <2>4. QED BY <2>3, TransposeType, MulType DEF Gram
<1>6. QED BY <1>2, <1>3, <1>4, <1>5

\* No entry of a normalised input is above 1: an entry is a whole number, so it is
\* at most the integer part of the length.
LEMMA UnitaryIs ==
    ASSUME NEW a \in Vector
    PROVE  /\ Unitary(a) \in Vector
           /\ a \in Input => Unitary(a)[1] =< Unit /\ -Unitary(a)[1] =< Unit
<1> DEFINE U == Unit
           M == Larger(v3_norm(a), EPS)
           N == v3_norm(a)
           n == Dot(a, a)
           x == a[1]
           u == Unitary(a)[1]
<1>1. U \in Nat /\ U >= 40 /\ N \in Nat /\ M \in Nat \ {0} /\ N =< M
      BY NormType, AlignAssumption DEF Larger
<1>2. Unitary(a) = v3_scale(a, U, M)
      BY DEF Unitary
<1> HIDE DEF M
<1>3. Unitary(a) \in Vector /\ u = Rounded(x * U, M)
      BY <1>1, <1>2, ScaleType DEF Ix
<1>4. ASSUME a \in Input PROVE u =< U /\ -u =< U
  <2> DEFINE y == a[2]  z == a[3]
  <2>1. x \in Int /\ y \in Int /\ z \in Int /\ u \in Int
        BY <1>3 DEF Vector, Ix
  <2>2. x =< 37000 /\ x >= -37000 /\ y =< 37000 /\ y >= -37000 /\ z =< 37000 /\ z >= -37000
        BY <1>4 DEF Input, Ix
  <2>3. n \in Nat /\ n = x * x + y * y + z * z
        BY DotType, DotSquare
  <2>4. N = Sqrt(n)
        BY DEF v3_norm, Dot
  <2> HIDE DEF x, y, z, n, N, u, U
  <2>5. x * x =< 37000 * 37000 /\ y * y =< 37000 * 37000 /\ z * z =< 37000 * 37000
        BY <2>1, <2>2, SquareAtMost
  <2>6. n < 65536 * 65536
        BY <2>1, <2>3, <2>5, Z3
  <2>7. n < (N + 1) * (N + 1)
        BY <2>3, <2>4, <2>6, SqrtIs
  <2>8. x * x =< n
        BY <2>1, <2>3, Z3
  <2>9. x =< N /\ -x =< N
        BY <1>1, <2>1, <2>3, <2>7, <2>8, Z3
  <2>10. x =< M /\ -x =< M
        BY <1>1, <2>1, <2>9
  <2>11. x * U \in Int /\ x * U =< M * U /\ -(x * U) =< M * U
        BY <1>1, <2>1, <2>10, Z3
  <2> DEFINE e == x * U
  <2>12. u = Rounded(e, M) /\ e \in Int /\ e =< M * U /\ -e =< M * U
        BY <1>3, <2>11 DEF u, x, U
  <2> HIDE DEF e
  <2>13. 2 * (M * u) =< 2 * e + M /\ 2 * (M * u) >= 2 * e - M
        BY <1>1, <2>12, RoundedIs
  <2>14. M * (2 * u) =< M * (2 * U + 1) /\ M * (2 * (-u)) =< M * (2 * U + 1)
        BY <1>1, <2>1, <2>12, <2>13, Z3
  <2>15. 2 * u =< 2 * U + 1 /\ 2 * (-u) =< 2 * U + 1
    <3> DEFINE p == 2 * u
               q == 2 * (-u)
               r == 2 * U + 1
    <3>1. p \in Int /\ q \in Int /\ r \in Int
          BY <1>1, <2>1
    <3> HIDE DEF p, q, r
    <3>2. p =< r /\ q =< r
          BY <1>1, <2>14, <3>1, Cancel DEF p, q, r
    <3>3. QED BY <3>2 DEF p, q, r
  <2>16. QED BY <1>1, <2>1, <2>15
<1>5. QED BY <1>3, <1>4

\* sinew_rodrigues, the half turn: the axis it divides by the length of is not
\* zero, for no vector on the first axis with a cosine of -1 has a first entry of
\* 0.6 or less.
LEMMA HalfTurnType ==
    ASSUME NEW au \in Vector, NEW bu \in Vector,
           au[1] =< Unit, -au[1] =< Unit, Clamp(v3_dot(au, bu)) < -Unit + Small
    PROVE  HalfTurn(bu) \in Matrix
<1> DEFINE U == Unit
           w  == IF 10 * Abs(bu[1]) > 6 * U THEN <<0, U, 0>> ELSE <<U, 0, 0>>
           x0 == v3_cross(bu, w)
           x  == v3_scale(x0, U, v3_norm(x0))
           b1 == bu[1]  b2 == bu[2]  b3 == bu[3]
<1>1. U \in Nat /\ U >= 40 /\ b1 \in Int /\ b2 \in Int /\ b3 \in Int
      BY AlignAssumption DEF Vector, Ix
<1>2. w \in Vector
      BY <1>1, VectorOf
<1>3. ASSUME NEW y \in Int PROVE Rounded(y * U, U) = y
  <2> DEFINE e == y * U
             r == Rounded(e, U)
  <2>1. e \in Int
        BY <1>1
  <2>2. r \in Int /\ 2 * (U * r) =< 2 * e + U /\ 2 * (U * r) >= 2 * e - U
    <3> HIDE DEF e
    <3>1. U \in Nat \ {0} /\ r = Rounded(e, U)
          BY <1>1
    <3> HIDE DEF r, U
    <3>2. QED BY <2>1, <3>1, RoundedIs
  <2> HIDE DEF r
  <2>3. U * (2 * r) =< U * (2 * y + 1) /\ U * (2 * y - 1) =< U * (2 * r)
        BY <1>1, <2>2, Z3
  <2> DEFINE p == 2 * r  q == 2 * y + 1  s == 2 * y - 1
  <2>4. p \in Int /\ q \in Int /\ s \in Int
        BY <2>2
  <2> HIDE DEF p, q, s
  <2>5. p =< q /\ s =< p
        BY <1>1, <2>3, <2>4, Cancel DEF p, q, s
  <2>6. 2 * r =< 2 * y + 1 /\ 2 * y - 1 =< 2 * r
        BY <2>5 DEF p, q, s
  <2>7. QED BY <2>2, <2>6 DEF r
<1>4. x0 \in Vector /\ x0 # Zero3
  <2>1. CASE 10 * Abs(b1) > 6 * U
    <3>1. w = <<0, U, 0>> /\ b1 # 0
          BY <1>1, <2>1 DEF Abs
    <3>2. x0[3] = Rounded(b1 * U - b2 * 0, U)
          BY <3>1 DEF v3_cross
    <3>3. b1 * U - b2 * 0 = b1 * U
          BY <1>1
    <3>4. x0[3] = b1
          BY <1>1, <1>3, <3>2, <3>3
    <3>5. QED BY <1>2, <3>1, <3>4, CrossType DEF Zero3
  <2>2. CASE ~ (10 * Abs(b1) > 6 * U)
    <3>1. w = <<U, 0, 0>>
          BY <2>2
    <3>2. x0[2] = Rounded(b3 * U - b1 * 0, U) /\ x0[3] = Rounded(b1 * 0 - b2 * U, U)
          BY <3>1 DEF v3_cross
    <3>3. b3 * U - b1 * 0 = b3 * U /\ b1 * 0 - b2 * U = (-b2) * U
          BY <1>1
    <3>4. x0[2] = b3 /\ x0[3] = -b2
          BY <1>1, <1>3, <3>2, <3>3
    <3>5. ASSUME b2 = 0, b3 = 0 PROVE FALSE
      <4> DEFINE a1 == au[1]
                 p == a1 * b1
                 d == v3_dot(au, bu)
      <4>1. a1 \in Int /\ au[2] \in Int /\ au[3] \in Int /\ a1 =< U /\ -a1 =< U
            BY DEF Vector, Ix
      <4>2. p \in Int /\ Dot(au, bu) = p
            BY <1>1, <3>5, <4>1 DEF Dot
      <4>3. d \in Int /\ d = Rounded(p, U)
            BY <4>2, DotType
      <4>4. 10 * b1 =< 6 * U /\ -(10 * b1) =< 6 * U
            BY <1>1, <2>2 DEF Abs
      <4> HIDE DEF a1, b1, d
      <4>5. 10 * p >= -(6 * (U * U))
        <5>1. (U - a1) * (6 * U - 10 * b1) >= 0 /\ (U + a1) * (6 * U + 10 * b1) >= 0
              BY <1>1, <4>1, <4>4, Z3
        <5>2. QED BY <1>1, <4>1, <5>1, Z3
      <4> HIDE DEF p
      <4>6. 2 * (U * d) >= 2 * p - U
            BY <1>1, <4>2, <4>3, RoundedIs
      <4>7. U * (-(12 * U) - 10) =< U * (20 * d)
            BY <1>1, <4>2, <4>3, <4>5, <4>6, Z3
      <4>8. -(12 * U) - 10 =< 20 * d
        <5> DEFINE q == -(12 * U) - 10  r == 20 * d
        <5>1. q \in Int /\ r \in Int
              BY <1>1, <4>3
        <5> HIDE DEF q, r
        <5>2. q =< r
              BY <1>1, <4>7, <5>1, Cancel DEF q, r
        <5>3. QED BY <5>2 DEF q, r
      <4>9. d >= -U + Small /\ Small \in Nat /\ Small =< U
            BY <1>1, <4>3, <4>8, AlignAssumption
      <4>10. Clamp(d) >= -U + Small
            BY <1>1, <4>3, <4>9 DEF Clamp
      <4>11. Clamp(d) \in Int
            BY <1>1, <4>3 DEF Clamp
      <4>12. QED BY <1>1, <4>9, <4>10, <4>11 DEF d
    <3>6. x0[2] # 0 \/ x0[3] # 0
          BY <1>1, <3>4, <3>5
    <3>7. QED BY <1>2, <3>6, CrossType DEF Zero3
  <2>3. QED BY <2>1, <2>2
<1> HIDE DEF x0
<1>5. v3_norm(x0) \in Nat \ {0}
      BY <1>4, NormPositive
<1>6. x \in Vector
      BY <1>1, <1>4, <1>5, ScaleType, SMTT(20)
<1>7. HalfTurn(bu) = [i \in Ix |-> [j \in Ix |-> Rounded(2 * x[i] * x[j], U) - Identity[i][j]]]
      BY DEF HalfTurn, x0
<1> HIDE DEF x
<1>8. \A i, j \in Ix : 2 * x[i] * x[j] \in Int /\ Identity[i][j] \in Int
      BY <1>6, MatrixForms, ColumnType DEF Vector
<1>9. \A i, j \in Ix : Rounded(2 * x[i] * x[j], U) \in Int
      BY <1>1, <1>8, RoundedIs
<1>10. \A i, j \in Ix : Rounded(2 * x[i] * x[j], U) - Identity[i][j] \in Int
      BY <1>8, <1>9
<1>11. QED BY <1>7, <1>10 DEF Matrix, Vector

\* And the other branch divides by 1 + cos, which is at least Small.
LEMMA RodriguesType ==
    ASSUME NEW a \in Input, NEW b \in Input
    PROVE  sinew_rodrigues(a, b) \in Matrix
<1> DEFINE au == Unitary(a)  bu == Unitary(b)
           d  == Clamp(v3_dot(au, bu))
           v  == v3_cross(bu, au)
           k  == <<<<0, -v[3], v[2]>>, <<v[3], 0, -v[1]>>, <<-v[2], v[1], 0>>>>
           kk == sinew_mul9(k, k)
           f  == Over(Unit, Unit + d)
<1>1. au \in Vector /\ bu \in Vector /\ au[1] =< Unit /\ -au[1] =< Unit
      BY InputType, UnitaryIs, ZenonT(30)
<1>2. sinew_rodrigues(a, b) = IF d < -Unit + Small THEN HalfTurn(bu)
                              ELSE Plus(Identity, Plus(k, Scale9(kk, f, Unit)))
      BY DEF sinew_rodrigues
<1> HIDE DEF au, bu
<1>3. Unit \in Nat \ {0} /\ Small \in Nat \ {0}
      BY AlignAssumption
<1>4. d \in Int
      BY <1>1, <1>3, DotType DEF Clamp
<1>5. CASE d < -Unit + Small
      BY <1>1, <1>2, <1>5, HalfTurnType
<1>6. CASE ~ (d < -Unit + Small)
  <2>1. Unit + d \in Nat \ {0} /\ Unit * Unit \in Int
        BY <1>3, <1>4, <1>6
  <2>2. f \in Int
        BY <2>1, RoundedIs DEF Over
  <2>3. v \in Vector
        BY <1>1, CrossType
  <2>4. v[1] \in Int /\ v[2] \in Int /\ v[3] \in Int
        BY <2>3 DEF Vector, Ix
  <2> HIDE DEF v, d, f
  <2>5. k \in Matrix
    <3>1. -v[1] \in Int /\ -v[2] \in Int /\ -v[3] \in Int
          BY <2>4
    <3>2. /\ <<0, -v[3], v[2]>> \in Vector /\ <<v[3], 0, -v[1]>> \in Vector
          /\ <<-v[2], v[1], 0>> \in Vector
          BY <2>4, <3>1, VectorOf
    <3>3. QED BY <3>2, MatrixOf
  <2> HIDE DEF k
  <2>6. kk \in Matrix
        BY <2>5, MulType
  <2> HIDE DEF kk
  <2>7. Scale9(kk, f, Unit) \in Matrix
        BY <1>3, <2>2, <2>6, Scale9Type
  <2>8. Plus(Identity, Plus(k, Scale9(kk, f, Unit))) \in Matrix
        BY <2>5, <2>7, MatrixForms
  <2>9. QED BY <1>2, <1>6, <2>8
<1>7. QED BY <1>5, <1>6

\* sinew_jacobi9: the lengths that the half angle is computed from are positive
\* when the entry it removes is not zero.
LEMMA HalfAngleType ==
    ASSUME NEW y \in Int \ {0}, NEW x \in Int
    PROVE  HalfAngle(y, x)[1] \in Int /\ HalfAngle(y, x)[2] \in Int
<1> DEFINE U == Unit
           n == x * x + y * y
           len == Sqrt(n)
           o == Over(len + Abs(x), 2 * len)
           big == Sqrt(U * o)
           sml == Rounded(Over(Abs(y), len) * U, 2 * big)
           sgn == IF y < 0 THEN -1 ELSE 1
<1>1. U \in Nat /\ U >= 40 /\ Abs(x) \in Nat /\ Abs(y) \in Nat
      BY AlignAssumption DEF Abs
<1>2. HalfAngle(y, x) = IF x >= 0 THEN <<big, sgn * sml>> ELSE <<sml, sgn * big>>
      BY DEF HalfAngle
<1>3. n \in Nat \ {0}
  <2>1. x * x >= 0 /\ y * y > 0
        BY Z3
  <2>2. QED BY <2>1, Z3
<1> HIDE DEF n
<1>4. len \in Nat \ {0}
      BY <1>3, SqrtIs
<1> HIDE DEF len
<1> DEFINE e == (len + Abs(x)) * U
           t == 2 * len
<1>5. o = Rounded(e, t) /\ t \in Nat \ {0} /\ e \in Int /\ e >= len * U
  <2>1. o = Rounded(e, t)
        BY DEF Over
  <2> DEFINE ax == Abs(x)
  <2> HIDE DEF U, o
  <2>2. ax * U >= 0 /\ ax \in Nat
    <3>1. ax \in Nat
          BY <1>1
    <3> HIDE DEF ax
    <3>2. QED BY <1>1, <3>1, Z3
  <2>3. e = len * U + ax * U
    <3>1. ax \in Nat /\ e = (len + ax) * U
          BY <2>2
    <3> HIDE DEF ax, e
    <3>2. QED BY <1>1, <1>4, <3>1, Z3
  <2>4. len * U \in Int /\ ax * U \in Int
        BY <1>1, <1>4, <2>2
  <2>5. t \in Nat \ {0}
        BY <1>4
  <2> HIDE DEF ax, e, t
  <2>6. QED BY <2>1, <2>2, <2>3, <2>4, <2>5
<1> HIDE DEF o, e
<1>6. o \in Int /\ o >= 1
  <2>1. o \in Int /\ 2 * (t * o) >= 2 * e - t
    <3> HIDE DEF t, U
    <3>1. QED BY <1>5, RoundedIs
  <2> HIDE DEF U
  <2>2. len * (4 * o) >= len * (2 * U - 2)
        BY <1>1, <1>4, <1>5, <2>1, Z3
  <2> DEFINE p == 4 * o
             q == 2 * U - 2
  <2>3. p \in Int /\ q \in Int
        BY <1>1, <2>1
  <2> HIDE DEF p, q
  <2>4. q =< p
        BY <1>4, <2>2, <2>3, Cancel DEF p, q
  <2>5. 4 * o >= 2 * U - 2
        BY <1>1, <2>1, <2>4 DEF p, q
  <2>6. QED BY <1>1, <2>1, <2>5
<1>7. big \in Nat \ {0}
  <2>1. U * o \in Nat \ {0}
    <3> HIDE DEF U
    <3>1. QED BY <1>1, <1>6, Z3
  <2> DEFINE k == U * o
  <2>2. k \in Nat \ {0} /\ big = Sqrt(k)
        BY <2>1
  <2> HIDE DEF k, big
  <2>3. QED BY <2>2, SqrtIs
<1> HIDE DEF big
<1>8. sml \in Int
  <2>1. Abs(y) * U \in Int
        BY <1>1
  <2>2. Over(Abs(y), len) \in Int
        BY <1>4, <2>1, RoundedIs DEF Over
  <2>3. Over(Abs(y), len) * U \in Int /\ 2 * big \in Nat \ {0}
        BY <1>1, <1>7, <2>2
  <2>4. QED BY <2>3, RoundedIs
<1> HIDE DEF sml
<1>9. sgn * sml \in Int /\ sgn * big \in Int
      BY <1>7, <1>8
<1>10. QED BY <1>2, <1>7, <1>8, <1>9

\* Turning two columns leaves a matrix.
LEMMA TurnedType ==
    ASSUME NEW m \in Matrix, NEW p \in Ix, NEW q \in Ix, NEW cs, cs[1] \in Int, cs[2] \in Int
    PROVE  Turned(m, p, q, cs) \in Matrix
<1> DEFINE c == cs[1]
           s == cs[2]
           row(x) == [x EXCEPT ![p] = Rounded(c * x[p] - s * x[q], Unit),
                               ![q] = Rounded(s * x[p] + c * x[q], Unit)]
<1>1. ASSUME NEW x \in Vector PROVE row(x) \in Vector
  <2> DEFINE d == c * x[p] - s * x[q]
             e == s * x[p] + c * x[q]
             y == Rounded(d, Unit)
             z == Rounded(e, Unit)
  <2>1. x[p] \in Int /\ x[q] \in Int
        BY DEF Vector
  <2>2. d \in Int /\ e \in Int
        BY <2>1
  <2>3. y \in Int /\ z \in Int
    <3>1. \A k \in Int : Rounded(k, Unit) \in Int
          BY RoundedIs, AlignAssumption
    <3> HIDE DEF d, e
    <3>2. QED BY <2>2, <3>1
  <2> HIDE DEF y, z
  <2>4. [x EXCEPT ![p] = y, ![q] = z] \in Vector
        BY <2>3 DEF Vector
  <2>5. QED BY <2>4 DEF y, z
<1>2. Turned(m, p, q, cs) = <<row(m[1]), row(m[2]), row(m[3])>>
      BY DEF Turned
<1> HIDE DEF row
<1>3. row(m[1]) \in Vector /\ row(m[2]) \in Vector /\ row(m[3]) \in Vector
      BY <1>1, ColumnType DEF Ix
<1>4. QED BY <1>2, <1>3, MatrixOf

\* So does a rotation of sinew_jacobi9, of both of its matrices.
LEMMA RotateType ==
    ASSUME NEW a \in Matrix, NEW v \in Matrix, NEW p \in Ix, NEW q \in Ix
    PROVE  \E b, w \in Matrix : Rotate(<<a, v>>, p, q) = <<b, w>>
<1> DEFINE apq == a[p][q]
           cs  == HalfAngle(2 * apq, a[q][q] - a[p][p])
           ac  == Turned(a, p, q, cs)
           b   == sinew_transpose9(Turned(sinew_transpose9(ac), p, q, cs))
           w   == Turned(v, p, q, cs)
<1>1. Rotate(<<a, v>>, p, q) = IF Abs(apq) =< Tiny THEN <<a, v>> ELSE <<b, w>>
      BY Zenon DEF Rotate
<1>2. CASE Abs(apq) =< Tiny
      BY <1>1, <1>2
<1>3. CASE ~ (Abs(apq) =< Tiny)
  <2>1. apq \in Int /\ a[q][q] \in Int /\ a[p][p] \in Int
        BY ColumnType
  <2>2. 2 * apq \in Int \ {0} /\ a[q][q] - a[p][p] \in Int
        BY <1>3, <2>1, AlignAssumption DEF Abs
  <2>3. cs[1] \in Int /\ cs[2] \in Int
        BY <2>2, HalfAngleType, Zenon
  <2> HIDE DEF cs
  <2>4. ac \in Matrix /\ w \in Matrix
        BY <2>3, TurnedType
  <2> HIDE DEF ac, w
  <2>5. sinew_transpose9(ac) \in Matrix
        BY <2>4, TransposeType
  <2>6. Turned(sinew_transpose9(ac), p, q, cs) \in Matrix
        BY <2>3, <2>5, TurnedType
  <2>7. b \in Matrix
        BY <2>6, TransposeType, Zenon
  <2>8. QED BY <1>1, <1>3, <2>4, <2>7
<1>4. QED BY <1>2, <1>3, SMTT(20)

\* One compare-and-swap leaves two places in order and the others alone.
LEMMA SwapIs ==
    ASSUME NEW o \in [Ix -> Ix], NEW w \in Vector, NEW a \in Ix, NEW b \in Ix, a # b
    PROVE  LET s == SwapIf(o, w, a, b)
           IN  /\ s \in [Ix -> Ix]
               /\ w[s[a]] >= w[s[b]]
               /\ \/ s[a] = o[a] /\ s[b] = o[b]
                  \/ s[a] = o[b] /\ s[b] = o[a] /\ w[o[b]] > w[o[a]]
               /\ \A k \in Ix \ {a, b} : s[k] = o[k]
<1>1. w[o[a]] \in Int /\ w[o[b]] \in Int
      BY DEF Vector
<1>2. CASE w[o[b]] > w[o[a]]
  <2>1. SwapIf(o, w, a, b) = [o EXCEPT ![a] = o[b], ![b] = o[a]]
        BY <1>2 DEF SwapIf
  <2>2. QED BY <1>1, <1>2, <2>1
<1>3. CASE ~ (w[o[b]] > w[o[a]])
  <2>1. SwapIf(o, w, a, b) = o
        BY <1>3 DEF SwapIf
  <2>2. QED BY <1>1, <1>3, <2>1
<1>4. QED BY <1>2, <1>3

\* sinew_kabsch's three compare-and-swaps sort every three eigenvalues: the order
\* names each of them once, the largest first.
THEOREM OrderSorts ==
    ASSUME NEW w \in Vector
    PROVE  /\ Order(w) \in [Ix -> Ix]
           /\ \A i, j \in Ix : i # j => Order(w)[i] # Order(w)[j]
           /\ w[Order(w)[1]] >= w[Order(w)[2]] /\ w[Order(w)[2]] >= w[Order(w)[3]]
<1> DEFINE i1 == 1
           i2 == 2
           i3 == 3
           o0 == <<1, 2, 3>>
           o1 == SwapIf(o0, w, i1, i2)
           o2 == SwapIf(o1, w, i1, i3)
           o3 == SwapIf(o2, w, i2, i3)
<1>0. /\ i1 \in Ix /\ i2 \in Ix /\ i3 \in Ix /\ i1 # i2 /\ i1 # i3 /\ i2 # i3
      /\ i1 = 1 /\ i2 = 2 /\ i3 = 3
      BY DEF Ix
<1>1. Order(w) = o3
      BY DEF Order
<1>2. o0 \in [Ix -> Ix] /\ o0[1] = 1 /\ o0[2] = 2 /\ o0[3] = 3
      BY DEF Ix
<1> HIDE DEF o0, i1, i2, i3
<1>3. /\ o1 \in [Ix -> Ix] /\ w[o1[1]] >= w[o1[2]] /\ o1[3] = 3
      /\ (o1[1] = 1 /\ o1[2] = 2) \/ (o1[1] = 2 /\ o1[2] = 1)
  <2>1. /\ o1 \in [Ix -> Ix] /\ w[o1[i1]] >= w[o1[i2]] /\ o1[i3] = o0[i3]
        /\ (o1[i1] = o0[i1] /\ o1[i2] = o0[i2]) \/ (o1[i1] = o0[i2] /\ o1[i2] = o0[i1])
        BY <1>0, <1>2, SwapIs
  <2>2. QED BY <1>0, <1>2, <2>1
<1> HIDE DEF o1
<1>4. /\ o2 \in [Ix -> Ix] /\ w[o2[1]] >= w[o2[3]] /\ o2[2] = o1[2]
      /\ \/ o2[1] = o1[1] /\ o2[3] = o1[3]
         \/ o2[1] = o1[3] /\ o2[3] = o1[1] /\ w[o1[3]] > w[o1[1]]
  <2>1. /\ o2 \in [Ix -> Ix] /\ w[o2[i1]] >= w[o2[i3]] /\ o2[i2] = o1[i2]
        /\ \/ o2[i1] = o1[i1] /\ o2[i3] = o1[i3]
           \/ o2[i1] = o1[i3] /\ o2[i3] = o1[i1] /\ w[o1[i3]] > w[o1[i1]]
        BY <1>0, <1>3, SwapIs
  <2>2. QED BY <1>0, <2>1
<1> HIDE DEF o2
<1>5. /\ o3 \in [Ix -> Ix] /\ w[o3[2]] >= w[o3[3]] /\ o3[1] = o2[1]
      /\ (o3[2] = o2[2] /\ o3[3] = o2[3]) \/ (o3[2] = o2[3] /\ o3[3] = o2[2])
  <2>1. /\ o3 \in [Ix -> Ix] /\ w[o3[i2]] >= w[o3[i3]] /\ o3[i1] = o2[i1]
        /\ (o3[i2] = o2[i2] /\ o3[i3] = o2[i3]) \/ (o3[i2] = o2[i3] /\ o3[i3] = o2[i2])
        BY <1>0, <1>4, SwapIs
  <2>2. QED BY <1>0, <2>1
<1> HIDE DEF o3
<1>6. o1[1] # o1[2] /\ o1[1] # o1[3] /\ o1[2] # o1[3]
      BY <1>3
<1>7. o2[1] # o2[2] /\ o2[1] # o2[3] /\ o2[2] # o2[3]
      BY <1>4, <1>6
<1>8. o3[1] # o3[2] /\ o3[1] # o3[3] /\ o3[2] # o3[3]
      BY <1>5, <1>7
<1>9. w[1] \in Int /\ w[2] \in Int /\ w[3] \in Int
      BY DEF Vector, Ix
<1>10. w[o2[1]] >= w[o2[2]]
  <2>1. \A k \in Ix : w[o1[k]] \in Int
        BY <1>3 DEF Vector
  <2>2. QED BY <1>3, <1>4, <2>1 DEF Ix
<1>11. w[o3[1]] >= w[o3[2]]
      BY <1>4, <1>5, <1>10
<1>12. \A i, j \in Ix : i # j => o3[i] # o3[j]
      BY <1>8 DEF Ix
<1>13. QED BY <1>1, <1>5, <1>11, <1>12

\* A missing left singular vector is a cross product of the other two.
LEMMA FillColumnType ==
    ASSUME NEW u \in Matrix, NEW sig, NEW c \in Ix
    PROVE  FillColumn(u, sig, c) \in Matrix
<1>1. (c % 3) + 1 \in Ix /\ ((c + 1) % 3) + 1 \in Ix
      BY DEF Ix
<1> DEFINE x == u[(c % 3) + 1]
           y == u[((c + 1) % 3) + 1]
<1>2. x \in Vector /\ y \in Vector
      BY <1>1, SMTT(20) DEF Matrix
<1>3. FillColumn(u, sig, c) = IF sig[c] > Tiny THEN u ELSE [u EXCEPT ![c] = v3_cross(x, y)]
      BY DEF FillColumn
<1> HIDE DEF x, y
<1>4. v3_cross(x, y) \in Vector
      BY <1>2, CrossType
<1>5. QED BY <1>3, <1>4 DEF Matrix

\* Columns divided by a singular value are divided by a positive one, so what
\* sinew_kabsch returns is a matrix.
LEMMA KabschType ==
    ASSUME NEW m \in Matrix, NEW a \in Matrix, NEW vc \in Matrix
    PROVE  KabschFrom(m, a, vc) \in Matrix
<1> DEFINE w   == <<a[1][1], a[2][2], a[3][3]>>
           ord == Order(w)
           sg(c)  == Sqrt(Larger(w[ord[c]], 0) * Unit)
           sig == <<sg(1), sg(2), sg(3)>>
           vcol(c) == Column(vc, ord[c])
           ucol(c) == IF sig[c] > Tiny
                      THEN LET x == Apply(m, vcol(c))
                           IN  <<Over(x[1], sig[c]), Over(x[2], sig[c]), Over(x[3], sig[c])>>
                      ELSE Zero3
           u0  == <<ucol(1), ucol(2), ucol(3)>>
           ut  == FillColumn(FillColumn(FillColumn(u0, sig, 1), sig, 2), sig, 3)
           u   == sinew_transpose9(ut)
           vt  == <<vcol(1), vcol(2), vcol(3)>>
           ud  == IF sinew_det9(sinew_mul9(u, vt)) < 0 THEN NegateLastColumn(u) ELSE u
<1>1. KabschFrom(m, a, vc) = sinew_mul9(ud, vt)
      BY Zenon DEF KabschFrom
<1>2. w \in Vector
      BY ColumnType, VectorOf DEF Ix
<1> HIDE DEF w
<1>3. ord \in [Ix -> Ix]
      BY <1>2, OrderSorts
<1> HIDE DEF ord
<1>4. \A c \in Ix : sg(c) \in Nat
  <2>1. \A c \in Ix : Larger(w[ord[c]], 0) \in Nat
        BY <1>2, <1>3 DEF Larger, Vector
  <2>2. \A c \in Ix : Larger(w[ord[c]], 0) * Unit \in Nat
        BY <2>1, AlignAssumption
  <2>3. QED BY <2>2, SqrtIs
<1> HIDE DEF sg
<1>5. \A c \in Ix : sig[c] \in Nat
      BY <1>4 DEF Ix
<1> HIDE DEF sig
<1>6. \A c \in Ix : vcol(c) \in Vector
      BY <1>3, ColumnType, Zenon
<1> HIDE DEF vcol
<1>7. ASSUME NEW c \in Ix PROVE ucol(c) \in Vector
  <2>1. CASE sig[c] > Tiny
    <3> DEFINE x == Apply(m, vcol(c))
    <3>1. ucol(c) = <<Over(x[1], sig[c]), Over(x[2], sig[c]), Over(x[3], sig[c])>>
          BY <2>1
    <3>2. x \in Vector
          BY <1>6, ApplyType
    <3> HIDE DEF x
    <3>3. x[1] * Unit \in Int /\ x[2] * Unit \in Int /\ x[3] * Unit \in Int
          BY <3>2, AlignAssumption DEF Vector, Ix
    <3>4. sig[c] \in Nat \ {0}
          BY <1>5, <2>1, AlignAssumption
    <3>5. Over(x[1], sig[c]) \in Int /\ Over(x[2], sig[c]) \in Int /\ Over(x[3], sig[c]) \in Int
          BY <3>3, <3>4, RoundedIs, Zenon DEF Over
    <3> HIDE DEF ucol
    <3>6. QED BY <3>1, <3>5, VectorOf
  <2>2. CASE ~ (sig[c] > Tiny)
        BY <2>2, VectorOf DEF Zero3
  <2>3. QED BY <2>1, <2>2
<1> HIDE DEF ucol
<1>8. u0 \in Matrix /\ vt \in Matrix
      BY <1>6, <1>7, MatrixOf DEF Ix
<1> HIDE DEF u0, vt
<1>9. ut \in Matrix
  <2>1. FillColumn(u0, sig, 1) \in Matrix
        BY <1>8, FillColumnType DEF Ix
  <2>2. FillColumn(FillColumn(u0, sig, 1), sig, 2) \in Matrix
        BY <2>1, FillColumnType DEF Ix
  <2>3. QED BY <2>2, FillColumnType DEF Ix
<1> HIDE DEF ut
<1>10. u \in Matrix
      BY <1>9, TransposeType
<1> HIDE DEF u
<1>11. ud \in Matrix
      BY <1>10, MatrixForms
<1> HIDE DEF ud
<1>12. QED BY <1>1, <1>8, <1>11, MulType, Zenon

-----------------------------------------------------------------------------
(* The invariant.                                                          *)

\* Whole numbers everywhere: TLA+ does not say that x \div 0 is one.
AlignTypeOK ==
    /\ call \in {"align", "kabsch"} /\ stage \in {"call", "ns", "jacobi", "done"}
    /\ pairs \in Seq(Input) \X Seq(Input)
    /\ turn \in Nat
    /\ h \in Matrix /\ mat \in Matrix /\ vec \in Matrix /\ out \in Matrix

\* And while sinew_ns30 runs, the sum of the squares of its matrix is bounded.
AlignInv ==
    /\ AlignTypeOK
    /\ Len(pairs[1]) = Len(pairs[2])
    /\ stage = "ns" => Bounded9(mat)

\* A call starts in the invariant.
LEMMA AlignInitInv == AlignInit => AlignInv
<1> SUFFICES ASSUME AlignInit PROVE AlignInv
      OBVIOUS
<1>1. stage = "call" /\ turn = 0 /\ mat \in Matrix /\ vec \in Matrix /\ out \in Matrix
      BY MatrixForms DEF AlignInit
<1>2. CASE call = "align" /\ pairs \in AlignCalls /\ h = Zero9
  <2>1. h \in Matrix
        BY <1>2, MatrixForms
  <2>2. pairs \in Seq(Input) \X Seq(Input) /\ Len(pairs[1]) = Len(pairs[2])
        BY <1>2, AlignAssumption
  <2>3. QED BY <1>1, <1>2, <2>1, <2>2 DEF AlignInv, AlignTypeOK
<1>3. CASE call = "kabsch" /\ pairs = <<<<>>, <<>>>> /\ h \in KabschCalls
  <2>1. h \in Matrix
        BY <1>3, AlignAssumption
  <2>2. pairs \in Seq(Input) \X Seq(Input) /\ Len(pairs[1]) = Len(pairs[2])
    <3>1. <<>> \in Seq(Input)
          OBVIOUS
    <3>2. pairs[1] = <<>> /\ pairs[2] = <<>> /\ pairs = <<<<>>, <<>>>>
          BY <1>3
    <3>3. pairs \in Seq(Input) \X Seq(Input)
          BY <3>1, <3>2, Zenon
    <3>4. QED BY <3>2, <3>3
  <2>3. QED BY <1>1, <1>3, <2>1, <2>2 DEF AlignInv, AlignTypeOK
<1>4. QED BY <1>2, <1>3 DEF AlignInit

\* Every step preserves it.
LEMMA AlignNextInv == AlignInv /\ [AlignNext]_alignVars => AlignInv'
<1> SUFFICES ASSUME AlignInv, [AlignNext]_alignVars PROVE AlignInv'
      OBVIOUS
<1>1. /\ call \in {"align", "kabsch"} /\ stage \in {"call", "ns", "jacobi", "done"}
      /\ pairs \in Seq(Input) \X Seq(Input) /\ Len(pairs[1]) = Len(pairs[2])
      /\ turn \in Nat /\ h \in Matrix /\ mat \in Matrix /\ vec \in Matrix /\ out \in Matrix
      BY DEF AlignInv, AlignTypeOK
<1>2. pairs[1] \in Seq(Input) /\ pairs[2] \in Seq(Input)
      BY <1>1
<1>3. Gram(h) \in Matrix /\ Identity \in Matrix
      BY <1>1, MatrixForms
<1>4. CASE sinew_align
  <2>1. /\ stage = "call" /\ turn' = turn + 1 /\ turn < Len(pairs[2])
        /\ UNCHANGED <<call, pairs, stage, mat, vec, out>>
        BY <1>4 DEF sinew_align
  <2>2. turn' \in 1 .. Len(pairs[2]) /\ turn' \in Nat
        BY <1>1, <1>2, <2>1
  <2>3. pairs[1][turn'] \in Vector /\ pairs[2][turn'] \in Vector
        BY <1>1, <1>2, <2>2, InputType
  <2>4. h' = Plus(h, Outer(pairs[1][turn'], pairs[2][turn']))
        BY <1>4 DEF sinew_align
  <2>5. h' \in Matrix
        BY <1>1, <2>3, <2>4, PlusOuterType
  <2>6. QED BY <1>1, <2>1, <2>2, <2>5 DEF AlignInv, AlignTypeOK
<1>5. CASE sinew_finish_align
  <2> DEFINE a0 == Nth(pairs[1], 1)  a1 == Nth(pairs[1], 2)
             b0 == Nth(pairs[2], 1)  b1 == Nth(pairs[2], 2)
  <2>1. pairs' = pairs /\ call' = call
        BY <1>5 DEF sinew_finish_align
  <2>2. a0 \in Input /\ b0 \in Input
        BY <1>2, NthType
  <2>3. a0 \in Vector /\ a1 \in Vector /\ b0 \in Vector /\ b1 \in Vector
        BY <1>2, NthType
  <2>4. CASE Return(sinew_rodrigues(a0, b0)) /\ UNCHANGED h
    <3>1. /\ stage' = "done" /\ UNCHANGED <<turn, h, mat, vec>>
          /\ out' = sinew_rodrigues(a0, b0)
          BY <2>4 DEF Return
    <3>2. out' \in Matrix
          BY <2>2, <3>1, RodriguesType, Zenon
    <3>3. QED BY <1>1, <2>1, <3>1, <3>2 DEF AlignInv, AlignTypeOK
  <2>5. CASE /\ h' = sinew_regularize(WithNormals(h, a0, a1, b0, b1))
             /\ stage' = "ns" /\ turn' = 0 /\ mat' = Scaled(h') /\ UNCHANGED <<vec, out>>
    <3>1. h' \in Matrix
          BY <1>1, <2>3, <2>5, WithNormalsType, RegularizeType
    <3>2. Bounded9(mat')
          BY <2>5, <3>1, ScaledBound
    <3>3. Bounded9(mat)' /\ mat' \in Matrix
          BY <3>2 DEF Bounded9, Squares
    <3>4. QED BY <1>1, <2>1, <2>5, <3>1, <3>3 DEF AlignInv, AlignTypeOK
  <2>6. QED BY <1>5, <2>4, <2>5 DEF sinew_finish_align
<1>6. CASE sinew_kabsch
      BY <1>1, <1>3, <1>6 DEF sinew_kabsch, StartKabsch, AlignInv, AlignTypeOK
<1>7. CASE sinew_ns30
  <2>1. UNCHANGED <<call, pairs, h>> /\ stage = "ns" /\ Bounded9(mat)
        BY <1>7 DEF sinew_ns30, AlignInv
  <2> DEFINE m == IF sinew_det9(mat) < 0 THEN NegateLastColumn(mat) ELSE mat
  <2>2. m \in Matrix
        BY <1>1, MatrixForms
  <2> HIDE DEF m
  <2>3. CASE turn' = turn + 1 /\ mat' = NewtonSchulz(mat) /\ UNCHANGED <<stage, vec, out>>
    <3>1. Bounded9(mat')
          BY <2>1, <2>3, TurnBound
    <3>2. Bounded9(mat)' /\ mat' \in Matrix
          BY <3>1 DEF Bounded9, Squares
    <3>3. QED BY <1>1, <2>1, <2>3, <3>2 DEF AlignInv, AlignTypeOK
  <2>4. CASE Return(m)
        BY <1>1, <2>1, <2>2, <2>4 DEF AlignInv, AlignTypeOK, Return
  <2>5. CASE StartKabsch
        BY <1>1, <1>3, <2>1, <2>5 DEF AlignInv, AlignTypeOK, StartKabsch
  <2>6. QED BY <1>7, <2>3, <2>4, <2>5 DEF sinew_ns30, m
<1>8. CASE sinew_jacobi9
  <2>1. UNCHANGED <<call, pairs, h>> /\ stage = "jacobi"
        BY <1>8 DEF sinew_jacobi9
  <2> DEFINE i1 == 1
             i2 == 2
             i3 == 3
             av1 == Rotate(<<mat, vec>>, i1, i2)
             av2 == Rotate(av1, i1, i3)
             av3 == Rotate(av2, i2, i3)
  <2>2. i1 \in Ix /\ i2 \in Ix /\ i3 \in Ix
        BY DEF Ix
  <2>3. \/ turn' = turn + 1 /\ mat' = av3[1] /\ vec' = av3[2] /\ UNCHANGED <<stage, out>>
        \/ Return(KabschFrom(h, mat, vec))
        BY <1>8 DEF sinew_jacobi9
  <2> HIDE DEF i1, i2, i3
  <2>4. PICK p1, q1 \in Matrix : av1 = <<p1, q1>>
        BY <1>1, <2>2, RotateType
  <2>5. PICK p2, q2 \in Matrix : av2 = <<p2, q2>>
        BY <2>2, <2>4, RotateType
  <2>6. PICK p3, q3 \in Matrix : av3 = <<p3, q3>>
        BY <2>2, <2>5, RotateType
  <2> HIDE DEF av1, av2, av3
  <2>7. CASE turn' = turn + 1 /\ mat' = av3[1] /\ vec' = av3[2] /\ UNCHANGED <<stage, out>>
    <3>1. mat' \in Matrix /\ vec' \in Matrix
          BY <2>6, <2>7
    <3>2. QED BY <1>1, <2>1, <2>7, <3>1 DEF AlignInv, AlignTypeOK
  <2>8. CASE Return(KabschFrom(h, mat, vec))
    <3>1. out' \in Matrix
          BY <1>1, <2>8, KabschType DEF Return
    <3>2. QED BY <1>1, <2>1, <2>8, <3>1 DEF AlignInv, AlignTypeOK, Return
  <2>9. QED BY <2>3, <2>7, <2>8
<1>9. CASE UNCHANGED alignVars
      BY <1>9 DEF alignVars, AlignInv, AlignTypeOK, Bounded9, Squares
<1>10. QED BY <1>4, <1>5, <1>6, <1>7, <1>8, <1>9 DEF AlignNext

\* The loop of sinew_ns30 cannot run away: for every precision, every covariance
\* and any number of turns, the squares of its matrix add up to 3 at most, but for
\* the rounding of one turn.
THEOREM NsStaysBounded == AlignSpec => []NsBounded
<1>1. AlignInv => NsBounded
  <2> SUFFICES ASSUME AlignInv, stage = "ns"
               PROVE  Gram(mat)[1][1] + Gram(mat)[2][2] + Gram(mat)[3][3] =< 3 * Unit + 14
        BY DEF NsBounded
  <2>1. QED BY BoundedTrace DEF AlignInv
<1>2. QED BY <1>1, AlignInitInv, AlignNextInv, PTL DEF AlignSpec

\* Every result is defined, for every list of pairs and every matrix: no branch of
\* sinew_rodrigues, sinew_finish_align, sinew_ns30, sinew_jacobi9 or sinew_kabsch
\* divides by zero, although the half turn normalises a cross product, the other
\* branch divides by 1 + cos and the fallback by singular values.
THEOREM AlignDefined == AlignSpec => []AlignTypeOK
<1>1. AlignInv => AlignTypeOK
      BY DEF AlignInv
<1>2. QED BY <1>1, AlignInitInv, AlignNextInv, PTL DEF AlignSpec
=============================================================================
