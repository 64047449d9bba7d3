----------------------------- MODULE DataProofs -----------------------------
(***************************************************************************)
(* The data of the zone tick, for every size of a byte and of an integer.  *)
(*                                                                         *)
(* The key layout of src/zf_kv.c, every zone and every entity: keys        *)
(* determine their ids and keep their order, and a zone's scan finds the   *)
(* zone's own keys only.  The position update of src/zf_zonetick.c: ticks  *)
(* add up.                                                                 *)
(***************************************************************************)
EXTENDS ZfKv, ZoneData, SequenceTheorems, TLAPS

-----------------------------------------------------------------------------
(* Digits.                                                                 *)

\* Division with remainder by the size of a byte.
LEMMA DivMod ==
  ASSUME NEW x \in Nat
  PROVE  /\ x \div Base \in Nat
         /\ x % Base \in Byte
         /\ x = (x \div Base) * Base + (x % Base)
  BY ByteAssumption, Z3 DEF Byte

\* Shifting a byte out of a number below q bytes leaves a number below q.
LEMMA DivBound ==
  ASSUME NEW x \in Nat, NEW q \in Nat, x < Base * q
  PROVE  x \div Base < q
<1> DEFINE d == x \div Base
           m == x % Base
<1>1. d \in Nat /\ m \in 0 .. (Base - 1) /\ x = d * Base + m
  BY DivMod DEF Byte
<1> HIDE DEF d, m
<1>2. Base \in Nat /\ Base > 0
  BY ByteAssumption
<1>3. SUFFICES ASSUME d >= q PROVE FALSE
  BY <1>1 DEF d
<1>4. d * Base >= q * Base
  BY <1>1, <1>2, <1>3, Z3
<1> QED
  BY <1>1, <1>2, <1>4, Z3

\* An encoded id is four bytes.
LEMMA EncodeType ==
  ASSUME NEW v \in U32
  PROVE  /\ zf_kv_encode_u32_be(v) \in Seq(Byte)
         /\ Len(zf_kv_encode_u32_be(v)) = 4
         /\ \A i \in 1 .. 4 : zf_kv_encode_u32_be(v)[i] \in Byte
<1>1. v \in Nat
  BY DEF U32
<1>2. v \div Base \in Nat /\ v % Base \in Byte
  BY <1>1, DivMod
<1>3. (v \div Base) \div Base \in Nat /\ (v \div Base) % Base \in Byte
  BY <1>2, DivMod
<1>4. /\ ((v \div Base) \div Base) \div Base \in Nat
      /\ ((v \div Base) \div Base) % Base \in Byte
  BY <1>3, DivMod
<1>5. (((v \div Base) \div Base) \div Base) % Base \in Byte
  BY <1>4, DivMod
<1> QED
  BY <1>2, <1>3, <1>4, <1>5 DEF zf_kv_encode_u32_be

\* zf_kv_decode_u32_be undoes zf_kv_encode_u32_be on every uint32_t, so an id
\* can be read back from a key and different ids have different bytes.
THEOREM DecodeEncode == \A v \in U32 : zf_kv_decode_u32_be(zf_kv_encode_u32_be(v)) = v
<1> SUFFICES ASSUME NEW v \in U32 PROVE zf_kv_decode_u32_be(zf_kv_encode_u32_be(v)) = v
  OBVIOUS
<1> DEFINE a == v \div Base
           b == a \div Base
           c == b \div Base
<1>1. v \in Nat /\ Base \in Nat /\ Base > 0 /\ v < Base * Base * Base * Base
  BY ByteAssumption DEF U32
<1>2. a \in Nat /\ v = a * Base + (v % Base)
  BY <1>1, DivMod
<1>3. b \in Nat /\ a = b * Base + (a % Base)
  BY <1>2, DivMod
<1>4. c \in Nat /\ b = c * Base + (b % Base)
  BY <1>3, DivMod
<1>5. c % Base = c
  <2>1. v < Base * (Base * Base * Base) /\ Base * Base * Base \in Nat
    BY <1>1
  <2>2. a < Base * (Base * Base) /\ Base * Base \in Nat
    BY <1>1, <2>1, DivBound
  <2>3. b < Base * Base
    BY <1>1, <1>2, <2>2, DivBound
  <2>4. c < Base
    BY <1>1, <1>3, <2>3, DivBound
  <2> HIDE DEF c
  <2> QED
    BY <1>1, <1>4, <2>4
<1>6. zf_kv_encode_u32_be(v) = <<c % Base, b % Base, a % Base, v % Base>>
  BY DEF zf_kv_encode_u32_be
<1>7. zf_kv_decode_u32_be(zf_kv_encode_u32_be(v))
        = ((c * Base + (b % Base)) * Base + (a % Base)) * Base + (v % Base)
  BY <1>5, <1>6 DEF zf_kv_decode_u32_be
<1> HIDE DEF a, b, c
<1> QED
  BY <1>2, <1>3, <1>4, <1>7

\* A higher number with any byte behind it is the higher number.
LEMMA HigherDigit ==
  ASSUME NEW x \in Nat, NEW y \in Nat, NEW s \in Byte, NEW t \in Byte, x < y
  PROVE  x * Base + s < y * Base + t
<1>1. Base \in Nat /\ Base > 0 /\ s \in Nat /\ t \in Nat /\ s < Base
  BY ByteAssumption DEF Byte
<1>2. (x + 1) * Base =< y * Base /\ (x + 1) * Base = x * Base + Base
  BY <1>1, Z3
<1> QED
  BY <1>1, <1>2, Z3

\* The byte strings b and c, four bytes each, in the order FoundationDB compares
\* keys by.
BytesLess(b, c) == \E n \in 1 .. 4 : b[n] < c[n] /\ \A j \in 1 .. (n - 1) : b[j] = c[j]

\* What decodes from the lower byte string is the lower number.
LEMMA DecodeOrder ==
  ASSUME NEW b, NEW c, \A n \in 1 .. 4 : b[n] \in Byte /\ c[n] \in Byte, BytesLess(b, c)
  PROVE  zf_kv_decode_u32_be(b) < zf_kv_decode_u32_be(c)
<1> DEFINE p(d) == d[1] * Base + d[2]
           q(d) == p(d) * Base + d[3]
           r(d) == q(d) * Base + d[4]
<1>1. Base \in Nat /\ \A n \in 1 .. 4 : b[n] \in Nat /\ c[n] \in Nat
  BY ByteAssumption DEF Byte
<1>2. p(b) \in Nat /\ p(c) \in Nat
  BY <1>1, Z3
<1> HIDE DEF p
<1>3. q(b) \in Nat /\ q(c) \in Nat
  BY <1>1, <1>2, Z3
<1> HIDE DEF q
<1>4. ASSUME b[1] < c[1] PROVE p(b) < p(c)
  <2>1. b[1] \in Nat /\ c[1] \in Nat /\ b[2] \in Byte /\ c[2] \in Byte
    BY <1>1
  <2>2. b[1] * Base + b[2] < c[1] * Base + c[2]
    BY <1>4, <2>1, HigherDigit
  <2> QED
    BY <2>2 DEF p
<1>5. ASSUME b[1] = c[1], b[2] < c[2] PROVE p(b) < p(c)
  <2> DEFINE x == b[1] * Base
  <2>1. x \in Nat
    BY <1>1, Z3
  <2>2. p(b) = x + b[2] /\ p(c) = x + c[2]
    BY <1>5 DEF p
  <2> HIDE DEF x
  <2> QED
    BY <1>1, <1>5, <2>1, <2>2
<1>6. ASSUME p(b) < p(c) PROVE q(b) < q(c)
  BY <1>2, <1>6, HigherDigit DEF q
<1>7. ASSUME p(b) = p(c), b[3] < c[3] PROVE q(b) < q(c)
  <2> DEFINE x == p(b) * Base
  <2>1. x \in Nat
    BY <1>1, <1>2, Z3
  <2>2. q(b) = x + b[3] /\ q(c) = x + c[3]
    BY <1>7 DEF q
  <2> HIDE DEF x
  <2> QED
    BY <1>1, <1>7, <2>1, <2>2
<1>8. ASSUME q(b) < q(c) PROVE r(b) < r(c)
  BY <1>3, <1>8, HigherDigit
<1>9. ASSUME q(b) = q(c), b[4] < c[4] PROVE r(b) < r(c)
  <2> DEFINE x == q(b) * Base
  <2>1. x \in Nat
    BY <1>1, <1>3, Z3
  <2>2. r(b) = x + b[4] /\ r(c) = x + c[4]
    BY <1>9
  <2> HIDE DEF x, r
  <2> QED
    BY <1>1, <1>9, <2>1, <2>2
<1>10. zf_kv_decode_u32_be(b) = r(b) /\ zf_kv_decode_u32_be(c) = r(c)
  BY DEF zf_kv_decode_u32_be, p, q
<1> HIDE DEF r
<1>11. r(b) < r(c)
  <2>1. PICK n \in 1 .. 4 : b[n] < c[n] /\ \A j \in 1 .. (n - 1) : b[j] = c[j]
    BY DEF BytesLess
  <2>2. CASE n = 1
    BY <1>4, <1>6, <1>8, <2>1, <2>2
  <2>3. CASE n = 2
    <3>1. b[1] = c[1]
      BY <2>1, <2>3
    <3> QED
      BY <1>5, <1>6, <1>8, <2>1, <2>3, <3>1
  <2>4. CASE n = 3
    <3>1. b[1] = c[1] /\ b[2] = c[2]
      BY <2>1, <2>4
    <3>2. p(b) = p(c)
      BY <3>1 DEF p
    <3> QED
      BY <1>7, <1>8, <2>1, <2>4, <3>2
  <2>5. CASE n = 4
    <3>1. b[1] = c[1] /\ b[2] = c[2] /\ b[3] = c[3]
      BY <2>1, <2>5
    <3>2. q(b) = q(c)
      BY <3>1 DEF p, q
    <3> QED
      BY <1>9, <2>1, <2>5, <3>2
  <2> QED
    BY <2>2, <2>3, <2>4, <2>5
<1> QED
  BY <1>10, <1>11

\* Encoded ids compare byte by byte the way the ids compare as numbers.
LEMMA EncodeOrder ==
  ASSUME NEW u \in U32, NEW v \in U32
  PROVE  u < v <=> BytesLess(zf_kv_encode_u32_be(u), zf_kv_encode_u32_be(v))
<1> DEFINE b == zf_kv_encode_u32_be(u)
           c == zf_kv_encode_u32_be(v)
<1>1. \A n \in 1 .. 4 : b[n] \in Byte /\ c[n] \in Byte
  BY EncodeType
<1>2. u \in Int /\ v \in Int /\ zf_kv_decode_u32_be(b) = u /\ zf_kv_decode_u32_be(c) = v
  BY DecodeEncode DEF U32
<1> HIDE DEF b, c
<1>3. \A n \in 1 .. 4 : b[n] \in Int /\ c[n] \in Int
  BY <1>1 DEF Byte
<1>4. ASSUME BytesLess(b, c) PROVE u < v
  BY <1>1, <1>2, <1>4, DecodeOrder
<1>5. ASSUME BytesLess(c, b) PROVE v < u
  BY <1>1, <1>2, <1>5, DecodeOrder
<1>6. ASSUME \A n \in 1 .. 4 : b[n] = c[n] PROVE u = v
  BY <1>2, <1>6 DEF zf_kv_decode_u32_be
<1>7. BytesLess(b, c) \/ BytesLess(c, b) \/ \A n \in 1 .. 4 : b[n] = c[n]
  <2>1. CASE b[1] # c[1]
    BY <1>3, <2>1 DEF BytesLess
  <2>2. CASE b[1] = c[1] /\ b[2] # c[2]
    <3>1. \A j \in 1 .. (2 - 1) : b[j] = c[j]
      BY <2>2
    <3> QED
      BY <1>3, <2>2, <3>1 DEF BytesLess
  <2>3. CASE b[1] = c[1] /\ b[2] = c[2] /\ b[3] # c[3]
    <3>1. \A j \in 1 .. (3 - 1) : b[j] = c[j]
      BY <2>3
    <3> QED
      BY <1>3, <2>3, <3>1 DEF BytesLess
  <2>4. CASE b[1] = c[1] /\ b[2] = c[2] /\ b[3] = c[3] /\ b[4] # c[4]
    <3>1. \A j \in 1 .. (4 - 1) : b[j] = c[j]
      BY <2>4
    <3> QED
      BY <1>3, <2>4, <3>1 DEF BytesLess
  <2> QED
    BY <2>1, <2>2, <2>3, <2>4
<1>8. u < v <=> BytesLess(b, c)
  BY <1>2, <1>4, <1>5, <1>6, <1>7
<1> QED
  BY <1>8 DEF b, c

-----------------------------------------------------------------------------
(* Keys.                                                                   *)

\* The length of a concatenation,
LEMMA ConcatLen ==
  ASSUME NEW S, NEW a \in Seq(S), NEW b \in Seq(S)
  PROVE  a \o b \in Seq(S) /\ Len(a \o b) = Len(a) + Len(b)
  BY ConcatProperties, Zenon

\* its first elements,
LEMMA ConcatLeft ==
  ASSUME NEW S, NEW a \in Seq(S), NEW b \in Seq(S)
  PROVE  \A i \in 1 .. Len(a) : (a \o b)[i] = a[i]
<1> DEFINE c == a \o b
<1>1. \A i \in 1 .. (Len(a) + Len(b)) : c[i] = IF i <= Len(a) THEN a[i] ELSE b[i - Len(a)]
  BY ConcatProperties, Zenon
<1>2. Len(a) \in Nat /\ Len(b) \in Nat
  BY LenProperties, Zenon
<1> HIDE DEF c
<1>3. \A i \in 1 .. Len(a) : c[i] = a[i]
  BY <1>1, <1>2
<1> QED
  BY <1>3 DEF c

\* and its last ones.
LEMMA ConcatRight ==
  ASSUME NEW S, NEW a \in Seq(S), NEW b \in Seq(S)
  PROVE  \A i \in 1 .. Len(b) : (a \o b)[Len(a) + i] = b[i]
<1> DEFINE c == a \o b
<1>1. \A i \in 1 .. (Len(a) + Len(b)) : c[i] = IF i <= Len(a) THEN a[i] ELSE b[i - Len(a)]
  BY ConcatProperties, Zenon
<1>2. Len(a) \in Nat /\ Len(b) \in Nat
  BY LenProperties, Zenon
<1> HIDE DEF c
<1>3. ASSUME NEW i \in 1 .. Len(b) PROVE c[Len(a) + i] = b[i]
  <2>1. /\ Len(a) + i \in 1 .. (Len(a) + Len(b))
        /\ ~ (Len(a) + i <= Len(a))
        /\ (Len(a) + i) - Len(a) = i
    BY <1>2
  <2>2. c[Len(a) + i] = b[(Len(a) + i) - Len(a)]
    BY <1>1, <2>1
  <2> QED
    BY <2>1, <2>2
<1> QED
  BY <1>3 DEF c

\* A zone's range begins with six bytes, the zone's id among them.
LEMMA BeginShape ==
  ASSUME NEW z \in U32
  PROVE  /\ zf_kv_entity_range_begin(z) \in Seq(Byte)
         /\ Len(zf_kv_entity_range_begin(z)) = 6
         /\ \A i \in 1 .. 4 :
               zf_kv_entity_range_begin(z)[1 + i] = zf_kv_encode_u32_be(z)[i]
<1> DEFINE c == zf_kv_encode_u32_be(z)
           h == SS_ZF_ENTITY \o c
           t == <<Slash>>
           b == h \o t
<1>1. c \in Seq(Byte) /\ Len(c) = 4
  BY EncodeType
<1>2. SS_ZF_ENTITY \in Seq(Byte) /\ Len(SS_ZF_ENTITY) = 1
  BY ByteAssumption DEF SS_ZF_ENTITY, Byte
<1>3. t \in Seq(Byte) /\ Len(t) = 1
  BY ByteAssumption DEF Byte
<1> HIDE DEF c, t
<1>4. /\ h \in Seq(Byte) /\ Len(h) = Len(SS_ZF_ENTITY) + Len(c)
      /\ \A i \in 1 .. Len(c) : h[Len(SS_ZF_ENTITY) + i] = c[i]
  <2>1. c \in Seq(Byte)
    BY <1>1
  <2>2. SS_ZF_ENTITY \in Seq(Byte)
    BY <1>2
  <2>3. h \in Seq(Byte) /\ Len(h) = Len(SS_ZF_ENTITY) + Len(c)
    BY <2>1, <2>2, ConcatLen, Zenon
  <2>4. \A i \in 1 .. Len(c) : h[Len(SS_ZF_ENTITY) + i] = c[i]
    BY <2>1, <2>2, ConcatRight, Zenon
  <2> QED
    BY <2>3, <2>4, Zenon
<1> HIDE DEF h
<1>5. /\ b \in Seq(Byte) /\ Len(b) = Len(h) + Len(t)
      /\ \A i \in 1 .. Len(h) : b[i] = h[i]
  <2>1. h \in Seq(Byte)
    BY <1>4
  <2>2. t \in Seq(Byte)
    BY <1>3
  <2>3. b \in Seq(Byte) /\ Len(b) = Len(h) + Len(t)
    BY <2>1, <2>2, ConcatLen, Zenon
  <2>4. \A i \in 1 .. Len(h) : b[i] = h[i]
    BY <2>1, <2>2, ConcatLeft, Zenon
  <2> QED
    BY <2>3, <2>4, Zenon
<1> HIDE DEF b
<1>6. Len(h) = 5 /\ \A i \in 1 .. 4 : h[1 + i] = c[i]
  BY <1>1, <1>2, <1>4
<1>7. Len(b) = 6 /\ \A i \in 1 .. 4 : b[1 + i] = c[i]
  BY <1>3, <1>5, <1>6
<1>8. zf_kv_entity_range_begin(z) = b
  BY Zenon DEF zf_kv_entity_range_begin, b, h, t, c
<1> QED
  BY <1>5, <1>7, <1>8 DEF c

\* A key begins the way its zone's range does; the entity's id follows.
LEMMA KeyShape ==
  ASSUME NEW z \in U32, NEW e \in U32
  PROVE  /\ Len(zf_kv_entity_key(z, e)) = 10
         /\ \A i \in 1 .. 6 : zf_kv_entity_key(z, e)[i] = zf_kv_entity_range_begin(z)[i]
         /\ \A i \in 1 .. 4 : zf_kv_entity_key(z, e)[6 + i] = zf_kv_encode_u32_be(e)[i]
<1> DEFINE b == zf_kv_entity_range_begin(z)
           c == zf_kv_encode_u32_be(e)
           k == b \o c
<1>1. b \in Seq(Byte) /\ Len(b) = 6 /\ c \in Seq(Byte) /\ Len(c) = 4
  BY BeginShape, EncodeType
<1>2. zf_kv_entity_key(z, e) = k
  BY Zenon DEF zf_kv_entity_key, zf_kv_entity_range_begin
<1> HIDE DEF b, c
<1>3. /\ Len(k) = Len(b) + Len(c)
      /\ \A i \in 1 .. Len(b) : k[i] = b[i]
      /\ \A i \in 1 .. Len(c) : k[Len(b) + i] = c[i]
  <2>1. b \in Seq(Byte)
    BY <1>1
  <2>2. c \in Seq(Byte)
    BY <1>1
  <2>3. Len(k) = Len(b) + Len(c)
    BY <2>1, <2>2, ConcatLen, Zenon
  <2>4. \A i \in 1 .. Len(b) : k[i] = b[i]
    BY <2>1, <2>2, ConcatLeft, Zenon
  <2>5. \A i \in 1 .. Len(c) : k[Len(b) + i] = c[i]
    BY <2>1, <2>2, ConcatRight, Zenon
  <2> QED
    BY <2>3, <2>4, <2>5, Zenon
<1> HIDE DEF k
<1>4. Len(k) = 10 /\ (\A i \in 1 .. 6 : k[i] = b[i]) /\ (\A i \in 1 .. 4 : k[6 + i] = c[i])
  BY <1>1, <1>3
<1> QED
  BY <1>2, <1>4 DEF b, c

\* The end of the range: the same six bytes and 0xFF.
LEMMA EndShape ==
  ASSUME NEW z \in U32
  PROVE  /\ Len(zf_kv_entity_range_end(z)) = 7
         /\ \A i \in 1 .. 6 : zf_kv_entity_range_end(z)[i] = zf_kv_entity_range_begin(z)[i]
         /\ zf_kv_entity_range_end(z)[7] = Base - 1
<1> DEFINE b == zf_kv_entity_range_begin(z)
           t == <<Base - 1>>
           d == b \o t
<1>1. b \in Seq(Byte) /\ Len(b) = 6
  BY BeginShape
<1>2. t \in Seq(Byte) /\ Len(t) = 1 /\ t[1] = Base - 1
  BY ByteAssumption DEF Byte
<1>3. zf_kv_entity_range_end(z) = d
  BY Zenon DEF zf_kv_entity_range_end
<1> HIDE DEF b, t
<1>4. /\ Len(d) = Len(b) + Len(t)
      /\ \A i \in 1 .. Len(b) : d[i] = b[i]
      /\ \A i \in 1 .. Len(t) : d[Len(b) + i] = t[i]
  <2>1. b \in Seq(Byte)
    BY <1>1
  <2>2. t \in Seq(Byte)
    BY <1>2
  <2>3. Len(d) = Len(b) + Len(t)
    BY <2>1, <2>2, ConcatLen, Zenon
  <2>4. \A i \in 1 .. Len(b) : d[i] = b[i]
    BY <2>1, <2>2, ConcatLeft, Zenon
  <2>5. \A i \in 1 .. Len(t) : d[Len(b) + i] = t[i]
    BY <2>1, <2>2, ConcatRight, Zenon
  <2> QED
    BY <2>3, <2>4, <2>5, Zenon
<1> HIDE DEF d
<1>5. Len(d) = 7 /\ (\A i \in 1 .. 6 : d[i] = b[i]) /\ d[6 + 1] = Base - 1
  BY <1>1, <1>2, <1>4
<1> QED
  BY <1>3, <1>5 DEF b

\* Different zones' ranges begin differently.
LEMMA BeginInjective ==
  ASSUME NEW y \in U32, NEW z \in U32,
         \A i \in 1 .. 6 : zf_kv_entity_range_begin(y)[i] = zf_kv_entity_range_begin(z)[i]
  PROVE  y = z
<1>1. \A i \in 1 .. 4 : zf_kv_encode_u32_be(y)[i] = zf_kv_encode_u32_be(z)[i]
  <2> TAKE i \in 1 .. 4
  <2>1. 1 + i \in 1 .. 6
    OBVIOUS
  <2> QED
    BY <2>1, BeginShape
<1>2. zf_kv_decode_u32_be(zf_kv_encode_u32_be(y)) = zf_kv_decode_u32_be(zf_kv_encode_u32_be(z))
  BY <1>1 DEF zf_kv_decode_u32_be
<1> QED
  BY <1>2, DecodeEncode

\* The scan of zone z meets no key of another zone, whatever the e_id: the
\* key-range isolation the deployment of one process per zone rests on.
THEOREM ScanIsolation ==
  ASSUME NEW y \in U32, NEW z \in U32, NEW e \in U32,
         InEntityRange(z, zf_kv_entity_key(y, e))
  PROVE  y = z
<1> DEFINE k == zf_kv_entity_key(y, e)
           b == zf_kv_entity_range_begin(z)
           d == zf_kv_entity_range_end(z)
<1>1. Len(k) = 10 /\ Len(b) = 6 /\ Len(d) = 7
  BY KeyShape, BeginShape, EndShape
<1>2. \A i \in 1 .. 6 : d[i] = b[i]
  BY EndShape
<1>3. ~ KeyLess(k, b) /\ KeyLess(k, d)
  BY DEF InEntityRange
<1>4. \A i \in 1 .. 6 : k[i] = zf_kv_entity_range_begin(y)[i]
  BY KeyShape
<1> HIDE DEF k, b, d
<1>5. PICK i \in 1 .. 10 : i =< 7 /\ k[i] < d[i] /\ \A j \in 1 .. (i - 1) : k[j] = d[j]
  BY <1>1, <1>3 DEF KeyLess, IsPrefixOf
<1>6. i = 7
  <2> SUFFICES ASSUME i \in 1 .. 6 PROVE FALSE
    BY <1>5
  <2>1. k[i] < b[i] /\ \A j \in 1 .. (i - 1) : k[j] = b[j]
    BY <1>2, <1>5
  <2> QED
    BY <1>1, <1>3, <2>1 DEF KeyLess
<1>7. \A j \in 1 .. 6 : k[j] = b[j]
  BY <1>2, <1>5, <1>6
<1> QED
  BY <1>4, <1>7, BeginInjective DEF b

\* The scan of a zone finds every entity of it whose e_id does not start with
\* the byte 0xFF.  (The entities whose e_id does are out of its reach.)
THEOREM ScanFinds ==
  ASSUME NEW z \in U32, NEW e \in U32
  PROVE  InEntityRange(z, zf_kv_entity_key(z, e)) <=> zf_kv_encode_u32_be(e)[1] # Base - 1
<1> DEFINE k == zf_kv_entity_key(z, e)
           b == zf_kv_entity_range_begin(z)
           d == zf_kv_entity_range_end(z)
           c == zf_kv_encode_u32_be(e)
<1>1. Len(k) = 10 /\ Len(b) = 6 /\ Len(d) = 7
  BY KeyShape, BeginShape, EndShape
<1>2. \A i \in 1 .. 6 : d[i] = b[i] /\ k[i] = b[i]
  BY EndShape, KeyShape
<1>3. k[7] = c[1] /\ d[7] = Base - 1 /\ c[1] \in Byte
  <2>1. 1 \in 1 .. 4 /\ 6 + 1 = 7
    OBVIOUS
  <2> QED
    BY <2>1, EndShape, KeyShape, EncodeType
<1>4. \A i \in 1 .. 6 : b[i] \in Byte
  BY <1>1, BeginShape, ElementOfSeq
<1>5. Byte \subseteq Int /\ (c[1] < Base - 1 <=> c[1] # Base - 1)
  BY <1>3, ByteAssumption DEF Byte
<1> HIDE DEF k, b, d, c
<1>6. ~ KeyLess(k, b)
  <2>1. ~ (Len(k) < Len(b))
    BY <1>1
  <2>2. ASSUME NEW i \in 1 .. Len(k), i =< Len(b) PROVE ~ (k[i] < b[i])
    <3>1. i \in 1 .. 6
      BY <1>1, <2>2
    <3>2. k[i] = b[i] /\ k[i] \in Int
      BY <1>2, <1>4, <1>5, <3>1
    <3> QED
      BY <3>2
  <2> QED
    BY <2>1, <2>2 DEF KeyLess
<1>7. KeyLess(k, d) <=> c[1] < Base - 1
  <2>1. ASSUME c[1] < Base - 1 PROVE KeyLess(k, d)
    <3>1. 7 \in 1 .. Len(k) /\ 7 =< Len(d) /\ k[7] < d[7]
      BY <1>1, <1>3, <2>1
    <3>2. \A j \in 1 .. (7 - 1) : k[j] = d[j]
      BY <1>2
    <3> QED
      BY <3>1, <3>2 DEF KeyLess
  <2>2. ASSUME KeyLess(k, d) PROVE c[1] < Base - 1
    <3>1. PICK i \in 1 .. 10 : i =< 7 /\ k[i] < d[i]
      BY <1>1, <2>2 DEF KeyLess, IsPrefixOf
    <3>2. i = 7
      <4> SUFFICES ASSUME i \in 1 .. 6 PROVE FALSE
        BY <3>1
      <4>1. k[i] = d[i] /\ k[i] \in Int
        BY <1>2, <1>4, <1>5
      <4> QED
        BY <3>1, <4>1
    <3> QED
      BY <1>3, <3>1, <3>2
  <2> QED
    BY <2>1, <2>2
<1> QED
  BY <1>5, <1>6, <1>7 DEF InEntityRange, k, b, d, c

\* The first byte of a range is the entity prefix,
LEMMA BeginFirst ==
  ASSUME NEW z \in U32
  PROVE  zf_kv_entity_range_begin(z)[1] = 0
<1> DEFINE c == zf_kv_encode_u32_be(z)
           t == <<Slash>>
           p == SS_ZF_ENTITY
<1>1. c \in Seq(Byte) /\ Len(c) = 4
  BY EncodeType
<1>2. p \in Seq(Byte) /\ Len(p) = 1 /\ p[1] = 0
  BY ByteAssumption DEF SS_ZF_ENTITY, Byte
<1>3. t \in Seq(Byte) /\ Len(t) = 1
  BY ByteAssumption DEF Byte
<1> HIDE DEF c, t, p
<1>4. p \o c \in Seq(Byte) /\ \A i \in 1 .. Len(p) : (p \o c)[i] = p[i]
  BY <1>1, <1>2, ConcatLen, ConcatLeft, Zenon
<1>5. Len(p \o c) = 5
  <2>1. c \in Seq(Byte)
    BY <1>1
  <2>2. p \in Seq(Byte)
    BY <1>2
  <2>3. Len(p \o c) = Len(p) + Len(c)
    BY <2>1, <2>2, ConcatLen, Zenon
  <2> QED
    BY <1>1, <1>2, <2>3
<1>6. \A i \in 1 .. Len(p \o c) : ((p \o c) \o t)[i] = (p \o c)[i]
  BY <1>3, <1>4, ConcatLeft, Zenon
<1>7. ((p \o c) \o t)[1] = 0
  BY <1>2, <1>4, <1>5, <1>6
<1> QED
  BY <1>7 DEF zf_kv_entity_range_begin, c, t, p

\* and a zone's key starts with the other prefix; the zone's id follows.
LEMMA ZoneKeyShape ==
  ASSUME NEW z \in U32
  PROVE  /\ zf_kv_zone_key(z)[1] = 1 /\ Len(zf_kv_zone_key(z)) = 5
         /\ \A i \in 1 .. 4 : zf_kv_zone_key(z)[1 + i] = zf_kv_encode_u32_be(z)[i]
<1> DEFINE c == zf_kv_encode_u32_be(z)
           p == SS_ZF_ZONE
           k == p \o c
<1>1. c \in Seq(Byte) /\ Len(c) = 4
  BY EncodeType
<1>2. p \in Seq(Byte) /\ Len(p) = 1 /\ p[1] = 1
  BY ByteAssumption DEF SS_ZF_ZONE, Byte
<1>3. zf_kv_zone_key(z) = k
  BY Zenon DEF zf_kv_zone_key
<1> HIDE DEF c, p
<1>4. Len(k) = Len(p) + Len(c)
  BY <1>1, <1>2, ConcatLen, Zenon
<1>5. \A i \in 1 .. Len(p) : k[i] = p[i]
  BY <1>1, <1>2, ConcatLeft, Zenon
<1>6. \A i \in 1 .. Len(c) : k[Len(p) + i] = c[i]
  <2>1. c \in Seq(Byte)
    BY <1>1
  <2>2. p \in Seq(Byte)
    BY <1>2
  <2> QED
    BY <2>1, <2>2, ConcatRight, Zenon
<1> HIDE DEF k
<1>7. k[1] = 1 /\ Len(k) = 5 /\ \A i \in 1 .. 4 : k[1 + i] = c[i]
  BY <1>1, <1>2, <1>4, <1>5, <1>6
<1> QED
  BY <1>3, <1>7 DEF c

\* Encoded ids that agree byte by byte are of one id.
LEMMA EncodeInjective ==
  ASSUME NEW u \in U32, NEW v \in U32,
         \A i \in 1 .. 4 : zf_kv_encode_u32_be(u)[i] = zf_kv_encode_u32_be(v)[i]
  PROVE  u = v
<1>1. zf_kv_decode_u32_be(zf_kv_encode_u32_be(u)) = zf_kv_decode_u32_be(zf_kv_encode_u32_be(v))
  BY DEF zf_kv_decode_u32_be
<1> QED
  BY <1>1, DecodeEncode

\* A key is one entity's,
LEMMA KeyInjective ==
  ASSUME NEW y \in U32, NEW d \in U32, NEW z \in U32, NEW e \in U32,
         zf_kv_entity_key(y, d) = zf_kv_entity_key(z, e)
  PROVE  y = z /\ d = e
<1>1. y = z
  <2>1. \A i \in 1 .. 6 : zf_kv_entity_range_begin(y)[i] = zf_kv_entity_range_begin(z)[i]
    BY KeyShape
  <2> QED
    BY <2>1, BeginInjective
<1>2. \A i \in 1 .. 4 : zf_kv_encode_u32_be(d)[i] = zf_kv_encode_u32_be(e)[i]
  BY KeyShape
<1> QED
  BY <1>1, <1>2, EncodeInjective

\* or one zone's,
LEMMA ZoneKeyInjective ==
  ASSUME NEW y \in U32, NEW z \in U32, zf_kv_zone_key(y) = zf_kv_zone_key(z)
  PROVE  y = z
<1>1. \A i \in 1 .. 4 : zf_kv_encode_u32_be(y)[i] = zf_kv_encode_u32_be(z)[i]
  BY ZoneKeyShape
<1> QED
  BY <1>1, EncodeInjective

\* and never both.
LEMMA KeyKinds ==
  ASSUME NEW y \in U32, NEW z \in U32, NEW e \in U32
  PROVE  zf_kv_zone_key(y) # zf_kv_entity_key(z, e)
<1>1. zf_kv_entity_key(z, e)[1] = 0
  BY KeyShape, BeginFirst
<1> QED
  BY <1>1, ZoneKeyShape

\* Both ids can be read back from the bytes of a key.
LEMMA KeyIds ==
  ASSUME NEW z \in U32, NEW e \in U32
  PROVE  LET key == zf_kv_entity_key(z, e)
             n == Len(SS_ZF_ENTITY)
         IN  /\ zf_kv_decode_u32_be(SubSeq(key, n + 1, n + 4)) = z
             /\ zf_kv_decode_u32_be(SubSeq(key, n + 6, n + 9)) = e
<1> DEFINE key == zf_kv_entity_key(z, e)
<1>1. Len(SS_ZF_ENTITY) = 1
  BY DEF SS_ZF_ENTITY
<1>2. \A i \in 1 .. 4 : key[1 + i] = zf_kv_encode_u32_be(z)[i]
  <2> TAKE i \in 1 .. 4
  <2>1. 1 + i \in 1 .. 6
    OBVIOUS
  <2> QED
    BY <2>1, KeyShape, BeginShape
<1>3. \A i \in 1 .. 4 : key[6 + i] = zf_kv_encode_u32_be(e)[i]
  BY KeyShape
<1> HIDE DEF key
<1>4. \A i \in 1 .. 4 : SubSeq(key, 2, 5)[i] = zf_kv_encode_u32_be(z)[i]
  BY <1>2
<1>5. \A i \in 1 .. 4 : SubSeq(key, 7, 10)[i] = zf_kv_encode_u32_be(e)[i]
  BY <1>3
<1>6. zf_kv_decode_u32_be(SubSeq(key, 2, 5)) = z
  <2>1. zf_kv_decode_u32_be(SubSeq(key, 2, 5)) = zf_kv_decode_u32_be(zf_kv_encode_u32_be(z))
    BY <1>4 DEF zf_kv_decode_u32_be
  <2> QED
    BY <2>1, DecodeEncode
<1>7. zf_kv_decode_u32_be(SubSeq(key, 7, 10)) = e
  <2>1. zf_kv_decode_u32_be(SubSeq(key, 7, 10)) = zf_kv_decode_u32_be(zf_kv_encode_u32_be(e))
    BY <1>5 DEF zf_kv_decode_u32_be
  <2> QED
    BY <2>1, DecodeEncode
<1>8. 1 + 1 = 2 /\ 1 + 4 = 5 /\ 1 + 6 = 7 /\ 1 + 9 = 10
  OBVIOUS
<1> QED
  BY <1>1, <1>6, <1>7, <1>8 DEF key

\* Keys of one zone compare the way their entities' ids do.
LEMMA KeyOrder ==
  ASSUME NEW z \in U32, NEW d \in U32, NEW e \in U32
  PROVE  d < e <=> KeyLess(zf_kv_entity_key(z, d), zf_kv_entity_key(z, e))
<1> DEFINE j == zf_kv_entity_key(z, d)
           k == zf_kv_entity_key(z, e)
           b == zf_kv_encode_u32_be(d)
           c == zf_kv_encode_u32_be(e)
<1>1. Len(j) = 10 /\ Len(k) = 10
  BY KeyShape
<1>2. \A n \in 1 .. 6 : j[n] = k[n] /\ j[n] \in Byte
  BY KeyShape, BeginShape, ElementOfSeq
<1>3. \A n \in 1 .. 4 : j[6 + n] = b[n] /\ k[6 + n] = c[n]
  BY KeyShape
<1>4. d < e <=> BytesLess(b, c)
  BY EncodeOrder
<1> HIDE DEF j, k, b, c
<1>5. ASSUME BytesLess(b, c) PROVE KeyLess(j, k)
  <2>1. PICK n \in 1 .. 4 : b[n] < c[n] /\ \A m \in 1 .. (n - 1) : b[m] = c[m]
    BY <1>5 DEF BytesLess
  <2>2. 6 + n \in 1 .. Len(j) /\ 6 + n =< Len(k) /\ j[6 + n] < k[6 + n]
    BY <1>1, <1>3, <2>1
  <2>3. ASSUME NEW m \in 1 .. ((6 + n) - 1) PROVE j[m] = k[m]
    <3>1. CASE m =< 6
      BY <1>2, <3>1
    <3>2. CASE m > 6
      <4>1. m - 6 \in 1 .. (n - 1) /\ m - 6 \in 1 .. 4 /\ 6 + (m - 6) = m
        BY <3>2
      <4>2. j[6 + (m - 6)] = k[6 + (m - 6)]
        BY <1>3, <2>1, <4>1
      <4> QED
        BY <4>1, <4>2
    <3> QED
      BY <3>1, <3>2
  <2> QED
    BY <2>2, <2>3 DEF KeyLess
<1>6. ASSUME KeyLess(j, k) PROVE BytesLess(b, c)
  <2>1. PICK n \in 1 .. 10 : j[n] < k[n] /\ \A m \in 1 .. (n - 1) : j[m] = k[m]
    BY <1>1, <1>6 DEF KeyLess
  <2>2. n > 6
    <3> SUFFICES ASSUME n \in 1 .. 6 PROVE FALSE
      OBVIOUS
    <3>1. j[n] = k[n] /\ j[n] \in Int
      BY <1>2 DEF Byte
    <3> QED
      BY <2>1, <3>1
  <2>3. n - 6 \in 1 .. 4 /\ 6 + (n - 6) = n
    BY <2>2
  <2>4. b[n - 6] < c[n - 6]
    BY <1>3, <2>1, <2>3
  <2>5. ASSUME NEW m \in 1 .. ((n - 6) - 1) PROVE b[m] = c[m]
    <3>1. m \in 1 .. 4 /\ 6 + m \in 1 .. (n - 1)
      BY <2>3
    <3> QED
      BY <1>3, <2>1, <3>1
  <2> QED
    BY <2>3, <2>4, <2>5 DEF BytesLess
<1> QED
  BY <1>4, <1>5, <1>6 DEF j, k, b, c

\* The scan of a zone meets no zone's record.
LEMMA ScanSkipsZones ==
  ASSUME NEW y \in U32, NEW z \in U32
  PROVE  ~ InEntityRange(z, zf_kv_zone_key(y))
<1> DEFINE k == zf_kv_zone_key(y)
           d == zf_kv_entity_range_end(z)
<1>1. k[1] = 1 /\ Len(k) = 5
  BY ZoneKeyShape
<1>2. d[1] = 0 /\ Len(d) = 7
  BY EndShape, BeginFirst
<1> HIDE DEF k, d
<1>3. ~ IsPrefixOf(k, d)
  BY <1>1, <1>2 DEF IsPrefixOf
<1>4. ASSUME NEW i \in 1 .. Len(k), k[i] < d[i], \A j \in 1 .. (i - 1) : k[j] = d[j]
      PROVE  FALSE
  <2>1. CASE i = 1
    BY <1>1, <1>2, <1>4, <2>1
  <2>2. CASE i # 1
    <3>1. 1 \in 1 .. (i - 1)
      BY <1>1, <2>2
    <3> QED
      BY <1>1, <1>2, <1>4, <3>1
  <2> QED
    BY <2>1, <2>2
<1>5. ~ KeyLess(k, d)
  BY <1>3, <1>4 DEF KeyLess
<1> QED
  BY <1>5 DEF InEntityRange, k, d

-----------------------------------------------------------------------------
(* Arithmetic of the position update.                                      *)

\* The remainder of a division is unique.
LEMMA Remainder ==
    ASSUME NEW m \in Nat \ {0}, NEW q \in Int, NEW r \in 0 .. (m - 1)
    PROVE  (m * q + r) % m = r
<1> DEFINE x == m * q + r
           d == x \div m
           s == x % m
<1>1. x \in Int
      BY Z3
<1>2. d \in Int /\ s \in 0 .. (m - 1) /\ x = m * d + s
  <2> HIDE DEF x
  <2>1. QED BY <1>1, Z3
<1>3. m * q + r = m * d + s
      BY <1>2
<1> HIDE DEF x, d, s
<1>4. CASE q > d
  <2>1. m * q >= m * (d + 1) /\ m * (d + 1) = m * d + m
        BY <1>2, <1>4, Z3
  <2>2. QED BY <2>1, <1>2, <1>3, Z3
<1>5. CASE q < d
  <2>1. m * d >= m * (q + 1) /\ m * (q + 1) = m * q + m
        BY <1>2, <1>5, Z3
  <2>2. QED BY <2>1, <1>2, <1>3, Z3
<1>6. CASE q = d
  <2>1. s = r
        BY <1>2, <1>3, <1>6, Z3
  <2>2. QED BY <2>1 DEF s, x
<1>7. QED BY <1>2, <1>4, <1>5, <1>6

\* Wrapping takes a multiple of 2^64 off, and leaves a 64-bit value.
LEMMA WrapIs ==
    ASSUME NEW x \in Int
    PROVE  \E d \in Int : Wrap64(x) = x - (2 * PosHalf) * d /\ Wrap64(x) \in Int64
<1> DEFINE m == 2 * PosHalf
           y == x + PosHalf
<1>1. m \in Nat \ {0} /\ y \in Int /\ PosHalf \in Nat
      BY DataAssumption
<1>2. y \div m \in Int /\ y % m \in 0 .. (m - 1) /\ y = m * (y \div m) + (y % m)
  <2> HIDE DEF m, y
  <2>1. QED BY <1>1, Z3
<1>3. Wrap64(x) = (y % m) - PosHalf
      BY DEF Wrap64
<1> DEFINE d == y \div m
           s == y % m
           p == m * d
<1>4. p \in Int /\ y = p + s /\ s \in 0 .. (m - 1) /\ d \in Int
  <2> HIDE DEF m, y
  <2>1. QED BY <1>1, <1>2, Z3
<1>5. Wrap64(x) = s - PosHalf
      BY <1>3
<1> HIDE DEF p, d, s
<1>6. Wrap64(x) = x - p /\ Wrap64(x) \in Int64
      BY <1>1, <1>4, <1>5 DEF Int64
<1>7. Wrap64(x) = x - (2 * PosHalf) * d
      BY <1>6 DEF p
<1>8. QED BY <1>4, <1>6, <1>7

\* A multiple of 2^64 makes no difference.
LEMMA WrapShift ==
    ASSUME NEW x \in Int, NEW d \in Int
    PROVE  Wrap64(x - (2 * PosHalf) * d) = Wrap64(x)
<1> DEFINE m == 2 * PosHalf
           y == x + PosHalf
           z == (x - (2 * PosHalf) * d) + PosHalf
<1>1. m \in Nat \ {0} /\ y \in Int /\ PosHalf \in Nat
      BY DataAssumption
<1>2. y \div m \in Int /\ y % m \in 0 .. (m - 1) /\ y = m * (y \div m) + (y % m)
  <2> HIDE DEF m, y
  <2>1. QED BY <1>1, Z3
<1>3. z = m * ((y \div m) - d) + (y % m)
  <2> DEFINE e == y \div m
             s == y % m
  <2>1. e \in Int /\ s \in Int /\ y = m * e + s
        BY <1>2
  <2> HIDE DEF e, s
  <2>2. z = y - m * d
        <3>1. m * d \in Int
              BY <1>1, Z3
        <3> DEFINE p == m * d
        <3>2. p \in Int /\ z = (x - p) + PosHalf
              BY <3>1
        <3> HIDE DEF p, z
        <3>3. z = y - p
              BY <1>1, <3>2
        <3>4. QED BY <3>3 DEF p
  <2> HIDE DEF z, y, m
  <2>3. z = m * (e - d) + s
        BY <1>1, <2>1, <2>2, Z3
  <2>4. QED BY <2>3 DEF e, s
<1>4. z % m = y % m
      <2>1. (y \div m) - d \in Int
            BY <1>2
      <2> HIDE DEF z, y, m
      <2>2. QED BY <1>1, <1>2, <1>3, <2>1, Remainder
<1>5. QED BY <1>4 DEF Wrap64

\* Wrapping a sum once or after every term is the same,
LEMMA WrapAdd ==
    ASSUME NEW x \in Int, NEW y \in Int
    PROVE  Wrap64(Wrap64(x) + y) = Wrap64(x + y)
<1>1. PICK d \in Int : Wrap64(x) = x - (2 * PosHalf) * d
      BY WrapIs
<1> DEFINE p == (2 * PosHalf) * d
<1>2. p \in Int
      BY DataAssumption, Z3
<1>3. Wrap64(x) + y = (x + y) - p
  <2> HIDE DEF p
  <2>1. Wrap64(x) = x - p
        BY <1>1 DEF p
  <2>2. QED BY <1>2, <2>1
<1>4. x + y \in Int
      OBVIOUS
<1>5. QED BY <1>3, <1>4, WrapShift

\* and a 64-bit value is left as it is.
LEMMA WrapIdentity ==
    ASSUME NEW x \in Int64
    PROVE  Wrap64(x) = x
<1>1. x + PosHalf \in 0 .. (2 * PosHalf - 1)
      BY DataAssumption DEF Int64
<1>2. (x + PosHalf) % (2 * PosHalf) = x + PosHalf
  <2> DEFINE m == 2 * PosHalf
             r == x + PosHalf
  <2>1. m \in Nat \ {0} /\ r \in 0 .. (m - 1)
        BY <1>1, DataAssumption
  <2> HIDE DEF m, r
  <2>2. m * 0 + r = r
        BY <2>1, Z3
  <2>3. r % m = r
        BY <2>1, <2>2, Remainder
  <2>4. QED BY <2>3 DEF m, r
<1>3. QED BY <1>2, DataAssumption DEF Wrap64, Int64

\* Rounding toward zero is symmetric, and so is the scaled velocity.
LEMMA VelSymmetric ==
    ASSUME NEW v \in Int16
    PROVE  /\ vel_to_um_per_tick(v) \in Int
           /\ vel_to_um_per_tick(-v) = -vel_to_um_per_tick(v)
<1> DEFINE a == v * V_MAX
<1>1. a \in Int /\ (-v) * V_MAX = -a
  <2>1. v \in Int /\ V_MAX \in Nat /\ INT16_MAX \in Nat
        BY DataAssumption DEF Int16
  <2>2. QED BY <2>1, Z3
<1> HIDE DEF a
<1>2. /\ TruncDiv(a, INT16_MAX) \in Int
      /\ TruncDiv(-a, INT16_MAX) = -TruncDiv(a, INT16_MAX)
  <2>1. \A c \in Nat : c \div INT16_MAX \in Nat
        BY DataAssumption, Z3
  <2>2. 0 \div INT16_MAX = 0
        BY DataAssumption, Z3
  <2>3. CASE a = 0
        BY <2>2, <2>3 DEF TruncDiv
  <2>4. CASE a > 0
    <3>1. /\ TruncDiv(a, INT16_MAX) = a \div INT16_MAX
          /\ TruncDiv(-a, INT16_MAX) = -((-(-a)) \div INT16_MAX) /\ -(-a) = a
          BY <1>1, <2>4 DEF TruncDiv
    <3>2. a \in Nat
          BY <1>1, <2>4
    <3>3. QED BY <2>1, <3>1, <3>2
  <2>5. CASE a < 0
    <3>1. /\ TruncDiv(-a, INT16_MAX) = (-a) \div INT16_MAX
          /\ TruncDiv(a, INT16_MAX) = -((-a) \div INT16_MAX)
          BY <1>1, <2>5 DEF TruncDiv
    <3>2. -a \in Nat
          BY <1>1, <2>5
    <3>3. QED BY <2>1, <3>1, <3>2
  <2>6. QED BY <1>1, <2>3, <2>4, <2>5
<1>3. QED BY <1>1, <1>2 DEF vel_to_um_per_tick, a

-----------------------------------------------------------------------------
(* Moving.                                                                 *)

\* A moved entity is an entity, and only its position differs.
LEMMA MoveIs ==
    ASSUME NEW ev \in EntityVal, NEW n \in Nat
    PROVE  /\ Move(ev, n) \in EntityVal
           /\ Move(ev, n).global_id = ev.global_id /\ Move(ev, n).vel = ev.vel
           /\ Move(ev, n).pos = [a \in Axes |->
                  Wrap64(ev.pos[a] + vel_to_um_per_tick(ev.vel[a]) * n)]
           /\ \A a \in Axes : /\ ev.pos[a] \in Int64 /\ ev.pos[a] \in Int /\ ev.vel[a] \in Int16
                              /\ vel_to_um_per_tick(ev.vel[a]) * n \in Int
<1>1. \A a \in Axes : ev.pos[a] \in Int64 /\ ev.pos[a] \in Int /\ ev.vel[a] \in Int16
      BY DataAssumption DEF EntityVal, Int64
<1>2. \A a \in Axes : vel_to_um_per_tick(ev.vel[a]) * n \in Int
  <2>1. SUFFICES ASSUME NEW a \in Axes PROVE vel_to_um_per_tick(ev.vel[a]) * n \in Int
        OBVIOUS
  <2>2. vel_to_um_per_tick(ev.vel[a]) \in Int
        BY <1>1, VelSymmetric
  <2>3. QED BY <2>2, Z3
<1>3. \A a \in Axes : Wrap64(ev.pos[a] + vel_to_um_per_tick(ev.vel[a]) * n) \in Int64
  <2>1. SUFFICES ASSUME NEW a \in Axes
                 PROVE  Wrap64(ev.pos[a] + vel_to_um_per_tick(ev.vel[a]) * n) \in Int64
        OBVIOUS
  <2>2. ev.pos[a] + vel_to_um_per_tick(ev.vel[a]) * n \in Int
        BY <1>1, <1>2
  <2>3. QED BY <2>2, WrapIs
<1>4. QED BY <1>1, <1>2, <1>3 DEF Move, EntityVal

\* Two entities with the same fields are the same.
LEMMA SameEntity ==
    ASSUME NEW ev \in EntityVal, NEW fv \in EntityVal, ev.global_id = fv.global_id,
           ev.vel = fv.vel, \A a \in Axes : ev.pos[a] = fv.pos[a]
    PROVE  ev = fv
<1>1. ev.pos = fv.pos
      BY DEF EntityVal
<1>2. QED BY <1>1 DEF EntityVal

\* Moving for t ticks and then for n is moving for t + n.
LEMMA MoveCompose ==
    ASSUME NEW ev \in EntityVal, NEW t \in Nat, NEW n \in Nat
    PROVE  Move(Move(ev, t), n) = Move(ev, t + n)
<1> DEFINE mv == Move(ev, t)
           lhs == Move(mv, n)
           rhs == Move(ev, t + n)
<1>1. /\ mv \in EntityVal /\ mv.vel = ev.vel /\ mv.global_id = ev.global_id
      /\ mv.pos = [a \in Axes |-> Wrap64(ev.pos[a] + vel_to_um_per_tick(ev.vel[a]) * t)]
      BY MoveIs
<1> HIDE DEF mv
<1>2. /\ lhs \in EntityVal /\ lhs.vel = ev.vel /\ lhs.global_id = ev.global_id
      /\ \A a \in Axes : lhs.pos[a] = Wrap64(mv.pos[a] + vel_to_um_per_tick(ev.vel[a]) * n)
  <2>1. /\ lhs \in EntityVal /\ lhs.vel = mv.vel /\ lhs.global_id = mv.global_id
        /\ lhs.pos = [a \in Axes |-> Wrap64(mv.pos[a] + vel_to_um_per_tick(mv.vel[a]) * n)]
        BY <1>1, MoveIs
  <2> HIDE DEF lhs
  <2>2. QED BY <1>1, <2>1
<1>3. /\ rhs \in EntityVal /\ rhs.vel = ev.vel /\ rhs.global_id = ev.global_id
      /\ rhs.pos = [a \in Axes |-> Wrap64(ev.pos[a] + vel_to_um_per_tick(ev.vel[a]) * (t + n))]
  <2>1. t + n \in Nat
        OBVIOUS
  <2>2. QED BY <2>1, MoveIs
<1>4. \A a \in Axes : lhs.pos[a] = rhs.pos[a]
  <2>1. SUFFICES ASSUME NEW a \in Axes PROVE lhs.pos[a] = rhs.pos[a]
        OBVIOUS
  <2> DEFINE u == vel_to_um_per_tick(ev.vel[a])
  <2>2. ev.pos[a] \in Int /\ u \in Int /\ u * t \in Int /\ u * n \in Int
        BY MoveIs, VelSymmetric
  <2> HIDE DEF u
  <2>3. u * (t + n) = u * t + u * n
        BY <2>2, Z3
  <2> DEFINE x == ev.pos[a] + u * t
             y == u * n
  <2>4. x \in Int /\ y \in Int /\ ev.pos[a] + u * (t + n) = x + y
        BY <2>2, <2>3
  <2>5. mv.pos[a] = Wrap64(x)
        BY <1>1 DEF u
  <2>6. lhs.pos[a] = Wrap64(Wrap64(x) + y)
        BY <1>2, <2>5 DEF u
  <2>7. rhs.pos[a] = Wrap64(x + y)
        BY <1>3, <2>4 DEF u
  <2> HIDE DEF x, y
  <2>8. QED BY <2>4, <2>6, <2>7, WrapAdd
<1> HIDE DEF lhs, rhs
<1>5. lhs = rhs
      BY <1>2, <1>3, <1>4, SameEntity
<1>6. QED BY <1>5 DEF lhs, rhs, mv

\* No ticks, no motion.
LEMMA MoveNone ==
    ASSUME NEW ev \in EntityVal
    PROVE  Move(ev, 0) = ev
<1> DEFINE mv == Move(ev, 0)
<1>1. /\ mv \in EntityVal /\ mv.vel = ev.vel /\ mv.global_id = ev.global_id
      /\ mv.pos = [a \in Axes |-> Wrap64(ev.pos[a] + vel_to_um_per_tick(ev.vel[a]) * 0)]
      /\ \A a \in Axes : ev.pos[a] \in Int64 /\ ev.pos[a] \in Int /\ ev.vel[a] \in Int16
  <2>1. 0 \in Nat
        OBVIOUS
  <2>2. QED BY <2>1, MoveIs
<1> HIDE DEF mv
<1>2. \A a \in Axes : mv.pos[a] = ev.pos[a]
  <2>1. SUFFICES ASSUME NEW a \in Axes PROVE mv.pos[a] = ev.pos[a]
        OBVIOUS
  <2> DEFINE u == vel_to_um_per_tick(ev.vel[a])
  <2>2. u \in Int
        BY <1>1, VelSymmetric
  <2> HIDE DEF u
  <2>3. ev.pos[a] + u * 0 = ev.pos[a]
        BY <1>1, <2>2
  <2>4. mv.pos[a] = Wrap64(ev.pos[a])
        BY <1>1, <2>3 DEF u
  <2>5. QED BY <1>1, <2>4, WrapIdentity
<1>3. mv = ev
      BY <1>1, <1>2, SameEntity
<1>4. QED BY <1>3 DEF mv

\* 2^64 ticks bring every axis back: only the remainder of the count matters.
LEMMA MovePeriod ==
    ASSUME NEW ev \in EntityVal, NEW n \in Nat
    PROVE  /\ n % (2 * PosHalf) \in 0 .. (2 * PosHalf - 1)
           /\ Move(ev, n) = Move(ev, n % (2 * PosHalf))
<1> DEFINE m == 2 * PosHalf
           q == n \div m
           r == n % m
           lhs == Move(ev, n)
           rhs == Move(ev, r)
<1>1. m \in Nat \ {0}
      BY DataAssumption
<1>2. q \in Int /\ r \in 0 .. (m - 1) /\ r \in Nat /\ n = m * q + r
  <2> HIDE DEF m
  <2>1. QED BY <1>1, Z3
<1> HIDE DEF q, r
<1>3. /\ lhs \in EntityVal /\ lhs.vel = ev.vel /\ lhs.global_id = ev.global_id
      /\ lhs.pos = [a \in Axes |-> Wrap64(ev.pos[a] + vel_to_um_per_tick(ev.vel[a]) * n)]
      BY MoveIs
<1>4. /\ rhs \in EntityVal /\ rhs.vel = ev.vel /\ rhs.global_id = ev.global_id
      /\ rhs.pos = [a \in Axes |-> Wrap64(ev.pos[a] + vel_to_um_per_tick(ev.vel[a]) * r)]
      BY <1>2, MoveIs
<1> HIDE DEF lhs, rhs
<1>5. \A a \in Axes : lhs.pos[a] = rhs.pos[a]
  <2>1. SUFFICES ASSUME NEW a \in Axes PROVE lhs.pos[a] = rhs.pos[a]
        OBVIOUS
  <2> DEFINE u == vel_to_um_per_tick(ev.vel[a])
             x == ev.pos[a] + u * n
             d == u * q
  <2>2. ev.pos[a] \in Int /\ u \in Int /\ u * n \in Int
        BY MoveIs, VelSymmetric
  <2>3. lhs.pos[a] = Wrap64(x) /\ rhs.pos[a] = Wrap64(ev.pos[a] + u * r)
        BY <1>3, <1>4
  <2> HIDE DEF u
  <2>4. x \in Int /\ d \in Int
        BY <1>2, <2>2, Z3
  <2>5. x - m * d = ev.pos[a] + u * r
    <3> HIDE DEF m
    <3>1. u * n = m * (u * q) + u * r
          BY <1>1, <1>2, <2>2, Z3
    <3>2. m * (u * q) \in Int /\ u * r \in Int
          BY <1>1, <1>2, <2>2, Z3
    <3>3. QED BY <2>2, <3>1, <3>2
  <2> HIDE DEF x, d
  <2>6. Wrap64(x - m * d) = Wrap64(x)
        BY <2>4, WrapShift
  <2>7. QED BY <2>3, <2>5, <2>6
<1>6. lhs = rhs
      BY <1>3, <1>4, <1>5, SameEntity
<1>7. QED BY <1>2, <1>6 DEF lhs, rhs, r
=============================================================================
