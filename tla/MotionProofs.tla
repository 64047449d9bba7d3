---------------------------- MODULE MotionProofs ----------------------------
(***************************************************************************)
(* The packet codec and the motion of an entity, for integers of every     *)
(* width, the code's included, and for any number of ticks.                *)
(***************************************************************************)
EXTENDS PacketMotion, DataProofs

-----------------------------------------------------------------------------
(* The packet codec.                                                       *)

Offsets == 0 .. (PACKET_SIZE - 1)

\* Buffer r is b but for the n bytes from off.
Writes(b, r, off, n) ==
    r \in Buffer /\ \A k \in Offsets : k < off \/ k >= off + n => r[k] = b[k]

\* Buffers r and b have the same n bytes from off.
Agree(b, r, off, n) == \A k \in Offsets : off =< k /\ k < off + n => r[k] = b[k]

\* Division with remainder.
LEMMA Digits ==
    ASSUME NEW x \in Nat, NEW m \in Nat \ {0}, NEW q \in Nat, x < m * q
    PROVE  /\ x \div m \in Nat /\ x \div m < q
           /\ x % m \in 0 .. (m - 1)
           /\ (x % m) + m * (x \div m) = x
<1> DEFINE d == x \div m
           r == x % m
<1>1. d \in Nat /\ r \in 0 .. (m - 1) /\ x = m * d + r
      BY Z3
<1> HIDE DEF d, r
<1>2. d < q
  <2>1. SUFFICES ASSUME d >= q PROVE FALSE
        BY <1>1
  <2>2. m * d >= m * q
        BY <1>1, <2>1, Z3
  <2>3. QED BY <1>1, <2>2, Z3
<1>3. QED BY <1>1, <1>2 DEF d, r

\* The ranges of the integer types are positive and even.
LEMMA Ranges ==
    /\ Base \in Nat \ {0} /\ Range16 \in Nat \ {0} /\ Range32 \in Nat \ {0}
    /\ Range64 \in Nat \ {0}
    /\ \E h \in Nat : Range16 = 2 * h
    /\ \E h \in Nat : Range64 = 2 * h
<1>1. PICK c \in Nat : Base = 2 * c /\ c > 0
  <2>1. Base = 2 * (Base \div 2) /\ Base \div 2 \in Nat /\ Base \div 2 > 0
        BY PacketAssumption
  <2>2. QED BY <2>1
<1>2. Base \in Nat \ {0}
      BY PacketAssumption
<1>3. Range16 \in Nat \ {0} /\ Range16 = 2 * (c * Base) /\ c * Base \in Nat
      BY <1>1, <1>2, Z3 DEF Range16
<1>4. Range32 \in Nat \ {0}
      BY <1>3, Z3 DEF Range32
<1>5. Range64 \in Nat \ {0}
      BY <1>4, Z3 DEF Range64
<1>6. Range64 = 2 * (((c * Base) * Range16) * Range32) /\ ((c * Base) * Range16) * Range32 \in Nat
  <2> DEFINE a == c * Base
  <2>1. Range32 = 2 * (a * Range16) /\ a * Range16 \in Nat
        BY <1>3, Z3 DEF Range32
  <2> HIDE DEF a
  <2>2. Range64 = 2 * ((a * Range16) * Range32) /\ (a * Range16) * Range32 \in Nat
    <3> DEFINE e == a * Range16
    <3>1. e \in Nat /\ Range32 = 2 * e
          BY <2>1
    <3> HIDE DEF e
    <3>2. Range64 = 2 * (e * Range32) /\ e * Range32 \in Nat
          BY <1>4, <3>1, Z3 DEF Range64
    <3>3. QED BY <3>2 DEF e
  <2>3. QED BY <2>2 DEF a
<1>7. QED BY <1>2, <1>3, <1>4, <1>5, <1>6

\* Casting to unsigned and back is the identity on a signed type.
LEMMA SignedRoundTrip ==
    ASSUME NEW n \in Nat \ {0}, NEW h \in Nat, n = 2 * h, NEW v \in SignedRange(n)
    PROVE  v % n \in 0 .. (n - 1) /\ AsSigned(v % n, n) = v
<1>1. n \div 2 = h /\ v \in Int /\ -h =< v /\ v =< h - 1
      BY DEF SignedRange
<1>2. CASE v >= 0
  <2>1. v % n = v
        BY <1>1, <1>2
  <2>2. QED BY <1>1, <1>2, <2>1 DEF AsSigned
<1>3. CASE v < 0
  <2>1. v % n = v + n
        BY <1>1, <1>3, Z3
  <2>2. QED BY <1>1, <1>3, <2>1 DEF AsSigned
<1>4. QED BY <1>1, <1>2, <1>3

\* Two bytes.
LEMMA Put16 ==
    ASSUME NEW b \in Buffer, NEW off \in Nat, off + 2 =< PACKET_SIZE,
           NEW u \in 0 .. (Range16 - 1)
    PROVE  /\ Writes(b, put_u16(b, off, u), off, 2)
           /\ get_u16(put_u16(b, off, u), off) = u
<1> DEFINE lo == u % Base
           hi == u \div Base
           r == put_u16(b, off, u)
<1>1. lo \in Byte /\ hi \in Byte /\ lo + Base * hi = u
  <2>1. Base \in Nat \ {0} /\ Base \in Nat /\ u \in Nat /\ u < Base * Base
        BY Ranges DEF Range16
  <2>2. hi \in Nat /\ hi < Base /\ lo \in 0 .. (Base - 1) /\ lo + Base * hi = u
        BY <2>1, Digits
  <2> HIDE DEF lo, hi
  <2>3. QED BY <2>1, <2>2 DEF Byte
<1>2. r = [b EXCEPT ![off] = lo, ![off + 1] = hi]
      BY DEF put_u16
<1>3. off \in Offsets /\ off + 1 \in Offsets /\ off # off + 1
      BY DEF Offsets, PACKET_SIZE
<1> HIDE DEF lo, hi, r
<1>4. r \in Buffer /\ \A k \in Offsets : r[k] = IF k = off + 1 THEN hi ELSE IF k = off THEN lo ELSE b[k]
      BY <1>1, <1>2, <1>3 DEF Buffer, Offsets
<1>5. Writes(b, r, off, 2)
      BY <1>4 DEF Writes, Offsets
<1>6. get_u16(r, off) = u
      BY <1>1, <1>3, <1>4 DEF get_u16
<1>7. QED BY <1>5, <1>6 DEF r

\* What is read depends on the bytes read only.
LEMMA Get16 ==
    ASSUME NEW b, NEW r, NEW off \in Nat, off + 2 =< PACKET_SIZE, Agree(b, r, off, 2)
    PROVE  get_u16(r, off) = get_u16(b, off)
<1>1. off \in Offsets /\ off + 1 \in Offsets
      BY DEF Offsets, PACKET_SIZE
<1>2. r[off] = b[off] /\ r[off + 1] = b[off + 1]
      BY <1>1 DEF Agree
<1>3. QED BY <1>2 DEF get_u16

\* Two writes, one after the other, are one.
LEMMA WritesTwice ==
    ASSUME NEW b, NEW r, NEW s, NEW off \in Nat, NEW m \in Nat, NEW n \in Nat,
           Writes(b, r, off, m), Writes(r, s, off + m, n)
    PROVE  Writes(b, s, off, m + n) /\ Agree(r, s, off, m)
BY DEF Writes, Agree, Offsets, PACKET_SIZE

\* Four bytes.
LEMMA Put32 ==
    ASSUME NEW b \in Buffer, NEW off \in Nat, off + 4 =< PACKET_SIZE, NEW v \in UInt32
    PROVE  /\ Writes(b, put_u32(b, off, v), off, 4)
           /\ get_u32(put_u32(b, off, v), off) = v
<1> DEFINE lo == v % Range16
           hi == v \div Range16
           r == put_u16(b, off, lo)
           s == put_u16(r, off + 2, hi)
<1>1. lo \in 0 .. (Range16 - 1) /\ hi \in 0 .. (Range16 - 1) /\ lo + Range16 * hi = v
  <2>1. Range16 \in Nat \ {0} /\ Range16 \in Nat /\ v \in Nat /\ v < Range16 * Range16
        BY Ranges DEF Range32, UInt32
  <2>2. hi \in Nat /\ hi < Range16 /\ lo \in 0 .. (Range16 - 1) /\ lo + Range16 * hi = v
        BY <2>1, Digits
  <2> HIDE DEF lo, hi
  <2>3. QED BY <2>1, <2>2
<1>2. put_u32(b, off, v) = s
      BY DEF put_u32
<1>n. off + 2 \in Nat /\ off + 2 =< PACKET_SIZE /\ (off + 2) + 2 =< PACKET_SIZE /\ 2 + 2 = 4
      BY DEF PACKET_SIZE
<1> HIDE DEF lo, hi
<1>3. Writes(b, r, off, 2) /\ get_u16(r, off) = lo
      BY <1>1, <1>n, Put16
<1>4. r \in Buffer
      BY <1>3 DEF Writes
<1> HIDE DEF r
<1>5. Writes(r, s, off + 2, 2) /\ get_u16(s, off + 2) = hi
      BY <1>1, <1>n, <1>4, Put16
<1> HIDE DEF s
<1>6. Writes(b, s, off, 2 + 2) /\ Agree(r, s, off, 2)
      BY <1>3, <1>5, WritesTwice
<1>7. get_u16(s, off) = lo
      BY <1>3, <1>6, <1>n, Get16
<1>8. get_u32(s, off) = v
      BY <1>1, <1>5, <1>7 DEF get_u32
<1>9. QED BY <1>2, <1>6, <1>8, <1>n

\* As Get16, for four bytes,
LEMMA Get32 ==
    ASSUME NEW b, NEW r, NEW off \in Nat, off + 4 =< PACKET_SIZE, Agree(b, r, off, 4)
    PROVE  get_u32(r, off) = get_u32(b, off)
<1>1. /\ off + 2 \in Nat /\ off + 2 =< PACKET_SIZE /\ (off + 2) + 2 =< PACKET_SIZE
      /\ Agree(b, r, off, 2) /\ Agree(b, r, off + 2, 2)
      BY DEF Agree, Offsets, PACKET_SIZE
<1>2. get_u16(r, off) = get_u16(b, off) /\ get_u16(r, off + 2) = get_u16(b, off + 2)
      BY <1>1, Get16
<1>3. QED BY <1>2 DEF get_u32

\* Eight bytes, signed.
LEMMA Put64 ==
    ASSUME NEW b \in Buffer, NEW off \in Nat, off + 8 =< PACKET_SIZE,
           NEW v \in SignedRange(Range64)
    PROVE  /\ Writes(b, put_i64(b, off, v), off, 8)
           /\ get_i64(put_i64(b, off, v), off) = v
<1> DEFINE u == v % Range64
           lo == u % Range32
           hi == u \div Range32
           r == put_u32(b, off, lo)
           s == put_u32(r, off + 4, hi)
<1>1. u \in 0 .. (Range64 - 1) /\ AsSigned(u, Range64) = v
      BY Ranges, SignedRoundTrip
<1>2. put_i64(b, off, v) = s
      BY DEF put_i64
<1> HIDE DEF u
<1>3. lo \in UInt32 /\ hi \in UInt32 /\ lo + Range32 * hi = u
  <2>1. Range32 \in Nat \ {0} /\ Range32 \in Nat /\ u \in Nat /\ u < Range32 * Range32
        BY <1>1, Ranges DEF Range64
  <2>2. hi \in Nat /\ hi < Range32 /\ lo \in 0 .. (Range32 - 1) /\ lo + Range32 * hi = u
        BY <2>1, Digits
  <2> HIDE DEF lo, hi
  <2>3. QED BY <2>1, <2>2 DEF UInt32
<1>n. off + 4 \in Nat /\ off + 4 =< PACKET_SIZE /\ (off + 4) + 4 =< PACKET_SIZE /\ 4 + 4 = 8
      BY DEF PACKET_SIZE
<1> HIDE DEF lo, hi
<1>4. Writes(b, r, off, 4) /\ get_u32(r, off) = lo
      BY <1>3, <1>n, Put32
<1>5. r \in Buffer
      BY <1>4 DEF Writes
<1> HIDE DEF r
<1>6. Writes(r, s, off + 4, 4) /\ get_u32(s, off + 4) = hi
      BY <1>3, <1>n, <1>5, Put32
<1> HIDE DEF s
<1>7. Writes(b, s, off, 4 + 4) /\ Agree(r, s, off, 4)
      BY <1>4, <1>6, WritesTwice
<1>8. get_u32(s, off) = lo
      BY <1>4, <1>7, <1>n, Get32
<1>9. get_i64(s, off) = v
      BY <1>1, <1>3, <1>6, <1>8 DEF get_i64
<1>10. QED BY <1>2, <1>7, <1>9, <1>n

\* and for eight.
LEMMA Get64 ==
    ASSUME NEW b, NEW r, NEW off \in Nat, off + 8 =< PACKET_SIZE, Agree(b, r, off, 8)
    PROVE  get_i64(r, off) = get_i64(b, off)
<1>1. /\ off + 4 \in Nat /\ off + 4 =< PACKET_SIZE /\ (off + 4) + 4 =< PACKET_SIZE
      /\ Agree(b, r, off, 4) /\ Agree(b, r, off + 4, 4)
      BY DEF Agree, Offsets, PACKET_SIZE
<1>2. get_u32(r, off) = get_u32(b, off) /\ get_u32(r, off + 4) = get_u32(b, off + 4)
      BY <1>1, Get32
<1>3. QED BY <1>2 DEF get_i64

\* Two bytes, signed.
LEMMA PutSigned16 ==
    ASSUME NEW b \in Buffer, NEW off \in Nat, off + 2 =< PACKET_SIZE,
           NEW v \in SignedRange(Range16)
    PROVE  /\ Writes(b, put_i16(b, off, v), off, 2)
           /\ get_i16(put_i16(b, off, v), off) = v
<1> DEFINE u == v % Range16
<1>1. u \in 0 .. (Range16 - 1) /\ AsSigned(u, Range16) = v
      BY Ranges, SignedRoundTrip
<1>2. put_i16(b, off, v) = put_u16(b, off, u)
      BY DEF put_i16
<1> HIDE DEF u
<1>3. /\ Writes(b, put_u16(b, off, u), off, 2)
      /\ get_u16(put_u16(b, off, u), off) = u
      BY <1>1, Put16
<1>4. QED BY <1>1, <1>2, <1>3 DEF get_i16

\* Three integers of eight bytes.
LEMMA PutVec64 ==
    ASSUME NEW b \in Buffer, NEW off \in Nat, off + 24 =< PACKET_SIZE,
           NEW v \in [{"x", "y", "z"} -> SignedRange(Range64)]
    PROVE  /\ Writes(b, put_vec64(b, off, v), off, 24)
           /\ get_vec64(put_vec64(b, off, v), off) = v
<1> DEFINE r == put_i64(b, off, v["x"])
           s == put_i64(r, off + 8, v["y"])
           t == put_i64(s, off + 16, v["z"])
<1>1. put_vec64(b, off, v) = t
      BY DEF put_vec64
<1>2. /\ v["x"] \in SignedRange(Range64) /\ v["y"] \in SignedRange(Range64)
      /\ v["z"] \in SignedRange(Range64)
      OBVIOUS
<1>3. /\ off + 8 \in Nat /\ off + 16 \in Nat /\ off + 8 =< PACKET_SIZE
      /\ (off + 8) + 8 =< PACKET_SIZE /\ (off + 16) + 8 =< PACKET_SIZE
      BY DEF PACKET_SIZE
<1>4. Writes(b, r, off, 8) /\ get_i64(r, off) = v["x"]
      BY <1>2, <1>3, Put64
<1>5. r \in Buffer
      BY <1>4 DEF Writes
<1> HIDE DEF r
<1>6. Writes(r, s, off + 8, 8) /\ get_i64(s, off + 8) = v["y"]
      BY <1>2, <1>3, <1>5, Put64
<1>7. s \in Buffer
      BY <1>6 DEF Writes
<1> HIDE DEF s
<1>8. Writes(s, t, off + 16, 8) /\ get_i64(t, off + 16) = v["z"]
      BY <1>2, <1>3, <1>7, Put64
<1> HIDE DEF t
<1>9. /\ Writes(b, t, off, 24) /\ Agree(r, t, off, 8) /\ Agree(s, t, off + 8, 8)
      BY <1>4, <1>6, <1>8 DEF Writes, Agree, Offsets, PACKET_SIZE
<1>10. get_i64(t, off) = v["x"]
       BY <1>3, <1>4, <1>9, Get64
<1>11. get_i64(t, off + 8) = v["y"]
       BY <1>3, <1>6, <1>9, Get64
<1>12. get_vec64(t, off) = v
  <2>1. /\ get_vec64(t, off) = [a \in {"x", "y", "z"} |-> get_vec64(t, off)[a]]
        /\ get_vec64(t, off)["x"] = get_i64(t, off)
        /\ get_vec64(t, off)["y"] = get_i64(t, off + 8)
        /\ get_vec64(t, off)["z"] = get_i64(t, off + 16)
        BY DEF get_vec64
  <2>2. QED BY <2>1, <1>8, <1>10, <1>11
<1>13. QED BY <1>1, <1>9, <1>12

\* As Get16, for three integers.
LEMMA GetVec64 ==
    ASSUME NEW b, NEW r, NEW off \in Nat, off + 24 =< PACKET_SIZE, Agree(b, r, off, 24)
    PROVE  get_vec64(r, off) = get_vec64(b, off)
<1>1. /\ off + 8 \in Nat /\ off + 16 \in Nat /\ off + 8 =< PACKET_SIZE
      /\ (off + 8) + 8 =< PACKET_SIZE /\ (off + 16) + 8 =< PACKET_SIZE
      /\ Agree(b, r, off, 8) /\ Agree(b, r, off + 8, 8) /\ Agree(b, r, off + 16, 8)
      BY DEF Agree, Offsets, PACKET_SIZE
<1>2. /\ get_i64(r, off) = get_i64(b, off)
      /\ get_i64(r, off + 8) = get_i64(b, off + 8)
      /\ get_i64(r, off + 16) = get_i64(b, off + 16)
      BY <1>1, Get64
<1>3. QED BY <1>2 DEF get_vec64

\* Three integers of two bytes.
LEMMA PutVec16 ==
    ASSUME NEW b \in Buffer, NEW off \in Nat, off + 6 =< PACKET_SIZE,
           NEW v \in [{"x", "y", "z"} -> SignedRange(Range16)]
    PROVE  /\ Writes(b, put_vec16(b, off, v), off, 6)
           /\ get_vec16(put_vec16(b, off, v), off) = v
<1> DEFINE r == put_i16(b, off, v["x"])
           s == put_i16(r, off + 2, v["y"])
           t == put_i16(s, off + 4, v["z"])
<1>1. put_vec16(b, off, v) = t
      BY DEF put_vec16
<1>2. /\ v["x"] \in SignedRange(Range16) /\ v["y"] \in SignedRange(Range16)
      /\ v["z"] \in SignedRange(Range16)
      OBVIOUS
<1>3. /\ off + 2 \in Nat /\ off + 4 \in Nat /\ off + 2 =< PACKET_SIZE
      /\ (off + 2) + 2 =< PACKET_SIZE /\ (off + 4) + 2 =< PACKET_SIZE
      BY DEF PACKET_SIZE
<1>4. Writes(b, r, off, 2) /\ get_i16(r, off) = v["x"]
      BY <1>2, <1>3, PutSigned16
<1>5. r \in Buffer
      BY <1>4 DEF Writes
<1> HIDE DEF r
<1>6. Writes(r, s, off + 2, 2) /\ get_i16(s, off + 2) = v["y"]
      BY <1>2, <1>3, <1>5, PutSigned16
<1>7. s \in Buffer
      BY <1>6 DEF Writes
<1> HIDE DEF s
<1>8. Writes(s, t, off + 4, 2) /\ get_i16(t, off + 4) = v["z"]
      BY <1>2, <1>3, <1>7, PutSigned16
<1> HIDE DEF t
<1>9. /\ Writes(b, t, off, 6) /\ Agree(r, t, off, 2) /\ Agree(s, t, off + 2, 2)
      BY <1>4, <1>6, <1>8 DEF Writes, Agree, Offsets, PACKET_SIZE
<1>10. get_i16(t, off) = v["x"]
       BY <1>3, <1>4, <1>9, Get16 DEF get_i16
<1>11. get_i16(t, off + 2) = v["y"]
       BY <1>3, <1>6, <1>9, Get16 DEF get_i16
<1>12. get_vec16(t, off) = v
  <2>1. /\ get_vec16(t, off) = [a \in {"x", "y", "z"} |-> get_vec16(t, off)[a]]
        /\ get_vec16(t, off)["x"] = get_i16(t, off)
        /\ get_vec16(t, off)["y"] = get_i16(t, off + 2)
        /\ get_vec16(t, off)["z"] = get_i16(t, off + 4)
        BY DEF get_vec16
  <2>2. QED BY <2>1, <1>8, <1>10, <1>11
<1>13. QED BY <1>1, <1>9, <1>12

\* As Get16, for three integers.
LEMMA GetVec16 ==
    ASSUME NEW b, NEW r, NEW off \in Nat, off + 6 =< PACKET_SIZE, Agree(b, r, off, 6)
    PROVE  get_vec16(r, off) = get_vec16(b, off)
<1>1. /\ off + 2 \in Nat /\ off + 4 \in Nat /\ off + 2 =< PACKET_SIZE
      /\ (off + 2) + 2 =< PACKET_SIZE /\ (off + 4) + 2 =< PACKET_SIZE
      /\ Agree(b, r, off, 2) /\ Agree(b, r, off + 2, 2) /\ Agree(b, r, off + 4, 2)
      BY DEF Agree, Offsets, PACKET_SIZE
<1>2. /\ get_i16(r, off) = get_i16(b, off)
      /\ get_i16(r, off + 2) = get_i16(b, off + 2)
      /\ get_i16(r, off + 4) = get_i16(b, off + 4)
      BY <1>1, Get16 DEF get_i16
<1>3. QED BY <1>2 DEF get_vec16

\* The payload, to the end of the buffer.
LEMMA PutPayload ==
    ASSUME NEW b \in Buffer, NEW payload \in [PayloadBytes -> Byte]
    PROVE  /\ Writes(b, put_payload(b, payload), 58, 42)
           /\ [k \in PayloadBytes |-> put_payload(b, payload)[XR_PACKET_PAYLOAD_OFFSET + k]]
                = payload
<1> DEFINE r == put_payload(b, payload)
<1>1. /\ DOMAIN b = Offsets
      /\ r = [k \in Offsets |-> IF k >= 58 THEN payload[k - 58] ELSE b[k]]
      BY DEF put_payload, XR_PACKET_PAYLOAD_OFFSET, Buffer, Offsets
<1> HIDE DEF r
<1>2. \A k \in Offsets : k >= 58 => k - 58 \in PayloadBytes
      BY DEF Offsets, PayloadBytes, PACKET_SIZE, XR_PACKET_PAYLOAD_LEN, XR_PACKET_PAYLOAD_OFFSET
<1>3. r \in Buffer
      BY <1>1, <1>2 DEF Buffer, Offsets
<1>4. Writes(b, r, 58, 42)
      BY <1>1, <1>3 DEF Writes, Offsets, PACKET_SIZE
<1>5. \A k \in PayloadBytes : r[58 + k] = payload[k]
  <2>1. SUFFICES ASSUME NEW k \in PayloadBytes PROVE r[58 + k] = payload[k]
        OBVIOUS
  <2>2. 58 + k \in Offsets /\ 58 + k >= 58 /\ (58 + k) - 58 = k
        BY DEF Offsets, PayloadBytes, PACKET_SIZE, XR_PACKET_PAYLOAD_LEN, XR_PACKET_PAYLOAD_OFFSET
  <2>3. QED BY <1>1, <2>2
<1>6. QED BY <1>4, <1>5 DEF r, XR_PACKET_PAYLOAD_OFFSET

\* Decoding undoes encoding, for every packet, in the full range of every field and
\* for bytes of any even size: no field overlaps another or is cut short.
THEOREM PacketRoundTrip ==
    \A p \in xr_grid_entity_packet_t :
        /\ xr_grid_entity_packet_encode(p) \in Buffer
        /\ xr_grid_entity_packet_decode(xr_grid_entity_packet_encode(p)) = p
<1> SUFFICES ASSUME NEW p \in xr_grid_entity_packet_t
             PROVE  /\ xr_grid_entity_packet_encode(p) \in Buffer
                    /\ xr_grid_entity_packet_decode(xr_grid_entity_packet_encode(p)) = p
    OBVIOUS
<1>1. /\ p.global_id \in UInt32 /\ p.hlc \in UInt32 /\ p.class_owner \in UInt32
      /\ p.sub_index \in UInt32
      /\ p.pos \in [{"x", "y", "z"} -> SignedRange(Range64)]
      /\ p.vel \in [{"x", "y", "z"} -> SignedRange(Range16)]
      /\ p.rot \in [{"x", "y", "z"} -> SignedRange(Range16)]
      /\ p.payload \in [PayloadBytes -> Byte]
      BY DEF xr_grid_entity_packet_t
<1> DEFINE b1 == put_u32(ZeroBuffer, 0, p.global_id)
           b2 == put_vec64(b1, 4, p.pos)
           b3 == put_vec16(b2, 28, p.vel)
           b4 == put_u32(b3, 40, p.hlc)
           b5 == put_u32(b4, 44, p.class_owner)
           b6 == put_u32(b5, 48, p.sub_index)
           b7 == put_vec16(b6, 52, p.rot)
           b8 == put_payload(b7, p.payload)
<1>2. xr_grid_entity_packet_encode(p) = b8
      BY DEF xr_grid_entity_packet_encode
<1>3. /\ \A o \in {0, 40, 44, 48} : o \in Nat /\ o + 4 =< PACKET_SIZE
      /\ \A o \in {28, 52} : o \in Nat /\ o + 6 =< PACKET_SIZE
      /\ 4 \in Nat /\ 4 + 24 =< PACKET_SIZE
      BY DEF PACKET_SIZE
<1>4. ZeroBuffer \in Buffer
      BY PacketAssumption DEF ZeroBuffer, Buffer, Byte
<1>5. Writes(ZeroBuffer, b1, 0, 4) /\ get_u32(b1, 0) = p.global_id
      BY <1>1, <1>3, <1>4, Put32
<1>b1. b1 \in Buffer
      BY <1>5 DEF Writes
<1> HIDE DEF b1
<1>6. Writes(b1, b2, 4, 24) /\ get_vec64(b2, 4) = p.pos
      BY <1>1, <1>3, <1>b1, PutVec64
<1>b2. b2 \in Buffer
      BY <1>6 DEF Writes
<1> HIDE DEF b2
<1>7. Writes(b2, b3, 28, 6) /\ get_vec16(b3, 28) = p.vel
      BY <1>1, <1>3, <1>b2, PutVec16
<1>b3. b3 \in Buffer
      BY <1>7 DEF Writes
<1> HIDE DEF b3
<1>8. Writes(b3, b4, 40, 4) /\ get_u32(b4, 40) = p.hlc
      BY <1>1, <1>3, <1>b3, Put32
<1>b4. b4 \in Buffer
      BY <1>8 DEF Writes
<1> HIDE DEF b4
<1>9. Writes(b4, b5, 44, 4) /\ get_u32(b5, 44) = p.class_owner
      BY <1>1, <1>3, <1>b4, Put32
<1>b5. b5 \in Buffer
      BY <1>9 DEF Writes
<1> HIDE DEF b5
<1>10. Writes(b5, b6, 48, 4) /\ get_u32(b6, 48) = p.sub_index
      BY <1>1, <1>3, <1>b5, Put32
<1>b6. b6 \in Buffer
      BY <1>10 DEF Writes
<1> HIDE DEF b6
<1>11. Writes(b6, b7, 52, 6) /\ get_vec16(b7, 52) = p.rot
      BY <1>1, <1>3, <1>b6, PutVec16
<1>b7. b7 \in Buffer
      BY <1>11 DEF Writes
<1> HIDE DEF b7
<1>12. /\ Writes(b7, b8, 58, 42)
       /\ [k \in PayloadBytes |-> b8[XR_PACKET_PAYLOAD_OFFSET + k]] = p.payload
      BY <1>1, <1>b7, PutPayload
<1>b8. b8 \in Buffer
      BY <1>12 DEF Writes
<1> HIDE DEF b8
<1>13. /\ Agree(b1, b8, 0, 4) /\ Agree(b2, b8, 4, 24) /\ Agree(b3, b8, 28, 6)
       /\ Agree(b4, b8, 40, 4)
  <2>1. Agree(b4, b8, 0, 44)
        BY <1>9, <1>10, <1>11, <1>12 DEF Writes, Agree, Offsets, PACKET_SIZE
  <2>2. Agree(b1, b4, 0, 4) /\ Agree(b2, b4, 4, 24) /\ Agree(b3, b4, 28, 6)
        BY <1>6, <1>7, <1>8 DEF Writes, Agree, Offsets, PACKET_SIZE
  <2>3. QED BY <2>1, <2>2 DEF Agree, Offsets, PACKET_SIZE
<1>14. Agree(b5, b8, 44, 4) /\ Agree(b6, b8, 48, 4) /\ Agree(b7, b8, 52, 6)
       BY <1>10, <1>11, <1>12 DEF Writes, Agree, Offsets, PACKET_SIZE
<1>15. /\ get_u32(b8, 0) = p.global_id /\ get_u32(b8, 40) = p.hlc
       /\ get_u32(b8, 44) = p.class_owner /\ get_u32(b8, 48) = p.sub_index
       BY <1>3, <1>5, <1>8, <1>9, <1>10, <1>13, <1>14, Get32
<1>16. get_vec64(b8, 4) = p.pos
       BY <1>3, <1>6, <1>13, GetVec64
<1>17. get_vec16(b8, 28) = p.vel /\ get_vec16(b8, 52) = p.rot
       BY <1>3, <1>7, <1>11, <1>13, <1>14, GetVec16
<1>18. xr_grid_entity_packet_decode(b8) =
           [global_id |-> p.global_id, pos |-> p.pos, vel |-> p.vel, hlc |-> p.hlc,
            class_owner |-> p.class_owner, sub_index |-> p.sub_index, rot |-> p.rot,
            payload |-> p.payload]
       BY <1>12, <1>15, <1>16, <1>17 DEF xr_grid_entity_packet_decode
<1>19. p = [global_id |-> p.global_id, pos |-> p.pos, vel |-> p.vel, hlc |-> p.hlc,
            class_owner |-> p.class_owner, sub_index |-> p.sub_index, rot |-> p.rot,
            payload |-> p.payload]
       BY DEF xr_grid_entity_packet_t
<1>20. QED BY <1>2, <1>b8, <1>18, <1>19

-----------------------------------------------------------------------------
(* Any number of ticks.                                                    *)

\* A scaled velocity is within the physical bound, up to the asymmetry of int16_t.
LEMMA VelBound ==
    ASSUME NEW v \in Int16
    PROVE  /\ Reach(v) \in Nat
           /\ vel_to_um_per_tick(v) \in (-Reach(v)) .. Reach(v)
<1>1. v \in Int /\ V_MAX \in Nat /\ INT16_MAX \in Nat \ {0} /\ -INT16_MAX - 1 =< v /\ v =< INT16_MAX
      BY DataAssumption DEF Int16
<1> DEFINE w == IF v >= 0 THEN v ELSE -v
           e == V_MAX \div INT16_MAX
           q == Reach(v)
<1>2. e \in Nat /\ V_MAX < INT16_MAX * e + INT16_MAX
      BY <1>1, Z3
<1>3. w \in Nat /\ q \in Nat
      BY <1>1, <1>2 DEF Reach
<1>4. w * V_MAX < INT16_MAX * (q + 1)
  <2>1. CASE v = -INT16_MAX - 1
    <3>1. w = INT16_MAX + 1 /\ q = V_MAX + e + 1
          BY <1>1, <2>1 DEF Reach
    <3> HIDE DEF w, q, e
    <3>2. (INT16_MAX + 1) * V_MAX = INT16_MAX * V_MAX + V_MAX
          BY <1>1, Z3
    <3>3. INT16_MAX * ((V_MAX + e + 1) + 1) = INT16_MAX * V_MAX + INT16_MAX * e + INT16_MAX + INT16_MAX
          BY <1>1, <1>2, Z3
    <3>4. INT16_MAX * V_MAX \in Nat /\ INT16_MAX * e \in Nat
          BY <1>1, <1>2, Z3
    <3>5. QED BY <1>1, <1>2, <3>1, <3>2, <3>3, <3>4, Z3
  <2>2. CASE v # -INT16_MAX - 1
    <3>1. w =< INT16_MAX /\ q = V_MAX
          BY <1>1, <2>2 DEF Reach
    <3> HIDE DEF w, q
    <3>2. w * V_MAX =< INT16_MAX * V_MAX
          BY <1>1, <1>3, <3>1, Z3
    <3>3. INT16_MAX * (V_MAX + 1) = INT16_MAX * V_MAX + INT16_MAX
          BY <1>1, Z3
    <3>4. QED BY <1>1, <1>3, <3>1, <3>2, <3>3, Z3
  <2>3. QED BY <2>1, <2>2
<1>5. w * V_MAX \in Nat /\ (w * V_MAX) \div INT16_MAX \in Nat /\ (w * V_MAX) \div INT16_MAX =< q
  <2> DEFINE c == w * V_MAX
  <2>1. c \in Nat /\ c < INT16_MAX * (q + 1) /\ q + 1 \in Nat
    <3> HIDE DEF w, q
    <3>1. QED BY <1>1, <1>3, <1>4, Z3
  <2> HIDE DEF c, w, q
  <2>2. c \div INT16_MAX \in Nat /\ c \div INT16_MAX < q + 1
        BY <1>1, <2>1, Digits
  <2>3. QED BY <1>3, <2>1, <2>2 DEF c
<1>6. \/ vel_to_um_per_tick(v) = (w * V_MAX) \div INT16_MAX
      \/ vel_to_um_per_tick(v) = -((w * V_MAX) \div INT16_MAX)
  <2>1. CASE v >= 0
    <3>1. w = v /\ v * V_MAX >= 0
          BY <1>1, <2>1, Z3
    <3>2. QED BY <3>1 DEF vel_to_um_per_tick, TruncDiv
  <2>2. CASE v < 0
    <3>1. w = -v /\ v * V_MAX =< 0 /\ -(v * V_MAX) = w * V_MAX /\ v * V_MAX \in Int
          BY <1>1, <2>2, Z3
    <3> DEFINE a == v * V_MAX
    <3>2. a \in Int /\ a =< 0 /\ -a = w * V_MAX
          BY <3>1
    <3>3. TruncDiv(a, INT16_MAX) = -((-a) \div INT16_MAX) \/ a = 0
      <4> HIDE DEF a
      <4>1. QED BY <3>2 DEF TruncDiv
    <3>4. a = 0 => TruncDiv(a, INT16_MAX) = (w * V_MAX) \div INT16_MAX
      <4> HIDE DEF a, w
      <4>1. QED BY <3>2 DEF TruncDiv
    <3>5. QED BY <3>2, <3>3, <3>4 DEF vel_to_um_per_tick
  <2>3. QED BY <1>1, <2>1, <2>2
<1> HIDE DEF w, q
<1>7. QED BY <1>3, <1>5, <1>6 DEF q

\* TicksCompose is inductive once it is known that the stored value can be decoded.
MotionInv == TypeOK /\ TicksCompose /\ start.global_id = 0

\* MotionInv holds initially,
LEMMA MotionInitially == Init => MotionInv
<1> SUFFICES ASSUME Init PROVE MotionInv
    OBVIOUS
<1>1. start \in EntityVal /\ start.global_id = 0
      BY MotionAssumption DEF Init, EntityVal
<1>2. value.ev = start /\ value.len = SizeofEntityVal /\ value \in Stored
      BY <1>1 DEF Init, zf_kv_encode_entity, Stored
<1>3. Move(start, 0) = start
      BY <1>1, MoveNone
<1>4. QED BY <1>1, <1>2, <1>3, MotionAssumption DEF Init, MotionInv, TypeOK, TicksCompose

\* What a tick writes over a value that can be decoded.
LEMMA TickedIs ==
    ASSUME MotionInv, NEW n \in Nat
    PROVE  Ticked(value, n) = [len |-> XR_PACKET_SIZE, ev |-> Move(value.ev, n)]
<1>1. value.len >= XR_PACKET_SIZE
      BY DEF MotionInv, TypeOK, Stored, XR_PACKET_SIZE, SizeofEntityVal
<1>2. QED BY <1>1 DEF Ticked, zf_kv_decode_entity, zf_kv_encode_entity

\* and is kept by every step.
LEMMA MotionStep == MotionInv /\ [Next]_vars => MotionInv'
<1> SUFFICES ASSUME MotionInv, [Next]_vars PROVE MotionInv'
    OBVIOUS
<1>1. CASE UNCHANGED vars
      BY <1>1 DEF vars, MotionInv, TypeOK, TicksCompose
<1>2. CASE Next
  <2>1. PICK n \in TickCounts : Tick(n)
        BY <1>2 DEF Next
  <2>2. /\ n \in Nat /\ start' = start /\ ticks' = ticks + n /\ ticks + n =< MaxTicks
        /\ value' = [len |-> XR_PACKET_SIZE, ev |-> Move(value.ev, n)]
        BY <2>1, TickedIs, MotionAssumption DEF Tick
  <2>3. value.ev \in EntityVal /\ start \in EntityVal /\ ticks \in Nat /\ value.ev = Move(start, ticks)
        BY MotionAssumption DEF MotionInv, TypeOK, Stored, TicksCompose
  <2>4. value'.ev = Move(start, ticks + n)
        BY <2>2, <2>3, MoveCompose
  <2>5. Move(value.ev, n) \in EntityVal
        BY <2>2, <2>3, MoveIs
  <2>6. ticks' \in 0 .. MaxTicks
        BY <2>2, <2>3, MotionAssumption
  <2>7. value' \in Stored
        BY <2>2, <2>5 DEF Stored
  <2>8. QED BY <2>2, <2>3, <2>4, <2>6, <2>7 DEF MotionInv, TypeOK, TicksCompose
<1>3. QED BY <1>1, <1>2

\* The invariant bounds the distance,
LEMMA InvSpeedLimit == MotionInv => SpeedLimit
<1> SUFFICES ASSUME MotionInv, NEW a \in Axes
             PROVE  \E d \in (-Reach(start.vel[a]) * ticks) .. (Reach(start.vel[a]) * ticks) :
                        value.ev.pos[a] = Wrap64(start.pos[a] + d)
    BY DEF SpeedLimit
<1>1. start \in EntityVal /\ ticks \in Nat /\ value.ev = Move(start, ticks)
      BY MotionAssumption DEF MotionInv, TypeOK, TicksCompose
<1>2. /\ value.ev.pos[a] = Wrap64(start.pos[a] + vel_to_um_per_tick(start.vel[a]) * ticks)
      /\ start.vel[a] \in Int16
  <2> DEFINE mv == Move(start, ticks)
  <2>1. /\ mv.pos = [b \in Axes |->
              Wrap64(start.pos[b] + vel_to_um_per_tick(start.vel[b]) * ticks)]
        /\ start.vel[a] \in Int16
        BY <1>1, MoveIs
  <2>2. value.ev = mv
        BY <1>1
  <2> HIDE DEF mv
  <2>3. QED BY <2>1, <2>2
<1> DEFINE u == vel_to_um_per_tick(start.vel[a])
           q == Reach(start.vel[a])
<1>3. q \in Nat /\ u \in (-q) .. q
      BY <1>2, VelBound
<1> HIDE DEF u, q
<1>4. u * ticks \in (-q * ticks) .. (q * ticks)
  <2>1. /\ u * ticks =< q * ticks /\ (-q) * ticks =< u * ticks
        /\ (-q) * ticks = -(q * ticks) /\ u * ticks \in Int /\ q * ticks \in Int
        BY <1>1, <1>3, Z3
  <2>2. QED BY <2>1
<1>5. QED BY <1>2, <1>4 DEF u, q

\* and brings an entity back.
LEMMA InvNoDrift == MotionInv => NoDrift
<1> SUFFICES ASSUME MotionInv, \A a \in Axes : -start.vel[a] \in Int16
             PROVE  Move(TurnedBack(value.ev), ticks).pos = start.pos
    BY DEF NoDrift
<1> DEFINE ev == value.ev
           back == TurnedBack(ev)
           mv == Move(back, ticks)
<1>1. /\ start \in EntityVal /\ ticks \in Nat /\ ev \in EntityVal /\ ev = Move(start, ticks)
      BY MotionAssumption DEF MotionInv, TypeOK, TicksCompose, Stored
<1> HIDE DEF ev
<1>2. /\ ev.vel = start.vel
      /\ \A a \in Axes :
            /\ ev.pos[a] = Wrap64(start.pos[a] + vel_to_um_per_tick(start.vel[a]) * ticks)
            /\ start.pos[a] \in Int64 /\ start.pos[a] \in Int /\ start.vel[a] \in Int16
  <2> DEFINE there == Move(start, ticks)
  <2>1. /\ there.vel = start.vel
        /\ there.pos = [b \in Axes |->
              Wrap64(start.pos[b] + vel_to_um_per_tick(start.vel[b]) * ticks)]
        /\ \A a \in Axes :
              start.pos[a] \in Int64 /\ start.pos[a] \in Int /\ start.vel[a] \in Int16
        BY <1>1, MoveIs
  <2>2. ev = there
        BY <1>1
  <2> HIDE DEF there
  <2>3. QED BY <2>1, <2>2
<1>3. /\ back \in EntityVal /\ back.pos = ev.pos
      /\ \A a \in Axes : back.vel[a] = -start.vel[a]
      BY <1>1, <1>2 DEF TurnedBack, EntityVal
<1> HIDE DEF back
<1>4. /\ mv \in EntityVal
      /\ \A a \in Axes :
            mv.pos[a] = Wrap64(ev.pos[a] + vel_to_um_per_tick(-start.vel[a]) * ticks)
  <2>1. /\ mv \in EntityVal
        /\ mv.pos = [a \in Axes |-> Wrap64(back.pos[a] + vel_to_um_per_tick(back.vel[a]) * ticks)]
        BY <1>1, <1>3, MoveIs
  <2> HIDE DEF mv
  <2>2. QED BY <1>3, <2>1
<1> HIDE DEF mv
<1>5. \A a \in Axes : mv.pos[a] = start.pos[a]
  <2>1. SUFFICES ASSUME NEW a \in Axes PROVE mv.pos[a] = start.pos[a]
        OBVIOUS
  <2> DEFINE u == vel_to_um_per_tick(start.vel[a])
  <2>2. u \in Int /\ vel_to_um_per_tick(-start.vel[a]) = -u
        BY <1>2, VelSymmetric
  <2>3. mv.pos[a] = Wrap64(Wrap64(start.pos[a] + u * ticks) + (-u) * ticks)
        BY <1>2, <1>4, <2>2
  <2> HIDE DEF u
  <2>4. u * ticks \in Int /\ (-u) * ticks = -(u * ticks)
        BY <1>1, <2>2, Z3
  <2> DEFINE x == start.pos[a] + u * ticks
             y == (-u) * ticks
  <2>5. x \in Int /\ y \in Int /\ x + y = start.pos[a]
        BY <1>2, <2>4
  <2>6. mv.pos[a] = Wrap64(Wrap64(x) + y)
        BY <2>3
  <2> HIDE DEF x, y
  <2>7. mv.pos[a] = Wrap64(start.pos[a])
        BY <2>5, <2>6, WrapAdd
  <2>8. QED BY <1>2, <2>7, WrapIdentity
<1>6. mv.pos = start.pos
      BY <1>1, <1>4, <1>5 DEF EntityVal
<1>7. QED BY <1>6 DEF mv, back, ev

-----------------------------------------------------------------------------
(* The same, on the bytes.                                                 *)

\* Decoding reads no byte past the packet.
LEMMA DecodeAgree ==
    ASSUME NEW b, NEW r, Agree(b, r, 0, PACKET_SIZE)
    PROVE  xr_grid_entity_packet_decode(r) = xr_grid_entity_packet_decode(b)
<1>1. /\ \A o \in {0, 40, 44, 48} : o \in Nat /\ o + 4 =< PACKET_SIZE /\ Agree(b, r, o, 4)
      /\ \A o \in {28, 52} : o \in Nat /\ o + 6 =< PACKET_SIZE /\ Agree(b, r, o, 6)
      /\ 4 \in Nat /\ 4 + 24 =< PACKET_SIZE /\ Agree(b, r, 4, 24)
      BY DEF Agree, Offsets, PACKET_SIZE
<1>2. \A o \in {0, 40, 44, 48} : get_u32(r, o) = get_u32(b, o)
      BY <1>1, Get32
<1>3. \A o \in {28, 52} : get_vec16(r, o) = get_vec16(b, o)
      BY <1>1, GetVec16
<1>4. get_vec64(r, 4) = get_vec64(b, 4)
      BY <1>1, GetVec64
<1>5. \A k \in PayloadBytes : r[XR_PACKET_PAYLOAD_OFFSET + k] = b[XR_PACKET_PAYLOAD_OFFSET + k]
      BY DEF Agree, Offsets, PayloadBytes, PACKET_SIZE, XR_PACKET_PAYLOAD_LEN,
             XR_PACKET_PAYLOAD_OFFSET
<1>6. [k \in PayloadBytes |-> r[XR_PACKET_PAYLOAD_OFFSET + k]]
        = [k \in PayloadBytes |-> b[XR_PACKET_PAYLOAD_OFFSET + k]]
      BY <1>5
<1>7. QED BY <1>2, <1>3, <1>4, <1>6 DEF xr_grid_entity_packet_decode

\* The packet whose bytes are stored now.
Stays == [wire EXCEPT !.global_id = value.ev.global_id, !.pos = value.ev.pos,
                      !.vel = value.ev.vel]

\* The stored bytes are the exact encoding of that packet, followed by anything.
BytesInv ==
    /\ MotionInv
    /\ wire \in xr_grid_entity_packet_t
    /\ DOMAIN bytes = 0 .. (value.len - 1)
    /\ Agree(xr_grid_entity_packet_encode(Stays), bytes, 0, PACKET_SIZE)

\* The integer types of ZoneData are those of the packet.
LEMMA SameTypes ==
    /\ Int64 = SignedRange(Range64) /\ Int16 = SignedRange(Range16)
    /\ 0 \in UInt32 /\ Range32 \in Nat \ {0}
<1>1. PosHalf \in Nat /\ INT16_MAX \in Nat
      BY DataAssumption
<1>2. (2 * PosHalf) \div 2 = PosHalf /\ (2 * (INT16_MAX + 1)) \div 2 = INT16_MAX + 1
      BY <1>1
<1>3. 2 * PosHalf = Range64 /\ 2 * (INT16_MAX + 1) = Range16
      BY PacketMotionAssumption
<1>4. Range64 \div 2 = PosHalf /\ Range16 \div 2 = INT16_MAX + 1
      BY <1>2, <1>3
<1>5. Range32 \in Nat \ {0}
      BY Ranges
<1>6. QED BY <1>1, <1>4, <1>5 DEF Int64, Int16, SignedRange, UInt32

\* A stored packet is a packet.
LEMMA StaysIs ==
    ASSUME MotionInv, wire \in xr_grid_entity_packet_t
    PROVE  /\ Stays \in xr_grid_entity_packet_t
           /\ Stays.pos = value.ev.pos /\ Stays.vel = value.ev.vel
<1>1. start \in EntityVal /\ ticks \in Nat /\ value.ev = Move(start, ticks) /\ start.global_id = 0
      BY MotionAssumption DEF MotionInv, TypeOK, TicksCompose
<1>2. value.ev.global_id = 0
      BY <1>1, MoveIs
<1>3. value.ev \in EntityVal
      BY DEF MotionInv, TypeOK, Stored
<1>4. /\ value.ev.pos \in [{"x", "y", "z"} -> SignedRange(Range64)]
      /\ value.ev.vel \in [{"x", "y", "z"} -> SignedRange(Range16)]
      /\ value.ev.global_id \in UInt32
      BY <1>2, <1>3, SameTypes, PacketMotionAssumption DEF EntityVal
<1>5. QED BY <1>4 DEF Stays, xr_grid_entity_packet_t

\* BytesInv holds initially,
LEMMA BytesInitially == InitBytes => BytesInv
<1> SUFFICES ASSUME InitBytes PROVE BytesInv
    OBVIOUS
<1>1. MotionInv
      BY MotionInitially DEF InitBytes
<1>2. PICK o \in Others : wire = PacketOf(start, o) /\ bytes = SeedBytes(wire, o.byte)
      BY DEF InitBytes
<1>3. /\ value.ev = start /\ value.len = SizeofEntityVal /\ start \in EntityVal
      /\ start.global_id = 0
      BY <1>1 DEF InitBytes, Init, zf_kv_encode_entity, MotionInv, TypeOK
<1>4. o.word \in UInt32 /\ o.half \in Int16 /\ o.byte \in Byte
      BY PacketMotionAssumption
<1>5. wire \in xr_grid_entity_packet_t
  <2>1. /\ start.pos \in [{"x", "y", "z"} -> SignedRange(Range64)]
        /\ start.vel \in [{"x", "y", "z"} -> SignedRange(Range16)]
        /\ start.global_id \in UInt32
        BY <1>3, SameTypes, PacketMotionAssumption DEF EntityVal
  <2>2. Range32 - 1 - o.word \in UInt32
        BY <1>4, SameTypes DEF UInt32
  <2>3. [a \in Axes |-> o.half] \in [{"x", "y", "z"} -> SignedRange(Range16)]
        BY <1>4, SameTypes, PacketMotionAssumption
  <2>4. 0 \in Byte
        BY PacketAssumption DEF Byte
  <2>5. [i \in PayloadBytes |-> IF i % 2 = 0 THEN o.byte ELSE 0] \in [PayloadBytes -> Byte]
        BY <1>4, <2>4
  <2>6. QED BY <1>2, <1>4, <2>1, <2>2, <2>3, <2>5 DEF PacketOf, xr_grid_entity_packet_t
<1>6. Stays = wire
  <2>1. wire.global_id = start.global_id /\ wire.pos = start.pos /\ wire.vel = start.vel
        BY <1>2 DEF PacketOf
  <2>2. QED BY <1>3, <1>5, <2>1 DEF Stays, xr_grid_entity_packet_t
<1>7. /\ DOMAIN bytes = 0 .. (value.len - 1)
      /\ Agree(xr_grid_entity_packet_encode(wire), bytes, 0, PACKET_SIZE)
      BY <1>2, <1>3 DEF SeedBytes, SizeofEntityVal, XR_PACKET_SIZE, PACKET_SIZE, Agree, Offsets
<1>8. QED BY <1>1, <1>5, <1>6, <1>7 DEF BytesInv

\* The invariant is what the run checks of the bytes.
LEMMA InvBytesAgree == BytesInv => BytesAgree /\ decode_entity(bytes) = Stays
<1> SUFFICES ASSUME BytesInv PROVE BytesAgree /\ decode_entity(bytes) = Stays
    OBVIOUS
<1>1. XR_PACKET_SIZE - 1 \in DOMAIN bytes
      BY DEF BytesInv, MotionInv, TypeOK, Stored, XR_PACKET_SIZE, SizeofEntityVal
<1>2. Stays \in xr_grid_entity_packet_t
      BY StaysIs DEF BytesInv
<1>3. xr_grid_entity_packet_decode(bytes)
        = xr_grid_entity_packet_decode(xr_grid_entity_packet_encode(Stays))
      BY DecodeAgree DEF BytesInv
<1>4. decode_entity(bytes) = Stays
      BY <1>1, <1>2, <1>3, PacketRoundTrip DEF decode_entity
<1>5. QED BY <1>4 DEF BytesAgree, BytesInv, Stays

\* A tick on the bytes stores the exact encoding of the moved packet.
LEMMA TickOnBytes ==
    ASSUME BytesInv, NEW n \in TickCounts, Tick(n), TickBytes(n)
    PROVE  /\ bytes' = xr_grid_entity_packet_encode(Stays')
           /\ Stays' = [Stays EXCEPT !.pos = value'.ev.pos]
           /\ Stays' \in xr_grid_entity_packet_t
           /\ MotionInv' /\ wire' = wire /\ value'.len = XR_PACKET_SIZE
<1>1. MotionInv' /\ wire' = wire /\ wire \in xr_grid_entity_packet_t /\ MotionInv
      BY MotionStep DEF Next, TickBytes, BytesInv
<1>2. Stays' \in xr_grid_entity_packet_t
  <2>1. ASSUME MotionInv', (wire \in xr_grid_entity_packet_t)'
        PROVE  (Stays \in xr_grid_entity_packet_t)'
        BY <2>1, StaysIs, PTL
  <2>2. QED BY <1>1, <2>1
<1>3. n \in Nat
      BY MotionAssumption
<1>4. value' = [len |-> XR_PACKET_SIZE, ev |-> Move(value.ev, n)] /\ value.ev \in EntityVal
      BY <1>1, <1>3, TickedIs DEF Tick, MotionInv, TypeOK, Stored
<1> DEFINE mv == Move(value.ev, n)
<1>5. /\ mv.global_id = value.ev.global_id /\ mv.vel = value.ev.vel
      /\ mv.pos = [a \in Axes |->
             Wrap64(value.ev.pos[a] + vel_to_um_per_tick(value.ev.vel[a]) * n)]
      BY <1>3, <1>4, MoveIs
<1>6. value'.ev = mv /\ value'.len = XR_PACKET_SIZE
      BY <1>4
<1> HIDE DEF mv
<1>7. Stays' = [Stays EXCEPT !.pos = value'.ev.pos]
      BY <1>1, <1>5, <1>6 DEF Stays, xr_grid_entity_packet_t
<1>8. Move(Stays, n) = [Stays EXCEPT !.pos = mv.pos]
  <2>1. Stays.pos = value.ev.pos /\ Stays.vel = value.ev.vel
        BY <1>1, StaysIs
  <2> HIDE DEF Stays
  <2>2. QED BY <1>5, <2>1 DEF Move
<1>9. bytes' = xr_grid_entity_packet_encode(Move(Stays, n))
      BY InvBytesAgree DEF TickBytes
<1>10. Move(Stays, n) = Stays'
       BY <1>6, <1>7, <1>8
<1>11. QED BY <1>1, <1>2, <1>6, <1>7, <1>9, <1>10

\* and is kept by every step.
LEMMA BytesStep == BytesInv /\ [NextBytes]_bvars => BytesInv'
<1> SUFFICES ASSUME BytesInv, [NextBytes]_bvars PROVE BytesInv'
    OBVIOUS
<1>1. CASE UNCHANGED bvars
      BY <1>1 DEF bvars, vars, BytesInv, Stays, MotionInv, TypeOK, TicksCompose
<1>2. CASE NextBytes
  <2>1. PICK n \in TickCounts : Tick(n) /\ TickBytes(n)
        BY <1>2 DEF NextBytes
  <2>2. /\ bytes' = xr_grid_entity_packet_encode(Stays') /\ Stays' \in xr_grid_entity_packet_t
        /\ MotionInv' /\ wire' = wire /\ value'.len = XR_PACKET_SIZE
        BY <2>1, TickOnBytes
  <2>3. bytes' \in Buffer
        BY <2>2, PacketRoundTrip
  <2>4. DOMAIN bytes' = 0 .. (value'.len - 1)
        BY <2>2, <2>3 DEF Buffer, XR_PACKET_SIZE, PACKET_SIZE
  <2>5. Agree(xr_grid_entity_packet_encode(Stays'), bytes', 0, PACKET_SIZE)
        BY <2>2 DEF Agree
  <2>6. QED BY <2>2, <2>4, <2>5 DEF BytesInv
<1>3. QED BY <1>1, <1>2

\* Writing the same integer into two buffers leaves the bytes on which they agree,
\* whatever these are.
Same(b, c, w) == b \in Buffer /\ c \in Buffer /\ \A k \in w : b[k] = c[k]

\* Two bytes,
LEMMA SameAfter16 ==
    ASSUME NEW b, NEW c, NEW w \in SUBSET Offsets, Same(b, c, w),
           NEW off \in Nat, off + 2 =< PACKET_SIZE, NEW u \in 0 .. (Range16 - 1)
    PROVE  Same(put_u16(b, off, u), put_u16(c, off, u), w)
<1>1. put_u16(b, off, u) \in Buffer /\ put_u16(c, off, u) \in Buffer
      BY Put16 DEF Same, Writes
<1>2. \A k \in w : put_u16(b, off, u)[k] = put_u16(c, off, u)[k]
  <2>1. SUFFICES ASSUME NEW k \in w PROVE put_u16(b, off, u)[k] = put_u16(c, off, u)[k]
        OBVIOUS
  <2>2. b[k] = c[k] /\ k \in DOMAIN b /\ k \in DOMAIN c
        BY DEF Same, Offsets, Buffer
  <2>3. CASE k = off + 1
        BY <2>2, <2>3 DEF put_u16
  <2>4. CASE k # off + 1
        BY <2>2, <2>4 DEF put_u16
  <2>5. QED BY <2>3, <2>4
<1>3. QED BY <1>1, <1>2 DEF Same

\* four,
LEMMA SameAfter32 ==
    ASSUME NEW b, NEW c, NEW w \in SUBSET Offsets, Same(b, c, w),
           NEW off \in Nat, off + 4 =< PACKET_SIZE, NEW v \in UInt32
    PROVE  Same(put_u32(b, off, v), put_u32(c, off, v), w)
<1> DEFINE lo == v % Range16
           hi == v \div Range16
<1>1. lo \in 0 .. (Range16 - 1) /\ hi \in 0 .. (Range16 - 1)
  <2>1. v \in Nat /\ v < Range16 * Range16 /\ Range16 \in Nat \ {0}
        BY Ranges DEF UInt32, Range32
  <2>2. hi \in Nat /\ hi < Range16 /\ lo \in 0 .. (Range16 - 1)
        BY <2>1, Digits
  <2> HIDE DEF lo, hi
  <2>3. QED BY <2>1, <2>2
<1> HIDE DEF lo, hi
<1>2. off + 2 \in Nat /\ off + 2 =< PACKET_SIZE /\ (off + 2) + 2 =< PACKET_SIZE
      BY DEF PACKET_SIZE
<1>3. Same(put_u16(b, off, lo), put_u16(c, off, lo), w)
      BY <1>1, <1>2, SameAfter16
<1>4. Same(put_u16(put_u16(b, off, lo), off + 2, hi), put_u16(put_u16(c, off, lo), off + 2, hi), w)
      BY <1>1, <1>2, <1>3, SameAfter16
<1>5. QED BY <1>4 DEF put_u32, lo, hi

\* and three integers of two.
LEMMA SameAfterVec16 ==
    ASSUME NEW b, NEW c, NEW w \in SUBSET Offsets, Same(b, c, w),
           NEW off \in Nat, off + 6 =< PACKET_SIZE,
           NEW v \in [{"x", "y", "z"} -> SignedRange(Range16)]
    PROVE  Same(put_vec16(b, off, v), put_vec16(c, off, v), w)
<1>1. \A a \in {"x", "y", "z"} : v[a] % Range16 \in 0 .. (Range16 - 1)
  <2>1. SUFFICES ASSUME NEW a \in {"x", "y", "z"} PROVE v[a] % Range16 \in 0 .. (Range16 - 1)
        OBVIOUS
  <2>2. v[a] \in Int /\ Range16 \in Nat \ {0}
        BY Ranges DEF SignedRange
  <2>3. QED BY <2>2, Z3
<1> DEFINE x == v["x"] % Range16
           y == v["y"] % Range16
           z == v["z"] % Range16
<1>2. x \in 0 .. (Range16 - 1) /\ y \in 0 .. (Range16 - 1) /\ z \in 0 .. (Range16 - 1)
      BY <1>1
<1>3. /\ off + 2 \in Nat /\ off + 4 \in Nat /\ off + 2 =< PACKET_SIZE
      /\ (off + 2) + 2 =< PACKET_SIZE /\ (off + 4) + 2 =< PACKET_SIZE
      BY DEF PACKET_SIZE
<1> DEFINE b1 == put_u16(b, off, x)
           c1 == put_u16(c, off, x)
           b2 == put_u16(b1, off + 2, y)
           c2 == put_u16(c1, off + 2, y)
           b3 == put_u16(b2, off + 4, z)
           c3 == put_u16(c2, off + 4, z)
<1>4. b3 = put_vec16(b, off, v) /\ c3 = put_vec16(c, off, v)
      BY DEF put_vec16, put_i16
<1> HIDE DEF x, y, z
<1>5. Same(b1, c1, w)
      BY <1>2, <1>3, SameAfter16
<1> HIDE DEF b1, c1
<1>6. Same(b2, c2, w)
      BY <1>2, <1>3, <1>5, SameAfter16
<1> HIDE DEF b2, c2
<1>7. Same(b3, c3, w)
      BY <1>2, <1>3, <1>6, SameAfter16
<1> HIDE DEF b3, c3
<1>8. QED BY <1>4, <1>7

\* Packets that differ in their positions have the same bytes everywhere else.
LEMMA SameBytes ==
    ASSUME NEW p \in xr_grid_entity_packet_t, NEW q \in xr_grid_entity_packet_t,
           q.global_id = p.global_id, q.vel = p.vel, q.hlc = p.hlc,
           q.class_owner = p.class_owner, q.sub_index = p.sub_index, q.rot = p.rot,
           q.payload = p.payload
    PROVE  \A k \in Offsets \ PositionBytes :
               xr_grid_entity_packet_encode(q)[k] = xr_grid_entity_packet_encode(p)[k]
<1>1. /\ p.global_id \in UInt32 /\ p.hlc \in UInt32 /\ p.class_owner \in UInt32
      /\ p.sub_index \in UInt32
      /\ p.pos \in [{"x", "y", "z"} -> SignedRange(Range64)]
      /\ q.pos \in [{"x", "y", "z"} -> SignedRange(Range64)]
      /\ p.vel \in [{"x", "y", "z"} -> SignedRange(Range16)]
      /\ p.rot \in [{"x", "y", "z"} -> SignedRange(Range16)]
      /\ p.payload \in [PayloadBytes -> Byte]
      BY DEF xr_grid_entity_packet_t
<1>2. /\ \A o \in {0, 40, 44, 48} : o \in Nat /\ o + 4 =< PACKET_SIZE
      /\ \A o \in {28, 52} : o \in Nat /\ o + 6 =< PACKET_SIZE
      /\ 4 \in Nat /\ 4 + 24 =< PACKET_SIZE
      BY DEF PACKET_SIZE
<1> DEFINE w == Offsets \ PositionBytes
           b1 == put_u32(ZeroBuffer, 0, p.global_id)
           b2 == put_vec64(b1, 4, p.pos)
           c2 == put_vec64(b1, 4, q.pos)
           b3 == put_vec16(b2, 28, p.vel)
           c3 == put_vec16(c2, 28, p.vel)
           b4 == put_u32(b3, 40, p.hlc)
           c4 == put_u32(c3, 40, p.hlc)
           b5 == put_u32(b4, 44, p.class_owner)
           c5 == put_u32(c4, 44, p.class_owner)
           b6 == put_u32(b5, 48, p.sub_index)
           c6 == put_u32(c5, 48, p.sub_index)
           b7 == put_vec16(b6, 52, p.rot)
           c7 == put_vec16(c6, 52, p.rot)
<1>3. /\ xr_grid_entity_packet_encode(p) = put_payload(b7, p.payload)
      /\ xr_grid_entity_packet_encode(q) = put_payload(c7, p.payload)
      BY DEF xr_grid_entity_packet_encode
<1>4. ZeroBuffer \in Buffer
      BY PacketAssumption DEF ZeroBuffer, Buffer, Byte
<1>5. b1 \in Buffer
      BY <1>1, <1>2, <1>4, Put32 DEF Writes
<1> HIDE DEF b1
<1>6. Writes(b1, b2, 4, 24) /\ Writes(b1, c2, 4, 24)
      BY <1>1, <1>2, <1>5, PutVec64
<1> HIDE DEF b2, c2
<1>7. w \in SUBSET Offsets /\ Same(b2, c2, w)
      BY <1>6 DEF Writes, Same, PositionBytes, Offsets, PACKET_SIZE
<1> HIDE DEF w
<1>8. Same(b3, c3, w)
      BY <1>1, <1>2, <1>7, SameAfterVec16
<1> HIDE DEF b3, c3
<1>9. Same(b4, c4, w)
      BY <1>1, <1>2, <1>7, <1>8, SameAfter32
<1> HIDE DEF b4, c4
<1>10. Same(b5, c5, w)
      BY <1>1, <1>2, <1>7, <1>9, SameAfter32
<1> HIDE DEF b5, c5
<1>11. Same(b6, c6, w)
      BY <1>1, <1>2, <1>7, <1>10, SameAfter32
<1> HIDE DEF b6, c6
<1>12. Same(b7, c7, w)
      BY <1>1, <1>2, <1>7, <1>11, SameAfterVec16
<1> HIDE DEF b7, c7
<1>13. \A k \in w : put_payload(c7, p.payload)[k] = put_payload(b7, p.payload)[k]
  <2>1. SUFFICES ASSUME NEW k \in w
                 PROVE  put_payload(c7, p.payload)[k] = put_payload(b7, p.payload)[k]
        OBVIOUS
  <2>2. k \in DOMAIN b7 /\ k \in DOMAIN c7 /\ b7[k] = c7[k]
        BY <1>7, <1>12 DEF Same, Buffer, Offsets
  <2>3. QED BY <2>2 DEF put_payload
<1>14. QED BY <1>3, <1>13 DEF w

\* However a number of ticks is split into calls, the entity ends where one call
\* would have put it: for every velocity, position, integer width and number of ticks.
THEOREM TicksAlwaysCompose == SpecBytes => []TicksCompose
<1>1. BytesInv => TicksCompose
      BY DEF BytesInv, MotionInv
<1>2. QED BY <1>1, BytesInitially, BytesStep, PTL DEF SpecBytes

\* No number of ticks takes an entity past the bound of the velocity scale.
THEOREM SpeedStaysBounded == SpecBytes => []SpeedLimit
<1>1. BytesInv => SpeedLimit
      BY InvSpeedLimit DEF BytesInv
<1>2. QED BY <1>1, BytesInitially, BytesStep, PTL DEF SpecBytes

\* Every value a tick stores is a packet whose fields fit their integers: a position
\* that overflows wraps, and is never out of the range of int64_t.
THEOREM MotionTyped == SpecBytes => []TypeOK
<1>1. BytesInv => TypeOK
      BY DEF BytesInv, MotionInv
<1>2. QED BY <1>1, BytesInitially, BytesStep, PTL DEF SpecBytes

\* An entity sent back with the opposite velocity arrives where it started.
THEOREM NeverDrifts == SpecBytes => []NoDrift
<1>1. BytesInv => NoDrift
      BY InvNoDrift DEF BytesInv
<1>2. QED BY <1>1, BytesInitially, BytesStep, PTL DEF SpecBytes

\* After any number of ticks the stored bytes are as many as ZoneData says and
\* decode to the packet it says, every field it leaves out as it was stored.
THEOREM BytesCorrect == SpecBytes => []BytesAgree
  BY BytesInitially, BytesStep, InvBytesAgree, PTL DEF SpecBytes

\* No tick ever changes a stored byte that is not the position's.
THEOREM OnlyPositionChanges == SpecBytes => OnlyPositionMoves
<1>1. BytesInv /\ [NextBytes]_bvars
        => [\A i \in (0 .. (XR_PACKET_SIZE - 1)) \ PositionBytes : bytes'[i] = bytes[i]]_bvars
  <2> SUFFICES ASSUME BytesInv, NextBytes,
                      NEW i \in (0 .. (XR_PACKET_SIZE - 1)) \ PositionBytes
               PROVE  bytes'[i] = bytes[i]
      OBVIOUS
  <2>1. PICK n \in TickCounts : Tick(n) /\ TickBytes(n)
        BY DEF NextBytes
  <2>2. /\ bytes' = xr_grid_entity_packet_encode(Stays') /\ Stays' \in xr_grid_entity_packet_t
        /\ Stays' = [Stays EXCEPT !.pos = value'.ev.pos]
        BY <2>1, TickOnBytes
  <2>3. Stays \in xr_grid_entity_packet_t
        BY StaysIs DEF BytesInv
  <2>4. i \in Offsets \ PositionBytes
        BY DEF Offsets, XR_PACKET_SIZE, PACKET_SIZE
  <2>5. xr_grid_entity_packet_encode(Stays')[i] = xr_grid_entity_packet_encode(Stays)[i]
    <3> DEFINE p == Stays
               q == [Stays EXCEPT !.pos = value'.ev.pos]
    <3>1. /\ p \in xr_grid_entity_packet_t /\ q \in xr_grid_entity_packet_t
          BY <2>2, <2>3
    <3> HIDE DEF Stays
    <3>2. /\ q.global_id = p.global_id /\ q.vel = p.vel /\ q.hlc = p.hlc
          /\ q.class_owner = p.class_owner /\ q.sub_index = p.sub_index /\ q.rot = p.rot
          /\ q.payload = p.payload
          BY <2>3 DEF xr_grid_entity_packet_t
    <3> HIDE DEF p, q
    <3>3. xr_grid_entity_packet_encode(q)[i] = xr_grid_entity_packet_encode(p)[i]
          BY <2>4, <3>1, <3>2, SameBytes
    <3>4. QED BY <2>2, <3>3 DEF p, q
  <2>6. bytes[i] = xr_grid_entity_packet_encode(Stays)[i]
    <3>1. i \in Offsets /\ 0 =< i /\ i < 0 + PACKET_SIZE
          BY <2>4 DEF Offsets, PACKET_SIZE
    <3> DEFINE e == xr_grid_entity_packet_encode(Stays)
    <3>2. Agree(e, bytes, 0, PACKET_SIZE)
          BY DEF BytesInv
    <3> HIDE DEF e
    <3>3. bytes[i] = e[i]
          BY <3>1, <3>2 DEF Agree
    <3>4. QED BY <3>3 DEF e
  <2>7. QED BY <2>2, <2>5, <2>6
<1>2. QED BY <1>1, BytesInitially, BytesStep, PTL DEF SpecBytes, OnlyPositionMoves
=============================================================================
