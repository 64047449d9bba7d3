---------------------------- MODULE EntityPacket ----------------------------
(***************************************************************************)
(* The 100-byte entity packet of src/gen/xr_grid_entity_packet.c: fixed    *)
(* offsets, little-endian integers, two's complement.  A buffer is a       *)
(* function from its offsets to bytes; a byte has Base values (256 in the  *)
(* code), so that every width below is the code's number of bytes and TLC  *)
(* can still reach both ends of an eight-byte integer.                     *)
(***************************************************************************)
EXTENDS Bytes

ASSUME PacketAssumption == Base \in Nat \ {0} /\ Base % 2 = 0

Range16 == Base * Base              \* values of uint16_t
Range32 == Range16 * Range16        \* of uint32_t
Range64 == Range32 * Range32        \* of uint64_t

UInt32 == 0 .. (Range32 - 1)

\* The values of a signed integer of which there are n.
SignedRange(n) == (-(n \div 2)) .. ((n \div 2) - 1)

\* (int16_t)u, (int64_t)u.
AsSigned(u, n) == IF u < n \div 2 THEN u ELSE u - n

-----------------------------------------------------------------------------
(* Integers.  `off` is the offset of the least significant byte.           *)

put_u16(b, off, u) == [b EXCEPT ![off] = u % Base, ![off + 1] = u \div Base]
get_u16(b, off) == b[off] + Base * b[off + 1]

put_u32(b, off, v) ==
    put_u16(put_u16(b, off, v % Range16), off + 2, v \div Range16)
get_u32(b, off) == get_u16(b, off) + Range16 * get_u16(b, off + 2)

put_i16(b, off, v) == put_u16(b, off, v % Range16)
get_i16(b, off) == AsSigned(get_u16(b, off), Range16)

put_i64(b, off, v) ==
    put_u32(put_u32(b, off, (v % Range64) % Range32), off + 4, (v % Range64) \div Range32)
get_i64(b, off) == AsSigned(get_u32(b, off) + Range32 * get_u32(b, off + 4), Range64)

-----------------------------------------------------------------------------
(* The packet.                                                             *)

PACKET_SIZE == 100                  \* XR_PACKET_SIZE
XR_PACKET_PAYLOAD_OFFSET == 58
XR_PACKET_PAYLOAD_LEN == PACKET_SIZE - XR_PACKET_PAYLOAD_OFFSET

PayloadBytes == 0 .. (XR_PACKET_PAYLOAD_LEN - 1)

xr_grid_entity_packet_t ==
    [global_id : UInt32,
     pos : [{"x", "y", "z"} -> SignedRange(Range64)],
     vel : [{"x", "y", "z"} -> SignedRange(Range16)],
     hlc : UInt32, class_owner : UInt32, sub_index : UInt32,
     rot : [{"x", "y", "z"} -> SignedRange(Range16)],
     payload : [PayloadBytes -> Byte]]

Buffer == [0 .. (PACKET_SIZE - 1) -> Byte]
ZeroBuffer == [i \in 0 .. (PACKET_SIZE - 1) |-> 0]

put_vec16(b, off, v) ==
    put_i16(put_i16(put_i16(b, off, v["x"]), off + 2, v["y"]), off + 4, v["z"])
put_vec64(b, off, v) ==
    put_i64(put_i64(put_i64(b, off, v["x"]), off + 8, v["y"]), off + 16, v["z"])

get_vec16(b, off) ==
    [a \in {"x", "y", "z"} |->
        get_i16(b, CASE a = "x" -> off [] a = "y" -> off + 2 [] a = "z" -> off + 4)]
get_vec64(b, off) ==
    [a \in {"x", "y", "z"} |->
        get_i64(b, CASE a = "x" -> off [] a = "y" -> off + 8 [] a = "z" -> off + 16)]

put_payload(b, payload) ==
    [i \in DOMAIN b |-> IF i >= XR_PACKET_PAYLOAD_OFFSET
                        THEN payload[i - XR_PACKET_PAYLOAD_OFFSET] ELSE b[i]]

\* Slip: the payload is not copied.
EncodeWithoutPayload(p) ==
    LET motion == put_vec16(put_vec64(put_u32(ZeroBuffer, 0, p.global_id), 4, p.pos), 28, p.vel)
        owner  == put_u32(put_u32(put_u32(motion, 40, p.hlc), 44, p.class_owner),
                          48, p.sub_index)
    IN  put_vec16(owner, 52, p.rot)

\* Bytes 34 to 39 belong to no field and stay as the memset left them.
xr_grid_entity_packet_encode(p) ==
    LET motion == put_vec16(put_vec64(put_u32(ZeroBuffer, 0, p.global_id), 4, p.pos), 28, p.vel)
        owner  == put_u32(put_u32(put_u32(motion, 40, p.hlc), 44, p.class_owner),
                          48, p.sub_index)
    IN  put_payload(put_vec16(owner, 52, p.rot), p.payload)

xr_grid_entity_packet_decode(b) ==
    [global_id   |-> get_u32(b, 0),
     pos         |-> get_vec64(b, 4),
     vel         |-> get_vec16(b, 28),
     hlc         |-> get_u32(b, 40),
     class_owner |-> get_u32(b, 44),
     sub_index   |-> get_u32(b, 48),
     rot         |-> get_vec16(b, 52),
     payload     |-> [i \in PayloadBytes |-> b[XR_PACKET_PAYLOAD_OFFSET + i]]]
=============================================================================
