------------------------------ MODULE ZoneData ------------------------------
(***************************************************************************)
(* The values a zone's keys hold, and what one tick does to one value:     *)
(* the entity codec of src/zf_kv.c over src/gen/xr_grid_entity_packet.c    *)
(* and the position update of src/zf_zonetick.c.                           *)
(*                                                                         *)
(* A stored value is [len, ev]: the number of bytes and the packet its     *)
(* first XR_PACKET_SIZE bytes encode.  Of the packet's fields only the     *)
(* ones a tick reads or writes are kept; the others (hlc, class_owner,     *)
(* sub_index, rotation, payload) are copied by decode and encode alike.    *)
(* The integer widths are constants, because TLC's own integers are        *)
(* narrower than int64_t.                                                  *)
(***************************************************************************)
EXTENDS Integers

CONSTANTS
    Axes,       \* {"x", "y", "z"}
    INT16_MAX,  \* 32767 in the code
    V_MAX,      \* XR_PACKET_V_MAX_PHYSICAL_DEFAULT_UM_PER_TICK, 500000
    PosHalf,    \* 2^63: int64_t is -PosHalf .. PosHalf-1
    SeedStride, \* 1000 um between the entities the throughput tool seeds
    SeedVelX    \* 100, their velocity along x

ASSUME DataAssumption ==
    /\ INT16_MAX \in Nat \ {0}
    /\ V_MAX \in Nat
    /\ PosHalf \in Nat \ {0}
    /\ SeedStride \in Nat
    /\ SeedVelX \in 0 .. INT16_MAX

Int16 == (-INT16_MAX - 1) .. INT16_MAX
Int64 == (-PosHalf) .. (PosHalf - 1)

-----------------------------------------------------------------------------
(* The stored value.                                                       *)

XR_PACKET_SIZE == 100
SizeofEntityVal == 104      \* sizeof(zf_entity_val_t): the packet and padding

EntityVal == [global_id : Nat, pos : [Axes -> Int64], vel : [Axes -> Int16]]
Stored == [len : {XR_PACKET_SIZE, SizeofEntityVal}, ev : EntityVal]

ZeroEntity == [global_id |-> 0, pos |-> [a \in Axes |-> 0],
                                vel |-> [a \in Axes |-> 0]]

\* Slip: the packet is written without one of its 32-bit fields.
EncodeWithoutField(ev, value_len) == [len |-> value_len - 4, ev |-> ev]

\* zf_kv_encode_entity fills exactly XR_PACKET_SIZE bytes; the caller says how
\* many bytes of its buffer become the value.
zf_kv_encode_entity(ev, value_len) == [len |-> value_len, ev |-> ev]

\* Slip: > for >= in the length check.
DecodeStrictLength(value) ==
    IF value.len > XR_PACKET_SIZE THEN value.ev ELSE ZeroEntity

\* A value too short to hold a packet decodes to the zeroed struct.
zf_kv_decode_entity(value) ==
    IF value.len >= XR_PACKET_SIZE THEN value.ev ELSE ZeroEntity

-----------------------------------------------------------------------------
(* The position update.                                                    *)

\* Slip: an arithmetic shift's rounding, down.
FloorDiv(a, b) == a \div b

\* C's integer division truncates toward zero (b > 0).
TruncDiv(a, b) == IF a >= 0 THEN a \div b ELSE -((-a) \div b)

\* Two's complement: what a 64-bit add leaves when it overflows.
Wrap64(x) == ((x + PosHalf) % (2 * PosHalf)) - PosHalf

\* Slip: one less in the divisor.
VelScaledByOneLess(v) == TruncDiv(v * V_MAX, INT16_MAX - 1)

vel_to_um_per_tick(v) == TruncDiv(v * V_MAX, INT16_MAX)

\* Slip: one division for all the ticks of a call.
MoveDividingLast(ev, tick_count) ==
    [ev EXCEPT !.pos = [a \in Axes |->
        Wrap64(ev.pos[a] + TruncDiv(ev.vel[a] * V_MAX * tick_count, INT16_MAX))]]

\* One turn of the loop of zt_on_range_read, between decode and encode.
Move(ev, tick_count) ==
    [ev EXCEPT !.pos = [a \in Axes |->
        Wrap64(ev.pos[a] + vel_to_um_per_tick(ev.vel[a]) * tick_count)]]

\* The whole turn: what the tick writes over a value it read.
Ticked(value, tick_count) ==
    zf_kv_encode_entity(Move(zf_kv_decode_entity(value), tick_count),
                        XR_PACKET_SIZE)

\* The value the throughput tool's seed_entities stores for e_id.
Seeded(e_id) ==
    zf_kv_encode_entity(
        [global_id |-> e_id,
         pos |-> [a \in Axes |-> IF a = "x" THEN e_id * SeedStride ELSE 0],
         vel |-> [a \in Axes |-> IF a = "x" THEN SeedVelX ELSE 0]],
        SizeofEntityVal)
=============================================================================
