---------------------------- MODULE PacketMotion ----------------------------
(***************************************************************************)
(* EntityMotion down to the bytes: beside the value as ZoneData abstracts  *)
(* it, the bytes FoundationDB holds, which a tick decodes, moves and       *)
(* encodes again.  The two take every step together, so that what they say *)
(* of an entity can be compared after any number of ticks.                 *)
(***************************************************************************)
EXTENDS EntityMotion, EntityPacket

CONSTANT Others     \* the fields a tick does not touch, with a value for each

ASSUME PacketMotionAssumption ==
    /\ Axes = {"x", "y", "z"}
    /\ 2 * (INT16_MAX + 1) = Range16
    /\ 2 * PosHalf = Range64
    /\ \A o \in Others : o \in [word : UInt32, half : Int16, byte : Byte]

VARIABLES
    bytes,  \* the value's bytes, offsets from 0
    wire    \* the packet it was stored as

bvars == <<vars, bytes, wire>>

\* A packet that moves as ev does.
PacketOf(ev, o) ==
    [global_id |-> ev.global_id, pos |-> ev.pos, vel |-> ev.vel,
     hlc |-> o.word, class_owner |-> Range32 - 1 - o.word, sub_index |-> o.word,
     rot |-> [a \in Axes |-> o.half],
     payload |-> [i \in PayloadBytes |-> IF i % 2 = 0 THEN o.byte ELSE 0]]

\* seed_entities writes sizeof(zf_entity_val_t) bytes of a buffer in which
\* encode_entity has filled the first XR_PACKET_SIZE; the rest is whatever was
\* on the stack.
SeedBytes(p, stack) ==
    [i \in 0 .. (SizeofEntityVal - 1) |->
        IF i < XR_PACKET_SIZE THEN xr_grid_entity_packet_encode(p)[i] ELSE stack]

InitBytes ==
    /\ Init
    /\ \E o \in Others : wire = PacketOf(start, o) /\ bytes = SeedBytes(wire, o.byte)

ZeroPacket == xr_grid_entity_packet_decode(ZeroBuffer)

\* zf_kv_decode_entity: a value that is too short leaves the zeroed struct.
decode_entity(b) ==
    IF XR_PACKET_SIZE - 1 \in DOMAIN b THEN xr_grid_entity_packet_decode(b) ELSE ZeroPacket

\* Slip: without the memset the bytes of no field are what was on the stack.
TickWithoutMemset(n) ==
    /\ \E stack \in Byte :
         bytes' = [xr_grid_entity_packet_encode(Move(decode_entity(bytes), n))
                      EXCEPT ![34] = stack]
    /\ UNCHANGED wire

\* One turn of the loop of zt_on_range_read, on the bytes.
TickBytes(n) ==
    /\ bytes' = xr_grid_entity_packet_encode(Move(decode_entity(bytes), n))
    /\ UNCHANGED wire

NextBytes == \E n \in TickCounts : Tick(n) /\ TickBytes(n)

SpecBytes == InitBytes /\ [][NextBytes]_bvars

-----------------------------------------------------------------------------
\* ZoneData's view of a value is the truth about its bytes: after any ticks they
\* are as many as it says and decode to the packet it says, in the full range of
\* every integer, with the fields it leaves out as they were stored.
BytesAgree ==
    /\ DOMAIN bytes = 0 .. (value.len - 1)
    /\ decode_entity(bytes) =
         [wire EXCEPT !.global_id = value.ev.global_id, !.pos = value.ev.pos,
                      !.vel = value.ev.vel]

PositionBytes == 4 .. 27

\* A tick rewrites all of the packet's bytes, and yet none changes but those of
\* the position, the bytes between the fields included: the stored value stays
\* the exact wire packet.
OnlyPositionMoves ==
    [][\A i \in (0 .. (XR_PACKET_SIZE - 1)) \ PositionBytes : bytes'[i] = bytes[i]]_bvars
=============================================================================
