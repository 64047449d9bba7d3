---------------------------- MODULE EntityMotion ----------------------------
(***************************************************************************)
(* One entity's value through a sequence of ticks, each with its own       *)
(* tick_count: read, decoded, moved, encoded and written back by the loop  *)
(* of zt_on_range_read.                                                    *)
(***************************************************************************)
EXTENDS ZoneData

CONSTANTS
    StartPos,    \* positions an entity may start from
    StartVel,    \* velocities it may have
    TickCounts,  \* values of tick_count
    MaxTicks     \* ticks in all

ASSUME MotionAssumption ==
    /\ StartPos \subseteq Int64
    /\ StartVel \subseteq Int16
    /\ TickCounts \subseteq Nat
    /\ MaxTicks \in Nat

VARIABLES
    value,  \* the stored value
    start,  \* the packet it was stored with
    ticks   \* ticks applied since

vars == <<value, start, ticks>>

Init ==
    /\ start \in [global_id : {0}, pos : [Axes -> StartPos], vel : [Axes -> StartVel]]
    /\ value = zf_kv_encode_entity(start, SizeofEntityVal)
    /\ ticks = 0

Tick(n) ==
    /\ ticks + n =< MaxTicks
    /\ value' = Ticked(value, n)
    /\ ticks' = ticks + n
    /\ UNCHANGED start

Next == \E n \in TickCounts : Tick(n)

Spec == Init /\ [][Next]_vars

-----------------------------------------------------------------------------
\* Every variable has its type.
TypeOK ==
    /\ value \in Stored
    /\ start \in EntityVal
    /\ ticks \in 0 .. MaxTicks

\* Ticks compose: however a number of ticks is split into calls, through
\* rounding, wrap-around and the codec, the entity ends where one call with the
\* whole tick_count would have put it, and nothing but its position changed.
TicksCompose == value.ev = Move(start, ticks)

Reach(v) == IF v = -INT16_MAX - 1 THEN V_MAX + V_MAX \div INT16_MAX + 1 ELSE V_MAX

\* n ticks displace an entity by at most n times V_MAX, the bound of the packet's
\* velocity scale; only INT16_MIN, which has no positive counterpart, may
\* overshoot, by the bounded amount test_vel_to_um_per_tick.c allows.
SpeedLimit ==
    \A a \in Axes : \E d \in (-Reach(start.vel[a]) * ticks) .. (Reach(start.vel[a]) * ticks) :
        value.ev.pos[a] = Wrap64(start.pos[a] + d)

TurnedBack(ev) == [ev EXCEPT !.vel = [a \in Axes |-> -ev.vel[a]]]

\* No drift: an entity sent back with the opposite velocity for as many ticks
\* arrives where it started, because vel_to_um_per_tick rounds toward zero and
\* not down.  INT16_MIN has no opposite.
NoDrift ==
    (\A a \in Axes : -start.vel[a] \in Int16)
        => Move(TurnedBack(value.ev), ticks).pos = start.pos
=============================================================================
