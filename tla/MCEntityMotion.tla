--------------------------- MODULE MCEntityMotion ---------------------------
(* PacketMotion for TLC: the ends of both integer ranges, values whose      *)
(* scaled velocity is not a whole number, and other fields that are all     *)
(* zero, as seeded, or have their highest bit set.                          *)
EXTENDS PacketMotion

MCStartPos == {-PosHalf, -3, PosHalf - 1}
MCStartVel == {-INT16_MAX - 1, -INT16_MAX, -3, 2}
MCOthers == {[word |-> 0, half |-> 0, byte |-> 0],
             [word |-> Range32 - 2, half |-> -INT16_MAX, byte |-> Base - 1]}
=============================================================================
