----------------------------- MODULE MCZoneTick -----------------------------
(* ZoneTick for TLC: runs are interchangeable.                             *)
EXTENDS ZoneTick, TLC

RunSymmetry == Permutations(Runs)
=============================================================================
