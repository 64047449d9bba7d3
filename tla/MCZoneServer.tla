---------------------------- MODULE MCZoneServer ----------------------------
(* ZoneServer for TLC: a negative count is one of the values of -a.        *)
EXTENDS ZoneServer

MCWorkerArgs == -1 .. 4
=============================================================================
