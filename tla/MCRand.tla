--------------------------------- MODULE MCRand ---------------------------------
(***************************************************************************)
(* Instances of Rand for TLC: two processes of one thread, one with the   *)
(* hardware build and one with the seed-only build.                       *)
(***************************************************************************)
EXTENDS Rand, TLC

CONSTANTS t1, t2, none

MCProcOf == [t \in Threads |-> t]
DrawFaults == {"malloc", "init", "release", "bus", "health", "die"}
=================================================================================
