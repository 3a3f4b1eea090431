--------------------------------- MODULE MCCerts ---------------------------------
(***************************************************************************)
(* Instances of Certs for TLC: two processes of one thread.                *)
(***************************************************************************)
EXTENDS Certs, TLC

CONSTANTS t1, t2, none

MCProcOf == [t \in Threads |-> t]
SessionFaults == {"init", "bus", "release", "die"}
Symmetry == Permutations(Threads)
==================================================================================
