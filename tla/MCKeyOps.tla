-------------------------------- MODULE MCKeyOps --------------------------------
(***************************************************************************)
(* Instances of KeyOps for TLC: two processes of one thread.               *)
(***************************************************************************)
EXTENDS KeyOps, TLC

CONSTANTS t1, t2, none

MCProcOf == [t \in Threads |-> t]

\* What a command, or the release after it, can do to a result.
ChipFaults == {"release", "bus"}
\* What takes an operation off the path of its session.
SessionFaults == {"init", "health", "unlocked", "die"}

Symmetry == Permutations(Threads)
=================================================================================
