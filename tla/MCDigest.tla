-------------------------------- MODULE MCDigest --------------------------------
(***************************************************************************)
(* Instances of Digest for TLC: two processes of one thread.               *)
(***************************************************************************)
EXTENDS Digest, TLC

CONSTANTS t1, t2, none, c1, c2

MCProcOf == [t \in Threads |-> t]
DigestFaults == {"create", "malloc", "init", "release", "health", "die"}
Symmetry == Permutations(Threads) \cup Permutations(Contexts)
=================================================================================
