------------------------------- MODULE MCSession -------------------------------
(***************************************************************************)
(* Instances of SessionUser for TLC: processes of one thread each, as the  *)
(* openssl tool, curl and nginx workers are.                               *)
(***************************************************************************)
EXTENDS SessionInvariant, TLC

CONSTANTS t1, t2, t3, none

MCProcOf == [t \in Threads |-> t]
\* A process whose threads all use the engine.
MCOneProcess == [t \in Threads |-> CHOOSE p \in Procs : TRUE]

EveryFault == AllFaults
\* Faults after which a session still knows the chip: see README, "Recovery".
KnownChip == {"create", "lock", "release", "health", "die"}
NoDeathNoLoss == AllFaults \ {"die", "bus", "create", "lock"}
NoFaults == {}
RecoveryFails == {"die", "init"}

Symmetry == Permutations(Threads)
================================================================================
