----------------------------- MODULE DigestInvariant -----------------------------
(***************************************************************************)
(* The inductive invariant of Digest: what a call of the engine knows of   *)
(* the session, nested in that of a digest or not.                         *)
(***************************************************************************)
EXTENDS Digest, SessionCalls

\* A release that finds a session ends it.
LocksAreGranted == "lock" \notin Faults

\* A refused lock may leave a configuration behind, but not the mutex.
LeftNothing(t) == owner # t /\ (LocksAreGranted => HasNothing(t))

\* Only a thread that has no digest knows that it opens its session with nothing.
NestedInit(t) == InitInv(t) /\ (LocksAreGranted /\ digests[t] = {} => OpeningInv(t))

DigestPlaceInv(t) ==
    /\ at[t] \in {"out", "hw_init", "op"} => pc[t] = "idle"
    /\ at[t] = "out" /\ digests[t] = {} => LeftNothing(t)
    /\ at[t] \in {"init", "op_init"} => NestedInit(t)
    /\ at[t] \in {"hw_init", "op"} => HasSession(t)
    /\ at[t] \in {"init_release", "final_release", "op_release"} => ReleaseInv(t)

DigestInv == TypeOK /\ \A t \in Threads : LockInv(t) /\ DigestPlaceInv(t)

\* The part of DigestsLeaveNothing that keeps other processes going: a thread without
\* a digest, between its calls, does not have the mutex, whatever the HAL has refused.
DigestsGiveMutexBack ==
    \A t \in Threads : at[t] = "out" /\ digests[t] = {} => owner # t /\ state[ProcOf[t]] = 0
==================================================================================
