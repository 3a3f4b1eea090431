--------------------------- MODULE SessionInvariant ---------------------------
(***************************************************************************)
(* The inductive invariants behind the theorems of SessionProofs: for each *)
(* point of an operation, what the statics of its process, the mutex and   *)
(* the chip must be.  They hold for processes of one thread.               *)
(***************************************************************************)
EXTENDS SessionUser

\* Which points of the session functions go with which place of the caller.
PlaceInv(t) ==
    /\ at[t] \in {"out", "open"} => pc[t] = "idle"
    /\ at[t] = "opening" =>
            /\ call[t] = "init"
            /\ pc[t] \in {"idle"} \cup LockPCs \cup InitPCs \cup UnlockPCs
            /\ pc[t] \in UnlockPCs => status[t] # "SUCCESS"
            /\ pc[t] \in {"resync_wake", "resync_sleep"} => status[t] = "SUCCESS"
    /\ at[t] = "closing" =>
            /\ call[t] = "release"
            /\ pc[t] \in {"idle", "lock", "test"} \cup ReleasePCs \cup UnlockPCs

\* The session's configuration exists from its allocation to its release.
Configured(t) ==
    \/ pc[t] \in (InitPCs \ {"init_cfg"}) \cup ReleasePCs
    \/ at[t] = "open" \/ Granted(t)
    \/ at[t] = "closing" /\ pc[t] \in {"lock", "test"}

\* global_lock.state follows the mutex one step behind.
Marked(t) == (Holding(t) /\ pc[t] # "mark") \/ pc[t] = "unmark"

StaticsInv(t) ==
    /\ state[ProcOf[t]] = IF Marked(t) THEN 1 ELSE 0
    /\ ifacecfg[ProcOf[t]] = IF Configured(t) THEN "set" ELSE "NULL"
    /\ Holding(t) \/ pc[t] \in {"test", "acquire", "unmark"} => handle[ProcOf[t]] # "NULL"
    /\ at[t] \in {"open", "closing"} \/ Granted(t) => recovered[ProcOf[t]] = 0
    /\ pc[t] \in {"resync_wake", "resync_sleep"} => recovered[ProcOf[t]] = 1

ThreadInv(t) ==
    /\ PlaceInv(t)
    /\ StaticsInv(t)
    /\ owner = t <=> Holding(t)

\* The inductive invariant of the mutex and the statics.
SessionInv == TypeOK /\ \A t \in Threads : ThreadInv(t)

\* Nothing but a death leaves the chip in a state that the next owner of the
\* mutex does not know, and the owner who learns of one deals with it.
ChipStaysKnown == Faults \cap {"malloc", "init", "bus", "unlocked"} = {}

\* What the owner of the mutex knows of the chip, where ChipStaysKnown.
ChipThreadInv(t) ==
    /\ recovered[ProcOf[t]] = 1 => pc[t] \in {"mark"} \cup InitPCs
    /\ owner = t => ~ownerdead
    /\ owner = t /\ recovered[ProcOf[t]] = 0 /\ ~InSession(t) => chip = Parked
    /\ pc[t] \in {"resync_sleep", "park_sleep"} => chip.power = "awake"

\* The inductive invariant of the chip.
ChipInv == ParkedBetweenSessions /\ \A t \in Threads : ChipThreadInv(t)
================================================================================
