----------------------------- MODULE SessionCalls -----------------------------
(***************************************************************************)
(* What the session functions promise to any caller, also to one that      *)
(* nests its calls or forgets to close its session: for each point that a  *)
(* call has reached, the mutex and the statics of its process.             *)
(***************************************************************************)
EXTENDS Session

\* The process of t has a session, or neither a session nor the mutex.
HasSession(t) == owner = t /\ ifacecfg[ProcOf[t]] = "set"
HasNothing(t) == owner # t /\ ifacecfg[ProcOf[t]] = "NULL"

\* The mutex and its flag, whatever the calls.
LockInv(t) ==
    /\ state[ProcOf[t]] = IF pc[t] = "unmark" \/ (owner = t /\ pc[t] # "mark") THEN 1 ELSE 0
    /\ pc[t] \in {"mark", "unlock"} \cup InitPCs \cup ReleasePCs => owner = t
    /\ pc[t] \in {"create", "acquire", "unmark"} => owner # t
    /\ pc[t] = "create" => handle[ProcOf[t]] = "NULL"
    /\ owner = t \/ ifacecfg[ProcOf[t]] = "set" \/ pc[t] \in {"test", "acquire", "unmark"} =>
            handle[ProcOf[t]] # "NULL"

\* A call of atcab_init_safe, whatever came before it.
InitInv(t) ==
    /\ call[t] = "init"
    /\ pc[t] \notin ReleasePCs
    /\ pc[t] \in InitPCs \ {"init_cfg"} => HasSession(t)
    /\ pc[t] \in {"resync_wake", "resync_sleep"} => status[t] = "SUCCESS"
    /\ pc[t] \in UnlockPCs => status[t] # "SUCCESS"
    /\ pc[t] = "idle" => IF status[t] = "SUCCESS" THEN HasSession(t) ELSE owner # t

\* A call of atcab_release_safe, whatever came before it.
ReleaseInv(t) ==
    /\ call[t] = "release"
    /\ pc[t] \notin InitPCs
    /\ pc[t] \in ReleasePCs \ {"rel_cfg"} => HasSession(t)
    /\ pc[t] \in UnlockPCs => ifacecfg[ProcOf[t]] = "NULL"
    /\ pc[t] = "idle" => owner # t
    /\ pc[t] = "idle" /\ (status[t] = "SUCCESS" \/ "lock" \notin Faults) => ifacecfg[ProcOf[t]] = "NULL"

\* A call of atcab_init_safe by a thread that has nothing.
OpeningInv(t) ==
    /\ InitInv(t)
    /\ pc[t] \in {"mark", "init_cfg", "unlock", "unmark"} => ifacecfg[ProcOf[t]] = "NULL"
    /\ pc[t] \in {"lock", "create", "test", "acquire"} => HasNothing(t)
    /\ pc[t] = "idle" => HasSession(t) \/ HasNothing(t)

\* A call of atcab_release_safe by a thread that has a session.
ClosingInv(t) ==
    /\ ReleaseInv(t)
    /\ pc[t] \notin {"create", "acquire", "mark"}
    /\ pc[t] \in {"lock", "test"} \cup ReleasePCs => HasSession(t)
    /\ pc[t] = "idle" => HasNothing(t)
===============================================================================
