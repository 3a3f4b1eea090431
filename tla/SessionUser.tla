------------------------------ MODULE SessionUser ------------------------------
(***************************************************************************)
(* The engine's operations as the session functions see them: a thread     *)
(* opens a session, issues commands while it has one, and releases it once *)
(* (eccx08_ecdsa_do_sign_sig, eccx08_load_pubkey_internal,                 *)
(* eccx08_pkey_ec_keygen, ...: every caller has this shape).  at[t] is     *)
(* where the operation of thread t stands.                                 *)
(***************************************************************************)
EXTENDS Session

VARIABLE at

userVars == <<sessionVars, at>>

Places == {"out", "opening", "open", "closing"}

Init == SessionInit /\ at = [t \in Threads |-> "out"]

Move(t, from, to) == at[t] = from /\ at' = [at EXCEPT ![t] = to]

Open(t) == Move(t, "out", "opening") /\ Enter(t, "init")

\* Every caller gives up when atcab_init_safe fails, and only then.
Opened(t) ==
    /\ pc[t] = "idle"
    /\ Move(t, "opening", IF status[t] = "SUCCESS" THEN "open" ELSE "out")
    /\ UNCHANGED sessionVars

Command(t) ==
    /\ at[t] = "open"
    /\ \E s \in Statuses : atcab_command(s)
    /\ UNCHANGED <<threadVars, procVars, mutexVars, at>>

\* The cure of a health-test failure: a wake and a sleep inside the session.
CureWake(t) ==
    /\ at[t] = "open"
    /\ atcab_wakeup
    /\ UNCHANGED <<threadVars, procVars, mutexVars, at>>

CureSleep(t) ==
    /\ at[t] = "open"
    /\ atcab_sleep
    /\ UNCHANGED <<threadVars, procVars, mutexVars, at>>

Close(t) == Move(t, "open", "closing") /\ Enter(t, "release")

Closed(t) ==
    /\ pc[t] = "idle"
    /\ Move(t, "closing", "out")
    /\ UNCHANGED sessionVars

Run(t) == SessionStep(t) /\ UNCHANGED at

Step(t) ==
    \/ Open(t) \/ Opened(t) \/ Command(t) \/ CureWake(t) \/ CureSleep(t)
    \/ Close(t) \/ Closed(t) \/ Run(t)

Die(p) ==
    /\ KillProcess(p)
    /\ at' = [t \in Threads |-> IF t \in ThreadsOf(p) THEN "out" ELSE at[t]]

Interfere == UnlockedClient /\ UNCHANGED <<threadVars, procVars, mutexVars, at>>

Next ==
    \/ \E t \in Threads : Step(t)
    \/ \E p \in Procs : Die(p)
    \/ Interfere

Spec == Init /\ [][Next]_userVars

(***************************************************************************)
(* A thread that is in an operation carries on with it: the code is        *)
(* straight-line, so the commands of a session come to an end.  Nothing    *)
(* makes a thread start an operation, a process die or a client interfere, *)
(* and the mutex is not fair: a thread that waits for it is only sure to   *)
(* get it if it stays free.                                                *)
(***************************************************************************)
Carries(t) == Opened(t) \/ Close(t) \/ Closed(t) \/ Run(t)

FairSpec == Spec /\ \A t \in Threads : WF_userVars(Carries(t))
--------------------------------------------------------------------------------
TypeOK == SessionTypeOK /\ at \in [Threads -> Places]

\* atcab_init_safe has returned success and its caller has yet to look.
Granted(t) == at[t] = "opening" /\ pc[t] = "idle" /\ status[t] = "SUCCESS"

\* From the lock of the mutex to its unlock.
Holding(t) ==
    \/ pc[t] \in {"mark", "unlock"} \cup InitPCs \cup ReleasePCs
    \/ at[t] = "open" \/ Granted(t)
    \/ at[t] = "closing" /\ pc[t] \in {"lock", "test"}

\* At most one thread of all processes is in a session or entering or
\* leaving one: the mutex serializes chip access across every process
\* (eccx08_engine.c:44-51).
MutualExclusion ==
    \A t, u \in Threads : Holding(t) /\ Holding(u) => t = u

\* "A lock left held until process exit gives the next client a spurious
\* EOWNERDEAD" (eccx08_engine.c:139-141): no path out of an operation, failed
\* or not, leaves the mutex held, the lock marked ours or a session open.
NothingLeftBehind ==
    \A t \in Threads :
        at[t] = "out" => /\ owner # t
                         /\ state[ProcOf[t]] = 0
                         /\ ifacecfg[ProcOf[t]] = "NULL"

\* global_lock.state is "1 - Ours, 0 - Not Ours" (eccx08_engine.c:65-69):
\* whenever no thread of a process is between a HAL call and the assignment
\* to state that goes with it.
StateIsOurs ==
    \A p \in Procs :
        (\A t \in ThreadsOf(p) : pc[t] \notin {"mark", "unmark"})
            => (state[p] = 1 <=> owner \in ThreadsOf(p))

\* A chip obtained from a dead owner "must be resynchronized before use"
\* (eccx08_engine.c:71-73): the process that was told so never opens a
\* session with the resynchronization pending.
ResyncBeforeUse ==
    \A t \in Threads : at[t] = "open" => recovered[ProcOf[t]] = 0

\* "So this session starts from a known state instead of riding an abandoned
\* (possibly latched) one" (eccx08_engine.c:172-174): whoever died before it,
\* a session that opens finds the chip parked and free of latched faults.
SessionStartsParked ==
    [][\A t \in Threads : at[t] = "opening" /\ at'[t] = "open" => chip' = Parked]_userVars

\* Every session ends with the chip asleep and unlatched
\* (eccx08_engine.c:200-218): while the mutex is free and its last owner did
\* not die with it, the chip is parked.
ParkedBetweenSessions ==
    owner = NoThread /\ ~ownerdead => chip = Parked

\* The sleep of the park is ignored by a chip that an unlocked client put to
\* idle after the wake of the park.
DisturbedPark(t) == pc[t] = "park_sleep" /\ chip.power # "awake"

\* A fault that is latched, or that a client without the mutex inflicts,
\* while a session is open does not outlive that session: the sleep that
\* ends it wipes both (eccx08_engine.c:200-218), unless that client hits the
\* park itself.
FaultsAreCured ==
    \A t \in Threads :
        at[t] = "open" /\ chip.latch # "none" ~> chip.latch = "none" \/ DisturbedPark(t)

\* Whoever obtains the mutex gives it back: no path waits for it again while
\* it holds it.
MutexIsReturned == \A t \in Threads : owner = t ~> owner # t

\* The abstract chip: a session is open from the return of atcab_init_safe to
\* the sleep of atcab_release_safe.
InSession(t) ==
    \/ at[t] = "open"
    \/ at[t] = "closing" /\ pc[t] \in LockPCs \cup {"rel_cfg", "park_wake", "park_sleep"}

SessionOwner ==
    IF \E t \in Threads : InSession(t)
    THEN CHOOSE t \in Threads : InSession(t)
    ELSE NoThread

Dirty == chip # Parked

Abandoned == ownerdead \/ \E p \in Procs : recovered[p] = 1

Exclusive == INSTANCE ExclusiveChip
                 WITH user <- SessionOwner, dirty <- Dirty, abandoned <- Abandoned

\* The session functions give each operation the chip for itself, parked
\* (eccx08_engine.c:44-51, 172-174 and 200-218), as long as no transfer is
\* lost, no client goes round the mutex and atcab_init_safe never fails after
\* the lock.
ImplementsExclusiveChip == Exclusive!Spec
================================================================================
