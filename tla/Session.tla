-------------------------------- MODULE Session --------------------------------
(***************************************************************************)
(* The engine's session functions: atcab_init_safe opens a session on the  *)
(* chip under the system-wide mutex, atcab_release_safe parks the chip and *)
(* closes it (src/ateccssl/eccx08_engine.c:65-239).                        *)
(*                                                                         *)
(* The statics of eccx08_engine.c are one copy per process, shared by the  *)
(* process's threads without any lock; one action is one access to them,   *)
(* one HAL call or one command on the bus.  pc[t] is the point a thread    *)
(* has reached inside atcab_init_safe or atcab_release_safe and "idle"     *)
(* outside; call[t] is the function it is in and status[t] its (latest)    *)
(* status.  Callers are in the modules that extend this one.               *)
(***************************************************************************)
EXTENDS Atecc, HalMutex

CONSTANTS Procs,    \* processes that load the engine
          ProcOf,   \* the process of each thread
          Handles   \* global_lock.handle of a process that starts its operations:
                    \* "created" by eccx08_init, or still "NULL"

ASSUME ProcOfAssumption == ProcOf \in [Threads -> Procs]
ASSUME HandlesAssumption == Handles \subseteq {"NULL", "created"}

VARIABLES pc, call, status,   \* per thread: the call in progress
          handle,             \* per process: global_lock.handle
          state,              \* per process: global_lock.state (1 ours, 0 not)
          recovered,          \* per process: global_lock_recovered
          ifacecfg            \* per process: ifacecfg

threadVars == <<pc, call, status>>
procVars == <<handle, state, recovered, ifacecfg>>
mutexVars == <<owner, ownerdead>>
sessionVars == <<threadVars, procVars, mutexVars, chip>>

Calls == {"init", "release"}
CallStatuses == {"SUCCESS", "FUNC_FAIL", "COMM_FAIL"}

LockPCs == {"lock", "create", "test", "acquire", "mark"}
InitPCs == {"init_cfg", "init_dev", "resync_wake", "resync_sleep"}
ReleasePCs == {"rel_cfg", "park_wake", "park_sleep", "rel_dev"}
UnlockPCs == {"unlock", "unmark"}
PCs == {"idle"} \cup LockPCs \cup InitPCs \cup ReleasePCs \cup UnlockPCs

SessionTypeOK ==
    /\ MutexTypeOK
    /\ chip \in Chips
    /\ pc \in [Threads -> PCs]
    /\ call \in [Threads -> Calls]
    /\ status \in [Threads -> CallStatuses]
    /\ handle \in [Procs -> {"NULL", "created"}]
    /\ state \in [Procs -> {0, 1}]
    /\ recovered \in [Procs -> {0, 1}]
    /\ ifacecfg \in [Procs -> {"NULL", "set"}]

SessionInit ==
    /\ MutexInit
    /\ ChipInit
    /\ pc = [t \in Threads |-> "idle"]
    /\ call = [t \in Threads |-> "init"]
    /\ status = [t \in Threads |-> "SUCCESS"]
    /\ handle \in [Procs -> Handles]
    /\ state = [p \in Procs |-> 0]
    /\ recovered = [p \in Procs |-> 0]
    /\ ifacecfg = [p \in Procs |-> "NULL"]

Goto(t, from, to) == pc[t] = from /\ pc' = [pc EXCEPT ![t] = to]
Returning(t, s) == status' = [status EXCEPT ![t] = s]
Set(var, t, v) == [var EXCEPT ![ProcOf[t]] = v]

(***************************************************************************)
(* Entry of the two functions, for their callers.                          *)
(***************************************************************************)
Enter(t, c) ==
    /\ Goto(t, "idle", "lock")
    /\ call' = [call EXCEPT ![t] = c]
    /\ Returning(t, "SUCCESS")
    /\ UNCHANGED <<procVars, mutexVars, chip>>

\* What a command of the chip leaves alone.
OnDevice == UNCHANGED <<threadVars, procVars, mutexVars>>

\* A command of the chip, and the call of atcab_release_safe after it.
CommandAndRelease(t, results) ==
    /\ \E s \in results : atcab_command(s)
    /\ Goto(t, "idle", "lock")
    /\ call' = [call EXCEPT ![t] = "release"]
    /\ Returning(t, "SUCCESS")
    /\ UNCHANGED <<procVars, mutexVars>>

(***************************************************************************)
(* eccx08_global_lock                                                      *)
(***************************************************************************)
AfterLock(t) == IF call[t] = "init" THEN "init_cfg" ELSE "rel_cfg"

TestHandle(t) ==
    /\ Goto(t, "lock", IF handle[ProcOf[t]] = "NULL" THEN "create" ELSE "test")
    /\ UNCHANGED <<call, status, procVars, mutexVars, chip>>

CreateMutex(t) ==
    /\ Goto(t, "create", "test")
    /\ handle' = Set(handle, t, "created")
    /\ state' = Set(state, t, 0)
    /\ UNCHANGED <<call, status, recovered, ifacecfg, mutexVars, chip>>

CreateMutexFails(t) ==
    /\ "create" \in Faults
    /\ Goto(t, "create", "idle")
    /\ Returning(t, "COMM_FAIL")
    /\ UNCHANGED <<call, procVars, mutexVars, chip>>

TestState(t) ==
    /\ Goto(t, "test", IF state[ProcOf[t]] = 1 THEN AfterLock(t) ELSE "acquire")
    /\ UNCHANGED <<call, status, procVars, mutexVars, chip>>

\* Variant: EOWNERDEAD is taken for an ordinary lock.
LockMutexForgetting(t) ==
    /\ hal_os_lock_mutex(t)
    /\ Goto(t, "acquire", "mark")
    /\ UNCHANGED <<call, status, procVars, chip>>

\* EOWNERDEAD: the mutex was obtained and the chip must be resynchronized.
LockMutex(t) ==
    /\ hal_os_lock_mutex(t)
    /\ Goto(t, "acquire", "mark")
    /\ recovered' = IF ownerdead THEN Set(recovered, t, 1) ELSE recovered
    /\ UNCHANGED <<call, status, handle, state, ifacecfg, chip>>

\* Variant: every failure of the HAL is taken for EOWNERDEAD.
LockMutexPresumed(t) ==
    /\ "lock" \in Faults
    /\ Goto(t, "acquire", "mark")
    /\ recovered' = Set(recovered, t, 1)
    /\ UNCHANGED <<call, status, handle, state, ifacecfg, mutexVars, chip>>

LockMutexFails(t) ==
    /\ "lock" \in Faults
    /\ Goto(t, "acquire", "idle")
    /\ Returning(t, "COMM_FAIL")
    /\ UNCHANGED <<call, procVars, mutexVars, chip>>

\* Variant: the lock is not recorded.
MarkOursForgotten(t) ==
    /\ Goto(t, "mark", AfterLock(t))
    /\ UNCHANGED <<call, status, procVars, mutexVars, chip>>

MarkOurs(t) ==
    /\ Goto(t, "mark", AfterLock(t))
    /\ state' = Set(state, t, 1)
    /\ UNCHANGED <<call, status, handle, recovered, ifacecfg, mutexVars, chip>>

eccx08_global_lock(t) ==
    \/ TestHandle(t) \/ CreateMutex(t) \/ CreateMutexFails(t)
    \/ TestState(t) \/ LockMutex(t) \/ LockMutexFails(t) \/ MarkOurs(t)

(***************************************************************************)
(* eccx08_global_unlock, whose status both callers discard.                *)
(***************************************************************************)
\* The unlock of a thread that is not the owner fails and leaves state alone.
UnlockMutex(t) ==
    /\ IF owner = t
       THEN hal_os_unlock_mutex(t) /\ Goto(t, "unlock", "unmark")
       ELSE UNCHANGED mutexVars /\ Goto(t, "unlock", "idle")
    /\ UNCHANGED <<call, status, procVars, chip>>

\* Variant: the unlock is not recorded.
MarkNotOursForgotten(t) ==
    /\ Goto(t, "unmark", "idle")
    /\ UNCHANGED <<call, status, procVars, mutexVars, chip>>

MarkNotOurs(t) ==
    /\ Goto(t, "unmark", "idle")
    /\ state' = Set(state, t, 0)
    /\ UNCHANGED <<call, status, handle, recovered, ifacecfg, mutexVars, chip>>

eccx08_global_unlock(t) ==
    UnlockMutex(t) \/ MarkNotOurs(t)

(***************************************************************************)
(* atcab_init_safe, after the lock                                         *)
(***************************************************************************)
\* Variant: an early return that keeps the mutex.
ConfigFailsLocked(t) ==
    /\ ifacecfg[ProcOf[t]] # "NULL" \/ "malloc" \in Faults
    /\ Goto(t, "init_cfg", "idle")
    /\ Returning(t, "FUNC_FAIL")
    /\ UNCHANGED <<call, procVars, mutexVars, chip>>

\* A session is open already, or there is no memory for the new one.
ConfigFails(t) ==
    /\ ifacecfg[ProcOf[t]] # "NULL" \/ "malloc" \in Faults
    /\ Goto(t, "init_cfg", "unlock")
    /\ Returning(t, "FUNC_FAIL")
    /\ UNCHANGED <<call, procVars, mutexVars, chip>>

AllocateConfig(t) ==
    /\ ifacecfg[ProcOf[t]] = "NULL"
    /\ Goto(t, "init_cfg", "init_dev")
    /\ ifacecfg' = Set(ifacecfg, t, "set")
    /\ UNCHANGED <<call, status, handle, state, recovered, mutexVars, chip>>

\* Variant: a recovered chip is used as it is.
AfterInitUnsynced(t) == "idle"

AfterInit(t) == IF recovered[ProcOf[t]] = 1 THEN "resync_wake" ELSE "idle"

atcab_init(t) ==
    /\ Goto(t, "init_dev", AfterInit(t))
    /\ Returning(t, "SUCCESS")
    /\ UNCHANGED <<call, procVars, mutexVars, chip>>

\* Variant: the configuration of the session that did not open is kept.
atcab_init_fails_configured(t) ==
    /\ "init" \in Faults
    /\ Goto(t, "init_dev", "unlock")
    /\ Returning(t, "COMM_FAIL")
    /\ UNCHANGED <<call, procVars, mutexVars, chip>>

\* Variant: it is freed, the mutex is kept.
atcab_init_fails_locked(t) ==
    /\ "init" \in Faults
    /\ Goto(t, "init_dev", "idle")
    /\ Returning(t, "COMM_FAIL")
    /\ ifacecfg' = Set(ifacecfg, t, "NULL")
    /\ UNCHANGED <<call, handle, state, recovered, mutexVars, chip>>

atcab_init_fails(t) ==
    /\ "init" \in Faults
    /\ Goto(t, "init_dev", "unlock")
    /\ Returning(t, "COMM_FAIL")
    /\ ifacecfg' = Set(ifacecfg, t, "NULL")
    /\ UNCHANGED <<call, handle, state, recovered, mutexVars, chip>>

ResyncWake(t) ==
    /\ Goto(t, "resync_wake", "resync_sleep")
    /\ atcab_wakeup
    /\ UNCHANGED <<call, status, procVars, mutexVars>>

ResyncSleep(t) ==
    /\ Goto(t, "resync_sleep", "idle")
    /\ atcab_sleep
    /\ recovered' = Set(recovered, t, 0)
    /\ UNCHANGED <<call, status, handle, state, ifacecfg, mutexVars>>

atcab_init_safe(t) ==
    \/ ConfigFails(t) \/ AllocateConfig(t)
    \/ atcab_init(t) \/ atcab_init_fails(t)
    \/ ResyncWake(t) \/ ResyncSleep(t)

(***************************************************************************)
(* atcab_release_safe, after the lock                                      *)
(***************************************************************************)
NoConfig(t) ==
    /\ ifacecfg[ProcOf[t]] = "NULL"
    /\ Goto(t, "rel_cfg", "unlock")
    /\ Returning(t, "FUNC_FAIL")
    /\ UNCHANGED <<call, procVars, mutexVars, chip>>

\* Variant: a bare sleep flag, without the wake.
HasConfigNoWake(t) ==
    /\ ifacecfg[ProcOf[t]] # "NULL"
    /\ Goto(t, "rel_cfg", "park_sleep")
    /\ UNCHANGED <<call, status, procVars, mutexVars, chip>>

HasConfig(t) ==
    /\ ifacecfg[ProcOf[t]] # "NULL"
    /\ Goto(t, "rel_cfg", "park_wake")
    /\ UNCHANGED <<call, status, procVars, mutexVars, chip>>

ParkWake(t) ==
    /\ Goto(t, "park_wake", "park_sleep")
    /\ atcab_wakeup
    /\ UNCHANGED <<call, status, procVars, mutexVars>>

\* Variant: the session ends with Idle, as every command does.
ParkIdle(t) ==
    /\ Goto(t, "park_sleep", "rel_dev")
    /\ chip' = [chip EXCEPT !.power = "idle"]
    /\ UNCHANGED <<call, status, procVars, mutexVars>>

ParkSleep(t) ==
    /\ Goto(t, "park_sleep", "rel_dev")
    /\ atcab_sleep
    /\ UNCHANGED <<call, status, procVars, mutexVars>>

\* Variant: ifacecfg is freed and not reset.
atcab_release_dangling(t) ==
    /\ Goto(t, "rel_dev", "unlock")
    /\ Returning(t, "SUCCESS")
    /\ ifacecfg' = Set(ifacecfg, t, "freed")
    /\ UNCHANGED <<call, handle, state, recovered, mutexVars, chip>>

\* The session ends and the mutex goes whatever atcab_release returns.
atcab_release(t) ==
    /\ Goto(t, "rel_dev", "unlock")
    /\ \E s \in {"SUCCESS"} \cup (IF "release" \in Faults THEN {"COMM_FAIL"} ELSE {}) :
         Returning(t, s)
    /\ ifacecfg' = Set(ifacecfg, t, "NULL")
    /\ UNCHANGED <<call, handle, state, recovered, mutexVars, chip>>

atcab_release_safe(t) ==
    \/ NoConfig(t) \/ HasConfig(t)
    \/ ParkWake(t) \/ ParkSleep(t) \/ atcab_release(t)

SessionStep(t) ==
    \/ eccx08_global_lock(t) \/ eccx08_global_unlock(t)
    \/ atcab_init_safe(t) \/ atcab_release_safe(t)

(***************************************************************************)
(* A process dies: its statics are gone, the mutex it owned is marked, the *)
(* chip stays as it was.  Its threads are those of a fresh process.        *)
(***************************************************************************)
ThreadsOf(p) == {t \in Threads : ProcOf[t] = p}
Reset(f, p, v) == [t \in Threads |-> IF t \in ThreadsOf(p) THEN v ELSE f[t]]

KillProcess(p) ==
    /\ "die" \in Faults
    /\ OwnerDies(ThreadsOf(p))
    /\ pc' = [t \in Threads |-> IF t \in ThreadsOf(p) THEN "idle" ELSE pc[t]]
    /\ call' = [t \in Threads |-> IF t \in ThreadsOf(p) THEN "init" ELSE call[t]]
    /\ status' = [t \in Threads |-> IF t \in ThreadsOf(p) THEN "SUCCESS" ELSE status[t]]
    /\ \E h \in Handles : handle' = [handle EXCEPT ![p] = h]
    /\ state' = [state EXCEPT ![p] = 0]
    /\ recovered' = [recovered EXCEPT ![p] = 0]
    /\ ifacecfg' = [ifacecfg EXCEPT ![p] = "NULL"]
    /\ UNCHANGED chip

\* One thread of each process uses the engine.
SingleThreaded == \A p \in Procs : \E t \in Threads : ThreadsOf(p) = {t}
================================================================================
