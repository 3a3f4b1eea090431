--------------------------- MODULE SessionCallsProofs ---------------------------
(***************************************************************************)
(* Lemmas about the session functions for any caller: the types, and what  *)
(* a step of one thread does to the promises of SessionCalls, in processes *)
(* of one thread each.                                                     *)
(***************************************************************************)
EXTENDS SessionCalls, TLAPS

(***************************************************************************)
(* The results of the chip's calls are states of the chip.                 *)
(***************************************************************************)
LEMMA WakeTyped == ASSUME chip \in Chips, atcab_wakeup PROVE chip' \in Chips
<1>1. PICK r \in WakeResults(chip) : chip' = r[2]
  BY DEF atcab_wakeup
<1>2. [chip EXCEPT !.power = "awake"] \in Chips
  BY DEF Chips
<1> QED
  BY <1>1, <1>2 DEF WakeResults, Lost

LEMMA SleepTyped == ASSUME chip \in Chips, atcab_sleep PROVE chip' \in Chips
<1>1. PICK r \in SleepResults(chip) : chip' = r[2]
  BY DEF atcab_sleep
<1>2. Parked \in Chips
  BY DEF Chips, Parked
<1> QED
  BY <1>1, <1>2 DEF SleepResults, Lost

LEMMA CommandTyped ==
    ASSUME chip \in Chips, NEW s, atcab_command(s) PROVE chip' \in Chips
<1>1. PICK r \in CommandResults(chip) : chip' = r[2]
  BY DEF atcab_command
<1>2. /\ [chip EXCEPT !.power = "idle"] \in Chips
      /\ [power |-> "idle", latch |-> "health"] \in Chips
  BY DEF Chips
<1> QED
  BY <1>1, <1>2 DEF CommandResults, Lost

(***************************************************************************)
(* Type correctness.                                                       *)
(***************************************************************************)
LEMMA SessionInitTyped == ASSUME SessionInit PROVE SessionTypeOK
BY HandlesAssumption DEF SessionInit, MutexInit, ChipInit, SessionTypeOK, MutexTypeOK, Chips, Parked,
   PCs, Calls, CallStatuses

LEMMA EnterTyped ==
    ASSUME SessionTypeOK, NEW t \in Threads, NEW c \in Calls, Enter(t, c) PROVE SessionTypeOK'
BY DEF Enter, Goto, Returning, SessionTypeOK, MutexTypeOK, PCs, LockPCs, CallStatuses, procVars,
   mutexVars

LEMMA OnDeviceTyped == ASSUME SessionTypeOK, OnDevice, chip' \in Chips PROVE SessionTypeOK'
BY DEF OnDevice, SessionTypeOK, MutexTypeOK, threadVars, procVars, mutexVars

LEMMA CommandAndReleaseTyped ==
    ASSUME SessionTypeOK, NEW t \in Threads, NEW results, CommandAndRelease(t, results)
    PROVE  SessionTypeOK'
<1>1. chip' \in Chips
  BY CommandTyped DEF CommandAndRelease, SessionTypeOK
<1> QED
  BY <1>1 DEF CommandAndRelease, Goto, Returning, SessionTypeOK, MutexTypeOK, PCs, LockPCs,
              Calls, CallStatuses, procVars, mutexVars

LEMMA UnchangedTyped == ASSUME SessionTypeOK, UNCHANGED sessionVars PROVE SessionTypeOK'
BY DEF sessionVars, SessionTypeOK, MutexTypeOK, threadVars, procVars, mutexVars

LEMMA KillTyped == ASSUME SessionTypeOK, NEW p \in Procs, KillProcess(p) PROVE SessionTypeOK'
<1> USE DEF SessionTypeOK, MutexTypeOK, KillProcess, OwnerDies, PCs, Calls, CallStatuses
<1> USE HandlesAssumption
<1>1. MutexTypeOK' /\ chip' \in Chips
  OBVIOUS
<1>2. pc' \in [Threads -> PCs] /\ call' \in [Threads -> Calls] /\ status' \in [Threads -> CallStatuses]
  OBVIOUS
<1>3. /\ handle' \in [Procs -> {"NULL", "created"}] /\ state' \in [Procs -> {0, 1}]
      /\ recovered' \in [Procs -> {0, 1}] /\ ifacecfg' \in [Procs -> {"NULL", "set"}]
  OBVIOUS
<1> QED
  BY <1>1, <1>2, <1>3

LEMMA StepTyped ==
    ASSUME SessionTypeOK, NEW t \in Threads, SessionStep(t) PROVE SessionTypeOK'
<1> USE ProcOfAssumption
<1> USE DEF SessionTypeOK, MutexTypeOK, PCs, LockPCs, InitPCs, ReleasePCs, UnlockPCs, Calls,
            CallStatuses, Goto, Returning, Set, threadVars, procVars, mutexVars
<1>1. CASE TestHandle(t)
  BY <1>1 DEF TestHandle
<1>2. CASE CreateMutex(t)
  BY <1>2 DEF CreateMutex
<1>3. CASE CreateMutexFails(t)
  BY <1>3 DEF CreateMutexFails
<1>4. CASE TestState(t)
  BY <1>4 DEF TestState, AfterLock
<1>5. CASE LockMutex(t)
  BY <1>5 DEF LockMutex, hal_os_lock_mutex
<1>6. CASE LockMutexFails(t)
  BY <1>6 DEF LockMutexFails
<1>7. CASE MarkOurs(t)
  BY <1>7 DEF MarkOurs, AfterLock
<1>8. CASE UnlockMutex(t)
  BY <1>8 DEF UnlockMutex, hal_os_unlock_mutex
<1>9. CASE MarkNotOurs(t)
  BY <1>9 DEF MarkNotOurs
<1>10. CASE ConfigFails(t)
  BY <1>10 DEF ConfigFails
<1>11. CASE AllocateConfig(t)
  BY <1>11 DEF AllocateConfig
<1>12. CASE atcab_init(t)
  BY <1>12 DEF atcab_init, AfterInit
<1>13. CASE atcab_init_fails(t)
  BY <1>13 DEF atcab_init_fails
<1>14. CASE ResyncWake(t)
  BY WakeTyped, <1>14 DEF ResyncWake
<1>15. CASE ResyncSleep(t)
  BY SleepTyped, <1>15 DEF ResyncSleep
<1>16. CASE NoConfig(t)
  BY <1>16 DEF NoConfig
<1>17. CASE HasConfig(t)
  BY <1>17 DEF HasConfig
<1>18. CASE ParkWake(t)
  BY WakeTyped, <1>18 DEF ParkWake
<1>19. CASE ParkSleep(t)
  BY SleepTyped, <1>19 DEF ParkSleep
<1>20. CASE atcab_release(t)
  BY <1>20 DEF atcab_release
<1> QED
  BY <1>1, <1>2, <1>3, <1>4, <1>5, <1>6, <1>7, <1>8, <1>9, <1>10,
     <1>11, <1>12, <1>13, <1>14, <1>15, <1>16, <1>17, <1>18, <1>19, <1>20
  DEF SessionStep, eccx08_global_lock, eccx08_global_unlock, atcab_init_safe,
      atcab_release_safe

(***************************************************************************)
(* A step inside the session functions is one of a thread that is in a     *)
(* call, and leaves the calls of the other threads alone, also of those of *)
(* its own process.                                                        *)
(***************************************************************************)
LEMMA StepMoves ==
    ASSUME SessionTypeOK, NEW t \in Threads, SessionStep(t)
    PROVE  /\ pc[t] # "idle"
           /\ pc[t] = "unmark" => pc'[t] = "idle"
           /\ \A u \in Threads \ {t} : pc'[u] = pc[u] /\ status'[u] = status[u]
BY DEF SessionTypeOK, SessionStep, eccx08_global_lock, eccx08_global_unlock, atcab_init_safe,
       atcab_release_safe, TestHandle, CreateMutex, CreateMutexFails, TestState, LockMutex,
       LockMutexFails, MarkOurs, UnlockMutex, MarkNotOurs, ConfigFails, AllocateConfig,
       atcab_init, atcab_init_fails, ResyncWake, ResyncSleep, NoConfig, HasConfig, ParkWake,
       ParkSleep, atcab_release, Goto, Returning

(***************************************************************************)
(* What a thread sees of the session, and that the others leave it alone.  *)
(***************************************************************************)
Kept(u) ==
    /\ pc'[u] = pc[u] /\ call'[u] = call[u] /\ status'[u] = status[u]
    /\ state'[ProcOf[u]] = state[ProcOf[u]]
    /\ ifacecfg'[ProcOf[u]] = ifacecfg[ProcOf[u]]
    /\ handle'[ProcOf[u]] = handle[ProcOf[u]]
    /\ owner' = u <=> owner = u

LEMMA KeptPromises ==
    ASSUME NEW u \in Threads, Kept(u)
    PROVE  /\ LockInv(u)' <=> LockInv(u)
           /\ HasSession(u)' <=> HasSession(u)
           /\ HasNothing(u)' <=> HasNothing(u)
           /\ InitInv(u)' <=> InitInv(u)
           /\ ReleaseInv(u)' <=> ReleaseInv(u)
           /\ OpeningInv(u)' <=> OpeningInv(u)
           /\ ClosingInv(u)' <=> ClosingInv(u)
BY DEF Kept, LockInv, HasSession, HasNothing, InitInv, ReleaseInv, OpeningInv, ClosingInv

LEMMA OtherProcess ==
    ASSUME SingleThreaded, NEW t \in Threads, NEW u \in Threads \ {t} PROVE ProcOf[u] # ProcOf[t]
BY ProcOfAssumption DEF SingleThreaded, ThreadsOf

LEMMA UnchangedKept == ASSUME UNCHANGED <<threadVars, procVars, mutexVars>>
                       PROVE  \A u \in Threads : Kept(u)
BY DEF threadVars, procVars, mutexVars, Kept

LEMMA EnterKept ==
    ASSUME SessionTypeOK, NEW t \in Threads, NEW c, Enter(t, c)
    PROVE  /\ \A u \in Threads \ {t} : Kept(u)
           /\ pc[t] = "idle" /\ pc'[t] = "lock" /\ call'[t] = c /\ status'[t] = "SUCCESS"
           /\ UNCHANGED <<state, ifacecfg, handle, recovered, owner, ownerdead, chip>>
BY DEF Enter, Goto, Returning, SessionTypeOK, procVars, mutexVars, Kept

LEMMA CommandAndReleaseKept ==
    ASSUME SessionTypeOK, NEW t \in Threads, NEW results, CommandAndRelease(t, results)
    PROVE  /\ \A u \in Threads \ {t} : Kept(u)
           /\ pc[t] = "idle" /\ pc'[t] = "lock" /\ call'[t] = "release" /\ status'[t] = "SUCCESS"
           /\ UNCHANGED <<state, ifacecfg, handle, recovered, owner, ownerdead>>
BY DEF CommandAndRelease, Goto, Returning, SessionTypeOK, procVars, mutexVars, Kept

LEMMA KillKept ==
    ASSUME SessionTypeOK, NEW p \in Procs, KillProcess(p), NEW u \in Threads
    PROVE  /\ ProcOf[u] # p => Kept(u)
           /\ ProcOf[u] = p => /\ pc'[u] = "idle" /\ HasNothing(u)' /\ LockInv(u)'
BY ProcOfAssumption, NoThreadAssumption
DEF KillProcess, OwnerDies, ThreadsOf, Kept, HasNothing, LockInv, SessionTypeOK, MutexTypeOK,
    InitPCs, ReleasePCs

(***************************************************************************)
(* A step inside the session functions keeps every promise to its thread.  *)
(***************************************************************************)
LEMMA StepKept ==
    ASSUME SingleThreaded, SessionTypeOK, NEW t \in Threads, SessionStep(t)
    PROVE  \A u \in Threads \ {t} : Kept(u)
<1> USE OtherProcess, ProcOfAssumption, NoThreadAssumption
<1> USE DEF SessionTypeOK, MutexTypeOK, Goto, Returning, Set, threadVars, procVars, mutexVars, Kept
<1>1. CASE TestHandle(t)
  BY <1>1 DEF TestHandle
<1>2. CASE CreateMutex(t)
  BY <1>2 DEF CreateMutex
<1>3. CASE CreateMutexFails(t)
  BY <1>3 DEF CreateMutexFails
<1>4. CASE TestState(t)
  BY <1>4 DEF TestState, AfterLock
<1>5. CASE LockMutex(t)
  BY <1>5 DEF LockMutex, hal_os_lock_mutex
<1>6. CASE LockMutexFails(t)
  BY <1>6 DEF LockMutexFails
<1>7. CASE MarkOurs(t)
  BY <1>7 DEF MarkOurs, AfterLock
<1>8. CASE UnlockMutex(t)
  BY <1>8 DEF UnlockMutex, hal_os_unlock_mutex
<1>9. CASE MarkNotOurs(t)
  BY <1>9 DEF MarkNotOurs
<1>10. CASE ConfigFails(t)
  BY <1>10 DEF ConfigFails
<1>11. CASE AllocateConfig(t)
  BY <1>11 DEF AllocateConfig
<1>12. CASE atcab_init(t)
  BY <1>12 DEF atcab_init, AfterInit
<1>13. CASE atcab_init_fails(t)
  BY <1>13 DEF atcab_init_fails
<1>14. CASE ResyncWake(t)
  BY <1>14 DEF ResyncWake
<1>15. CASE ResyncSleep(t)
  BY <1>15 DEF ResyncSleep
<1>16. CASE NoConfig(t)
  BY <1>16 DEF NoConfig
<1>17. CASE HasConfig(t)
  BY <1>17 DEF HasConfig
<1>18. CASE ParkWake(t)
  BY <1>18 DEF ParkWake
<1>19. CASE ParkSleep(t)
  BY <1>19 DEF ParkSleep
<1>20. CASE atcab_release(t)
  BY <1>20 DEF atcab_release
<1> QED
  BY <1>1, <1>2, <1>3, <1>4, <1>5, <1>6, <1>7, <1>8, <1>9, <1>10,
     <1>11, <1>12, <1>13, <1>14, <1>15, <1>16, <1>17, <1>18, <1>19, <1>20
  DEF SessionStep, eccx08_global_lock, eccx08_global_unlock, atcab_init_safe,
      atcab_release_safe

LEMMA StepPromises ==
    ASSUME SessionTypeOK, NEW t \in Threads, SessionStep(t), LockInv(t)
    PROVE  /\ LockInv(t)'
           /\ InitInv(t) => InitInv(t)'
           /\ ReleaseInv(t) => ReleaseInv(t)'
           /\ OpeningInv(t) => OpeningInv(t)'
           /\ ClosingInv(t) => ClosingInv(t)'
<1> USE ProcOfAssumption, NoThreadAssumption
<1> USE DEF SessionTypeOK, MutexTypeOK, Goto, Returning, Set, threadVars, procVars, mutexVars,
            PCs, LockPCs, InitPCs, ReleasePCs, UnlockPCs, LockInv, HasSession, HasNothing,
            InitInv, ReleaseInv, OpeningInv, ClosingInv
<1> DEFINE Goal == /\ LockInv(t)'
                   /\ InitInv(t) => InitInv(t)'
                   /\ ReleaseInv(t) => ReleaseInv(t)'
                   /\ OpeningInv(t) => OpeningInv(t)'
                   /\ ClosingInv(t) => ClosingInv(t)'
<1>1. ASSUME TestHandle(t) PROVE Goal
  BY <1>1 DEF TestHandle
<1>2. ASSUME CreateMutex(t) PROVE Goal
  BY <1>2 DEF CreateMutex
<1>3. ASSUME CreateMutexFails(t) PROVE Goal
  BY <1>3 DEF CreateMutexFails
<1>4. ASSUME TestState(t) PROVE Goal
  BY <1>4 DEF TestState, AfterLock
<1>5. ASSUME LockMutex(t) PROVE Goal
  BY <1>5 DEF LockMutex, hal_os_lock_mutex
<1>6. ASSUME LockMutexFails(t) PROVE Goal
  BY <1>6 DEF LockMutexFails
<1>7. ASSUME MarkOurs(t) PROVE Goal
  BY <1>7 DEF MarkOurs, AfterLock
<1>8. ASSUME UnlockMutex(t) PROVE Goal
  BY <1>8 DEF UnlockMutex, hal_os_unlock_mutex
<1>9. ASSUME MarkNotOurs(t) PROVE Goal
  BY <1>9 DEF MarkNotOurs
<1>10. ASSUME ConfigFails(t) PROVE Goal
  BY <1>10 DEF ConfigFails
<1>11. ASSUME AllocateConfig(t) PROVE Goal
  BY <1>11 DEF AllocateConfig
<1>12. ASSUME atcab_init(t) PROVE Goal
  BY <1>12 DEF atcab_init, AfterInit
<1>13. ASSUME atcab_init_fails(t) PROVE Goal
  BY <1>13 DEF atcab_init_fails
<1>14. ASSUME ResyncWake(t) PROVE Goal
  BY <1>14 DEF ResyncWake
<1>15. ASSUME ResyncSleep(t) PROVE Goal
  BY <1>15 DEF ResyncSleep
<1>16. ASSUME NoConfig(t) PROVE Goal
  BY <1>16 DEF NoConfig
<1>17. ASSUME HasConfig(t) PROVE Goal
  BY <1>17 DEF HasConfig
<1>18. ASSUME ParkWake(t) PROVE Goal
  BY <1>18 DEF ParkWake
<1>19. ASSUME ParkSleep(t) PROVE Goal
  BY <1>19 DEF ParkSleep
<1>20. ASSUME atcab_release(t) PROVE Goal
  BY <1>20 DEF atcab_release
<1> QED
  BY <1>1, <1>2, <1>3, <1>4, <1>5, <1>6, <1>7, <1>8, <1>9, <1>10,
     <1>11, <1>12, <1>13, <1>14, <1>15, <1>16, <1>17, <1>18, <1>19, <1>20
  DEF SessionStep, eccx08_global_lock, eccx08_global_unlock, atcab_init_safe,
      atcab_release_safe
=================================================================================
