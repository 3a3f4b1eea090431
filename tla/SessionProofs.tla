----------------------------- MODULE SessionProofs -----------------------------
(***************************************************************************)
(* Theorems about the session functions, for any number of processes of    *)
(* one thread each, whatever Faults holds.                                 *)
(***************************************************************************)
EXTENDS SessionInvariant, SessionCallsProofs

\* What a step of one thread leaves alone for another thread.
Untouched(u) ==
    /\ pc'[u] = pc[u] /\ call'[u] = call[u]
    /\ status'[u] = status[u] /\ at'[u] = at[u]
    /\ state'[ProcOf[u]] = state[ProcOf[u]]
    /\ ifacecfg'[ProcOf[u]] = ifacecfg[ProcOf[u]]
    /\ handle'[ProcOf[u]] = handle[ProcOf[u]]
    /\ recovered'[ProcOf[u]] = recovered[ProcOf[u]]
    /\ owner' = u <=> owner = u

(***************************************************************************)
(* A thread that is not touched keeps its part of the invariant.           *)
(***************************************************************************)
LEMMA UntouchedKeeps ==
    ASSUME NEW u \in Threads, Untouched(u), ThreadInv(u)
    PROVE  ThreadInv(u)'
BY DEF Untouched, ThreadInv, PlaceInv, StaticsInv, Holding, Configured, Marked, Granted

(***************************************************************************)
(* Type correctness of each step inside the session functions.             *)
(***************************************************************************)
LEMMA RunTyped == ASSUME TypeOK, NEW t \in Threads, Run(t) PROVE TypeOK'
BY StepTyped DEF TypeOK, Run

(***************************************************************************)
(* In a process of one thread, a step inside the session functions does    *)
(* not touch the others, and keeps the stepping thread's own invariant.    *)
(***************************************************************************)
LEMMA RunLocal ==
    ASSUME SingleThreaded, SessionInv, NEW t \in Threads, Run(t)
    PROVE  /\ \A u \in Threads \ {t} : Untouched(u)
           /\ ThreadInv(t)'
<1> USE ProcOfAssumption, NoThreadAssumption
<1>a. \A u \in Threads \ {t} : ProcOf[u] # ProcOf[t]
  BY DEF SingleThreaded, ThreadsOf
<1> USE DEF SessionInv, TypeOK, SessionTypeOK, MutexTypeOK, Goto, Returning, Set,
            threadVars, procVars, mutexVars, Untouched, ThreadInv, PlaceInv, StaticsInv,
            Holding, Configured, Marked, Granted, PCs, LockPCs, InitPCs, ReleasePCs,
            UnlockPCs, Places
<1> DEFINE Goal == (\A u \in Threads \ {t} : Untouched(u)) /\ ThreadInv(t)'
<1>1. ASSUME TestHandle(t), UNCHANGED at PROVE Goal
  <2>1. \A u \in Threads \ {t} : Untouched(u)
    BY <1>a, <1>1 DEF TestHandle
  <2>2. ThreadInv(t)'
    BY <1>1 DEF TestHandle
  <2> QED
    BY <2>1, <2>2
<1>2. ASSUME CreateMutex(t), UNCHANGED at PROVE Goal
  <2>1. \A u \in Threads \ {t} : Untouched(u)
    BY <1>a, <1>2 DEF CreateMutex
  <2>2. ThreadInv(t)'
    BY <1>2 DEF CreateMutex
  <2> QED
    BY <2>1, <2>2
<1>3. ASSUME CreateMutexFails(t), UNCHANGED at PROVE Goal
  <2>1. \A u \in Threads \ {t} : Untouched(u)
    BY <1>a, <1>3 DEF CreateMutexFails
  <2>2. ThreadInv(t)'
    BY <1>3 DEF CreateMutexFails
  <2> QED
    BY <2>1, <2>2
<1>4. ASSUME TestState(t), UNCHANGED at PROVE Goal
  <2>1. \A u \in Threads \ {t} : Untouched(u)
    BY <1>a, <1>4 DEF TestState, AfterLock
  <2>2. ThreadInv(t)'
    BY <1>4 DEF TestState, AfterLock
  <2> QED
    BY <2>1, <2>2
<1>5. ASSUME LockMutex(t), UNCHANGED at PROVE Goal
  <2>1. \A u \in Threads \ {t} : Untouched(u)
    BY <1>a, <1>5 DEF LockMutex, hal_os_lock_mutex
  <2>2. ThreadInv(t)'
    BY <1>5 DEF LockMutex, hal_os_lock_mutex
  <2> QED
    BY <2>1, <2>2
<1>6. ASSUME LockMutexFails(t), UNCHANGED at PROVE Goal
  <2>1. \A u \in Threads \ {t} : Untouched(u)
    BY <1>a, <1>6 DEF LockMutexFails
  <2>2. ThreadInv(t)'
    BY <1>6 DEF LockMutexFails
  <2> QED
    BY <2>1, <2>2
<1>7. ASSUME MarkOurs(t), UNCHANGED at PROVE Goal
  <2>1. \A u \in Threads \ {t} : Untouched(u)
    BY <1>a, <1>7 DEF MarkOurs, AfterLock
  <2>2. ThreadInv(t)'
    BY <1>7 DEF MarkOurs, AfterLock
  <2> QED
    BY <2>1, <2>2
<1>8. ASSUME UnlockMutex(t), UNCHANGED at PROVE Goal
  <2>1. \A u \in Threads \ {t} : Untouched(u)
    BY <1>a, <1>8 DEF UnlockMutex, hal_os_unlock_mutex
  <2>2. ThreadInv(t)'
    BY <1>8 DEF UnlockMutex, hal_os_unlock_mutex
  <2> QED
    BY <2>1, <2>2
<1>9. ASSUME MarkNotOurs(t), UNCHANGED at PROVE Goal
  <2>1. \A u \in Threads \ {t} : Untouched(u)
    BY <1>a, <1>9 DEF MarkNotOurs
  <2>2. ThreadInv(t)'
    BY <1>9 DEF MarkNotOurs
  <2> QED
    BY <2>1, <2>2
<1>10. ASSUME ConfigFails(t), UNCHANGED at PROVE Goal
  <2>1. \A u \in Threads \ {t} : Untouched(u)
    BY <1>a, <1>10 DEF ConfigFails
  <2>2. ThreadInv(t)'
    BY <1>10 DEF ConfigFails
  <2> QED
    BY <2>1, <2>2
<1>11. ASSUME AllocateConfig(t), UNCHANGED at PROVE Goal
  <2>1. \A u \in Threads \ {t} : Untouched(u)
    BY <1>a, <1>11 DEF AllocateConfig
  <2>2. ThreadInv(t)'
    BY <1>11 DEF AllocateConfig
  <2> QED
    BY <2>1, <2>2
<1>12. ASSUME atcab_init(t), UNCHANGED at PROVE Goal
  <2>1. \A u \in Threads \ {t} : Untouched(u)
    BY <1>a, <1>12 DEF atcab_init, AfterInit
  <2>2. ThreadInv(t)'
    BY <1>12 DEF atcab_init, AfterInit
  <2> QED
    BY <2>1, <2>2
<1>13. ASSUME atcab_init_fails(t), UNCHANGED at PROVE Goal
  <2>1. \A u \in Threads \ {t} : Untouched(u)
    BY <1>a, <1>13 DEF atcab_init_fails
  <2>2. ThreadInv(t)'
    BY <1>13 DEF atcab_init_fails
  <2> QED
    BY <2>1, <2>2
<1>14. ASSUME ResyncWake(t), UNCHANGED at PROVE Goal
  <2>1. \A u \in Threads \ {t} : Untouched(u)
    BY <1>a, <1>14 DEF ResyncWake
  <2>2. ThreadInv(t)'
    BY <1>14 DEF ResyncWake
  <2> QED
    BY <2>1, <2>2
<1>15. ASSUME ResyncSleep(t), UNCHANGED at PROVE Goal
  <2>1. \A u \in Threads \ {t} : Untouched(u)
    BY <1>a, <1>15 DEF ResyncSleep
  <2>2. ThreadInv(t)'
    BY <1>15 DEF ResyncSleep
  <2> QED
    BY <2>1, <2>2
<1>16. ASSUME NoConfig(t), UNCHANGED at PROVE Goal
  <2>1. \A u \in Threads \ {t} : Untouched(u)
    BY <1>a, <1>16 DEF NoConfig
  <2>2. ThreadInv(t)'
    BY <1>16 DEF NoConfig
  <2> QED
    BY <2>1, <2>2
<1>17. ASSUME HasConfig(t), UNCHANGED at PROVE Goal
  <2>1. \A u \in Threads \ {t} : Untouched(u)
    BY <1>a, <1>17 DEF HasConfig
  <2>2. ThreadInv(t)'
    BY <1>17 DEF HasConfig
  <2> QED
    BY <2>1, <2>2
<1>18. ASSUME ParkWake(t), UNCHANGED at PROVE Goal
  <2>1. \A u \in Threads \ {t} : Untouched(u)
    BY <1>a, <1>18 DEF ParkWake
  <2>2. ThreadInv(t)'
    BY <1>18 DEF ParkWake
  <2> QED
    BY <2>1, <2>2
<1>19. ASSUME ParkSleep(t), UNCHANGED at PROVE Goal
  <2>1. \A u \in Threads \ {t} : Untouched(u)
    BY <1>a, <1>19 DEF ParkSleep
  <2>2. ThreadInv(t)'
    BY <1>19 DEF ParkSleep
  <2> QED
    BY <2>1, <2>2
<1>20. ASSUME atcab_release(t), UNCHANGED at PROVE Goal
  <2>1. \A u \in Threads \ {t} : Untouched(u)
    BY <1>a, <1>20 DEF atcab_release
  <2>2. ThreadInv(t)'
    BY <1>20 DEF atcab_release
  <2> QED
    BY <2>1, <2>2
<1> QED
  BY <1>1, <1>2, <1>3, <1>4, <1>5, <1>6, <1>7, <1>8, <1>9, <1>10,
     <1>11, <1>12, <1>13, <1>14, <1>15, <1>16, <1>17, <1>18, <1>19, <1>20
  DEF Run, SessionStep, eccx08_global_lock, eccx08_global_unlock, atcab_init_safe,
      atcab_release_safe

(***************************************************************************)
(* The same for the caller's own steps.                                    *)
(***************************************************************************)
CallerStep(t) ==
    \/ Open(t) \/ Opened(t) \/ Command(t) \/ CureWake(t) \/ CureSleep(t)
    \/ Close(t) \/ Closed(t)

LEMMA CallerTyped == ASSUME TypeOK, NEW t \in Threads, CallerStep(t) PROVE TypeOK'
<1>1. SessionTypeOK /\ at \in [Threads -> Places]
  BY DEF TypeOK
<1>2. at' \in [Threads -> Places]
  BY <1>1 DEF CallerStep, Open, Opened, Command, CureWake, CureSleep, Close, Closed, Move, Places
<1>3. SessionTypeOK'
  <2>1. CASE Open(t) \/ Close(t)
    BY <1>1, <2>1, EnterTyped DEF Open, Close, Calls
  <2>2. CASE Opened(t) \/ Closed(t)
    BY <1>1, <2>2, UnchangedTyped DEF Opened, Closed
  <2>3. CASE Command(t) \/ CureWake(t) \/ CureSleep(t)
    <3>1. chip' \in Chips
      BY <1>1, <2>3, CommandTyped, WakeTyped, SleepTyped
      DEF Command, CureWake, CureSleep, SessionTypeOK
    <3> QED
      BY <1>1, <2>3, <3>1, OnDeviceTyped DEF Command, CureWake, CureSleep, OnDevice
  <2> QED
    BY <2>1, <2>2, <2>3 DEF CallerStep
<1> QED
  BY <1>2, <1>3 DEF TypeOK

LEMMA CallerLocal ==
    ASSUME SingleThreaded, SessionInv, NEW t \in Threads, CallerStep(t)
    PROVE  /\ \A u \in Threads \ {t} : Untouched(u)
           /\ ThreadInv(t)'
<1> USE ProcOfAssumption, NoThreadAssumption
<1> USE DEF SessionInv, TypeOK, SessionTypeOK, MutexTypeOK, Goto, Move, Enter, Returning,
            threadVars, procVars, mutexVars, sessionVars, Untouched, ThreadInv, PlaceInv,
            StaticsInv, Holding, Configured, Marked, Granted, PCs, LockPCs, InitPCs,
            ReleasePCs, UnlockPCs, Places
<1> DEFINE Goal == (\A u \in Threads \ {t} : Untouched(u)) /\ ThreadInv(t)'
<1>1. ASSUME Open(t) PROVE Goal
  <2>1. \A u \in Threads \ {t} : Untouched(u)
    BY <1>1 DEF Open
  <2>2. ThreadInv(t)'
    BY <1>1 DEF Open
  <2> QED
    BY <2>1, <2>2
<1>2. ASSUME Opened(t) PROVE Goal
  <2>1. \A u \in Threads \ {t} : Untouched(u)
    BY <1>2 DEF Opened
  <2>2. ThreadInv(t)'
    BY <1>2 DEF Opened
  <2> QED
    BY <2>1, <2>2
<1>3. ASSUME Command(t) PROVE Goal
  <2>1. \A u \in Threads \ {t} : Untouched(u)
    BY <1>3 DEF Command
  <2>2. ThreadInv(t)'
    BY <1>3 DEF Command
  <2> QED
    BY <2>1, <2>2
<1>4. ASSUME CureWake(t) PROVE Goal
  <2>1. \A u \in Threads \ {t} : Untouched(u)
    BY <1>4 DEF CureWake
  <2>2. ThreadInv(t)'
    BY <1>4 DEF CureWake
  <2> QED
    BY <2>1, <2>2
<1>5. ASSUME CureSleep(t) PROVE Goal
  <2>1. \A u \in Threads \ {t} : Untouched(u)
    BY <1>5 DEF CureSleep
  <2>2. ThreadInv(t)'
    BY <1>5 DEF CureSleep
  <2> QED
    BY <2>1, <2>2
<1>6. ASSUME Close(t) PROVE Goal
  <2>1. \A u \in Threads \ {t} : Untouched(u)
    BY <1>6 DEF Close
  <2>2. ThreadInv(t)'
    BY <1>6 DEF Close
  <2> QED
    BY <2>1, <2>2
<1>7. ASSUME Closed(t) PROVE Goal
  <2>1. \A u \in Threads \ {t} : Untouched(u)
    BY <1>7 DEF Closed
  <2>2. ThreadInv(t)'
    BY <1>7 DEF Closed
  <2> QED
    BY <2>1, <2>2
<1> QED
  BY <1>1, <1>2, <1>3, <1>4, <1>5, <1>6, <1>7 DEF CallerStep

(***************************************************************************)
(* A death takes the process's thread out of the mutex and of its          *)
(* operation, and leaves every other thread where it was.                  *)
(***************************************************************************)
LEMMA DeathTyped == ASSUME TypeOK, NEW p \in Procs, Die(p) PROVE TypeOK'
BY KillTyped DEF TypeOK, Die, Places

LEMMA DeathKeeps ==
    ASSUME SessionInv, NEW p \in Procs, Die(p)
    PROVE  SessionInv'
<1> USE ProcOfAssumption, NoThreadAssumption
<1>1. TypeOK'
  BY DeathTyped DEF SessionInv
<1>2. ASSUME NEW u \in Threads, ProcOf[u] # p PROVE ThreadInv(u)'
  <2>1. Untouched(u)
    BY <1>2 DEF Untouched, Die, KillProcess, OwnerDies, ThreadsOf, SessionInv, TypeOK,
                SessionTypeOK
  <2> QED
    BY <2>1, UntouchedKeeps DEF SessionInv
<1>3. ASSUME NEW u \in Threads, ProcOf[u] = p PROVE ThreadInv(u)'
  BY <1>3 DEF ThreadInv, PlaceInv, StaticsInv, Holding, Configured, Marked, Granted, Die,
              KillProcess, OwnerDies, ThreadsOf, SessionInv, TypeOK, SessionTypeOK,
              MutexTypeOK, LockPCs, InitPCs, ReleasePCs, UnlockPCs
<1> QED
  BY <1>1, <1>2, <1>3 DEF SessionInv

(***************************************************************************)
(* The three facts of the induction.                                       *)
(***************************************************************************)
LEMMA InitEstablishes == Init => SessionInv
<1> SUFFICES ASSUME Init PROVE SessionInv
  OBVIOUS
<1> USE ProcOfAssumption, NoThreadAssumption, HandlesAssumption
<1> USE DEF Init, SessionInit, MutexInit, ChipInit
<1>1. TypeOK
  BY SessionInitTyped DEF TypeOK, Places
<1>2. ASSUME NEW t \in Threads PROVE ThreadInv(t)
  BY DEF ThreadInv, PlaceInv, StaticsInv, Holding, Configured, Marked, Granted, InitPCs,
         ReleasePCs
<1> QED
  BY <1>1, <1>2 DEF SessionInv

LEMMA NextTyped == ASSUME TypeOK, [Next]_userVars PROVE TypeOK'
<1>1. ASSUME NEW t \in Threads, Step(t) PROVE TypeOK'
  BY <1>1, RunTyped, CallerTyped DEF Step, CallerStep
<1>2. ASSUME NEW p \in Procs, Die(p) PROVE TypeOK'
  BY <1>2, DeathTyped
<1>3. ASSUME Interfere PROVE TypeOK'
  <2>1. chip' \in Chips
    BY <1>3 DEF Interfere, UnlockedClient, Chips
  <2> QED
    BY <1>3, <2>1, OnDeviceTyped DEF Interfere, OnDevice, TypeOK
<1>4. ASSUME UNCHANGED userVars PROVE TypeOK'
  BY <1>4, UnchangedTyped DEF userVars, TypeOK
<1> QED
  BY <1>1, <1>2, <1>3, <1>4 DEF Next

LEMMA NextKeeps ==
    ASSUME SingleThreaded, SessionInv, [Next]_userVars
    PROVE  SessionInv'
<1>1. ASSUME NEW t \in Threads, Step(t) PROVE SessionInv'
  <2>1. CASE Run(t)
    BY <2>1, RunTyped, RunLocal, UntouchedKeeps DEF SessionInv
  <2>2. CASE CallerStep(t)
    BY <2>2, CallerTyped, CallerLocal, UntouchedKeeps DEF SessionInv
  <2> QED
    BY <1>1, <2>1, <2>2 DEF Step, CallerStep
<1>2. ASSUME NEW p \in Procs, Die(p) PROVE SessionInv'
  BY <1>2, DeathKeeps
<1>3. ASSUME Interfere PROVE SessionInv'
  <2>1. \A u \in Threads : Untouched(u)
    BY <1>3 DEF Interfere, Untouched, threadVars, procVars, mutexVars
  <2> QED
    BY <1>3, <2>1, NextTyped, UntouchedKeeps DEF Next, SessionInv
<1>4. ASSUME UNCHANGED userVars PROVE SessionInv'
  <2>1. \A u \in Threads : Untouched(u)
    BY <1>4 DEF userVars, sessionVars, Untouched, threadVars, procVars, mutexVars
  <2> QED
    BY <1>4, <2>1, NextTyped, UntouchedKeeps DEF SessionInv
<1> QED
  BY <1>1, <1>2, <1>3, <1>4 DEF Next

\* The invariant that relates the place of each thread to the mutex and to the
\* statics of its process holds in every reachable state, whatever fails.
THEOREM SessionInvariance == ASSUME SingleThreaded PROVE Spec => []SessionInv
<1>1. SessionInv /\ [Next]_userVars => SessionInv'
  BY NextKeeps
<1> QED
  BY <1>1, InitEstablishes, PTL DEF Spec

\* Every variable of the session functions keeps its type, also where several threads
\* of a process use the engine (eccx08_engine.c:65-239).
THEOREM TypeCorrectness == Spec => []TypeOK
<1>1. Init => TypeOK
  BY SessionInitTyped DEF Init, TypeOK, Places
<1>2. TypeOK /\ [Next]_userVars => TypeOK'
  BY NextTyped
<1> QED
  BY <1>1, <1>2, PTL DEF Spec

\* However many processes use the chip and whatever fails in them, one at most
\* is in a session: eccx08_global_lock serializes access to the chip.
THEOREM Exclusion == ASSUME SingleThreaded PROVE Spec => []MutualExclusion
<1>1. SessionInv => MutualExclusion
  BY DEF SessionInv, ThreadInv, MutualExclusion
<1> QED
  BY <1>1, SessionInvariance, PTL

\* No path out of an operation leaves the mutex held, the lock marked ours or
\* a configuration behind, as the comment on atcab_init_safe's error paths asks.
THEOREM NoPathLeaks == ASSUME SingleThreaded PROVE Spec => []NothingLeftBehind
<1>1. SessionInv => NothingLeftBehind
  BY DEF SessionInv, ThreadInv, PlaceInv, StaticsInv, Holding, Configured, Marked, Granted,
         NothingLeftBehind, InitPCs, ReleasePCs
<1> QED
  BY <1>1, SessionInvariance, PTL

\* global_lock.state says whose the mutex is, in a process of one thread.
THEOREM StateCorrectness == ASSUME SingleThreaded PROVE Spec => []StateIsOurs
<1>1. SessionInv => StateIsOurs
  <2> SUFFICES ASSUME SessionInv, NEW p \in Procs,
                      \A t \in ThreadsOf(p) : pc[t] \notin {"mark", "unmark"}
               PROVE  state[p] = 1 <=> owner \in ThreadsOf(p)
    BY DEF StateIsOurs
  <2>1. PICK t \in Threads : ThreadsOf(p) = {t}
    BY DEF SingleThreaded
  <2>2. ProcOf[t] = p /\ pc[t] \notin {"mark", "unmark"}
    BY <2>1 DEF ThreadsOf
  <2>3. state[p] = 1 <=> owner = t
    BY <2>2 DEF SessionInv, ThreadInv, StaticsInv, Marked
  <2> QED
    BY <2>1, <2>3
<1> QED
  BY <1>1, SessionInvariance, PTL

\* A process that was told of an abandoned chip never has a session open with
\* the resynchronization still to be done.
THEOREM ResyncCorrectness == ASSUME SingleThreaded PROVE Spec => []ResyncBeforeUse
<1>1. SessionInv => ResyncBeforeUse
  BY DEF SessionInv, ThreadInv, StaticsInv, ResyncBeforeUse
<1> QED
  BY <1>1, SessionInvariance, PTL
================================================================================
