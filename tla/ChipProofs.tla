---------------------------- MODULE ChipProofs ----------------------------
(***************************************************************************)
(* The session functions implement ExclusiveChip, for any number of        *)
(* processes of one thread each, where ChipStaysKnown: whatever the HAL,   *)
(* atcab_release, the chip's self-test and the deaths of processes do.     *)
(***************************************************************************)
EXTENDS SessionProofs

LEMMA WakeWakes ==
    ASSUME ChipStaysKnown, chip \in Chips, atcab_wakeup PROVE chip'.power = "awake"
BY DEF ChipStaysKnown, Chips, atcab_wakeup, WakeResults, Lost

LEMMA SleepParks ==
    ASSUME ChipStaysKnown, chip.power = "awake", atcab_sleep PROVE chip' = Parked
BY DEF ChipStaysKnown, atcab_sleep, SleepResults, Lost

(***************************************************************************)
(* A step of one thread and the chip as another thread knows it: while it  *)
(* owns the mutex nobody else moves the chip.                              *)
(***************************************************************************)
OwnerUndisturbed(u) == Untouched(u) /\ (owner = u => UNCHANGED <<chip, ownerdead>>)

LEMMA UndisturbedKeeps ==
    ASSUME SessionInv, NEW u \in Threads, OwnerUndisturbed(u), ChipThreadInv(u)
    PROVE  ChipThreadInv(u)' /\ (InSession(u)' <=> InSession(u))
<1>1. pc[u] \in {"resync_sleep", "park_sleep"} => owner = u
  BY DEF SessionInv, ThreadInv, Holding, InitPCs, ReleasePCs
<1> QED
  BY <1>1 DEF OwnerUndisturbed, Untouched, ChipThreadInv, InSession

LEMMA RunKnowsChip ==
    ASSUME SingleThreaded, ChipStaysKnown, SessionInv, ChipInv, NEW t \in Threads,
           Run(t)
    PROVE  /\ \A u \in Threads \ {t} : OwnerUndisturbed(u)
           /\ ChipThreadInv(t)'
           /\ ParkedBetweenSessions'
<1> USE ProcOfAssumption, NoThreadAssumption
<1>a. \A u \in Threads \ {t} : Untouched(u)
  BY RunLocal
<1>b. ThreadInv(t) /\ ChipThreadInv(t) /\ ParkedBetweenSessions /\ TypeOK
  BY DEF SessionInv, ChipInv
<1> USE DEF TypeOK, SessionTypeOK, MutexTypeOK, ThreadInv, PlaceInv, StaticsInv, Holding,
            Configured, Marked, Granted, PCs, LockPCs, InitPCs, ReleasePCs, UnlockPCs,
            Goto, Returning, Set, threadVars, procVars, mutexVars, ChipThreadInv,
            ParkedBetweenSessions, InSession, OwnerUndisturbed, Places
<1> DEFINE Goal == /\ \A u \in Threads \ {t} : OwnerUndisturbed(u)
                   /\ ChipThreadInv(t)' /\ ParkedBetweenSessions'
<1>1. ASSUME TestHandle(t), UNCHANGED at PROVE Goal
  BY <1>a, <1>b, <1>1 DEF TestHandle
<1>2. ASSUME CreateMutex(t), UNCHANGED at PROVE Goal
  BY <1>a, <1>b, <1>2 DEF CreateMutex
<1>3. ASSUME CreateMutexFails(t), UNCHANGED at PROVE Goal
  BY <1>a, <1>b, <1>3 DEF CreateMutexFails
<1>4. ASSUME TestState(t), UNCHANGED at PROVE Goal
  BY <1>a, <1>b, <1>4 DEF TestState, AfterLock
<1>5. ASSUME LockMutex(t), UNCHANGED at PROVE Goal
  BY <1>a, <1>b, <1>5 DEF LockMutex, hal_os_lock_mutex
<1>6. ASSUME LockMutexFails(t), UNCHANGED at PROVE Goal
  BY <1>a, <1>b, <1>6 DEF LockMutexFails
<1>7. ASSUME MarkOurs(t), UNCHANGED at PROVE Goal
  BY <1>a, <1>b, <1>7 DEF MarkOurs, AfterLock
<1>8. ASSUME UnlockMutex(t), UNCHANGED at PROVE Goal
  BY <1>a, <1>b, <1>8 DEF UnlockMutex, hal_os_unlock_mutex
<1>9. ASSUME MarkNotOurs(t), UNCHANGED at PROVE Goal
  BY <1>a, <1>b, <1>9 DEF MarkNotOurs
<1>10. ASSUME ConfigFails(t), UNCHANGED at PROVE Goal
  BY <1>a, <1>b, <1>10 DEF ConfigFails, ChipStaysKnown
<1>11. ASSUME AllocateConfig(t), UNCHANGED at PROVE Goal
  BY <1>a, <1>b, <1>11 DEF AllocateConfig
<1>12. ASSUME atcab_init(t), UNCHANGED at PROVE Goal
  BY <1>a, <1>b, <1>12 DEF atcab_init, AfterInit
<1>13. ASSUME atcab_init_fails(t), UNCHANGED at PROVE Goal
  BY <1>a, <1>b, <1>13 DEF atcab_init_fails, ChipStaysKnown
<1>14. ASSUME ResyncWake(t), UNCHANGED at PROVE Goal
  BY <1>a, <1>b, WakeWakes, <1>14 DEF ResyncWake
<1>15. ASSUME ResyncSleep(t), UNCHANGED at PROVE Goal
  BY <1>a, <1>b, SleepParks, <1>15 DEF ResyncSleep
<1>16. ASSUME NoConfig(t), UNCHANGED at PROVE Goal
  BY <1>a, <1>b, <1>16 DEF NoConfig
<1>17. ASSUME HasConfig(t), UNCHANGED at PROVE Goal
  BY <1>a, <1>b, <1>17 DEF HasConfig
<1>18. ASSUME ParkWake(t), UNCHANGED at PROVE Goal
  BY <1>a, <1>b, WakeWakes, <1>18 DEF ParkWake
<1>19. ASSUME ParkSleep(t), UNCHANGED at PROVE Goal
  BY <1>a, <1>b, SleepParks, <1>19 DEF ParkSleep
<1>20. ASSUME atcab_release(t), UNCHANGED at PROVE Goal
  BY <1>a, <1>b, <1>20 DEF atcab_release
<1> QED
  BY <1>1, <1>2, <1>3, <1>4, <1>5, <1>6, <1>7, <1>8, <1>9, <1>10,
     <1>11, <1>12, <1>13, <1>14, <1>15, <1>16, <1>17, <1>18, <1>19, <1>20
  DEF Run, SessionStep, eccx08_global_lock, eccx08_global_unlock, atcab_init_safe,
      atcab_release_safe

LEMMA CallerKnowsChip ==
    ASSUME SingleThreaded, ChipStaysKnown, SessionInv, ChipInv, NEW t \in Threads,
           CallerStep(t)
    PROVE  /\ \A u \in Threads \ {t} : OwnerUndisturbed(u)
           /\ ChipThreadInv(t)'
           /\ ParkedBetweenSessions'
<1> USE ProcOfAssumption, NoThreadAssumption
<1>a. \A u \in Threads \ {t} : Untouched(u)
  BY CallerLocal
<1>b. ThreadInv(t) /\ ChipThreadInv(t) /\ ParkedBetweenSessions /\ TypeOK
  BY DEF SessionInv, ChipInv
<1> USE DEF TypeOK, SessionTypeOK, MutexTypeOK, ThreadInv, PlaceInv, StaticsInv, Holding,
            Configured, Marked, Granted, PCs, LockPCs, InitPCs, ReleasePCs, UnlockPCs,
            Goto, Returning, Set, threadVars, procVars, mutexVars, ChipThreadInv,
            ParkedBetweenSessions, InSession, OwnerUndisturbed, Move, Enter, sessionVars, Places
<1> DEFINE Goal == /\ \A u \in Threads \ {t} : OwnerUndisturbed(u)
                   /\ ChipThreadInv(t)' /\ ParkedBetweenSessions'
<1>1. ASSUME Open(t) PROVE Goal
  BY <1>a, <1>b, <1>1 DEF Open
<1>2. ASSUME Opened(t) PROVE Goal
  BY <1>a, <1>b, <1>2 DEF Opened
<1>3. ASSUME Command(t) PROVE Goal
  BY <1>a, <1>b, <1>3 DEF Command
<1>4. ASSUME CureWake(t) PROVE Goal
  BY <1>a, <1>b, <1>4 DEF CureWake
<1>5. ASSUME CureSleep(t) PROVE Goal
  BY <1>a, <1>b, <1>5 DEF CureSleep
<1>6. ASSUME Close(t) PROVE Goal
  BY <1>a, <1>b, <1>6 DEF Close
<1>7. ASSUME Closed(t) PROVE Goal
  BY <1>a, <1>b, <1>7 DEF Closed
<1> QED
  BY <1>1, <1>2, <1>3, <1>4, <1>5, <1>6, <1>7 DEF CallerStep

LEMMA StepKnowsChip ==
    ASSUME SingleThreaded, ChipStaysKnown, SessionInv, ChipInv, NEW t \in Threads, Step(t)
    PROVE  /\ \A u \in Threads \ {t} : OwnerUndisturbed(u)
           /\ ChipInv'
<1>1. /\ \A u \in Threads \ {t} : OwnerUndisturbed(u)
      /\ ChipThreadInv(t)'
      /\ ParkedBetweenSessions'
  BY RunKnowsChip, CallerKnowsChip DEF Step, CallerStep
<1> QED
  BY <1>1, UndisturbedKeeps DEF ChipInv

(***************************************************************************)
(* Deaths: only the owner's matters to the chip.                           *)
(***************************************************************************)
LEMMA DeathKnowsChip ==
    ASSUME SingleThreaded, SessionInv, ChipInv, NEW p \in Procs, Die(p)
    PROVE  ChipInv'
<1> USE ProcOfAssumption, NoThreadAssumption
<1> USE DEF SessionInv, TypeOK, SessionTypeOK, MutexTypeOK, ChipInv, Die, KillProcess,
            OwnerDies, ThreadsOf
<1>1. ASSUME NEW u \in Threads, ProcOf[u] = p PROVE ChipThreadInv(u)'
  BY <1>1 DEF ChipThreadInv
<1>2. ASSUME NEW u \in Threads, ProcOf[u] # p PROVE ChipThreadInv(u)'
  BY <1>2 DEF ChipThreadInv, InSession
<1>3. ParkedBetweenSessions'
  BY DEF ParkedBetweenSessions
<1> QED
  BY <1>1, <1>2, <1>3

LEMMA ChipInit_ == Init => ChipInv
BY ProcOfAssumption, NoThreadAssumption
   DEF Init, SessionInit, MutexInit, ChipInit, ChipInv, ParkedBetweenSessions, ChipThreadInv

LEMMA ChipStep ==
    ASSUME SingleThreaded, ChipStaysKnown, SessionInv, ChipInv, [Next]_userVars
    PROVE  ChipInv'
<1>1. ASSUME UNCHANGED userVars PROVE ChipInv'
  BY <1>1 DEF userVars, sessionVars, threadVars, procVars, mutexVars, ChipInv,
              ParkedBetweenSessions, ChipThreadInv, InSession
<1>2. ~Interfere
  BY DEF Interfere, UnlockedClient, ChipStaysKnown
<1> QED
  BY <1>1, <1>2, StepKnowsChip, DeathKnowsChip DEF Next

\* Where ChipStaysKnown, the owner of the mutex knows the state of the chip in
\* every reachable state.
THEOREM ChipInvariance ==
    ASSUME SingleThreaded, ChipStaysKnown PROVE Spec => []ChipInv
<1>1. SessionInv /\ ChipInv /\ [Next]_userVars => ChipInv'
  BY ChipStep
<1> QED
  BY <1>1, ChipInit_, SessionInvariance, PTL DEF Spec

\* Every session ends with the chip asleep and unlatched: it is parked whenever
\* the mutex is free and nobody died holding it.
THEOREM ParkingCorrectness ==
    ASSUME SingleThreaded, ChipStaysKnown PROVE Spec => []ParkedBetweenSessions
<1>1. ChipInv => ParkedBetweenSessions
  BY DEF ChipInv
<1> QED
  BY <1>1, ChipInvariance, PTL

(***************************************************************************)
(* The refinement mapping: who the abstract user is.                       *)
(***************************************************************************)
LEMMA UserIsOwner ==
    ASSUME SessionInv, NEW t \in Threads, InSession(t) PROVE owner = t /\ SessionOwner = t
<1>1. ASSUME NEW u \in Threads, InSession(u) PROVE owner = u
  <2>1. ThreadInv(u)
    BY DEF SessionInv
  <2> QED
    BY <1>1, <2>1 DEF InSession, ThreadInv, PlaceInv, Holding, LockPCs, ReleasePCs, InitPCs,
                      UnlockPCs
<1> QED
  BY <1>1 DEF SessionOwner

LEMMA NoUser ==
    ASSUME \A t \in Threads : ~InSession(t) PROVE SessionOwner = NoThread
BY DEF SessionOwner

LEMMA SameUser ==
    ASSUME \A t \in Threads : InSession(t)' <=> InSession(t)
    PROVE  UNCHANGED SessionOwner
BY DEF SessionOwner

(***************************************************************************)
(* What the steps look like to ExclusiveChip.                              *)
(***************************************************************************)
LEMMA OnlyOwnerResynchronizes ==
    ASSUME SingleThreaded, SessionInv, ChipInv, NEW t \in Threads, owner = t
    PROVE  Abandoned <=> recovered[ProcOf[t]] = 1
<1> USE ProcOfAssumption
<1>1. ~ownerdead
  BY DEF ChipInv, ChipThreadInv
<1>2. ASSUME NEW p \in Procs, recovered[p] = 1 PROVE p = ProcOf[t]
  <2>1. PICK u \in Threads : ProcOf[u] = p
    BY DEF SingleThreaded, ThreadsOf
  <2>2. pc[u] \in {"mark"} \cup InitPCs
    BY <1>2, <2>1 DEF ChipInv, ChipThreadInv
  <2>3. owner = u
    BY <2>2 DEF SessionInv, ThreadInv, Holding
  <2> QED
    BY <2>1, <2>3
<1> QED
  BY <1>1, <1>2 DEF Abandoned

Stutter == UNCHANGED <<SessionOwner, Dirty, Abandoned>>

\* Steps that move neither the chip nor what is known of it.
Quiet(t) ==
    /\ UNCHANGED <<chip, ownerdead, recovered>>
    /\ InSession(t)' <=> InSession(t)

LEMMA QuietRuns ==
    ASSUME SessionInv, NEW t \in Threads, Run(t)
    PROVE  Quiet(t) \/ LockMutex(t) \/ ResyncWake(t) \/ ResyncSleep(t)
                    \/ ParkWake(t) \/ ParkSleep(t)
<1>a. ThreadInv(t) /\ TypeOK
  BY DEF SessionInv
<1> USE DEF TypeOK, SessionTypeOK, MutexTypeOK, ThreadInv, PlaceInv, StaticsInv, Holding,
            Configured, Marked, Granted, PCs, LockPCs, InitPCs, ReleasePCs, UnlockPCs,
            Places, Goto, Returning, threadVars, procVars, mutexVars, InSession, Quiet
<1>1. ASSUME TestHandle(t), UNCHANGED at PROVE Quiet(t)
  BY <1>a, <1>1 DEF TestHandle
<1>2. ASSUME CreateMutex(t), UNCHANGED at PROVE Quiet(t)
  BY <1>a, <1>2 DEF CreateMutex
<1>3. ASSUME CreateMutexFails(t), UNCHANGED at PROVE Quiet(t)
  BY <1>a, <1>3 DEF CreateMutexFails
<1>4. ASSUME TestState(t), UNCHANGED at PROVE Quiet(t)
  BY <1>a, <1>4 DEF TestState, AfterLock
<1>5. ASSUME LockMutexFails(t), UNCHANGED at PROVE Quiet(t)
  BY <1>a, <1>5 DEF LockMutexFails
<1>6. ASSUME MarkOurs(t), UNCHANGED at PROVE Quiet(t)
  BY <1>a, <1>6 DEF MarkOurs, AfterLock
<1>7. ASSUME UnlockMutex(t), UNCHANGED at PROVE Quiet(t)
  BY <1>a, <1>7 DEF UnlockMutex, hal_os_unlock_mutex
<1>8. ASSUME MarkNotOurs(t), UNCHANGED at PROVE Quiet(t)
  BY <1>a, <1>8 DEF MarkNotOurs
<1>9. ASSUME ConfigFails(t), UNCHANGED at PROVE Quiet(t)
  BY <1>a, <1>9 DEF ConfigFails
<1>10. ASSUME AllocateConfig(t), UNCHANGED at PROVE Quiet(t)
  BY <1>a, <1>10 DEF AllocateConfig
<1>11. ASSUME atcab_init(t), UNCHANGED at PROVE Quiet(t)
  BY <1>a, <1>11 DEF atcab_init, AfterInit
<1>12. ASSUME atcab_init_fails(t), UNCHANGED at PROVE Quiet(t)
  BY <1>a, <1>12 DEF atcab_init_fails
<1>13. ASSUME NoConfig(t), UNCHANGED at PROVE Quiet(t)
  BY <1>a, <1>13 DEF NoConfig
<1>14. ASSUME HasConfig(t), UNCHANGED at PROVE Quiet(t)
  BY <1>a, <1>14 DEF HasConfig
<1>15. ASSUME atcab_release(t), UNCHANGED at PROVE Quiet(t)
  BY <1>a, <1>15 DEF atcab_release
<1> QED
  BY <1>1, <1>2, <1>3, <1>4, <1>5, <1>6, <1>7, <1>8, <1>9, <1>10,
     <1>11, <1>12, <1>13, <1>14, <1>15
  DEF Run, SessionStep, eccx08_global_lock, eccx08_global_unlock, atcab_init_safe,
      atcab_release_safe

LEMMA QuietStutters ==
    ASSUME NEW t \in Threads, Quiet(t),
           \A u \in Threads \ {t} : InSession(u)' <=> InSession(u)
    PROVE  Stutter
<1>1. UNCHANGED SessionOwner
  BY SameUser DEF Quiet
<1> QED
  BY <1>1 DEF Stutter, Quiet, Dirty, Abandoned

ExclusiveStep == [Exclusive!Next]_(Exclusive!chipVars)

LEMMA StepImplements ==
    ASSUME SingleThreaded, ChipStaysKnown, SessionInv, ChipInv, SessionInv',
           NEW t \in Threads, Step(t)
    PROVE  ExclusiveStep
<1> USE ProcOfAssumption, NoThreadAssumption
<1>a. ThreadInv(t) /\ ChipThreadInv(t) /\ TypeOK
  BY DEF SessionInv, ChipInv
<1>b. \A u \in Threads \ {t} : InSession(u)' <=> InSession(u)
  BY StepKnowsChip, UndisturbedKeeps DEF ChipInv
<1>c. ASSUME Stutter PROVE ExclusiveStep
  BY <1>c DEF Stutter, ExclusiveStep, Exclusive!chipVars
<1>d. ASSUME owner = t, ~InSession(t) PROVE SessionOwner = NoThread
  BY <1>d, NoUser, UserIsOwner
<1>e. ASSUME owner = t, ~InSession(t), ~InSession(t)'
      PROVE SessionOwner = NoThread /\ SessionOwner' = NoThread
  BY <1>b, <1>d, <1>e, SameUser
<1>f. ASSUME InSession(t), InSession(t)' PROVE SessionOwner = t /\ SessionOwner' = t
  BY <1>b, <1>f, SameUser, UserIsOwner
<1> USE DEF Goto, Move, threadVars, procVars, mutexVars, TypeOK, SessionTypeOK, InSession,
            ThreadInv, PlaceInv, StaticsInv, Holding, Granted, LockPCs, InitPCs, ReleasePCs,
            UnlockPCs, Places
<1>1. CASE Run(t) /\ Quiet(t)
  BY <1>1, <1>b, <1>c, QuietStutters
<1>2. CASE LockMutex(t) /\ UNCHANGED at
  <2>1. InSession(t)' <=> InSession(t)
    BY <1>2, <1>a DEF LockMutex
  <2>2. UNCHANGED <<SessionOwner, Dirty>>
    BY <1>2, <1>b, <2>1, SameUser DEF LockMutex, Dirty
  <2>3. UNCHANGED Abandoned
    <3>1. CASE ownerdead
      <4>1. recovered'[ProcOf[t]] = 1
        BY <1>2, <1>a, <3>1 DEF LockMutex, Set
      <4> QED
        BY <3>1, <4>1 DEF Abandoned
    <3>2. CASE ~ownerdead
      <4>1. ~ownerdead' /\ UNCHANGED recovered
        BY <1>2, <3>2 DEF LockMutex, hal_os_lock_mutex
      <4> QED
        BY <3>2, <4>1 DEF Abandoned
    <3> QED
      BY <3>1, <3>2
  <2> QED
    BY <1>c, <2>2, <2>3 DEF Stutter
<1>3. CASE ResyncWake(t) /\ UNCHANGED at
  <2>1. /\ SessionOwner = NoThread /\ SessionOwner' = NoThread
        /\ Abandoned /\ UNCHANGED Abandoned
    BY <1>3, <1>a, <1>e, OnlyOwnerResynchronizes DEF ResyncWake, Abandoned
  <2> QED
    BY <2>1 DEF ExclusiveStep, Exclusive!Next, Exclusive!Resynchronize, Dirty
<1>4. CASE ResyncSleep(t) /\ UNCHANGED at
  <2>1. /\ SessionOwner = NoThread /\ SessionOwner' = NoThread /\ Abandoned
    BY <1>4, <1>a, <1>e, OnlyOwnerResynchronizes DEF ResyncSleep
  <2>2. Dirty' = FALSE
    BY <1>4, <1>a, SleepParks DEF ResyncSleep, ChipThreadInv, Dirty
  <2>3. Abandoned' \in {TRUE, FALSE}
    BY DEF Abandoned
  <2> QED
    BY <2>1, <2>2, <2>3 DEF ExclusiveStep, Exclusive!Next, Exclusive!Resynchronize
<1>5. CASE ParkWake(t) /\ UNCHANGED at
  <2>1. SessionOwner = t /\ SessionOwner' = t /\ UNCHANGED Abandoned
    BY <1>5, <1>a, <1>f DEF ParkWake, Abandoned
  <2> QED
    BY <2>1 DEF ExclusiveStep, Exclusive!Next, Exclusive!Work, Dirty
<1>6. CASE ParkSleep(t) /\ UNCHANGED at
  <2>1. InSession(t) /\ ~InSession(t)' /\ UNCHANGED Abandoned
    BY <1>6, <1>a DEF ParkSleep, Abandoned
  <2>2. SessionOwner = t /\ \A u \in Threads \ {t} : ~InSession(u)
    BY <2>1, UserIsOwner
  <2>3. SessionOwner' = NoThread
    BY <1>b, <2>1, <2>2 DEF SessionOwner
  <2>4. ~Dirty'
    BY <1>6, <1>a, SleepParks DEF ParkSleep, ChipThreadInv, Dirty
  <2> QED
    BY <2>1, <2>2, <2>3, <2>4 DEF ExclusiveStep, Exclusive!Next, Exclusive!CloseSession
<1>7. CASE Opened(t) /\ status[t] = "SUCCESS"
  <2>1. ~InSession(t) /\ InSession(t)' /\ owner = t /\ chip = Parked
        /\ recovered[ProcOf[t]] = 0
    BY <1>7, <1>a DEF Opened, ChipThreadInv
  <2>2. SessionOwner = NoThread /\ ~Abandoned
    BY <1>d, <2>1, OnlyOwnerResynchronizes
  <2>3. SessionOwner' = t
    <3>1. \A u \in Threads \ {t} : ~InSession(u)'
      BY <1>b, <2>1, UserIsOwner
    <3> QED
      BY <2>1, <3>1 DEF SessionOwner
  <2>4. ~Dirty /\ UNCHANGED <<Dirty, Abandoned>>
    BY <1>7, <2>1 DEF Opened, sessionVars, Dirty, Abandoned
  <2> QED
    BY <2>2, <2>3, <2>4 DEF ExclusiveStep, Exclusive!Next, Exclusive!OpenSession
<1>8. CASE Open(t) \/ (Opened(t) /\ status[t] # "SUCCESS") \/ Close(t) \/ Closed(t)
  <2>1. Quiet(t)
    BY <1>8, <1>a DEF Open, Opened, Close, Closed, Enter, sessionVars, Quiet
  <2> QED
    BY <1>b, <1>c, <2>1, QuietStutters
<1>9. CASE Command(t) \/ CureWake(t) \/ CureSleep(t)
  <2>1. SessionOwner = t /\ SessionOwner' = t /\ UNCHANGED Abandoned
    BY <1>9, <1>f DEF Command, CureWake, CureSleep, Abandoned
  <2> QED
    BY <2>1 DEF ExclusiveStep, Exclusive!Next, Exclusive!Work, Dirty
<1> QED
  BY <1>1, <1>2, <1>3, <1>4, <1>5, <1>6, <1>7, <1>8, <1>9, QuietRuns DEF Step, Run

LEMMA DeathImplements ==
    ASSUME SingleThreaded, SessionInv, ChipInv, SessionInv', NEW p \in Procs, Die(p)
    PROVE  ExclusiveStep
<1> USE ProcOfAssumption, NoThreadAssumption
<1>1. PICK t \in Threads : ThreadsOf(p) = {t}
  BY DEF SingleThreaded
<1>2. ProcOf[t] = p /\ at'[t] = "out"
  BY <1>1 DEF ThreadsOf, Die
<1>3. \A u \in Threads \ {t} : InSession(u)' <=> InSession(u)
  BY <1>1 DEF Die, KillProcess, InSession
<1>4. ~InSession(t)'
  BY <1>2 DEF InSession
<1>5. CASE owner = t
  <2>1. \A u \in Threads : ~InSession(u)'
    BY <1>3, <1>4, <1>5, UserIsOwner
  <2>2. SessionOwner' = NoThread
    BY <2>1 DEF SessionOwner
  <2>3. Abandoned' /\ UNCHANGED Dirty
    BY <1>1, <1>5 DEF Die, KillProcess, OwnerDies, Abandoned, Dirty
  <2> QED
    BY <2>2, <2>3 DEF ExclusiveStep, Exclusive!Next, Exclusive!Abandon
<1>6. CASE owner # t
  <2>1. ~InSession(t)
    BY <1>6, UserIsOwner
  <2>2. recovered[p] = 0
    BY <1>2, <1>6 DEF SessionInv, TypeOK, SessionTypeOK, ThreadInv, Holding, ChipInv,
                      ChipThreadInv
  <2>3. UNCHANGED recovered /\ UNCHANGED ownerdead /\ UNCHANGED chip
    BY <1>1, <1>6, <2>2 DEF Die, KillProcess, OwnerDies, SessionInv, TypeOK, SessionTypeOK
  <2>4. UNCHANGED SessionOwner
    BY <1>3, <1>4, <2>1, SameUser
  <2> QED
    BY <2>3, <2>4 DEF ExclusiveStep, Exclusive!chipVars, Dirty, Abandoned
<1> QED
  BY <1>5, <1>6

LEMMA InitImplements == Init => Exclusive!Init
<1> SUFFICES ASSUME Init PROVE Exclusive!Init
  OBVIOUS
<1>1. SessionOwner = NoThread
  BY NoUser DEF Init, InSession
<1>2. ~Dirty /\ ~Abandoned
  BY DEF Init, SessionInit, MutexInit, ChipInit, Dirty, Abandoned
<1> QED
  BY <1>1, <1>2 DEF Exclusive!Init

\* For any number of processes of one thread each, an operation that has a
\* session has the chip for itself, finds it parked and leaves it parked, and
\* no session opens on a chip that a dead process abandoned, where
\* ChipStaysKnown: atcab_init_safe and atcab_release_safe implement
\* ExclusiveChip.
THEOREM Refinement ==
    ASSUME SingleThreaded, ChipStaysKnown PROVE Spec => ImplementsExclusiveChip
<1>1. SessionInv /\ SessionInv' /\ ChipInv /\ [Next]_userVars => ExclusiveStep
  <2> SUFFICES ASSUME SessionInv, SessionInv', ChipInv, [Next]_userVars
               PROVE  ExclusiveStep
    OBVIOUS
  <2>1. ASSUME UNCHANGED userVars PROVE ExclusiveStep
    <3>1. Stutter
      BY <2>1 DEF userVars, sessionVars, threadVars, procVars, mutexVars, Stutter,
                  SessionOwner, InSession, Dirty, Abandoned
    <3> QED
      BY <3>1 DEF Stutter, ExclusiveStep, Exclusive!chipVars
  <2>2. ~Interfere
    BY DEF Interfere, UnlockedClient, ChipStaysKnown
  <2> QED
    BY <2>1, <2>2, StepImplements, DeathImplements DEF Next
<1>2. [][Next]_userVars /\ []SessionInv /\ []ChipInv => [][ExclusiveStep]_(Exclusive!chipVars)
  BY <1>1, PTL
<1> QED
  BY <1>2, InitImplements, SessionInvariance, ChipInvariance, PTL
  DEF Spec, ImplementsExclusiveChip, Exclusive!Spec, ExclusiveStep
============================================================================
