------------------------------ MODULE KeyOpsProofs ------------------------------
(***************************************************************************)
(* Theorems about KeyOps.  What an operation returns is proved for any     *)
(* threads and processes; that its session is that of a well-behaved user, *)
(* too; that the key in the slot does not change under it, where each      *)
(* process has one thread.                                                 *)
(***************************************************************************)
EXTENDS KeyOpsInvariant, SessionCallsProofs

(***************************************************************************)
(* Type correctness, one lemma per kind of action.                         *)
(***************************************************************************)
LEMMA KeyNumbers == /\ \A k \in Keys : k # 0 /\ k # Absent
                    /\ Absent # HalfBuilt
                    /\ 1 \in Keys
BY KeyOpsAssumption DEF Keys, Absent, HalfBuilt

Opens(t) == Begin(t) \/ Opened(t) \/ NotOpened(t) \/ Close(t) \/ Closed(t)

Commands(t) ==
    \/ Authorize(t) \/ FirstCommand(t) \/ GenerateKey(t) \/ VerifyCommand(t)
    \/ CureWake(t) \/ CureSleep(t) \/ SecondCommand(t)

Returns(t) ==
    \/ GiveUp(t) \/ ReturnSignature(t) \/ ReturnLoadedKey(t) \/ ReturnGeneratedKey(t)
    \/ ReturnVerdict(t) \/ NotVerified(t) \/ FreeKey(t)

LEMMA OpensTyped == ASSUME TypeOK, NEW t \in Threads, Opens(t) PROVE TypeOK'
<1> USE KeyOpsAssumption
<1>1. SessionTypeOK'
  BY EnterTyped, UnchangedTyped
  DEF Opens, Begin, Opened, NotOpened, Close, Closed, TypeOK, Calls
<1> USE <1>1
<1> USE DEF TypeOK, At, Status, AtPoints, AllOperations, OpStatuses, Statuses, SessionTypeOK, CallStatuses, verifyVars
<1>2. CASE Begin(t)
  BY <1>2 DEF Begin
<1>3. CASE Opened(t)
  BY <1>3 DEF Opened, sessionVars, threadVars
<1>4. CASE NotOpened(t)
  BY <1>4 DEF NotOpened
<1>5. CASE Close(t)
  BY <1>5 DEF Close
<1>6. CASE Closed(t)
  BY <1>6 DEF Closed
<1> QED
  BY <1>2, <1>3, <1>4, <1>5, <1>6 DEF Opens

LEMMA CommandsTyped == ASSUME TypeOK, NEW t \in Threads, Commands(t) PROVE TypeOK'
<1> USE KeyNumbers
<1>1. OnDevice /\ chip' \in Chips
  BY CommandTyped, WakeTyped, SleepTyped
  DEF Commands, Authorize, Authorized, FirstCommand, UseKey, GenerateKey, VerifyCommand,
      CureWake, CureSleep, SecondCommand, TypeOK, SessionTypeOK
<1>2. SessionTypeOK'
  BY <1>1, OnDeviceTyped DEF TypeOK
<1> USE <1>2
<1> USE DEF TypeOK, At, Status, AtPoints, OpStatuses, AfterFirst, Verdicts, verifyVars
<1>3. CASE Authorize(t)
  BY <1>3 DEF Authorize
<1>4. CASE FirstCommand(t)
  BY <1>4 DEF FirstCommand, UseKey
<1>5. CASE GenerateKey(t)
  BY <1>5 DEF GenerateKey
<1>6. CASE VerifyCommand(t)
  BY <1>6 DEF VerifyCommand
<1>7. CASE CureWake(t)
  BY <1>7 DEF CureWake
<1>8. CASE CureSleep(t)
  BY <1>8 DEF CureSleep
<1>9. CASE SecondCommand(t)
  BY <1>9 DEF SecondCommand, UseKey
<1> QED
  BY <1>3, <1>4, <1>5, <1>6, <1>7, <1>8, <1>9 DEF Commands

LEMMA ReturnsTyped == ASSUME TypeOK, NEW t \in Threads, Returns(t) PROVE TypeOK'
<1>1. SessionTypeOK'
  BY UnchangedTyped
  DEF Returns, GiveUp, ReturnSignature, ReturnLoadedKey, ReturnGeneratedKey, ReturnVerdict,
      NotVerified, FreeKey, Return, TypeOK
<1> USE <1>1
<1> USE DEF TypeOK, Return, At, Status, AtPoints, AllOperations, OpStatuses, Statuses,
            HalfBuilt, Verdicts, Judged, verifyVars
<1>2. CASE GiveUp(t)
  BY <1>2 DEF GiveUp
<1>3. CASE ReturnSignature(t)
  BY <1>3 DEF ReturnSignature
<1>4. CASE ReturnLoadedKey(t)
  BY <1>4 DEF ReturnLoadedKey, eccx08_eckey_convert
<1>5. CASE ReturnGeneratedKey(t)
  BY <1>5 DEF ReturnGeneratedKey, eccx08_eckey_convert
<1>6. CASE ReturnVerdict(t)
  BY <1>6 DEF ReturnVerdict
<1>7. CASE NotVerified(t)
  BY <1>7 DEF NotVerified
<1>8. CASE FreeKey(t)
  BY <1>8 DEF FreeKey
<1> QED
  BY <1>2, <1>3, <1>4, <1>5, <1>6, <1>7, <1>8 DEF Returns

LEMMA DieTyped == ASSUME TypeOK, NEW p \in Procs, Die(p) PROVE TypeOK'
<1>1. SessionTypeOK'
  BY KillTyped DEF Die, TypeOK
<1> QED
  BY <1>1
  DEF Die, TypeOK, Reset, AtPoints, OpStatuses, Statuses, Verdicts

LEMMA InitTyped == Init => TypeOK
BY SessionInitTyped, KeyNumbers DEF Init, TypeOK, AtPoints, OpStatuses, Statuses, Verdicts

LEMMA NextTyped == ASSUME TypeOK, [Next]_vars PROVE TypeOK'
<1>1. ASSUME NEW t \in Threads, Run(t) PROVE TypeOK'
  BY <1>1, StepTyped DEF Run, TypeOK, opVars, verifyVars
<1>2. ASSUME Interfere PROVE TypeOK'
  <2>1. chip' \in Chips
    BY <1>2 DEF Interfere, UnlockedClient, Chips
  <2> QED
    BY <1>2, <2>1, OnDeviceTyped DEF Interfere, TypeOK, opVars, verifyVars
<1>3. ASSUME UNCHANGED vars PROVE TypeOK'
  BY <1>3, UnchangedTyped DEF vars, TypeOK, opVars, verifyVars
<1> QED
  BY <1>1, <1>2, <1>3, OpensTyped, CommandsTyped, ReturnsTyped, DieTyped
  DEF Next, Carries, Opens, Commands, Returns

\* Every variable of the operations keeps its type, however many threads use the
\* device key (eccx08_ecdsa_do_sign_sig, eccx08_load_pubkey_internal and the others).
THEOREM TypeCorrectness == Spec => []TypeOK
BY InitTyped, NextTyped, PTL DEF Spec

(***************************************************************************)
(* The invariant, one thread at a time: a step of another thread leaves    *)
(* alone what the invariant of a thread speaks of.                         *)
(***************************************************************************)
OwnVars(u) == <<pc[u], status[u], at[u], op[u], passwd[u], st[u], raw[u], tried[u],
                pkey[u], gkey[u], sig[u], asked[u], verified[u], answer[u]>>

ThreadInv(u) == OpInv(u) /\ ResultInv(u) /\ CureInv(u) /\ VerifyInv(u)

LEMMA OthersKeep ==
    ASSUME NEW u \in Threads, UNCHANGED OwnVars(u), ThreadInv(u) PROVE ThreadInv(u)'
BY DEF OwnVars, ThreadInv, OpInv, ResultInv, CureInv, VerifyInv, Authorizes, UsesKey

LEMMA OpensLocal ==
    ASSUME KeyOpsInv, NEW t \in Threads, Opens(t)
    PROVE  ThreadInv(t)' /\ \A u \in Threads \ {t} : UNCHANGED OwnVars(u)
<1> USE KeyOpsAssumption, KeyNumbers
<1>a. TypeOK /\ OpInv(t) /\ ResultInv(t) /\ CureInv(t) /\ VerifyInv(t)
  BY DEF KeyOpsInv
<1> USE DEF TypeOK, At, Status, Authorizes, UsesKey, OwnVars, ThreadInv, OpInv, ResultInv,
            CureInv, VerifyInv, Enter, Goto, Returning, SessionTypeOK, sessionVars, threadVars
<1> DEFINE Goal == ThreadInv(t)' /\ \A u \in Threads \ {t} : UNCHANGED OwnVars(u)
<1>1. ASSUME Begin(t) PROVE Goal
  BY <1>a, <1>1 DEF Begin, AllOperations
<1>2. ASSUME Opened(t) PROVE Goal
  BY <1>a, <1>2 DEF Opened, verifyVars
<1>3. ASSUME NotOpened(t) PROVE Goal
  BY <1>a, <1>3 DEF NotOpened, verifyVars, CallStatuses
<1>4. ASSUME Close(t) PROVE Goal
  BY <1>a, <1>4 DEF Close, verifyVars
<1>5. ASSUME Closed(t) PROVE Goal
  BY <1>a, <1>5 DEF Closed, verifyVars
<1> QED
  BY <1>1, <1>2, <1>3, <1>4, <1>5 DEF Opens

LEMMA CommandsLocal ==
    ASSUME KeyOpsInv, NEW t \in Threads, Commands(t)
    PROVE  ThreadInv(t)' /\ \A u \in Threads \ {t} : UNCHANGED OwnVars(u)
<1> USE KeyOpsAssumption, KeyNumbers
<1>a. TypeOK /\ OpInv(t) /\ ResultInv(t) /\ CureInv(t) /\ VerifyInv(t)
  BY DEF KeyOpsInv
<1> USE DEF TypeOK, At, Status, Authorizes, UsesKey, OwnVars, ThreadInv, OpInv, ResultInv,
            CureInv, VerifyInv, SessionTypeOK, OnDevice, threadVars, verifyVars, AfterFirst
<1> DEFINE Goal == ThreadInv(t)' /\ \A u \in Threads \ {t} : UNCHANGED OwnVars(u)
<1>1. ASSUME Authorize(t) PROVE Goal
  BY <1>a, <1>1 DEF Authorize
<1>2. ASSUME FirstCommand(t) PROVE Goal
  BY <1>a, <1>2 DEF FirstCommand, UseKey
<1>3. ASSUME GenerateKey(t) PROVE Goal
  BY <1>a, <1>3 DEF GenerateKey
<1>4. ASSUME VerifyCommand(t) PROVE Goal
  BY <1>a, <1>4 DEF VerifyCommand
<1>5. ASSUME CureWake(t) PROVE Goal
  BY <1>a, <1>5 DEF CureWake
<1>6. ASSUME CureSleep(t) PROVE Goal
  BY <1>a, <1>6 DEF CureSleep
<1>7. ASSUME SecondCommand(t) PROVE Goal
  BY <1>a, <1>7 DEF SecondCommand, UseKey
<1> QED
  BY <1>1, <1>2, <1>3, <1>4, <1>5, <1>6, <1>7 DEF Commands

LEMMA ReturnsLocal ==
    ASSUME KeyOpsInv, NEW t \in Threads, Returns(t)
    PROVE  ThreadInv(t)' /\ \A u \in Threads \ {t} : UNCHANGED OwnVars(u)
<1> USE KeyOpsAssumption, KeyNumbers
<1>a. TypeOK /\ OpInv(t) /\ ResultInv(t) /\ CureInv(t) /\ VerifyInv(t)
  BY DEF KeyOpsInv
<1> USE DEF TypeOK, Return, At, Status, Authorizes, UsesKey, OwnVars, ThreadInv, OpInv, ResultInv,
            CureInv, VerifyInv, SessionTypeOK, sessionVars, threadVars, verifyVars, HalfBuilt
<1> DEFINE Goal == ThreadInv(t)' /\ \A u \in Threads \ {t} : UNCHANGED OwnVars(u)
<1>1. ASSUME GiveUp(t) PROVE Goal
  BY <1>a, <1>1 DEF GiveUp
<1>2. ASSUME ReturnSignature(t) PROVE Goal
  BY <1>a, <1>2 DEF ReturnSignature
<1>3. ASSUME ReturnLoadedKey(t) PROVE Goal
  BY <1>a, <1>3 DEF ReturnLoadedKey, eccx08_eckey_convert
<1>4. ASSUME ReturnGeneratedKey(t) PROVE Goal
  BY <1>a, <1>4 DEF ReturnGeneratedKey, eccx08_eckey_convert
<1>5. ASSUME ReturnVerdict(t) PROVE Goal
  BY <1>a, <1>5 DEF ReturnVerdict
<1>6. ASSUME NotVerified(t) PROVE Goal
  BY <1>a, <1>6 DEF NotVerified
<1>7. ASSUME FreeKey(t) PROVE Goal
  BY <1>a, <1>7 DEF FreeKey
<1> QED
  BY <1>1, <1>2, <1>3, <1>4, <1>5, <1>6, <1>7 DEF Returns

LEMMA DieLocal ==
    ASSUME KeyOpsInv, NEW p \in Procs, Die(p), NEW u \in Threads PROVE ThreadInv(u)'
<1> USE KeyNumbers
<1>1. CASE u \in ThreadsOf(p)
  BY <1>1 DEF Die, KillProcess, Reset, ThreadInv, OpInv, ResultInv, CureInv, VerifyInv, HalfBuilt,
              Authorizes, UsesKey
<1>2. CASE u \notin ThreadsOf(p)
  <2>1. UNCHANGED OwnVars(u)
    BY <1>2 DEF Die, KillProcess, Reset, OwnVars
  <2> QED
    BY <2>1, OthersKeep DEF KeyOpsInv, ThreadInv
<1> QED
  BY <1>1, <1>2

LEMMA InitEstablishes == Init => KeyOpsInv
BY InitTyped, KeyNumbers
DEF Init, SessionInit, KeyOpsInv, OpInv, ResultInv, CureInv, VerifyInv, HalfBuilt, Authorizes, UsesKey

LEMMA NextKeeps == ASSUME KeyOpsInv, [Next]_vars PROVE KeyOpsInv'
<1>a. TypeOK' /\ \A u \in Threads : ThreadInv(u)
  BY NextTyped DEF KeyOpsInv, ThreadInv
<1>1. ASSUME NEW t \in Threads, ThreadInv(t)', \A u \in Threads \ {t} : UNCHANGED OwnVars(u)
      PROVE  KeyOpsInv'
  BY <1>a, <1>1, OthersKeep DEF KeyOpsInv, ThreadInv
<1>2. ASSUME NEW t \in Threads, Run(t) PROVE KeyOpsInv'
  <2>1. pc[t] # "idle" /\ \A u \in Threads \ {t} : UNCHANGED OwnVars(u)
    BY <1>2, StepMoves DEF Run, KeyOpsInv, TypeOK, opVars, verifyVars, OwnVars
  <2>2. at[t] \in {"opening", "closing"}
    BY <1>a, <2>1 DEF ThreadInv, OpInv
  <2>3. ThreadInv(t)'
    BY <1>a, <1>2, <2>2
    DEF Run, opVars, verifyVars, ThreadInv, OpInv, ResultInv, CureInv, VerifyInv, Authorizes, UsesKey
  <2> QED
    BY <1>1, <2>1, <2>3
<1>3. ASSUME UNCHANGED <<opVars, threadVars>> PROVE KeyOpsInv'
  <2>1. \A u \in Threads : UNCHANGED OwnVars(u)
    BY <1>3 DEF opVars, verifyVars, threadVars, OwnVars
  <2> QED
    BY <1>a, <2>1, OthersKeep DEF KeyOpsInv, ThreadInv
<1>4. ASSUME Interfere \/ UNCHANGED vars PROVE KeyOpsInv'
  BY <1>3, <1>4 DEF Interfere, OnDevice, vars, sessionVars
<1>5. ASSUME NEW p \in Procs, Die(p) PROVE KeyOpsInv'
  BY <1>a, <1>5, DieLocal DEF KeyOpsInv, ThreadInv
<1>6. ASSUME NEW t \in Threads, Opens(t) \/ Commands(t) \/ Returns(t) PROVE KeyOpsInv'
  BY <1>1, <1>6, OpensLocal, CommandsLocal, ReturnsLocal
<1> QED
  BY <1>2, <1>4, <1>5, <1>6 DEF Next, Carries, Opens, Commands, Returns

\* In every reachable state the point that an operation has reached tells what its
\* status, its result and its retry may be.
THEOREM KeyOpsInvariance == Spec => []KeyOpsInv
BY InitEstablishes, NextKeeps, PTL DEF Spec

\* However the chip, the release or the host fails, the ECDSA_SIG that the application
\* is handed has its r and s (eccx08_ecdsa_sign.c:151-156), and every EVP_PKEY its
\* public key (eccx08_eckey_meth.c:561-566), unless EC_KEY_set_public_key failed
\* (:461) or, for keygen, the conversion (:810-815).
THEOREM WholeResults == Spec => []ResultsAreWhole
<1>1. KeyOpsInv => ResultsAreWhole
  BY DEF KeyOpsInv, ResultInv, ResultsAreWhole
<1> QED
  BY <1>1, KeyOpsInvariance, PTL

\* What the chip has produced is returned even when the release that follows fails,
\* by every operation but keygen (eccx08_eckey_meth.c:797-800).
THEOREM NothingLost == Spec => []NothingProducedIsLost
<1>1. KeyOpsInv => NothingProducedIsLost
  BY DEF KeyOpsInv, ResultInv, NothingProducedIsLost
<1> QED
  BY <1>1, KeyOpsInvariance, PTL

\* A signature or a load fails with a health-test error only after the cure and the
\* retry, or when its authorization met the error (eccx08_ecdsa_sign.c:92-106).
THEOREM HealthCure == Spec => []HealthFailureIsCured
<1>1. KeyOpsInv => HealthFailureIsCured
  BY DEF KeyOpsInv, CureInv, UsesKey, HealthFailureIsCured
<1> QED
  BY <1>1, KeyOpsInvariance, PTL

\* eccx08_ecdsa_do_verify returns what the chip has said in its session, and an error when
\* it has said nothing, whatever a failed command left in the flag
\* (eccx08_ecdsa_sign.c:354-369).  So 1 is for a genuine signature only, and 0 for one
\* that is forged or too short.
THEOREM VerdictCorrectness == Spec => VerdictIsTheChips
<1> DEFINE Told(t) == verdict'[t] \notin {verdict[t], "none"} =>
                         /\ verdict'[t] = answer[t]
                         /\ verdict'[t] = "verified" => asked[t] = "genuine"
                         /\ verdict'[t] = "refused" => asked[t] \in {"forged", "short"}
<1>1. ASSUME KeyOpsInv, [Next]_vars PROVE \A t \in Threads : Told(t)
  <2>a. verdict \in [Threads -> Verdicts \cup {"none"}]
    BY <1>1 DEF KeyOpsInv, TypeOK
  <2>1. ASSUME NEW t \in Threads, ReturnVerdict(t) PROVE \A u \in Threads : Told(u)
    <3>1. asked[t] \in Signatures /\ VerifyInv(t) /\ at[t] = "finish" /\ op[t] = "verify"
      BY <1>1, <2>1 DEF KeyOpsInv, OpInv, ReturnVerdict, Return, At
    <3>2. Judged(t) = answer[t] /\ (answer[t] = "verified" => asked[t] = "genuine")
                                /\ (answer[t] = "refused" => asked[t] # "genuine")
      BY <3>1 DEF VerifyInv, Judged
    <3> QED
      BY <2>a, <2>1, <3>1, <3>2 DEF ReturnVerdict, Signatures
  <2>2. ASSUME NEW t \in Threads, Begin(t) PROVE \A u \in Threads : Told(u)
    BY <2>a, <2>2 DEF Begin
  <2>3. ASSUME NEW t \in Threads, NotVerified(t) PROVE \A u \in Threads : Told(u)
    <3>1. answer[t] = "error"
      BY <1>1, <2>3 DEF KeyOpsInv, OpInv, VerifyInv, NotVerified
    <3> QED
      BY <2>a, <2>3, <3>1 DEF NotVerified
  <2>4. ASSUME NEW p \in Procs, Die(p) PROVE \A u \in Threads : Told(u)
    BY <2>a, <2>4 DEF Die, Reset
  <2>5. ASSUME UNCHANGED verdict PROVE \A u \in Threads : Told(u)
    BY <2>5
  <2>6. ASSUME NEW t \in Threads, FreeKey(t) \/ Carries(t), ~ReturnVerdict(t) PROVE UNCHANGED verdict
    BY <2>6
    DEF FreeKey, Carries, Run, Opened, NotOpened, Close, Closed, Authorize, FirstCommand,
        GenerateKey, VerifyCommand, CureWake, CureSleep, SecondCommand, GiveUp,
        ReturnSignature, ReturnLoadedKey, ReturnGeneratedKey, opVars, verifyVars
  <2>7. ASSUME Interfere \/ UNCHANGED vars PROVE UNCHANGED verdict
    BY <2>7 DEF Interfere, vars, opVars, verifyVars
  <2> QED
    BY <1>1, <2>1, <2>2, <2>4, <2>5, <2>6, <2>3, <2>7 DEF Next
<1>2. [][Next]_vars /\ []KeyOpsInv => VerdictIsTheChips
  BY <1>1, PTL DEF VerdictIsTheChips
<1> QED
  BY <1>2, KeyOpsInvariance, PTL DEF Spec

(***************************************************************************)
(* Each operation is a well-behaved user of the session functions.  The    *)
(* theorems of ChipProofs hold of SP, the operations with their points     *)
(* mapped to the places of SessionUser.                                    *)
(***************************************************************************)
SP == INSTANCE ChipProofs WITH at <- Place

LEMMA SPAssumptions ==
    SP!FaultsAssumption /\ SP!NoThreadAssumption /\ SP!ProcOfAssumption /\ SP!HandlesAssumption
BY FaultsAssumption, NoThreadAssumption, ProcOfAssumption, HandlesAssumption
DEF SP!FaultsAssumption, SP!NoThreadAssumption, SP!ProcOfAssumption, SP!HandlesAssumption,
    FaultsAssumption, NoThreadAssumption, ProcOfAssumption, HandlesAssumption, AllFaults,
    SP!AllFaults

LEMMA SameInit == SessionInit <=> SP!SessionInit
BY DEF SessionInit, SP!SessionInit, MutexInit, SP!MutexInit, ChipInit, SP!ChipInit, Parked,
       SP!Parked

LEMMA SameEnter == ASSUME NEW t \in Threads, NEW c PROVE Enter(t, c) <=> SP!Enter(t, c)
BY DEF Enter, SP!Enter, Goto, SP!Goto, Returning, SP!Returning, procVars, SP!procVars,
       mutexVars, SP!mutexVars

LEMMA SameChip ==
    /\ atcab_wakeup <=> SP!atcab_wakeup
    /\ atcab_sleep <=> SP!atcab_sleep
    /\ \A s : atcab_command(s) <=> SP!atcab_command(s)
    /\ UnlockedClient <=> SP!UnlockedClient
    /\ Statuses = SP!Statuses
BY DEF atcab_wakeup, SP!atcab_wakeup, atcab_sleep, SP!atcab_sleep, atcab_command,
       SP!atcab_command, WakeResults, SP!WakeResults, SleepResults, SP!SleepResults,
       CommandResults, SP!CommandResults, Lost, SP!Lost, Parked, SP!Parked,
       UnlockedClient, SP!UnlockedClient, Statuses, SP!Statuses

LEMMA SameVars ==
    /\ UNCHANGED sessionVars <=> UNCHANGED SP!sessionVars
    /\ OnDevice <=> UNCHANGED <<SP!threadVars, SP!procVars, SP!mutexVars>>
BY DEF sessionVars, SP!sessionVars, OnDevice, threadVars, SP!threadVars, procVars,
       SP!procVars, mutexVars, SP!mutexVars

LEMMA SameKill == ASSUME NEW p \in Procs PROVE KillProcess(p) <=> SP!KillProcess(p)
BY DEF KillProcess, SP!KillProcess, OwnerDies, SP!OwnerDies, ThreadsOf, SP!ThreadsOf

LEMMA SameStep == ASSUME NEW t \in Threads PROVE SessionStep(t) <=> SP!SessionStep(t)
<1> USE DEF Goto, SP!Goto, Returning, SP!Returning, Set, SP!Set, procVars, SP!procVars,
            mutexVars, SP!mutexVars, AfterLock, SP!AfterLock
<1>1. eccx08_global_lock(t) <=> SP!eccx08_global_lock(t)
  BY DEF eccx08_global_lock, SP!eccx08_global_lock, TestHandle, SP!TestHandle, CreateMutex,
         SP!CreateMutex, CreateMutexFails, SP!CreateMutexFails, TestState, SP!TestState,
         LockMutex, SP!LockMutex, LockMutexFails, SP!LockMutexFails, MarkOurs, SP!MarkOurs,
         hal_os_lock_mutex, SP!hal_os_lock_mutex
<1>2. eccx08_global_unlock(t) <=> SP!eccx08_global_unlock(t)
  BY DEF eccx08_global_unlock, SP!eccx08_global_unlock, UnlockMutex, SP!UnlockMutex,
         MarkNotOurs, SP!MarkNotOurs, hal_os_unlock_mutex, SP!hal_os_unlock_mutex
<1>3. atcab_init_safe(t) <=> SP!atcab_init_safe(t)
  BY SameChip
  DEF atcab_init_safe, SP!atcab_init_safe, ConfigFails, SP!ConfigFails, AllocateConfig,
      SP!AllocateConfig, atcab_init, SP!atcab_init, atcab_init_fails, SP!atcab_init_fails,
      ResyncWake, SP!ResyncWake, ResyncSleep, SP!ResyncSleep, AfterInit, SP!AfterInit
<1>4. atcab_release_safe(t) <=> SP!atcab_release_safe(t)
  BY SameChip
  DEF atcab_release_safe, SP!atcab_release_safe, NoConfig, SP!NoConfig, HasConfig,
      SP!HasConfig, ParkWake, SP!ParkWake, ParkSleep, SP!ParkSleep, atcab_release,
      SP!atcab_release
<1> QED
  BY <1>1, <1>2, <1>3, <1>4 DEF SessionStep, SP!SessionStep

LEMMA PlaceMoves ==
    ASSUME TypeOK, NEW t \in Threads, NEW from, NEW to, At(t, from, to)
    PROVE  Place[t] = PlaceOf(from) /\ Place' = [Place EXCEPT ![t] = PlaceOf(to)]
BY DEF TypeOK, At, Place

LEMMA PlaceIsFunction == Place = [t \in Threads |-> Place[t]]
BY DEF Place

LEMMA PlaceStays == ASSUME UNCHANGED at PROVE UNCHANGED Place
BY DEF Place

LEMMA Places ==
    /\ PlaceOf("out") = "out" /\ PlaceOf("finish") = "out"
    /\ PlaceOf("opening") = "opening" /\ PlaceOf("closing") = "closing"
    /\ \A a \in {"auth", "first", "cure_wake", "cure_sleep", "second", "ending"} :
          PlaceOf(a) = "open"
BY DEF PlaceOf

UserStep == [SP!Next]_(SP!userVars)

LEMMA OpensAsUser ==
    ASSUME KeyOpsInv, NEW t \in Threads, Opens(t) PROVE UserStep
<1> USE Places, PlaceMoves
<1>a. TypeOK
  BY DEF KeyOpsInv
<1>1. ASSUME Begin(t) PROVE SP!Open(t)
  BY <1>a, <1>1, SameEnter DEF Begin, SP!Open, SP!Move
<1>2. ASSUME Opened(t) \/ NotOpened(t) PROVE SP!Opened(t)
  <2>1. PICK to \in {"auth", "first", "finish"} :
           /\ At(t, "opening", to)
           /\ PlaceOf(to) = IF status[t] = "SUCCESS" THEN "open" ELSE "out"
    BY <1>2 DEF Opened, NotOpened
  <2> QED
    BY <1>a, <1>2, <2>1, SameVars DEF Opened, NotOpened, SP!Opened, SP!Move
<1>3. ASSUME Close(t) PROVE SP!Close(t)
  BY <1>a, <1>3, SameEnter DEF Close, SP!Close, SP!Move
<1>4. ASSUME Closed(t) PROVE SP!Closed(t)
  BY <1>a, <1>4, SameVars DEF Closed, SP!Closed, SP!Move
<1> QED
  BY <1>1, <1>2, <1>3, <1>4 DEF Opens, UserStep, SP!Next, SP!Step

\* A wrong password is an answer of a CheckMac that the chip has carried out; a password
\* without a key asks nothing of it.
LEMMA CommandsAsUser ==
    ASSUME KeyOpsInv, NEW t \in Threads, Commands(t) PROVE UserStep
<1> USE Places, PlaceMoves
<1>a. TypeOK
  BY DEF KeyOpsInv
<1>1. Place[t] = "open" /\ UNCHANGED Place
  <2> DEFINE Inside == {"auth", "first", "cure_wake", "cure_sleep", "second", "ending"}
  <2>1. PICK from \in Inside, to \in Inside : At(t, from, to)
    BY DEF Commands, Authorize, FirstCommand, GenerateKey, VerifyCommand, CureWake,
           CureSleep, SecondCommand, AfterFirst
  <2>2. Place[t] = "open" /\ Place' = [Place EXCEPT ![t] = "open"]
    BY <1>a, <2>1
  <2> QED
    BY <2>2, PlaceIsFunction
<1>2. UNCHANGED <<SP!threadVars, SP!procVars, SP!mutexVars>>
  BY SameVars
  DEF Commands, Authorize, FirstCommand, GenerateKey, VerifyCommand, CureWake, CureSleep,
      SecondCommand
<1>3. CASE CureWake(t)
  <2>1. SP!CureWake(t)
    BY <1>1, <1>2, <1>3, SameChip DEF CureWake, SP!CureWake
  <2> QED
    BY <2>1 DEF UserStep, SP!Next, SP!Step
<1>4. CASE CureSleep(t)
  <2>1. SP!CureSleep(t)
    BY <1>1, <1>2, <1>4, SameChip DEF CureSleep, SP!CureSleep
  <2> QED
    BY <2>1 DEF UserStep, SP!Next, SP!Step
<1>5. CASE Authorize(t) \/ FirstCommand(t) \/ GenerateKey(t) \/ VerifyCommand(t) \/ SecondCommand(t)
  <2>1. UNCHANGED chip \/ \E s \in Statuses : atcab_command(s)
    BY <1>5
    DEF Authorize, Authorized, FirstCommand, UseKey, GenerateKey, VerifyCommand,
        SecondCommand, OpStatuses, Statuses, atcab_command, CommandResults, Lost
  <2>2. CASE UNCHANGED chip
    BY <1>1, <1>2, <2>2 DEF UserStep, SP!userVars, SP!sessionVars
  <2>3. CASE \E s \in Statuses : atcab_command(s)
    <3>1. SP!Command(t)
      BY <1>1, <1>2, <2>3, SameChip DEF SP!Command
    <3> QED
      BY <3>1 DEF UserStep, SP!Next, SP!Step
  <2> QED
    BY <2>1, <2>2, <2>3
<1> QED
  BY <1>3, <1>4, <1>5 DEF Commands

LEMMA ReturnsAsUser ==
    ASSUME KeyOpsInv, NEW t \in Threads, Returns(t) PROVE UserStep
<1>1. UNCHANGED sessionVars
  BY DEF Returns, GiveUp, ReturnSignature, ReturnLoadedKey, ReturnGeneratedKey,
         ReturnVerdict, NotVerified, FreeKey, Return
<1>2. UNCHANGED at \/ At(t, "finish", "out")
  BY DEF Returns, GiveUp, ReturnSignature, ReturnLoadedKey, ReturnGeneratedKey,
         ReturnVerdict, NotVerified, FreeKey, Return
<1>3. UNCHANGED Place
  <2>1. CASE At(t, "finish", "out")
    <3>1. Place[t] = "out" /\ Place' = [Place EXCEPT ![t] = "out"]
      BY <2>1, PlaceMoves, Places DEF KeyOpsInv
    <3> QED
      BY <3>1, PlaceIsFunction
  <2> QED
    BY <1>2, <2>1, PlaceStays
<1> QED
  BY <1>1, <1>3, SameVars DEF UserStep, SP!userVars

LEMMA DieAsUser ==
    ASSUME TypeOK, NEW p \in Procs, Die(p) PROVE UserStep
<1>1. Place' = [t \in Threads |-> IF t \in SP!ThreadsOf(p) THEN "out" ELSE Place[t]]
  BY Places DEF Die, Reset, Place, ThreadsOf, SP!ThreadsOf
<1> QED
  BY <1>1, SameKill DEF Die, UserStep, SP!Next, SP!Die

LEMMA StepAsUser == ASSUME KeyOpsInv, [Next]_vars PROVE UserStep
<1>1. ASSUME NEW t \in Threads, Run(t) PROVE UserStep
  <2>1. SP!Run(t)
    BY <1>1, SameStep, PlaceStays DEF Run, opVars, SP!Run
  <2> QED
    BY <2>1 DEF UserStep, SP!Next, SP!Step
<1>2. ASSUME Interfere PROVE UserStep
  <2>1. SP!Interfere
    BY <1>2, SameChip, SameVars, PlaceStays DEF Interfere, opVars, SP!Interfere
  <2> QED
    BY <2>1 DEF UserStep, SP!Next
<1>3. ASSUME UNCHANGED vars PROVE UserStep
  BY <1>3, SameVars, PlaceStays DEF vars, opVars, UserStep, SP!userVars
<1>4. ASSUME NEW p \in Procs, Die(p) PROVE UserStep
  BY <1>4, DieAsUser DEF KeyOpsInv
<1> QED
  BY <1>1, <1>2, <1>3, <1>4, OpensAsUser, CommandsAsUser, ReturnsAsUser
  DEF Next, Carries, Opens, Commands, Returns

LEMMA AsUser == Spec => SP!Spec
<1>1. Init => SP!Init
  BY SameInit, Places DEF Init, SP!Init, Place
<1>2. [][Next]_vars /\ []KeyOpsInv => [][SP!Next]_(SP!userVars)
  BY StepAsUser, PTL DEF UserStep
<1> QED
  BY <1>1, <1>2, KeyOpsInvariance, PTL DEF Spec, SP!Spec

\* SP and Users are the same instance of SessionUser.
LEMMA SameUsers ==
    /\ SP!Init <=> Users!Init
    /\ UNCHANGED SP!userVars <=> UNCHANGED Users!userVars
    /\ SP!Next <=> Users!Next
BY DEF Users!Parked, SP!Parked, Users!ChipInit, SP!ChipInit, Users!Statuses,
       SP!Statuses, Users!Lost, SP!Lost, Users!WakeResults, SP!WakeResults,
       Users!SleepResults, SP!SleepResults, Users!CommandResults, SP!CommandResults,
       Users!atcab_wakeup, SP!atcab_wakeup, Users!atcab_sleep, SP!atcab_sleep,
       Users!atcab_command, SP!atcab_command, Users!UnlockedClient, SP!UnlockedClient,
       Users!MutexInit, SP!MutexInit, Users!hal_os_lock_mutex, SP!hal_os_lock_mutex,
       Users!hal_os_unlock_mutex, SP!hal_os_unlock_mutex, Users!OwnerDies, SP!OwnerDies,
       Users!threadVars, SP!threadVars, Users!procVars, SP!procVars, Users!mutexVars,
       SP!mutexVars, Users!sessionVars, SP!sessionVars, Users!SessionInit,
       SP!SessionInit, Users!Goto, SP!Goto, Users!Returning, SP!Returning, Users!Set,
       SP!Set, Users!Enter, SP!Enter, Users!AfterLock, SP!AfterLock, Users!TestHandle,
       SP!TestHandle, Users!CreateMutex, SP!CreateMutex, Users!CreateMutexFails,
       SP!CreateMutexFails, Users!TestState, SP!TestState, Users!LockMutex,
       SP!LockMutex, Users!LockMutexFails, SP!LockMutexFails, Users!MarkOurs,
       SP!MarkOurs, Users!UnlockMutex, SP!UnlockMutex, Users!MarkNotOurs,
       SP!MarkNotOurs, Users!ConfigFails, SP!ConfigFails, Users!AllocateConfig,
       SP!AllocateConfig, Users!AfterInit, SP!AfterInit, Users!atcab_init,
       SP!atcab_init, Users!atcab_init_fails, SP!atcab_init_fails, Users!ResyncWake,
       SP!ResyncWake, Users!ResyncSleep, SP!ResyncSleep, Users!atcab_init_safe,
       SP!atcab_init_safe, Users!NoConfig, SP!NoConfig, Users!HasConfig, SP!HasConfig,
       Users!ParkWake, SP!ParkWake, Users!ParkSleep, SP!ParkSleep, Users!atcab_release,
       SP!atcab_release, Users!atcab_release_safe, SP!atcab_release_safe,
       Users!SessionStep, SP!SessionStep, Users!eccx08_global_lock,
       SP!eccx08_global_lock, Users!eccx08_global_unlock, SP!eccx08_global_unlock,
       Users!ThreadsOf, SP!ThreadsOf, Users!KillProcess, SP!KillProcess, Users!userVars,
       SP!userVars, Users!Init, SP!Init, Users!Move, SP!Move, Users!Open, SP!Open,
       Users!Opened, SP!Opened, Users!Command, SP!Command, Users!CureWake, SP!CureWake,
       Users!CureSleep, SP!CureSleep, Users!Close, SP!Close, Users!Closed, SP!Closed,
       Users!Run, SP!Run, Users!Step, SP!Step, Users!Die, SP!Die, Users!Interfere,
       SP!Interfere, Users!Next, SP!Next

\* Each operation opens one session with atcab_init_safe, works in it and releases it
\* once, on every path (eccx08_ecdsa_sign.c:114-157, 328-338, eccx08_eckey_meth.c:525-560,
\* 778-797): every run of KeyOps is a run of SessionUser.
THEOREM Refinement == Spec => ImplementsSessionUser
<1>1. [SP!Next]_(SP!userVars) <=> [Users!Next]_(Users!userVars)
  BY SameUsers
<1>2. SP!Spec => Users!Spec
  BY <1>1, SameUsers, PTL DEF SP!Spec, Users!Spec
<1> QED
  BY <1>2, AsUser DEF ImplementsSessionUser

LEMMA SessionKept == ASSUME SingleThreaded PROVE Spec => []SP!SessionInv
<1>1. SP!SingleThreaded
  BY DEF SingleThreaded, SP!SingleThreaded, ThreadsOf, SP!ThreadsOf
<1>2. SP!Spec => []SP!SessionInv
  BY <1>1, SP!SessionInvariance, SPAssumptions
<1> QED
  BY <1>2, AsUser, PTL

\* For any number of processes of one thread each, an operation has the chip for
\* itself from the return of atcab_init_safe to the sleep of atcab_release_safe, and
\* finds it parked, where ChipStaysKnown.
THEOREM ChipRefinement ==
    ASSUME SingleThreaded, SP!ChipStaysKnown PROVE Spec => SP!ImplementsExclusiveChip
<1>1. SP!SingleThreaded
  BY DEF SingleThreaded, SP!SingleThreaded, ThreadsOf, SP!ThreadsOf
<1>2. SP!Spec => SP!ImplementsExclusiveChip
  BY <1>1, SP!Refinement, SPAssumptions
<1> QED
  BY <1>2, AsUser, PTL

(***************************************************************************)
(* A session that has its result owns the mutex until it gives it back.    *)
(***************************************************************************)
HasResult(t) ==
    /\ at[t] \in {"ending", "closing"} /\ raw[t] # 0 /\ pc[t] # "unmark"
    /\ ~(at[t] = "closing" /\ pc[t] = "idle")

LEMMA ResultIsOwned ==
    ASSUME SP!SessionInv, NEW t \in Threads, HasResult(t) \/ at[t] = "first" PROVE owner = t
<1>1. SP!ThreadInv(t)
  BY DEF SP!SessionInv
<1>2. Place[t] = IF at[t] = "closing" THEN "closing" ELSE "open"
  BY Places DEF HasResult, Place
<1>3. SP!Holding(t)
  BY <1>1, <1>2
  DEF SP!ThreadInv, SP!PlaceInv, SP!Holding, HasResult, SP!UnlockPCs, SP!ReleasePCs
<1> QED
  BY <1>1, <1>3 DEF SP!ThreadInv

LEMMA StableStep ==
    ASSUME KeyOpsInv, SP!SessionInv, KeyStableInSession, [Next]_vars
    PROVE  KeyStableInSession'
<1>a. TypeOK /\ \A t \in Threads : ThreadInv(t) /\ (HasResult(t) => raw[t] = slot)
  BY DEF KeyOpsInv, ThreadInv, KeyStableInSession, HasResult
<1>b. ASSUME \A t \in Threads : HasResult(t)' => raw'[t] = slot' PROVE KeyStableInSession'
  BY <1>b DEF KeyStableInSession, HasResult
<1>1. ASSUME NEW u \in Threads, UNCHANGED <<OwnVars(u), slot>>
      PROVE  HasResult(u)' => raw'[u] = slot'
  BY <1>a, <1>1 DEF OwnVars, HasResult
<1>2. ASSUME NEW t \in Threads, UNCHANGED slot, \A u \in Threads \ {t} : UNCHANGED OwnVars(u),
             HasResult(t)' => raw'[t] = slot'
      PROVE  KeyStableInSession'
  BY <1>b, <1>1, <1>2
<1>3. ASSUME NEW t \in Threads, Opens(t) PROVE KeyStableInSession'
  <2>1. UNCHANGED <<slot, raw>> /\ (HasResult(t)' => HasResult(t))
    BY <1>a, <1>3
    DEF Opens, Begin, Opened, NotOpened, Close, Closed, TypeOK, At, HasResult, ThreadInv, OpInv
  <2> QED
    BY <1>2, <1>3, <1>a, <2>1, OpensLocal
<1>4. ASSUME NEW t \in Threads, GenerateKey(t) PROVE KeyStableInSession'
  <2>1. owner = t
    BY <1>4, ResultIsOwned DEF GenerateKey, At
  <2>2. \A u \in Threads \ {t} : UNCHANGED OwnVars(u)
    BY <1>4, CommandsLocal DEF Commands
  <2>3. ASSUME NEW u \in Threads \ {t} PROVE ~HasResult(u)'
    BY <2>1, <2>2, ResultIsOwned DEF HasResult, OwnVars
  <2>4. HasResult(t)' => raw'[t] = slot'
    BY <1>4, <1>a DEF GenerateKey, At, TypeOK, HasResult, ThreadInv, ResultInv
  <2> QED
    BY <1>b, <2>3, <2>4
<1>5. ASSUME NEW t \in Threads, Commands(t), ~GenerateKey(t) PROVE KeyStableInSession'
  <2>1. UNCHANGED slot
    BY <1>5
    DEF Commands, Authorize, FirstCommand, VerifyCommand, CureWake, CureSleep, SecondCommand
  <2>2. HasResult(t)' => raw'[t] = slot'
    BY <1>5, <1>a
    DEF Commands, Authorize, FirstCommand, VerifyCommand, CureWake, CureSleep, SecondCommand,
        UseKey, At, TypeOK, HasResult, ThreadInv, ResultInv
  <2> QED
    BY <1>2, <1>5, <2>1, <2>2, CommandsLocal
<1>6. ASSUME NEW t \in Threads, Returns(t) PROVE KeyStableInSession'
  <2>1. UNCHANGED slot /\ ~HasResult(t)'
    BY <1>6, <1>a
    DEF Returns, GiveUp, ReturnSignature, ReturnLoadedKey, ReturnGeneratedKey, ReturnVerdict,
        NotVerified, FreeKey, Return, At, TypeOK, HasResult
  <2> QED
    BY <1>2, <1>6, <2>1, ReturnsLocal
<1>7. ASSUME NEW t \in Threads, Run(t) PROVE KeyStableInSession'
  <2>1. UNCHANGED opVars /\ pc[t] # "idle" /\ \A u \in Threads \ {t} : UNCHANGED OwnVars(u)
    BY <1>7, <1>a, StepMoves DEF Run, TypeOK, opVars, verifyVars, OwnVars
  <2>2. pc[t] = "unmark" => pc'[t] = "idle"
    BY <1>7, <1>a, StepMoves DEF Run, TypeOK
  <2>3. HasResult(t)' => HasResult(t)
    BY <2>1, <2>2, <1>a DEF HasResult, opVars, ThreadInv, OpInv
  <2> QED
    BY <1>2, <1>a, <2>1, <2>3 DEF opVars
<1>8. ASSUME UNCHANGED <<opVars, threadVars>> PROVE KeyStableInSession'
  BY <1>8, <1>b, <1>1 DEF opVars, verifyVars, threadVars, OwnVars
<1>9. ASSUME NEW p \in Procs, Die(p) PROVE KeyStableInSession'
  <2>1. ASSUME NEW u \in Threads PROVE ~HasResult(u)' \/ UNCHANGED <<OwnVars(u), slot>>
    BY <1>9 DEF Die, KillProcess, Reset, HasResult, OwnVars
  <2> QED
    BY <1>b, <1>1, <2>1
<1> QED
  BY <1>3, <1>4, <1>5, <1>6, <1>7, <1>8, <1>9
  DEF Next, Carries, Opens, Commands, Returns, Interfere, OnDevice, vars, sessionVars

\* Nobody generates a key between a command and the release that follows it, and keygen
\* never reports the public key of the key it replaced: the session's result is that of
\* the key in the slot for as long as the session lasts (eccx08_engine.c:44-51).
THEOREM KeyStability == ASSUME SingleThreaded PROVE Spec => []KeyStableInSession
<1>1. Init => KeyStableInSession
  BY DEF Init, KeyStableInSession
<1>2. KeyOpsInv /\ SP!SessionInv /\ KeyStableInSession /\ [Next]_vars => KeyStableInSession'
  BY StableStep
<1> QED
  BY <1>1, <1>2, KeyOpsInvariance, SessionKept, PTL DEF Spec
================================================================================
