------------------------------ MODULE DigestProofs ------------------------------
(***************************************************************************)
(* Theorems about Digest: sessions that outlive the call that opened them, *)
(* and the calls nested in them.                                           *)
(***************************************************************************)
EXTENDS DigestInvariant, SessionCallsProofs

(***************************************************************************)
(* Type correctness.                                                       *)
(***************************************************************************)
\* The steps of a digest and of the operations next to it: those that enter the
\* session functions, those that return from them, and commands.
Enters(t) ==
    \/ eccx08_sha256_init(t) \/ InitNoSession(t) \/ HwInitFails(t)
    \/ eccx08_sha256_final(t) \/ BeginOp(t) \/ EndOp(t)

Returns(t) ==
    \/ InitSession(t) \/ InitReleased(t) \/ FinalReleased(t) \/ OpSession(t) \/ OpReleased(t)

Commands(t) == HwInit(t) \/ eccx08_sha256_update(t)

LEMMA OwnStepTyped ==
    ASSUME TypeOK, NEW t \in Threads, Enters(t) \/ Returns(t) \/ Commands(t) PROVE TypeOK'
<1> USE DEF Enters, Returns, Commands, eccx08_sha256_init, InitNoSession, HwInitFails,
            eccx08_sha256_final, BeginOp, EndOp, InitSession, InitReleased, FinalReleased,
            OpSession, OpReleased, HwInit, eccx08_sha256_update
<1>1. SessionTypeOK'
  <2>1. CASE Enters(t)
    BY <2>1, EnterTyped, CommandAndReleaseTyped DEF TypeOK, Calls
  <2>2. CASE Returns(t)
    BY <2>2, UnchangedTyped DEF TypeOK
  <2>3. CASE Commands(t)
    BY <2>3, CommandTyped, OnDeviceTyped DEF TypeOK, SessionTypeOK
  <2> QED
    BY <2>1, <2>2, <2>3
<1>2. at' \in [Threads -> AtPoints] /\ ctx' \in [Threads -> Contexts]
  BY DEF TypeOK, At, AtPoints, digestVars
<1>3. digests' \in [Threads -> SUBSET Contexts]
  BY DEF TypeOK, digestVars
<1> QED
  BY <1>1, <1>2, <1>3 DEF TypeOK

LEMMA InitTyped == Init => TypeOK
BY SessionInitTyped DEF Init, TypeOK, AtPoints

LEMMA NextTyped == ASSUME TypeOK, [Next]_vars PROVE TypeOK'
<1>1. ASSUME NEW t \in Threads, Run(t) PROVE TypeOK'
  BY <1>1, StepTyped DEF Run, TypeOK, digestVars
<1>2. ASSUME NEW p \in Procs, Die(p) PROVE TypeOK'
  BY <1>2, KillTyped DEF Die, TypeOK, Reset, AtPoints
<1>3. ASSUME UNCHANGED vars PROVE TypeOK'
  BY <1>3, UnchangedTyped DEF vars, digestVars, TypeOK
<1> QED
  BY <1>1, <1>2, <1>3, OwnStepTyped DEF Next, Step, Enters, Returns, Commands

\* Every variable of the digests keeps its type, whatever the threads nest.
THEOREM TypeCorrectness == Spec => []TypeOK
BY InitTyped, NextTyped, PTL DEF Spec

(***************************************************************************)
(* The mutex and its flag.                                                 *)
(***************************************************************************)
LockInvs == TypeOK /\ \A t \in Threads : LockInv(t)

\* What a thread of a process of its own sees when another one moves.
Untouched(u) == Kept(u) /\ at'[u] = at[u] /\ digests'[u] = digests[u]

LEMMA OwnStepLocks ==
    ASSUME SingleThreaded, LockInvs, NEW t \in Threads, Enters(t) \/ Returns(t) \/ Commands(t)
    PROVE  LockInv(t)' /\ \A u \in Threads \ {t} : Untouched(u)
<1>a. TypeOK /\ SessionTypeOK /\ LockInv(t)
  BY DEF LockInvs, TypeOK
<1> USE DEF Enters, Returns, Commands, eccx08_sha256_init, InitNoSession, HwInitFails,
            eccx08_sha256_final, BeginOp, EndOp, InitSession, InitReleased, FinalReleased,
            OpSession, OpReleased, HwInit, eccx08_sha256_update
<1>1. \A u \in Threads \ {t} : at'[u] = at[u] /\ digests'[u] = digests[u]
  BY <1>a DEF TypeOK, At, digestVars
<1>2. CASE Enters(t)
  <2>1. /\ \A u \in Threads \ {t} : Kept(u)
        /\ pc[t] = "idle" /\ pc'[t] = "lock" /\ UNCHANGED <<state, ifacecfg, handle, owner>>
    BY <1>2, <1>a, EnterKept, CommandAndReleaseKept
  <2>2. LockInv(t)'
    BY <1>a, <2>1 DEF LockInv, InitPCs, ReleasePCs
  <2> QED
    BY <1>1, <2>1, <2>2 DEF Untouched
<1>3. CASE Returns(t) \/ Commands(t)
  <2>1. \A u \in Threads : Kept(u)
    BY <1>3, UnchangedKept DEF OnDevice, sessionVars
  <2> QED
    BY <1>a, <1>1, <2>1, KeptPromises DEF Untouched
<1> QED
  BY <1>2, <1>3

LEMMA LocksKept ==
    ASSUME SingleThreaded, LockInvs, [Next]_vars PROVE LockInvs'
<1>a. TypeOK' /\ SessionTypeOK /\ \A t \in Threads : LockInv(t)
  BY NextTyped DEF LockInvs, TypeOK
<1>1. ASSUME NEW t \in Threads, LockInv(t)', \A u \in Threads \ {t} : Kept(u) PROVE LockInvs'
  BY <1>a, <1>1, KeptPromises DEF LockInvs
<1>2. ASSUME NEW t \in Threads, Run(t) PROVE LockInvs'
  BY <1>a, <1>1, <1>2, StepKept, StepPromises DEF Run
<1>3. ASSUME NEW p \in Procs, Die(p) PROVE LockInvs'
  BY <1>a, <1>3, KillKept, KeptPromises DEF Die, LockInvs
<1>4. ASSUME UNCHANGED vars PROVE LockInvs'
  BY <1>a, <1>4, UnchangedKept, KeptPromises DEF vars, sessionVars, LockInvs
<1> QED
  BY <1>1, <1>2, <1>3, <1>4, OwnStepLocks
  DEF Next, Step, Enters, Returns, Commands, Untouched

LEMMA LocksInit == Init => LockInvs
BY InitTyped, ProcOfAssumption, NoThreadAssumption
DEF Init, SessionInit, MutexInit, LockInvs, LockInv, InitPCs, ReleasePCs

\* However deep a process of one thread nests its calls in the session of a digest, it
\* never waits for the mutex it holds itself, which is not recursive: global_lock.state
\* keeps it from that (eccx08_engine.c:65-69 and 88).
THEOREM NoDeadlockWithItself == ASSUME SingleThreaded PROVE Spec => []NoSelfDeadlock
<1>1. LockInvs => NoSelfDeadlock
  BY DEF LockInvs, LockInv, NoSelfDeadlock
<1> QED
  BY <1>1, LocksInit, LocksKept, PTL DEF Spec

(***************************************************************************)
(* Sessions, each of which its release ends where LocksAreGranted.         *)
(***************************************************************************)
LEMMA UntouchedKeeps ==
    ASSUME NEW u \in Threads, Untouched(u), DigestPlaceInv(u) PROVE DigestPlaceInv(u)'
<1>1. /\ HasSession(u)' <=> HasSession(u)
      /\ HasNothing(u)' <=> HasNothing(u)
      /\ InitInv(u)' <=> InitInv(u)
      /\ ReleaseInv(u)' <=> ReleaseInv(u)
      /\ OpeningInv(u)' <=> OpeningInv(u)
  BY KeptPromises DEF Untouched
<1> QED
  BY <1>1 DEF Untouched, Kept, DigestPlaceInv, NestedInit, LeftNothing

\* A release that is over has left nothing.
LEMMA ReleaseEnds ==
    ASSUME SessionTypeOK, NEW t \in Threads, LockInv(t), ReleaseInv(t), pc[t] = "idle"
    PROVE  LeftNothing(t)
BY ProcOfAssumption
DEF LocksAreGranted, SessionTypeOK, LockInv, ReleaseInv, HasNothing, LeftNothing

LEMMA EnterPlace ==
    ASSUME DigestInv, NEW t \in Threads, Enters(t) PROVE DigestPlaceInv(t)'
<1>a. TypeOK /\ SessionTypeOK /\ LockInv(t) /\ DigestPlaceInv(t)
  BY DEF DigestInv, TypeOK
<1> USE DEF Enters, eccx08_sha256_init, InitNoSession, HwInitFails, eccx08_sha256_final,
            BeginOp, EndOp
<1>1. /\ pc[t] = "idle" /\ pc'[t] = "lock" /\ UNCHANGED <<state, ifacecfg, handle, owner, digests>>
  BY <1>a, EnterKept, CommandAndReleaseKept
<1>2. CASE eccx08_sha256_init(t) \/ BeginOp(t)
  <2>1. at[t] = "out" /\ at'[t] \in {"init", "op_init"} /\ call'[t] = "init"
    BY <1>2, <1>a, EnterKept DEF TypeOK, At
  <2> QED
    BY <1>a, <1>1, <2>1
    DEF DigestPlaceInv, NestedInit, LeftNothing, OpeningInv, InitInv, HasNothing, HasSession,
        InitPCs, ReleasePCs, UnlockPCs
<1>3. CASE InitNoSession(t) \/ HwInitFails(t) \/ eccx08_sha256_final(t) \/ EndOp(t)
  <2>1. at'[t] \in {"init_release", "final_release", "op_release"} /\ call'[t] = "release"
    BY <1>3, <1>a, EnterKept, CommandAndReleaseKept DEF TypeOK, At
  <2> QED
    BY <1>a, <1>1, <2>1 DEF DigestPlaceInv, ReleaseInv, InitPCs, ReleasePCs, UnlockPCs
<1> QED
  BY <1>2, <1>3

LEMMA ReturnPlace ==
    ASSUME DigestInv, NEW t \in Threads, Returns(t) \/ Commands(t)
    PROVE  DigestPlaceInv(t)'
<1>a. TypeOK /\ SessionTypeOK /\ LockInv(t) /\ DigestPlaceInv(t)
  BY DEF DigestInv, TypeOK
<1>b. Kept(t)
  BY UnchangedKept
  DEF Returns, Commands, InitSession, InitReleased, FinalReleased, OpSession, OpReleased,
      HwInit, eccx08_sha256_update, OnDevice, sessionVars
<1>c. (HasSession(t)' <=> HasSession(t)) /\ (HasNothing(t)' <=> HasNothing(t))
  BY <1>b, KeptPromises
<1>d. LeftNothing(t)' <=> LeftNothing(t)
  BY <1>b, <1>c DEF LeftNothing, Kept
<1> USE DEF At, TypeOK
<1>1. CASE InitReleased(t) \/ FinalReleased(t) \/ OpReleased(t)
  <2>1. pc[t] = "idle" /\ LeftNothing(t) /\ at'[t] = "out"
    BY <1>1, <1>a, ReleaseEnds DEF InitReleased, FinalReleased, OpReleased, DigestPlaceInv
  <2> QED
    BY <2>1, <1>b, <1>d DEF DigestPlaceInv, Kept
<1>2. CASE InitSession(t)
  <2>1. pc[t] = "idle" /\ HasSession(t) /\ at'[t] = "hw_init"
    BY <1>2, <1>a DEF InitSession, DigestPlaceInv, NestedInit, InitInv
  <2> QED
    BY <2>1, <1>b, <1>c DEF DigestPlaceInv, Kept
<1>3. CASE OpSession(t) /\ status[t] = "SUCCESS"
  <2>1. pc[t] = "idle" /\ HasSession(t) /\ at'[t] = "op"
    BY <1>3, <1>a DEF OpSession, DigestPlaceInv, NestedInit, InitInv
  <2> QED
    BY <2>1, <1>b, <1>c DEF DigestPlaceInv, Kept
<1>4. CASE OpSession(t) /\ status[t] # "SUCCESS"
  <2>1. pc[t] = "idle" /\ at'[t] = "out" /\ UNCHANGED digests /\ (digests[t] = {} => LeftNothing(t))
    BY <1>4, <1>a
    DEF OpSession, DigestPlaceInv, NestedInit, InitInv, OpeningInv, HasSession, HasNothing,
        LeftNothing
  <2> QED
    BY <2>1, <1>b, <1>d DEF DigestPlaceInv, Kept
<1>5. CASE Commands(t)
  <2>1. pc[t] = "idle" /\ at'[t] = "out" /\ digests'[t] # {}
    BY <1>5, <1>a DEF Commands, HwInit, eccx08_sha256_update, DigestPlaceInv, digestVars
  <2> QED
    BY <2>1, <1>b DEF DigestPlaceInv, Kept
<1> QED
  BY <1>1, <1>2, <1>3, <1>4, <1>5 DEF Returns

LEMMA RunPlace ==
    ASSUME DigestInv, NEW t \in Threads, Run(t) PROVE DigestPlaceInv(t)'
<1>a. TypeOK /\ SessionTypeOK /\ LockInv(t) /\ DigestPlaceInv(t)
  BY DEF DigestInv, TypeOK
<1>1. /\ InitInv(t) => InitInv(t)'
      /\ ReleaseInv(t) => ReleaseInv(t)'
      /\ OpeningInv(t) => OpeningInv(t)'
  BY <1>a, StepPromises DEF Run
<1>2. pc[t] # "idle" /\ UNCHANGED <<at, digests>>
  BY <1>a, StepMoves DEF Run, digestVars
<1> QED
  BY <1>a, <1>1, <1>2 DEF DigestPlaceInv, NestedInit

LEMMA DigestInitEstablishes == Init => DigestInv
BY LocksInit, ProcOfAssumption, NoThreadAssumption
DEF Init, SessionInit, MutexInit, LockInvs, DigestInv, DigestPlaceInv, HasNothing, LeftNothing

LEMMA DigestNextKeeps ==
    ASSUME SingleThreaded, DigestInv, [Next]_vars PROVE DigestInv'
<1>a. LockInvs /\ SessionTypeOK /\ \A t \in Threads : DigestPlaceInv(t)
  BY DEF DigestInv, LockInvs, TypeOK
<1>b. LockInvs'
  BY <1>a, LocksKept
<1>1. ASSUME NEW t \in Threads, DigestPlaceInv(t)', \A u \in Threads \ {t} : Untouched(u)
      PROVE  DigestInv'
  BY <1>a, <1>b, <1>1, UntouchedKeeps DEF DigestInv, LockInvs
<1>2. ASSUME NEW t \in Threads, Run(t) PROVE DigestInv'
  BY <1>a, <1>1, <1>2, StepKept, RunPlace DEF Run, digestVars, Untouched
<1>3. ASSUME NEW t \in Threads, Enters(t) \/ Returns(t) \/ Commands(t) PROVE DigestInv'
  BY <1>a, <1>1, <1>3, OwnStepLocks, EnterPlace, ReturnPlace
<1>4. ASSUME NEW p \in Procs, Die(p) PROVE DigestInv'
  <2>1. ASSUME NEW u \in Threads, ProcOf[u] = p PROVE DigestPlaceInv(u)'
    BY <1>a, <1>4, <2>1, KillKept DEF Die, Reset, ThreadsOf, DigestPlaceInv, LeftNothing, HasNothing
  <2>2. ASSUME NEW u \in Threads, ProcOf[u] # p PROVE DigestPlaceInv(u)'
    BY <1>a, <1>4, <2>2, KillKept, UntouchedKeeps DEF Die, Reset, ThreadsOf, Untouched
  <2> QED
    BY <1>b, <2>1, <2>2 DEF DigestInv, LockInvs
<1>5. ASSUME UNCHANGED vars PROVE DigestInv'
  BY <1>a, <1>b, <1>5, UnchangedKept, UntouchedKeeps
  DEF vars, sessionVars, digestVars, Untouched, DigestInv, LockInvs
<1> QED
  BY <1>2, <1>3, <1>4, <1>5 DEF Next, Step, Enters, Returns, Commands

\* In every reachable state the point that a call has reached tells what its thread has of
\* the session, nested in that of a digest or not, and whatever fails.
THEOREM DigestInvariance == ASSUME SingleThreaded PROVE Spec => []DigestInv
<1>1. DigestInv /\ [Next]_vars => DigestInv'
  BY DigestNextKeeps
<1> QED
  BY <1>1, DigestInitEstablishes, PTL DEF Spec

\* However digests were nested, refused or finalized out of order, a process that has none
\* left has given the mutex back, also where the HAL refuses locks: the digests of one
\* process never keep another from the chip (eccx08_sha256.c:61-118).
THEOREM MutexGivenBack == ASSUME SingleThreaded PROVE Spec => []DigestsGiveMutexBack
<1>1. DigestInv => DigestsGiveMutexBack
  BY DEF DigestInv, DigestPlaceInv, LockInv, LeftNothing, DigestsGiveMutexBack
<1> QED
  BY <1>1, DigestInvariance, PTL

\* Whatever a process of one thread nests in its digests, and in whatever order it
\* finalizes them, the session and the mutex are gone with the last one, unless the
\* HAL refuses a lock (eccx08_sha256.c:61-118, eccx08_engine.c:139-141).
THEOREM NothingLeft ==
    ASSUME SingleThreaded, LocksAreGranted PROVE Spec => []DigestsLeaveNothing
<1>1. DigestInv => DigestsLeaveNothing
  BY DEF DigestInv, DigestPlaceInv, LockInv, LeftNothing, HasNothing, DigestsLeaveNothing
<1> QED
  BY <1>1, DigestInvariance, PTL
=================================================================================
