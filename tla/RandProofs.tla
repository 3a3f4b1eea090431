------------------------------- MODULE RandProofs -------------------------------
(***************************************************************************)
(* Theorems about Rand, for processes of one thread each: total_num is a   *)
(* static that the threads of a process share without a lock.              *)
(***************************************************************************)
EXTENDS RandInvariant, SessionCallsProofs

LEMMA Largest == Max(Requests) \in Nat /\ \A n \in Requests : n \in Nat /\ n # 0 /\ n <= Max(Requests)
<1>1. \E most \in Requests : \A n \in Requests : most >= n
  BY RandAssumption
<1>2. Max(Requests) \in Requests /\ \A n \in Requests : Max(Requests) >= n
  BY <1>1 DEF Max
<1> QED
  BY <1>2, RandAssumption

(***************************************************************************)
(* The steps of a call: those that enter the session functions, those that *)
(* return from them, commands, and those without the chip.                 *)
(***************************************************************************)
Enters(t) == Begin(t) \/ BeginSeed(t) \/ Drawn(t) \/ DrawFails(t) \/ SeedDrawn(t)

Stays(t) ==
    \/ Opened(t) \/ Released(t) \/ SeedAdded(t) \/ SeedNotReleased(t)
    \/ BeginSeeded(t) \/ Serve(t) \/ Draw(t) \/ SeedFails(t)

LEMMA EntersSession ==
    ASSUME SessionTypeOK, NEW t \in Threads, Enters(t)
    PROVE  /\ SessionTypeOK'
           /\ \A u \in Threads \ {t} : Kept(u)
           /\ pc[t] = "idle" /\ pc'[t] = "lock" /\ status'[t] = "SUCCESS"
           /\ call'[t] = IF Begin(t) \/ BeginSeed(t) THEN "init" ELSE "release"
           /\ UNCHANGED <<state, ifacecfg, handle, owner>>
<1>1. CASE Begin(t) \/ BeginSeed(t)
  BY <1>1, EnterTyped, EnterKept DEF Begin, BeginSeed, Calls
<1>2. CASE (Drawn(t) \/ DrawFails(t) \/ SeedDrawn(t)) /\ ~(Begin(t) \/ BeginSeed(t))
  BY <1>2, EnterTyped, EnterKept, CommandAndReleaseTyped, CommandAndReleaseKept
  DEF Drawn, DrawFails, SeedDrawn, Calls
<1> QED
  BY <1>1, <1>2 DEF Enters

LEMMA StaysInSession ==
    ASSUME SessionTypeOK, NEW t \in Threads, Stays(t)
    PROVE  SessionTypeOK' /\ \A u \in Threads : Kept(u)
<1> USE DEF Stays, Opened, Released, SeedAdded, SeedNotReleased, BeginSeeded, Serve, Draw, SeedFails
<1>1. CASE UNCHANGED sessionVars
  BY <1>1, UnchangedTyped, UnchangedKept DEF sessionVars
<1>2. CASE Draw(t) \/ SeedFails(t)
  <2>1. OnDevice /\ chip' \in Chips
    BY <1>2, CommandTyped DEF SessionTypeOK
  <2> QED
    BY <2>1, OnDeviceTyped, UnchangedKept DEF OnDevice
<1> QED
  BY <1>1, <1>2

(***************************************************************************)
(* What a thread of a process of its own sees when another one moves.      *)
(***************************************************************************)
OwnVars(u) == <<at[u], asked[u], num[u], filled[u], rc[u],
                total_num[ProcOf[u]], served[ProcOf[u]], added[ProcOf[u]]>>

Untouched(u) == Kept(u) /\ UNCHANGED OwnVars(u)

LEMMA UntouchedKeeps ==
    ASSUME NEW u \in Threads, Untouched(u), CallInv(u) PROVE CallInv(u)'
<1>1. /\ HasSession(u)' <=> HasSession(u)
      /\ HasNothing(u)' <=> HasNothing(u)
      /\ InitInv(u)' <=> InitInv(u)
      /\ ReleaseInv(u)' <=> ReleaseInv(u)
      /\ OpeningInv(u)' <=> OpeningInv(u)
      /\ ClosingInv(u)' <=> ClosingInv(u)
  BY KeptPromises DEF Untouched
<1> QED
  BY <1>1 DEF Untouched, OwnVars, Kept, CallInv, SeedInv, DrawInv

(***************************************************************************)
(* One atcab_random writes a part of what is missing.                      *)
(***************************************************************************)
LEMMA Drawing ==
    ASSUME NEW t \in Threads, num \in [Threads -> Nat], filled \in [Threads -> Nat], Draw(t)
    PROVE  \E n \in Nat : /\ n <= num[t] /\ num[t] > 0
                         /\ num' = [num EXCEPT ![t] = num[t] - n] /\ num[t] - n \in Nat
                         /\ filled' = [filled EXCEPT ![t] = filled[t] + n]
<1> DEFINE n == IF BlockSize <= num[t] THEN BlockSize ELSE num[t]
<1>1. n \in Nat /\ n <= num[t] /\ num[t] - n \in Nat
  BY RandAssumption
<1>2. /\ num[t] > 0
      /\ num' = [num EXCEPT ![t] = num[t] - n] /\ filled' = [filled EXCEPT ![t] = filled[t] + n]
  BY DEF Draw
<1> QED
  BY <1>1, <1>2

(***************************************************************************)
(* The variables of a call.                                                *)
(***************************************************************************)
LEMMA CallTyped ==
    ASSUME CallTypeOK, NEW t \in Threads, Enters(t) \/ Stays(t)
    PROVE  CallTypeOK'
<1> USE RandAssumption, ProcOfAssumption
<1> USE DEF CallTypeOK, At, Called, Returns, AtPoints, Set, prngVars
<1>1. CASE Begin(t) \/ BeginSeed(t) \/ BeginSeeded(t)
  BY <1>1 DEF Begin, BeginSeed, BeginSeeded
<1>2. CASE Drawn(t) \/ DrawFails(t) \/ SeedDrawn(t) \/ Opened(t) \/ SeedNotReleased(t) \/ SeedFails(t)
  BY <1>2 DEF Drawn, DrawFails, SeedDrawn, Opened, SeedNotReleased, SeedFails
<1>3. CASE Draw(t)
  <2>1. PICK n \in Nat : /\ num' = [num EXCEPT ![t] = num[t] - n] /\ num[t] - n \in Nat
                         /\ filled' = [filled EXCEPT ![t] = filled[t] + n]
    BY <1>3, Drawing
  <2>2. num' \in [Threads -> Nat] /\ filled' \in [Threads -> Nat]
    BY <2>1
  <2> QED
    BY <1>3, <2>2 DEF Draw
<1>4. CASE Released(t)
  BY <1>4 DEF Released
<1>5. CASE SeedAdded(t)
  BY <1>5 DEF SeedAdded
<1>6. CASE Serve(t)
  BY <1>6 DEF Serve
<1> QED
  BY <1>1, <1>2, <1>3, <1>4, <1>5, <1>6 DEF Enters, Stays

LEMMA OthersUntouched ==
    ASSUME SingleThreaded, SessionTypeOK, CallTypeOK,
           NEW t \in Threads, Enters(t) \/ Stays(t), NEW u \in Threads \ {t}
    PROVE  Untouched(u)
<1>1. Kept(u)
  BY EntersSession, StaysInSession
<1>2. UNCHANGED OwnVars(u)
  BY OtherProcess, ProcOfAssumption
  DEF Enters, Stays, Begin, BeginSeed, BeginSeeded, Drawn, DrawFails, SeedDrawn, Opened,
      SeedNotReleased, SeedFails, Draw, Released, SeedAdded, Serve, At, Called, Returns, Set,
      prngVars, CallTypeOK, OwnVars
<1> QED
  BY <1>1, <1>2 DEF Untouched

(***************************************************************************)
(* A step of a call keeps the invariant of its thread.                     *)
(***************************************************************************)
LEMMA EntersPromises ==
    ASSUME NEW t \in Threads, SessionTypeOK, LockInv(t), Enters(t)
    PROVE  /\ LockInv(t)'
           /\ pc[t] = "idle" /\ pc'[t] = "lock" /\ UNCHANGED <<ifacecfg, owner>>
           /\ call'[t] = IF Begin(t) \/ BeginSeed(t) THEN "init" ELSE "release"
<1>1. /\ pc[t] = "idle" /\ pc'[t] = "lock" /\ UNCHANGED <<state, ifacecfg, handle, owner>>
      /\ call'[t] = IF Begin(t) \/ BeginSeed(t) THEN "init" ELSE "release"
  BY EntersSession
<1>2. LockInv(t)'
  BY <1>1 DEF LockInv, InitPCs, ReleasePCs
<1> QED
  BY <1>1, <1>2

LEMMA StaysPromises ==
    ASSUME NEW t \in Threads, SessionTypeOK, LockInv(t), Stays(t)
    PROVE  /\ LockInv(t)' /\ UNCHANGED <<pc[t], status[t]>>
           /\ HasSession(t)' <=> HasSession(t)
           /\ HasNothing(t)' <=> HasNothing(t)
<1>1. Kept(t)
  BY StaysInSession
<1> QED
  BY <1>1, KeptPromises DEF Kept

\* What the proofs about one thread start from, and what they show.
Before(t) == SessionTypeOK /\ CallTypeOK /\ LockInv(t) /\ CallInv(t) /\ Bounds(t)
After(t) == CallInv(t)' /\ Bounds(t)'

LEMMA EntersKeeps ==
    ASSUME NEW t \in Threads, Before(t), Enters(t) PROVE After(t)
<1> USE RandAssumption, ProcOfAssumption, Largest
<1>a. /\ pc[t] = "idle" /\ pc'[t] = "lock" /\ UNCHANGED <<ifacecfg, owner>>
      /\ call'[t] = IF Begin(t) \/ BeginSeed(t) THEN "init" ELSE "release"
  BY EntersPromises DEF Before
<1>b. CallTypeOK /\ CallInv(t) /\ Bounds(t)
  BY DEF Before
<1>c. /\ call'[t] = "init" => InitInv(t)'
      /\ call'[t] = "init" /\ HasNothing(t) => OpeningInv(t)'
      /\ call'[t] = "release" => ReleaseInv(t)'
      /\ call'[t] = "release" /\ HasSession(t) => ClosingInv(t)'
  BY <1>a DEF InitInv, ReleaseInv, OpeningInv, ClosingInv, HasSession, HasNothing, InitPCs,
              ReleasePCs, UnlockPCs
<1> USE DEF At, Called, Returns, Set, prngVars, CallTypeOK, CallInv, Bounds, After
<1>d. ASSUME Called(t)
      PROVE  /\ num'[t] \in Nat /\ num'[t] = asked'[t] /\ filled'[t] = 0 /\ rc'[t] = 0
             /\ num'[t] <= asked'[t] /\ filled'[t] <= asked'[t] /\ filled'[t] + num'[t] = asked'[t]
  BY <1>b, <1>d
<1>1. CASE Begin(t)
  <2>1. Called(t) /\ ProcOf[t] \notin SeedOnly /\ at'[t] = "opening" /\ call'[t] = "init"
    BY <1>a, <1>b, <1>1 DEF Begin
  <2>2. HasNothing(t) /\ UNCHANGED total_num
    BY <1>b, <1>1 DEF Begin, DrawInv
  <2> QED
    BY <1>a, <1>b, <1>c, <1>d, <2>1, <2>2 DEF DrawInv
<1>2. CASE BeginSeed(t)
  <2>1. Called(t) /\ ProcOf[t] \in SeedOnly /\ at'[t] = "opening" /\ call'[t] = "init"
    BY <1>a, <1>b, <1>2 DEF BeginSeed
  <2>2. total_num'[ProcOf[t]] = 0
    BY <1>b, <1>2 DEF BeginSeed
  <2> QED
    BY <1>a, <1>b, <1>c, <1>d, <2>1, <2>2 DEF SeedInv
<1>3. CASE (Drawn(t) \/ DrawFails(t)) /\ ~Begin(t) /\ ~BeginSeed(t)
  BY <1>a, <1>b, <1>c, <1>3 DEF Drawn, DrawFails, SeedInv, DrawInv
<1>4. CASE SeedDrawn(t) /\ ~Begin(t) /\ ~BeginSeed(t)
  BY <1>a, <1>b, <1>c, <1>4 DEF SeedDrawn, SeedInv, DrawInv
<1> QED
  BY <1>1, <1>2, <1>3, <1>4 DEF Enters

LEMMA StaysKeeps ==
    ASSUME NEW t \in Threads, Before(t), Stays(t) PROVE After(t)
<1> USE RandAssumption, ProcOfAssumption, Largest
<1>a. /\ UNCHANGED <<pc[t], status[t]>>
      /\ HasSession(t)' <=> HasSession(t)
      /\ HasNothing(t)' <=> HasNothing(t)
  BY StaysPromises DEF Before
<1>b. CallTypeOK /\ CallInv(t) /\ Bounds(t)
  BY DEF Before
<1>c. /\ InitInv(t) /\ pc[t] = "idle" /\ status[t] = "SUCCESS" => HasSession(t)
      /\ OpeningInv(t) /\ pc[t] = "idle" =>
             IF status[t] = "SUCCESS" THEN HasSession(t) ELSE HasNothing(t)
      /\ ReleaseInv(t) /\ pc[t] = "idle" /\ status[t] = "SUCCESS" => HasNothing(t)
      /\ ClosingInv(t) /\ pc[t] = "idle" => HasNothing(t)
  BY DEF InitInv, OpeningInv, ReleaseInv, ClosingInv, HasSession, HasNothing
<1> USE DEF At, Called, Returns, Set, prngVars, CallTypeOK, CallInv, Bounds, After
<1>1. CASE Opened(t)
  BY <1>a, <1>b, <1>c, <1>1 DEF Opened, SeedInv, DrawInv
<1>2. CASE Released(t)
  BY <1>a, <1>b, <1>c, <1>2 DEF Released, SeedInv, DrawInv
<1>3. CASE SeedAdded(t)
  BY <1>a, <1>b, <1>c, <1>3 DEF SeedAdded, SeedInv, DrawInv
<1>4. CASE SeedNotReleased(t)
  BY <1>a, <1>b, <1>c, <1>4 DEF SeedNotReleased, SeedInv, DrawInv
<1>5. CASE BeginSeeded(t)
  BY <1>a, <1>b, <1>5 DEF BeginSeeded, Due, SeedInv
<1>6. CASE Serve(t)
  BY <1>a, <1>b, <1>6 DEF Serve, SeedInv, DrawInv
<1>7. CASE Draw(t)
  <2>1. PICK n \in Nat : /\ n <= num[t] /\ num[t] > 0
                         /\ num' = [num EXCEPT ![t] = num[t] - n] /\ num[t] - n \in Nat
                         /\ filled' = [filled EXCEPT ![t] = filled[t] + n]
    BY <1>b, <1>7, Drawing
  <2>2. at[t] = "draw" /\ UNCHANGED <<at, asked, rc, total_num, served, added>>
    BY <1>7 DEF Draw
  <2> QED
    BY <1>a, <1>b, <2>1, <2>2 DEF SeedInv, DrawInv
<1>8. CASE SeedFails(t)
  BY <1>a, <1>b, <1>8 DEF SeedFails, SeedInv, DrawInv
<1> QED
  BY <1>1, <1>2, <1>3, <1>4, <1>5, <1>6, <1>7, <1>8 DEF Stays

LEMMA RunKeeps ==
    ASSUME SingleThreaded, NEW t \in Threads, Before(t), Run(t)
    PROVE  LockInv(t)' /\ After(t) /\ \A u \in Threads \ {t} : Untouched(u)
<1>a. SessionTypeOK /\ CallInv(t) /\ Bounds(t) /\ LockInv(t)
  BY DEF Before
<1>1. /\ LockInv(t)'
      /\ InitInv(t) => InitInv(t)'
      /\ ReleaseInv(t) => ReleaseInv(t)'
      /\ OpeningInv(t) => OpeningInv(t)'
      /\ ClosingInv(t) => ClosingInv(t)'
  BY <1>a, StepPromises DEF Run
<1>2. pc[t] # "idle" /\ \A u \in Threads : UNCHANGED OwnVars(u)
  BY <1>a, StepMoves DEF Run, callVars, prngVars, OwnVars
<1>3. at[t] \in {"opening", "releasing", "seed_releasing"}
  BY <1>a, <1>2 DEF CallInv, SeedInv, DrawInv
<1>4. total_num[ProcOf[t]] # 0 => ProcOf[t] \notin SeedOnly
  BY <1>a, <1>3 DEF CallInv, SeedInv
<1>5. After(t)
  BY <1>a, <1>1, <1>2, <1>3, <1>4 DEF OwnVars, After, CallInv, SeedInv, DrawInv, Bounds
<1>6. \A u \in Threads \ {t} : Untouched(u)
  BY <1>a, <1>2, StepKept DEF Run, Untouched
<1> QED
  BY <1>1, <1>5, <1>6

(***************************************************************************)
(* The three facts of the induction.                                       *)
(***************************************************************************)
LEMMA InitEstablishes == Init => RandInv
<1> SUFFICES ASSUME Init PROVE RandInv
  OBVIOUS
<1> USE RandAssumption, ProcOfAssumption, NoThreadAssumption, Largest
<1>1. SessionTypeOK
  BY SessionInitTyped DEF Init
<1>2. CallTypeOK /\ \A t \in Threads : Bounds(t)
  BY DEF Init, CallTypeOK, Bounds, AtPoints
<1>3. ASSUME NEW t \in Threads PROVE LockInv(t) /\ CallInv(t)
  BY DEF Init, SessionInit, MutexInit, LockInv, CallInv, SeedInv, DrawInv, HasNothing,
         InitPCs, ReleasePCs
<1> QED
  BY <1>1, <1>2, <1>3 DEF RandInv

LEMMA NextKeeps ==
    ASSUME SingleThreaded, RandInv, [Next]_vars PROVE RandInv'
<1>a. SessionTypeOK /\ CallTypeOK /\ \A t \in Threads : Before(t)
  BY DEF RandInv, Before
<1>b. ASSUME SessionTypeOK', CallTypeOK', \A u \in Threads : LockInv(u)' /\ After(u)
      PROVE  RandInv'
  BY <1>b DEF RandInv, After
<1>c. ASSUME NEW u \in Threads, Untouched(u) PROVE LockInv(u)' /\ After(u)
  BY <1>a, <1>c, UntouchedKeeps, KeptPromises
  DEF Before, After, Untouched, OwnVars, Bounds
<1>1. ASSUME NEW t \in Threads, Enters(t) \/ Stays(t) PROVE RandInv'
  <2>1. SessionTypeOK' /\ CallTypeOK'
    BY <1>a, <1>1, EntersSession, StaysInSession, CallTyped
  <2>2. LockInv(t)' /\ After(t)
    BY <1>a, <1>1, EntersPromises, StaysPromises, EntersKeeps, StaysKeeps DEF Before
  <2>3. \A u \in Threads \ {t} : Untouched(u)
    BY <1>a, <1>1, OthersUntouched
  <2> QED
    BY <1>b, <1>c, <2>1, <2>2, <2>3
<1>2. ASSUME NEW t \in Threads, Run(t) PROVE RandInv'
  <2>1. SessionTypeOK' /\ CallTypeOK'
    BY <1>a, <1>2, StepTyped DEF Run, callVars, prngVars, CallTypeOK
  <2> QED
    BY <1>a, <1>b, <1>c, <1>2, <2>1, RunKeeps
<1>3. ASSUME NEW p \in Procs, Die(p) PROVE RandInv'
  <2>1. SessionTypeOK' /\ CallTypeOK'
    BY <1>a, <1>3, KillTyped DEF Die, CallTypeOK, Reset, AtPoints
  <2>2. ASSUME NEW u \in Threads, ProcOf[u] = p PROVE LockInv(u)' /\ After(u)
    <3>1. pc'[u] = "idle" /\ HasNothing(u)' /\ LockInv(u)'
      BY <1>a, <1>3, <2>2, KillKept DEF Die
    <3>2. /\ at'[u] = "out" /\ asked'[u] = 0 /\ num'[u] = 0 /\ filled'[u] = 0 /\ rc'[u] = 0
          /\ total_num'[p] = 0
      BY <1>a, <1>3, <2>2 DEF Die, Reset, ThreadsOf, CallTypeOK
    <3> QED
      BY <2>2, <3>1, <3>2, RandAssumption, Largest DEF After, CallInv, SeedInv, DrawInv, Bounds
  <2>3. ASSUME NEW u \in Threads, ProcOf[u] # p PROVE LockInv(u)' /\ After(u)
    <3>1. Kept(u) /\ UNCHANGED OwnVars(u)
      BY <1>a, <1>3, <2>3, KillKept DEF Die, Reset, ThreadsOf, CallTypeOK, OwnVars
    <3> QED
      BY <1>c, <3>1 DEF Untouched
  <2> QED
    BY <1>b, <2>1, <2>2, <2>3
<1>4. ASSUME UNCHANGED vars PROVE RandInv'
  <2>1. SessionTypeOK' /\ CallTypeOK'
    BY <1>a, <1>4, UnchangedTyped DEF vars, callVars, prngVars, CallTypeOK
  <2>2. \A u \in Threads : Untouched(u)
    BY <1>4, UnchangedKept DEF vars, sessionVars, callVars, prngVars, Untouched, OwnVars
  <2> QED
    BY <1>b, <1>c, <2>1, <2>2
<1> QED
  BY <1>1, <1>2, <1>3, <1>4 DEF Next, RAND_eccx08_rand_bytes, Enters, Stays

\* In every reachable state the point that a call of RAND_eccx08_rand_bytes has reached
\* tells what it has of the session, of its buffer and of the generator.
THEOREM RandInvariance == ASSUME SingleThreaded PROVE Spec => []RandInv
<1>1. RandInv /\ [Next]_vars => RandInv'
  BY NextKeeps
<1> QED
  BY <1>1, InitEstablishes, PTL DEF Spec

\* num and the bytes written never pass what was asked for, and total_num passes
\* MAX_RAND_BYTES by one request at most.
THEOREM TypeCorrectness == ASSUME SingleThreaded PROVE Spec => []TypeOK
<1>1. RandInv => TypeOK
  <2> SUFFICES ASSUME RandInv PROVE TypeOK
    OBVIOUS
  <2>1. ASSUME NEW p \in Procs PROVE total_num[p] \in 0..(MaxRandBytes + Max(Requests))
    <3>1. PICK t \in Threads : ProcOf[t] = p
      BY DEF SingleThreaded, ThreadsOf
    <3>2. total_num[p] \in Nat /\ total_num[p] <= MaxRandBytes + Max(Requests)
      BY <3>1 DEF RandInv, CallTypeOK, Bounds
    <3> QED
      BY <3>2, Largest, RandAssumption
  <2>2. total_num \in [Procs -> 0..(MaxRandBytes + Max(Requests))]
    BY <2>1 DEF RandInv, CallTypeOK
  <2> QED
    BY <2>2 DEF RandInv, CallTypeOK, Bounds, TypeOK
<1> QED
  BY <1>1, RandInvariance, PTL

\* A call that succeeds has filled the whole buffer from the chip, however many
\* draws of ATCA_BLOCK_SIZE it took and whatever failed between them.
THEOREM BufferFilled == ASSUME SingleThreaded PROVE Spec => []SuccessFillsBuffer
<1>1. RandInv => SuccessFillsBuffer
  BY DEF RandInv, CallTypeOK, CallInv, DrawInv, SuccessFillsBuffer
<1> QED
  BY <1>1, RandInvariance, PTL

\* A call that has returned has left neither the mutex nor a session, and the generator
\* is not used while one is left (eccx08_engine.c:139-141, eccx08_rand.c:81).
THEOREM NothingLeft == ASSUME SingleThreaded PROVE Spec => []NothingLeftBehind
<1>1. RandInv => NothingLeftBehind
  <2> SUFFICES ASSUME RandInv, NEW t \in Threads,
                      (at[t] = "out" /\ ProcOf[t] \notin SeedOnly) \/ at[t] = "serve"
               PROVE  HasNothing(t)
    BY DEF NothingLeftBehind, HasNothing
  <2> QED
    BY DEF RandInv, CallInv, SeedInv, DrawInv
<1> QED
  BY <1>1, RandInvariance, PTL

\* In the seed-only build a request is passed to OpenSSL's generator only when it has
\* generated no more than MAX_RAND_BYTES since the last session with the chip, which
\* ended in an add (eccx08_rand.c:73-88), also when sessions or the generator have
\* failed in between.  Nothing is said of what was added.
THEOREM Reseeding == ASSUME SingleThreaded PROVE Spec => []ReseededInTime
<1>1. RandInv => ReseededInTime
  BY RandAssumption, ProcOfAssumption
  DEF RandInv, CallTypeOK, CallInv, SeedInv, DrawInv, ReseededInTime
<1> QED
  BY <1>1, RandInvariance, PTL
=================================================================================
