---------------------------------- MODULE Rand ----------------------------------
(***************************************************************************)
(* The random numbers of the engine (eccx08_rand.c), in both builds: every *)
(* byte from the chip, or, with ATCA_OPENSSL_ENGINE_RAND_SEED_ONLY, from   *)
(* OpenSSL's generator, to which something is added after a session that   *)
(* drew a number.  A buffer is the count of its bytes that the chip has    *)
(* written.                                                                *)
(***************************************************************************)
EXTENDS Session, Naturals, FiniteSetsExt

CONSTANTS SeedOnly,      \* the processes with ATCA_OPENSSL_ENGINE_RAND_SEED_ONLY
          BlockSize,     \* ATCA_BLOCK_SIZE, the bytes of one atcab_random
          MaxRandBytes,  \* MAX_RAND_BYTES
          Requests       \* the values of num that applications ask for

ASSUME RandAssumption ==
    /\ SeedOnly \subseteq Procs
    /\ BlockSize \in Nat \ {0} /\ MaxRandBytes \in Nat
    /\ Requests \subseteq Nat \ {0}
    /\ \E most \in Requests : \A n \in Requests : n <= most  \* num is an int

VARIABLES at,         \* per thread: where its call stands
          asked, num, \* per thread: the bytes asked for, and still missing
          filled,     \* per thread: the bytes of buf that the chip has written
          rc,         \* per thread: what its last call returned
          total_num,  \* per process: total_num
          served,     \* per process: bytes generated since the last session for a seed
          added       \* per process: meth_rand->add has been called

callVars == <<at, asked, num, filled, rc>>
prngVars == <<total_num, served, added>>
vars == <<sessionVars, callVars, prngVars>>

AtPoints == {"out", "opening", "draw", "releasing", "seed", "seed_releasing", "serve"}

Init ==
    /\ SessionInit
    /\ at = [t \in Threads |-> "out"]
    /\ asked = [t \in Threads |-> 0]
    /\ num = [t \in Threads |-> 0]
    /\ filled = [t \in Threads |-> 0]
    /\ rc = [t \in Threads |-> 0]
    /\ total_num = [p \in Procs |-> 0]
    /\ served = [p \in Procs |-> 0]
    /\ added = [p \in Procs |-> FALSE]

At(t, from, to) == at[t] = from /\ at' = [at EXCEPT ![t] = to]
Returns(t, r) == rc' = [rc EXCEPT ![t] = r]

Called(t) ==
    /\ filled' = [filled EXCEPT ![t] = 0]
    /\ \E n \in Requests : asked' = [asked EXCEPT ![t] = n] /\ num' = [num EXCEPT ![t] = n]
    /\ Returns(t, 0)

(***************************************************************************)
(* Every byte from the chip                                                *)
(***************************************************************************)
Begin(t) ==
    /\ ProcOf[t] \notin SeedOnly
    /\ At(t, "out", "opening")
    /\ Called(t)
    /\ Enter(t, "init")
    /\ UNCHANGED prngVars

Opened(t) ==
    /\ pc[t] = "idle"
    /\ At(t, "opening", IF status[t] # "SUCCESS" THEN "out"
                        ELSE IF ProcOf[t] \in SeedOnly THEN "seed" ELSE "draw")
    /\ UNCHANGED <<sessionVars, asked, num, filled, rc, prngVars>>

\* One atcab_random: a whole block of buf, or its last bytes.
Draw(t) ==
    LET n == IF BlockSize <= num[t] THEN BlockSize ELSE num[t] IN
    /\ atcab_command("SUCCESS")
    /\ num' = [num EXCEPT ![t] = @ - n]
    /\ filled' = [filled EXCEPT ![t] = @ + n]
    /\ at[t] = "draw" /\ num[t] > 0
    /\ OnDevice
    /\ UNCHANGED <<at, asked, rc, prngVars>>

\* Variant: the bytes count as written whether or not the chip wrote them.
DrawFailsUnnoticed(t) ==
    /\ At(t, "draw", "releasing")
    /\ num[t] > 0
    /\ CommandAndRelease(t, Statuses \ {"SUCCESS"})
    /\ num' = [num EXCEPT ![t] = 0]
    /\ UNCHANGED <<asked, filled, rc, prngVars>>

\* A failure ends the loop, and the release follows.
DrawFails(t) ==
    /\ At(t, "draw", "releasing")
    /\ num[t] > 0
    /\ CommandAndRelease(t, Statuses \ {"SUCCESS"})
    /\ UNCHANGED <<asked, num, filled, rc, prngVars>>

\* Variant: a call with all its bytes returns at once.
DrawnUnreleased(t) ==
    /\ At(t, "draw", "out")
    /\ num[t] = 0
    /\ Returns(t, 1)
    /\ UNCHANGED <<sessionVars, asked, num, filled, prngVars>>

Drawn(t) ==
    /\ At(t, "draw", "releasing")
    /\ num[t] = 0
    /\ Enter(t, "release")
    /\ UNCHANGED <<asked, num, filled, rc, prngVars>>

\* The release's status is discarded: the missing bytes decide.
Released(t) ==
    /\ pc[t] = "idle"
    /\ At(t, "releasing", "out")
    /\ Returns(t, IF num[t] = 0 THEN 1 ELSE 0)
    /\ UNCHANGED <<sessionVars, asked, num, filled, prngVars>>

(***************************************************************************)
(* From OpenSSL's generator                                                *)
(***************************************************************************)
\* Variant: the count is not set back when it has passed the limit.
DueForeverAfterFirst(p) == total_num[p] = 0

Due(p) == total_num[p] > MaxRandBytes \/ total_num[p] = 0

BeginSeed(t) ==
    /\ ProcOf[t] \in SeedOnly
    /\ Due(ProcOf[t])
    /\ At(t, "out", "opening")
    /\ Called(t)
    /\ total_num' = Set(total_num, t, 0)
    /\ Enter(t, "init")
    /\ UNCHANGED <<served, added>>

BeginSeeded(t) ==
    /\ ProcOf[t] \in SeedOnly
    /\ ~Due(ProcOf[t])
    /\ At(t, "out", "serve")
    /\ Called(t)
    /\ UNCHANGED <<sessionVars, prngVars>>

SeedDrawn(t) ==
    /\ At(t, "seed", "seed_releasing")
    /\ CommandAndRelease(t, {"SUCCESS"})
    /\ UNCHANGED <<asked, num, filled, rc, prngVars>>

\* goto done: there is no release.
SeedFails(t) ==
    /\ At(t, "seed", "out")
    /\ \E s \in Statuses \ {"SUCCESS"} : atcab_command(s)
    /\ OnDevice
    /\ UNCHANGED <<asked, num, filled, rc, prngVars>>

\* What is added is the caller's buffer, as it came: the number of the chip is only the
\* estimate of its entropy.
SeedAdded(t) ==
    /\ pc[t] = "idle" /\ status[t] = "SUCCESS"
    /\ At(t, "seed_releasing", "serve")
    /\ served' = Set(served, t, 0)
    /\ added' = Set(added, t, TRUE)
    /\ UNCHANGED <<sessionVars, asked, num, filled, rc, total_num>>

SeedNotReleased(t) ==
    /\ pc[t] = "idle" /\ status[t] # "SUCCESS"
    /\ At(t, "seed_releasing", "out")
    /\ UNCHANGED <<sessionVars, asked, num, filled, rc, prngVars>>

\* meth_rand->bytes; the request counts whether or not it could be served.
Serve(t) ==
    /\ At(t, "serve", "out")
    /\ total_num' = Set(total_num, t, total_num[ProcOf[t]] + num[t])
    /\ \/ /\ Returns(t, 1)
          /\ served' = Set(served, t, served[ProcOf[t]] + num[t])
          /\ num' = [num EXCEPT ![t] = 0]
       \/ Returns(t, 0) /\ UNCHANGED <<served, num>>
    /\ UNCHANGED <<sessionVars, asked, filled, added>>

(***************************************************************************)
(* The whole                                                               *)
(***************************************************************************)
Run(t) == SessionStep(t) /\ UNCHANGED <<callVars, prngVars>>

RAND_eccx08_rand_bytes(t) ==
    \/ Begin(t) \/ Draw(t) \/ DrawFails(t) \/ Drawn(t) \/ Released(t)
    \/ BeginSeed(t) \/ BeginSeeded(t) \/ Opened(t) \/ SeedDrawn(t) \/ SeedFails(t)
    \/ SeedAdded(t) \/ SeedNotReleased(t) \/ Serve(t)

Die(p) ==
    /\ KillProcess(p)
    /\ at' = Reset(at, p, "out")
    /\ asked' = Reset(asked, p, 0)
    /\ num' = Reset(num, p, 0)
    /\ filled' = Reset(filled, p, 0)
    /\ rc' = Reset(rc, p, 0)
    /\ total_num' = [total_num EXCEPT ![p] = 0]
    /\ served' = [served EXCEPT ![p] = 0]
    /\ added' = [added EXCEPT ![p] = FALSE]

Next ==
    \/ \E t \in Threads : RAND_eccx08_rand_bytes(t) \/ Run(t)
    \/ \E p \in Procs : Die(p)

Spec == Init /\ [][Next]_vars
---------------------------------------------------------------------------------
TypeOK ==
    /\ SessionTypeOK
    /\ at \in [Threads -> AtPoints]
    /\ asked \in [Threads -> Requests \cup {0}]
    /\ num \in [Threads -> Nat] /\ filled \in [Threads -> Nat]
    /\ \A t \in Threads : num[t] <= asked[t] /\ filled[t] <= asked[t]
    /\ rc \in [Threads -> {0, 1}]
    /\ total_num \in [Procs -> 0..(MaxRandBytes + Max(Requests))]
    /\ served \in [Procs -> Nat]
    /\ added \in [Procs -> BOOLEAN]

\* "Generates a random bytes stream using the ATECCx08 hardware RNG"
\* (eccx08_rand.c:111): a call that succeeds has filled the whole buffer from the
\* chip, however many draws it took and whatever failed between them.
SuccessFillsBuffer ==
    \A t \in Threads : ProcOf[t] \notin SeedOnly /\ at[t] = "out" /\ rc[t] = 1 => filled[t] = asked[t]

\* "A lock left held until process exit gives the next client a spurious
\* EOWNERDEAD plus a chip in an unknown state" (eccx08_engine.c:139-141): a call
\* that has returned left neither the mutex nor a session.  In the seed-only build
\* the call that could not read a seed leaves both (SeedFails, eccx08_rand.c:81):
\* that process is never again served a byte while it holds them, so the
\* applications notice.
NothingLeftBehind ==
    \A t \in Threads :
        \/ at[t] = "out" /\ ProcOf[t] \notin SeedOnly
        \/ at[t] = "serve"
        => owner # t /\ ifacecfg[ProcOf[t]] = "NULL"

\* "The PRNG is reseeded after MAX_RAND_BYTES are generated"
\* (eccx08_rand.c:56-57), as far as the code does it: also when sessions or the
\* generator have failed in between, a request is passed to the generator only when,
\* since a session that drew a number and ended in an add, it has generated no more than
\* the limit.  It is not the number that is added (SeedAdded), so this says nothing of
\* where the generator's entropy is from.
ReseededInTime ==
    \A t \in Threads : at[t] = "serve" => /\ served[ProcOf[t]] <= MaxRandBytes
                                          /\ added[ProcOf[t]]
=================================================================================
