------------------------------ MODULE RandInvariant ------------------------------
(***************************************************************************)
(* The inductive invariant of Rand: what a thread knows of the session,    *)
(* of its buffer and of the generator at each point of a call.             *)
(***************************************************************************)
EXTENDS Rand, SessionCalls

\* Every byte from the chip: the call has the session from its opening to its release.
DrawInv(t) ==
    /\ at[t] \in {"out", "opening", "draw", "releasing"}
    /\ filled[t] + num[t] = asked[t]
    /\ rc[t] = 1 => num[t] = 0
    /\ at[t] = "out" => HasNothing(t)
    /\ at[t] = "opening" => OpeningInv(t)
    /\ at[t] = "draw" => HasSession(t)
    /\ at[t] = "releasing" => ClosingInv(t)

\* From OpenSSL's generator: a call that could not read the seed may have left its session
\* to the calls that follow it, but then total_num is 0 and they ask for another seed.
SeedInv(t) ==
    LET p == ProcOf[t] IN
    /\ at[t] \in {"out", "opening", "seed", "seed_releasing", "serve"}
    /\ at[t] = "opening" => InitInv(t)
    /\ at[t] = "seed" => HasSession(t)
    /\ at[t] = "seed_releasing" => ReleaseInv(t)
    /\ at[t] \in {"opening", "seed", "seed_releasing"} => total_num[p] = 0
    /\ at[t] = "serve" => HasNothing(t) /\ total_num[p] <= MaxRandBytes
    /\ at[t] = "serve" \/ total_num[p] # 0 => served[p] <= total_num[p] /\ added[p]
    /\ total_num[p] # 0 => HasNothing(t)

CallInv(t) ==
    /\ at[t] \in {"out", "draw", "seed", "serve"} => pc[t] = "idle"
    /\ IF ProcOf[t] \in SeedOnly THEN SeedInv(t) ELSE DrawInv(t)

\* TypeOK, with the bounds of a process's variables stated for its thread.
CallTypeOK ==
    /\ at \in [Threads -> AtPoints]
    /\ asked \in [Threads -> Requests \cup {0}]
    /\ num \in [Threads -> Nat] /\ filled \in [Threads -> Nat]
    /\ rc \in [Threads -> {0, 1}]
    /\ total_num \in [Procs -> Nat]
    /\ served \in [Procs -> Nat]
    /\ added \in [Procs -> BOOLEAN]

Bounds(t) ==
    /\ num[t] <= asked[t] /\ filled[t] <= asked[t]
    /\ total_num[ProcOf[t]] <= MaxRandBytes + Max(Requests)

RandInv ==
    /\ SessionTypeOK /\ CallTypeOK
    /\ \A t \in Threads : LockInv(t) /\ CallInv(t) /\ Bounds(t)
==================================================================================
