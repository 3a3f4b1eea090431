--------------------------------- MODULE Digest ---------------------------------
(***************************************************************************)
(* The SHA256 digest of the engine (eccx08_sha256.c, compiled on request)  *)
(* next to an ordinary operation of the same thread.  A digest is the only *)
(* caller of atcab_init_safe that returns to the application with its      *)
(* session open: until final, any other call of the engine is nested in    *)
(* that session.  eccx08_sha256_method has no cleanup function: a context  *)
(* that the application frees without finalizing it is one whose final     *)
(* never comes.                                                            *)
(***************************************************************************)
EXTENDS Session

CONSTANT Contexts  \* the EVP_MD_CTX of a thread

VARIABLES at,       \* per thread: where its call of the engine stands
          ctx,      \* per thread: the context that call works on
          digests   \* per thread: its initialized contexts

digestVars == <<at, ctx, digests>>
vars == <<sessionVars, digestVars>>

AtPoints == {"out", "init", "hw_init", "init_release", "final_release",
             "op_init", "op", "op_release"}

Init ==
    /\ SessionInit
    /\ at = [t \in Threads |-> "out"]
    /\ ctx \in [Threads -> Contexts]
    /\ \A t, u \in Threads : ctx[t] = ctx[u]
    /\ digests = [t \in Threads |-> {}]

At(t, from, to) == at[t] = from /\ at' = [at EXCEPT ![t] = to]

(***************************************************************************)
(* eccx08_sha256_init                                                      *)
(***************************************************************************)
eccx08_sha256_init(t) ==
    /\ At(t, "out", "init")
    /\ \E c \in Contexts \ digests[t] : ctx' = [ctx EXCEPT ![t] = c]
    /\ Enter(t, "init")
    /\ UNCHANGED digests

InitSession(t) ==
    /\ pc[t] = "idle" /\ status[t] = "SUCCESS"
    /\ At(t, "init", "hw_init")
    /\ UNCHANGED <<sessionVars, ctx, digests>>

\* A failed atcab_init_safe is followed by a release of the session it did not get.
InitNoSession(t) ==
    /\ pc[t] = "idle" /\ status[t] # "SUCCESS"
    /\ At(t, "init", "init_release")
    /\ Enter(t, "release")
    /\ UNCHANGED <<ctx, digests>>

HwInit(t) ==
    /\ At(t, "hw_init", "out")
    /\ atcab_command("SUCCESS")
    /\ digests' = [digests EXCEPT ![t] = @ \cup {ctx[t]}]
    /\ OnDevice
    /\ UNCHANGED ctx

\* Variant: the digest that could not start keeps its session.
HwInitFailsOpen(t) ==
    /\ At(t, "hw_init", "out")
    /\ \E s \in Statuses \ {"SUCCESS"} : atcab_command(s)
    /\ OnDevice
    /\ UNCHANGED <<ctx, digests>>

HwInitFails(t) ==
    /\ At(t, "hw_init", "init_release")
    /\ CommandAndRelease(t, Statuses \ {"SUCCESS"})
    /\ UNCHANGED <<ctx, digests>>

(***************************************************************************)
(* eccx08_sha256_update, eccx08_sha256_final and their ends                *)
(***************************************************************************)
eccx08_sha256_update(t) ==
    /\ at[t] = "out" /\ digests[t] # {}
    /\ \E s \in Statuses : atcab_command(s)
    /\ OnDevice
    /\ UNCHANGED digestVars

\* The status of the last command is the application's; the release comes anyway.
eccx08_sha256_final(t) ==
    /\ At(t, "out", "final_release")
    /\ \E c \in digests[t] : ctx' = [ctx EXCEPT ![t] = c]
    /\ CommandAndRelease(t, Statuses)
    /\ UNCHANGED digests

InitReleased(t) ==
    /\ pc[t] = "idle"
    /\ At(t, "init_release", "out")
    /\ UNCHANGED <<sessionVars, ctx, digests>>

FinalReleased(t) ==
    /\ pc[t] = "idle"
    /\ At(t, "final_release", "out")
    /\ digests' = [digests EXCEPT ![t] = @ \ {ctx[t]}]
    /\ UNCHANGED <<sessionVars, ctx>>

(***************************************************************************)
(* Any other operation of the engine (a signature, a key, a random number).*)
(***************************************************************************)
BeginOp(t) == At(t, "out", "op_init") /\ Enter(t, "init") /\ UNCHANGED <<ctx, digests>>

OpSession(t) ==
    /\ pc[t] = "idle"
    /\ At(t, "op_init", IF status[t] = "SUCCESS" THEN "op" ELSE "out")
    /\ UNCHANGED <<sessionVars, ctx, digests>>

EndOp(t) ==
    /\ At(t, "op", "op_release")
    /\ CommandAndRelease(t, Statuses)
    /\ UNCHANGED <<ctx, digests>>

OpReleased(t) ==
    /\ pc[t] = "idle"
    /\ At(t, "op_release", "out")
    /\ UNCHANGED <<sessionVars, ctx, digests>>

(***************************************************************************)
(* The whole                                                               *)
(***************************************************************************)
Run(t) == SessionStep(t) /\ UNCHANGED digestVars

Step(t) ==
    \/ eccx08_sha256_init(t) \/ InitSession(t) \/ InitNoSession(t)
    \/ HwInit(t) \/ HwInitFails(t) \/ InitReleased(t)
    \/ eccx08_sha256_update(t) \/ eccx08_sha256_final(t) \/ FinalReleased(t)
    \/ BeginOp(t) \/ OpSession(t) \/ EndOp(t) \/ OpReleased(t)
    \/ Run(t)

Die(p) ==
    /\ KillProcess(p)
    /\ at' = Reset(at, p, "out")
    /\ digests' = Reset(digests, p, {})
    /\ UNCHANGED ctx

Next == (\E t \in Threads : Step(t)) \/ (\E p \in Procs : Die(p))

Spec == Init /\ [][Next]_vars
---------------------------------------------------------------------------------
TypeOK ==
    /\ SessionTypeOK
    /\ at \in [Threads -> AtPoints]
    /\ ctx \in [Threads -> Contexts]
    /\ digests \in [Threads -> SUBSET Contexts]

\* Nested in a digest's session, a call finds the mutex its own thread holds,
\* which is not recursive: global_lock.state keeps it from waiting for itself
\* (eccx08_engine.c:65-69 and 88), also after a nested call has unlocked it.
NoSelfDeadlock == \A t \in Threads : pc[t] = "acquire" => owner # t

\* Whatever order a thread nests its calls in, once it has no digest left the
\* session and the mutex are gone too ("every error path below must release the
\* mutex", eccx08_engine.c:139-141), each release finding the session of its
\* own init, that of another, or none.
DigestsLeaveNothing ==
    \A t \in Threads :
        at[t] = "out" /\ digests[t] = {} => /\ owner # t
                                            /\ state[ProcOf[t]] = 0
                                            /\ ifacecfg[ProcOf[t]] = "NULL"
=================================================================================
