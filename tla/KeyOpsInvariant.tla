----------------------------- MODULE KeyOpsInvariant -----------------------------
(***************************************************************************)
(* The inductive invariant of KeyOps: what each point of an operation      *)
(* implies for its status, its result and its retry.                       *)
(***************************************************************************)
EXTENDS KeyOps

UsesKey(t) == op[t] \notin {"keygen", "verify"}

\* Which operations reach which points; only the session functions run in between.
OpInv(t) ==
    /\ at[t] \notin {"opening", "closing"} => pc[t] = "idle"
    /\ at[t] = "out" <=> op[t] = "none"
    /\ op[t] = "verify" => asked[t] \in Signatures
    /\ at[t] = "auth" => Authorizes(t)
    /\ at[t] \in {"cure_wake", "cure_sleep"} => UsesKey(t)
    /\ at[t] = "second" => op[t] # "verify"

\* raw is written by the command that succeeds, and by no other.
ResultInv(t) ==
    /\ at[t] \notin {"ending", "closing", "finish"} => raw[t] = 0
    /\ at[t] \in {"ending", "closing"} => (raw[t] # 0 <=> st[t] = "SUCCESS" /\ op[t] # "verify")
    /\ at[t] = "finish" =>
            /\ st[t] = "SUCCESS" /\ op[t] # "verify" => raw[t] # 0
            /\ raw[t] # 0 /\ st[t] # "SUCCESS" => op[t] = "keygen" /\ st[t] = status[t]
    /\ sig[t] # HalfBuilt
    /\ pkey[t] = HalfBuilt => "set_public_key" \in HostFaults
    /\ gkey[t] = HalfBuilt => {"convert", "set_public_key"} \cap HostFaults # {}

\* A health-test failure leaves the session by way of the cure or the authorization.
CureInv(t) ==
    /\ at[t] \in {"out", "opening", "auth", "first"} => tried[t] = "no"
    /\ at[t] = "second" => op[t] = "keygen" \/ tried[t] = "cured"
    /\ at[t] \in {"ending", "closing", "finish"} /\ st[t] = "HEALTH_TEST_ERROR" /\ UsesKey(t) =>
            tried[t] = "cured" \/ (tried[t] = "no" /\ passwd[t])

\* From the command to the return, the status tells whether the chip has answered,
\* and then the flag is its answer.
VerifyInv(t) ==
    /\ op[t] # "verify" \/ at[t] \in {"opening", "first"} => answer[t] = "error"
    /\ op[t] = "verify" /\ at[t] \in {"ending", "closing", "finish"} =>
            IF st[t] # "SUCCESS" THEN answer[t] = "error"
            ELSE /\ answer[t] = IF verified[t] THEN "verified" ELSE "refused"
                 /\ verified[t] <=> asked[t] = "genuine"

KeyOpsInv ==
    TypeOK /\ \A t \in Threads : OpInv(t) /\ ResultInv(t) /\ CureInv(t) /\ VerifyInv(t)
==================================================================================
