----------------------------- MODULE CertsInvariant -----------------------------
(***************************************************************************)
(* The inductive invariant of Certs: what each point of a command implies  *)
(* for the session, for the certificate and for what the caller gets.      *)
(***************************************************************************)
EXTENDS Certs, SessionCalls

\* The certificate that the command builds: the buffer holds the key it has read.
Issuer(t) == IF ReadsSigner(t) THEN "signer" ELSE "ca"
Built(t) == [of |-> Subject(cmd[t]), issuer |-> Issuer(t)]

PlaceInv(t) ==
    /\ at[t] \in {"out", "issuer", "read", "ending", "output"} => pc[t] = "idle"
    /\ at[t] \in {"out", "output"} => HasNothing(t)
    /\ at[t] = "opening" => OpeningInv(t)
    /\ at[t] \in {"issuer", "read", "ending"} => HasSession(t)
    /\ at[t] = "closing" => ClosingInv(t)

\* A command under way.
UnderWay(t) ==
    /\ cmd[t] # "load_device_cert" /\ Defined(t, Subject(cmd[t]))
    /\ saved[t] = {} /\ cert[t] = {} /\ ~pkey[t]
    /\ raw[t] \in {{}, {Built(t)}}
    /\ at[t] \in {"opening", "issuer", "read"} => raw[t] = {}
    /\ at[t] = "read" => g_signer_1_ca_public_key[ProcOf[t]] = Issuer(t)
    /\ at[t] \in {"ending", "closing"} => (raw[t] # {} <=> st[t] = "SUCCESS")
    /\ at[t] = "output" => /\ raw[t] # {} => st[t] = "SUCCESS"
                           /\ raw[t] = {} => st[t] # "SUCCESS" \/ status[t] # "SUCCESS"

\* What the last command has left to its caller.
Over(t) ==
    /\ raw[t] = {}
    /\ saved[t] \in {{}, {Built(t)}} /\ cert[t] \in {{}, {Built(t)}}
    /\ saved[t] \cup cert[t] # {} => cmd[t] # "load_device_cert" /\ Defined(t, Subject(cmd[t]))
    /\ pkey[t] => cert[t] # {}
    /\ ~ToFile(t) => (rc[t] = "success" <=> cert[t] # {})

CommandInv(t) == PlaceInv(t) /\ IF at[t] = "out" THEN Over(t) ELSE UnderWay(t)

CertsInv == TypeOK /\ \A t \in Threads : LockInv(t) /\ CommandInv(t)
==================================================================================
