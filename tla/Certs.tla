--------------------------------- MODULE Certs ---------------------------------
(***************************************************************************)
(* The certificates that the engine reconstructs from the chip: the        *)
(* commands GET_DEVICE_CERT, GET_SIGNER_CERT and LOAD_CERT_CTRL            *)
(* (eccx08_cmd_defns.c) and the client certificate of a TLS handshake      *)
(* (eccx08_cert.c).  A certificate is whose it is and the public key of    *)
(* the issuer that was put into it.                                        *)
(***************************************************************************)
EXTENDS Session

CONSTANT HostFaults  \* what fails on the host

(***************************************************************************)
(* "memory"                    an allocation                               *)
(* "open", "write", "close"    fopen, fwrite, fclose                       *)
(* "parse", "pubkey"           d2i_X509, X509_get_pubkey                   *)
(***************************************************************************)
ASSUME CertsAssumption ==
    HostFaults \subseteq {"memory", "open", "write", "close", "parse", "pubkey"}

VARIABLES at, cmd,  \* per thread: where its command stands, and which it is
          st,       \* per thread: status of the command
          raw,      \* per thread: what the chip's data was reconstructed to
          saved,    \* per thread: the certificate that the named file now holds, whole
          cert,     \* per thread: *ppCert
          pkey,     \* per thread: *ppKey is a key
          rc,       \* per thread: what the last command returned
          g_signer_1_ca_public_key, \* per process: whose key the buffer holds
          definitions  \* per process: the certificate definitions that it has

certVars == <<at, cmd, st, raw, saved, cert, pkey, rc, g_signer_1_ca_public_key, definitions>>
outputs == <<saved, cert, pkey>>
shared == <<g_signer_1_ca_public_key, definitions>>
vars == <<sessionVars, certVars>>

Commands == {"get_device_cert", "get_signer_cert", "load_client", "load_device_cert"}
Subject(c) == IF c = "get_signer_cert" THEN "signer" ELSE "device"

Certificates == [of : {"device", "signer"}, issuer : {"built_in", "signer", "ca"}]
Right(c) == [of |-> c, issuer |-> IF c = "device" THEN "signer" ELSE "ca"]

CertStatuses == Statuses \cup {"BAD_PARAM"}
\* eccx08_cert_init copies each definition and does not look whether it could.
eccx08_cert_init ==
    IF "memory" \in HostFaults THEN SUBSET {"device", "signer"} ELSE {{"device", "signer"}}
Defined(t, c) == c \in definitions[ProcOf[t]]

AtPoints == {"out", "opening", "issuer", "read", "ending", "closing", "output"}

Init ==
    /\ SessionInit
    /\ at = [t \in Threads |-> "out"]
    /\ cmd = [t \in Threads |-> "load_client"]
    /\ st = [t \in Threads |-> "SUCCESS"]
    /\ raw = [t \in Threads |-> {}]
    /\ saved = [t \in Threads |-> {}]
    /\ cert = [t \in Threads |-> {}]
    /\ pkey = [t \in Threads |-> FALSE]
    /\ rc = [t \in Threads |-> "none"]
    /\ g_signer_1_ca_public_key = [p \in Procs |-> "built_in"]
    /\ definitions \in [Procs -> eccx08_cert_init]

At(t, from, to) == at[t] = from /\ at' = [at EXCEPT ![t] = to]
Status(t, s) == st' = [st EXCEPT ![t] = s]
Returns(t, r) == rc' = [rc EXCEPT ![t] = r]

\* A call comes with pointers to NULL, as every handshake's does, and puts nothing
\* where they point, or into the file, before its end.
NothingPutOut(t) ==
    /\ saved' = [saved EXCEPT ![t] = {}]
    /\ cert' = [cert EXCEPT ![t] = {}]
    /\ pkey' = [pkey EXCEPT ![t] = FALSE]

(***************************************************************************)
(* From the call to the session                                            *)
(***************************************************************************)
\* LOAD_CERT_CTRL passes no place for a key, which eccx08_cert_load_client
\* refuses; a command without its definition, and one without memory, end too.  What
\* the caller's pointers lead to is left alone.
Refused(t) ==
    /\ at[t] = "out"
    /\ \E c \in Commands :
         /\ \/ c = "load_device_cert" \/ ~Defined(t, Subject(c))
            \/ "memory" \in HostFaults
         /\ cmd' = [cmd EXCEPT ![t] = c]
    /\ Returns(t, "failure")
    /\ NothingPutOut(t)
    /\ UNCHANGED <<sessionVars, at, st, raw, shared>>

Begin(t) ==
    /\ At(t, "out", "opening")
    /\ \E c \in Commands \ {"load_device_cert"} :
         Defined(t, Subject(c)) /\ cmd' = [cmd EXCEPT ![t] = c]
    /\ NothingPutOut(t)
    /\ Returns(t, "none")
    /\ Enter(t, "init")
    /\ UNCHANGED <<st, raw, shared>>

Opened(t) ==
    /\ pc[t] = "idle"
    /\ At(t, "opening", IF status[t] = "SUCCESS" THEN "issuer" ELSE "output")
    /\ Status(t, status[t])
    /\ UNCHANGED <<sessionVars, cmd, raw, outputs, rc, shared>>

(***************************************************************************)
(* Within the session: the key of the issuer, then the certificate         *)
(***************************************************************************)
KeyRead(t, s, key) ==
    /\ Status(t, s)
    /\ g_signer_1_ca_public_key' =
         IF s = "SUCCESS" THEN Set(g_signer_1_ca_public_key, t, key)
                          ELSE g_signer_1_ca_public_key
    /\ UNCHANGED <<cmd, raw, outputs, rc, definitions>>

\* Variant: the certificate is read whether or not the key was.
IssuerKeyUnchecked(t, s, key) ==
    /\ At(t, "issuer", "read")
    /\ KeyRead(t, s, key)

IssuerKey(t, s, key) ==
    /\ At(t, "issuer", IF s = "SUCCESS" THEN "read" ELSE "ending")
    /\ KeyRead(t, s, key)

\* get_cert is given the definition of the signer for the device's certificate;
\* without one it reads the key of slot 15.
ReadsSigner(t) == cmd[t] = "load_client"
                  \/ (cmd[t] = "get_device_cert" /\ Defined(t, "signer"))

eccx08_cert_load_pubkey(t) ==
    /\ ReadsSigner(t)
    /\ Defined(t, "signer")
    /\ \E s \in Statuses : atcab_command(s) /\ IssuerKey(t, s, "signer")
    /\ OnDevice

eccx08_cert_load_pubkey_refuses(t) ==
    /\ ReadsSigner(t)
    /\ ~Defined(t, "signer") \/ "memory" \in HostFaults
    /\ IssuerKey(t, "BAD_PARAM", "built_in")
    /\ UNCHANGED sessionVars

atcab_read_pubkey(t) ==
    /\ ~ReadsSigner(t)
    /\ \E s \in Statuses : atcab_command(s) /\ IssuerKey(t, s, "ca")
    /\ OnDevice

atcacert_read_cert(t) ==
    /\ At(t, "read", "ending")
    /\ \E s \in Statuses :
         /\ atcab_command(s)
         /\ Status(t, s)
         /\ raw' = [raw EXCEPT ![t] =
              IF s = "SUCCESS"
              THEN {[of |-> Subject(cmd[t]), issuer |-> g_signer_1_ca_public_key[ProcOf[t]]]}
              ELSE {}]
    /\ OnDevice
    /\ UNCHANGED <<cmd, outputs, rc, shared>>

\* Variant: a failed read returns at once.
CloseUnlessFailed(t) ==
    /\ at[t] = "ending"
    /\ IF st[t] = "SUCCESS" THEN At(t, "ending", "closing") /\ Enter(t, "release")
                            ELSE At(t, "ending", "output") /\ UNCHANGED sessionVars
    /\ UNCHANGED <<cmd, st, raw, outputs, rc, shared>>

Close(t) ==
    /\ At(t, "ending", "closing")
    /\ Enter(t, "release")
    /\ UNCHANGED <<cmd, st, raw, outputs, rc, shared>>

\* After a failing release the status is still that of the certificate, which
\* is dropped.
Closed(t) ==
    /\ pc[t] = "idle"
    /\ At(t, "closing", "output")
    /\ raw' = [raw EXCEPT ![t] = IF status[t] = "SUCCESS" THEN @ ELSE {}]
    /\ UNCHANGED <<sessionVars, cmd, st, outputs, rc, shared>>

(***************************************************************************)
(* What the caller gets                                                    *)
(***************************************************************************)
ToFile(t) == cmd[t] \in {"get_device_cert", "get_signer_cert"}
StatusToReturn(s) == IF s = "SUCCESS" THEN "success" ELSE "failure"

\* The local variables are gone with the return.
Return(t, r) ==
    /\ At(t, "output", "out")
    /\ Returns(t, r)
    /\ Status(t, "SUCCESS")
    /\ raw' = [raw EXCEPT ![t] = {}]
    /\ UNCHANGED <<sessionVars, cmd, shared>>

\* Variant: the status decides for TLS too.
NoOutputByStatus(t) ==
    /\ raw[t] = {}
    /\ Return(t, StatusToReturn(st[t]))
    /\ UNCHANGED outputs

\* Nothing to put out: the status decides for a file, the certificate for TLS.
NoOutput(t) ==
    /\ raw[t] = {}
    /\ Return(t, IF ToFile(t) THEN StatusToReturn(st[t]) ELSE "failure")
    /\ UNCHANGED outputs

\* What fclose says is ignored: the last of the file may never have been written.
Save(t) ==
    /\ ToFile(t) /\ raw[t] # {}
    /\ Return(t, "success")
    /\ \E file \in {raw[t]} \cup (IF "close" \in HostFaults THEN {{}} ELSE {}) :
         saved' = [saved EXCEPT ![t] = file]
    /\ UNCHANGED <<cert, pkey>>

SaveFails(t) ==
    /\ ToFile(t) /\ raw[t] # {}
    /\ {"open", "write"} \cap HostFaults # {}
    /\ Return(t, "failure")
    /\ UNCHANGED outputs

d2i_X509(t) ==
    /\ ~ToFile(t) /\ raw[t] # {}
    /\ \E c \in {raw[t]} \cup (IF "parse" \in HostFaults THEN {{}} ELSE {}),
          k \in {TRUE} \cup (IF "pubkey" \in HostFaults THEN {FALSE} ELSE {}) :
         /\ cert' = [cert EXCEPT ![t] = c]
         /\ pkey' = [pkey EXCEPT ![t] = c # {} /\ k]
         /\ Return(t, IF c # {} THEN "success" ELSE "failure")
    /\ UNCHANGED saved

(***************************************************************************)
(* The whole                                                               *)
(***************************************************************************)
Run(t) == SessionStep(t) /\ UNCHANGED certVars

Step(t) ==
    \/ Refused(t) \/ Begin(t) \/ Opened(t)
    \/ eccx08_cert_load_pubkey(t) \/ eccx08_cert_load_pubkey_refuses(t)
    \/ atcab_read_pubkey(t) \/ atcacert_read_cert(t)
    \/ Close(t) \/ Closed(t)
    \/ NoOutput(t) \/ Save(t) \/ SaveFails(t) \/ d2i_X509(t)
    \/ Run(t)

Die(p) ==
    /\ KillProcess(p)
    /\ at' = Reset(at, p, "out")
    /\ cmd' = Reset(cmd, p, "load_client")
    /\ st' = Reset(st, p, "SUCCESS")
    /\ raw' = Reset(raw, p, {})
    /\ saved' = Reset(saved, p, {})
    /\ cert' = Reset(cert, p, {})
    /\ pkey' = Reset(pkey, p, FALSE)
    /\ rc' = Reset(rc, p, "none")
    /\ g_signer_1_ca_public_key' = [g_signer_1_ca_public_key EXCEPT ![p] = "built_in"]
    /\ \E d \in eccx08_cert_init : definitions' = [definitions EXCEPT ![p] = d]

Next == (\E t \in Threads : Step(t)) \/ (\E p \in Procs : Die(p))

Spec == Init /\ [][Next]_vars
---------------------------------------------------------------------------------
TypeOK ==
    /\ SessionTypeOK
    /\ at \in [Threads -> AtPoints]
    /\ cmd \in [Threads -> Commands]
    /\ st \in [Threads -> CertStatuses]
    /\ raw \in [Threads -> SUBSET Certificates]
    /\ saved \in [Threads -> SUBSET Certificates]
    /\ cert \in [Threads -> SUBSET Certificates]
    /\ pkey \in [Threads -> BOOLEAN]
    /\ rc \in [Threads -> {"none", "success", "failure"}]
    /\ g_signer_1_ca_public_key \in [Procs -> {"built_in", "signer", "ca"}]
    /\ definitions \in [Procs -> SUBSET {"device", "signer"}]

\* One buffer serves both commands and the handshake, and keeps the key of the
\* last of them: whatever fails in between, and whichever definitions the process
\* has, a certificate that reaches the caller was "reconstructed"
\* (eccx08_cmd_defns.c:114, 146) with the key of its own issuer.  There is one
\* exception: to get_cert a signer without a definition is no signer (:136), and it
\* builds the device's certificate with the key of slot 15.
CertBuiltWithItsIssuer ==
    \A t \in Threads :
        \/ saved[t] \cup cert[t] \subseteq {Right(Subject(cmd[t]))}
        \/ /\ cmd[t] = "get_device_cert" /\ ~Defined(t, "signer")
           /\ saved[t] \cup cert[t] = {[of |-> "device", issuer |-> "ca"]}

\* "Make sure we release the device before checking if the operation succeeded"
\* (eccx08_cmd_defns.c:152, eccx08_cert.c:288): a command that is over, however
\* it ended, holds neither the mutex nor a session, and no part of what it does
\* after the release is done within the session.
ReleasedBeforeOutput ==
    \A t \in Threads : at[t] \in {"out", "output"} =>
        owner # t /\ ifacecfg[ProcOf[t]] = "NULL"

\* The handshake is given a certificate only when it could be read, released
\* and parsed, never together with a failure, and a key only with a certificate
\* (eccx08_cert.c:314-339).
HandshakeGetsCertOrFailure ==
    \A t \in Threads : at[t] = "out" /\ ~ToFile(t) /\ rc[t] # "none" =>
        /\ (rc[t] = "success") = (cert[t] = {Right("device")})
        /\ pkey[t] => cert[t] # {}

\* "Retrieves pre-programmed certificates from ATECCX08 chip and saves them into
\* temporary files", "\return ATCA_SUCCESS for success" (eccx08_cmd_defns.c:94-101): a
\* command that has reported success has written the certificate.
SuccessMeansWritten ==
    \A t \in Threads :
        at[t] = "out" /\ ToFile(t) /\ rc[t] = "success" =>
            saved[t] = {Right(Subject(cmd[t]))}
=================================================================================
