------------------------------- MODULE CertsProofs -------------------------------
(***************************************************************************)
(* Theorems about Certs, for processes of one thread each: the buffer of   *)
(* the issuer's key is a static that the threads of a process share        *)
(* without a lock.                                                         *)
(***************************************************************************)
EXTENDS CertsInvariant, SessionCallsProofs

(***************************************************************************)
(* The steps of a command: those that enter the session functions, and     *)
(* those that do not.                                                      *)
(***************************************************************************)
Enters(t) == Begin(t) \/ Close(t)

Reads(t) == eccx08_cert_load_pubkey(t) \/ atcab_read_pubkey(t) \/ atcacert_read_cert(t)

Stays(t) ==
    \/ Refused(t) \/ Opened(t) \/ Closed(t) \/ eccx08_cert_load_pubkey_refuses(t)
    \/ NoOutput(t) \/ Save(t) \/ SaveFails(t) \/ d2i_X509(t)
    \/ Reads(t)

LEMMA EntersSession ==
    ASSUME SessionTypeOK, NEW t \in Threads, Enters(t)
    PROVE  /\ SessionTypeOK'
           /\ \A u \in Threads \ {t} : Kept(u)
           /\ pc[t] = "idle" /\ pc'[t] = "lock" /\ status'[t] = "SUCCESS"
           /\ call'[t] = IF at[t] = "out" THEN "init" ELSE "release"
           /\ UNCHANGED <<state, ifacecfg, handle, owner>>
<1>1. CASE Begin(t)
  BY <1>1, EnterTyped, EnterKept DEF Begin, At, Calls
<1>2. CASE Close(t)
  BY <1>2, EnterTyped, EnterKept DEF Close, At, Calls
<1> QED
  BY <1>1, <1>2 DEF Enters

LEMMA StaysInSession ==
    ASSUME SessionTypeOK, NEW t \in Threads, Stays(t)
    PROVE  SessionTypeOK' /\ \A u \in Threads : Kept(u)
<1>1. CASE Reads(t)
  <2>1. OnDevice /\ chip' \in Chips
    BY <1>1, CommandTyped
    DEF Reads, eccx08_cert_load_pubkey, atcab_read_pubkey, atcacert_read_cert, SessionTypeOK
  <2> QED
    BY <2>1, OnDeviceTyped, UnchangedKept DEF OnDevice
<1>2. CASE UNCHANGED sessionVars
  BY <1>2, UnchangedTyped, UnchangedKept DEF sessionVars
<1> QED
  BY <1>1, <1>2
  DEF Stays, Refused, Opened, Closed, eccx08_cert_load_pubkey_refuses, NoOutput, Save,
      SaveFails, d2i_X509, Return

(***************************************************************************)
(* The variables of a command.                                             *)
(***************************************************************************)
CommandTypeOK ==
    /\ at \in [Threads -> AtPoints]
    /\ cmd \in [Threads -> Commands]
    /\ st \in [Threads -> CertStatuses]
    /\ raw \in [Threads -> SUBSET Certificates]
    /\ saved \in [Threads -> SUBSET Certificates]
    /\ cert \in [Threads -> SUBSET Certificates]
    /\ pkey \in [Threads -> BOOLEAN]
    /\ rc \in [Threads -> {"none", "success", "failure"}]
    /\ g_signer_1_ca_public_key \in [Procs -> {"built_in", "signer", "ca"}]
    /\ definitions \in [Procs -> SUBSET {"device", "signer"}]

\* What reading the issuer's key does, with whatever result.
Keyed(t, key) ==
    /\ at[t] = "issuer"
    /\ \E s \in CertStatuses :
         /\ at' = [at EXCEPT ![t] = IF s = "SUCCESS" THEN "read" ELSE "ending"]
         /\ st' = [st EXCEPT ![t] = s]
         /\ g_signer_1_ca_public_key' =
              IF s = "SUCCESS" THEN Set(g_signer_1_ca_public_key, t, key)
                               ELSE g_signer_1_ca_public_key
    /\ UNCHANGED <<cmd, raw, saved, cert, pkey, rc, definitions>>

LEMMA KeyReading ==
    ASSUME NEW t \in Threads,
           \/ eccx08_cert_load_pubkey(t) \/ eccx08_cert_load_pubkey_refuses(t)
           \/ atcab_read_pubkey(t)
    PROVE  Keyed(t, Issuer(t))
<1> USE DEF Keyed, Issuer, IssuerKey, KeyRead, At, Status, outputs, shared, CertStatuses, Statuses
<1>1. CASE eccx08_cert_load_pubkey(t)
  BY <1>1 DEF eccx08_cert_load_pubkey
<1>2. CASE eccx08_cert_load_pubkey_refuses(t)
  BY <1>2 DEF eccx08_cert_load_pubkey_refuses
<1>3. CASE atcab_read_pubkey(t)
  BY <1>3 DEF atcab_read_pubkey
<1> QED
  BY <1>1, <1>2, <1>3

LEMMA CallTyped ==
    ASSUME SessionTypeOK, CommandTypeOK, NEW t \in Threads, Enters(t) \/ Stays(t)
    PROVE  CommandTypeOK'
<1> USE ProcOfAssumption
<1> USE DEF CommandTypeOK, At, Status, Returns, NothingPutOut, outputs, shared, AtPoints, CertStatuses,
            Statuses, CallStatuses, Commands
<1>1. CASE Begin(t)
  BY <1>1 DEF Begin
<1>2. CASE Close(t)
  BY <1>2 DEF Close
<1>3. CASE Refused(t)
  BY <1>3 DEF Refused
<1>4. CASE Opened(t)
  BY <1>4 DEF Opened, SessionTypeOK
<1>5. CASE eccx08_cert_load_pubkey(t) \/ eccx08_cert_load_pubkey_refuses(t) \/ atcab_read_pubkey(t)
  <2>1. Keyed(t, Issuer(t)) /\ Issuer(t) \in {"signer", "ca"}
    BY <1>5, KeyReading DEF Issuer
  <2> QED
    BY <2>1 DEF Keyed, Set
<1>6. CASE atcacert_read_cert(t)
  <2>1. [of |-> Subject(cmd[t]), issuer |-> g_signer_1_ca_public_key[ProcOf[t]]] \in Certificates
    BY DEF Certificates, Subject
  <2> QED
    BY <1>6, <2>1 DEF atcacert_read_cert
<1>7. CASE Closed(t)
  BY <1>7 DEF Closed
<1>8. CASE NoOutput(t)
  BY <1>8 DEF NoOutput, Return, StatusToReturn
<1>9. CASE Save(t)
  BY <1>9 DEF Save, Return
<1>10. CASE SaveFails(t)
  BY <1>10 DEF SaveFails, Return
<1>11. CASE d2i_X509(t)
  BY <1>11 DEF d2i_X509, Return
<1> QED
  BY <1>1, <1>2, <1>3, <1>4, <1>5, <1>6, <1>7, <1>8, <1>9, <1>10, <1>11
  DEF Enters, Stays, Reads

(***************************************************************************)
(* What a thread of a process of its own sees when another one moves.      *)
(***************************************************************************)
OwnVars(u) == <<at[u], cmd[u], st[u], raw[u], saved[u], cert[u], pkey[u], rc[u],
                g_signer_1_ca_public_key[ProcOf[u]], definitions[ProcOf[u]]>>

Untouched(u) == Kept(u) /\ UNCHANGED OwnVars(u)

LEMMA UntouchedKeeps ==
    ASSUME NEW u \in Threads, Untouched(u), CommandInv(u) PROVE CommandInv(u)'
<1>1. /\ HasSession(u)' <=> HasSession(u)
      /\ HasNothing(u)' <=> HasNothing(u)
      /\ OpeningInv(u)' <=> OpeningInv(u)
      /\ ClosingInv(u)' <=> ClosingInv(u)
  BY KeptPromises DEF Untouched
<1>2. PlaceInv(u)'
  BY <1>1 DEF Untouched, OwnVars, Kept, CommandInv, PlaceInv
<1>3. /\ UnderWay(u)' <=> UnderWay(u)
      /\ Over(u)' <=> Over(u)
  BY DEF Untouched, OwnVars, Kept, UnderWay, Over, Built, Issuer, ReadsSigner, Defined, ToFile
<1> QED
  BY <1>2, <1>3 DEF Untouched, OwnVars, CommandInv

LEMMA OthersUntouched ==
    ASSUME SingleThreaded, SessionTypeOK, CommandTypeOK,
           NEW t \in Threads, Enters(t) \/ Stays(t), NEW u \in Threads \ {t}
    PROVE  Untouched(u)
<1>1. Kept(u)
  BY EntersSession, StaysInSession
<1> USE OtherProcess, ProcOfAssumption
<1> USE DEF At, Status, Returns, NothingPutOut, outputs, shared, CommandTypeOK, OwnVars
<1>2. CASE Enters(t)
  BY <1>1, <1>2 DEF Enters, Begin, Close, Untouched
<1>3. CASE eccx08_cert_load_pubkey(t) \/ eccx08_cert_load_pubkey_refuses(t) \/ atcab_read_pubkey(t)
  <2>1. Keyed(t, Issuer(t))
    BY <1>3, KeyReading
  <2> QED
    BY <1>1, <2>1 DEF Keyed, Set, Untouched
<1>4. CASE Refused(t) \/ Opened(t) \/ Closed(t)
  BY <1>1, <1>4 DEF Refused, Opened, Closed, Untouched
<1>5. CASE NoOutput(t) \/ Save(t) \/ SaveFails(t)
  BY <1>1, <1>5 DEF NoOutput, Save, SaveFails, Return, Untouched
<1>6. CASE atcacert_read_cert(t)
  <2>1. UNCHANGED <<cmd, saved, cert, pkey, rc, shared>>
    BY <1>6 DEF atcacert_read_cert
  <2>2. UNCHANGED <<at[u], st[u], raw[u]>>
    BY <1>6 DEF atcacert_read_cert
  <2> QED
    BY <1>1, <2>1, <2>2 DEF Untouched
<1>7. CASE d2i_X509(t)
  <2>1. UNCHANGED <<cmd, saved, shared>>
    BY <1>7 DEF d2i_X509, Return
  <2>2. UNCHANGED <<at[u], st[u], raw[u], cert[u], pkey[u], rc[u]>>
    BY <1>7 DEF d2i_X509, Return
  <2> QED
    BY <1>1, <2>1, <2>2 DEF Untouched
<1> QED
  BY <1>2, <1>3, <1>4, <1>5, <1>6, <1>7 DEF Stays, Reads

(***************************************************************************)
(* A step of a command keeps the invariant of its thread.                  *)
(***************************************************************************)
\* What the proofs about one thread start from.
Before(t) == SessionTypeOK /\ CommandTypeOK /\ LockInv(t) /\ CommandInv(t)

LEMMA StaysPromises ==
    ASSUME NEW t \in Threads, SessionTypeOK, LockInv(t), Stays(t)
    PROVE  /\ LockInv(t)' /\ UNCHANGED <<pc[t], status[t]>>
           /\ HasSession(t)' <=> HasSession(t)
           /\ HasNothing(t)' <=> HasNothing(t)
<1>1. Kept(t)
  BY StaysInSession
<1> QED
  BY <1>1, KeptPromises DEF Kept

\* Where a call of the session functions begins, its promise is that it has not begun.
LEMMA EntersPromises ==
    ASSUME NEW t \in Threads, SessionTypeOK, LockInv(t), Enters(t)
    PROVE  /\ LockInv(t)'
           /\ at[t] = "out" /\ HasNothing(t) => OpeningInv(t)'
           /\ at[t] # "out" /\ HasSession(t) => ClosingInv(t)'
<1>1. /\ pc[t] = "idle" /\ pc'[t] = "lock" /\ status'[t] = "SUCCESS"
      /\ call'[t] = IF at[t] = "out" THEN "init" ELSE "release"
      /\ UNCHANGED <<state, ifacecfg, handle, owner>>
  BY EntersSession
<1> QED
  BY <1>1 DEF LockInv, OpeningInv, InitInv, ClosingInv, ReleaseInv, HasSession, HasNothing,
              InitPCs, ReleasePCs, UnlockPCs

LEMMA EntersKeeps ==
    ASSUME NEW t \in Threads, Before(t), Enters(t) PROVE LockInv(t)' /\ CommandInv(t)'
<1>1. /\ LockInv(t)'
      /\ at[t] = "out" /\ HasNothing(t) => OpeningInv(t)'
      /\ at[t] # "out" /\ HasSession(t) => ClosingInv(t)'
  BY EntersPromises DEF Before
<1>a. CommandTypeOK /\ CommandInv(t)
  BY DEF Before
<1>2. CASE Begin(t)
  <2>1. at[t] = "out" /\ at'[t] = "opening" /\ HasNothing(t)
    BY <1>a, <1>2 DEF Begin, At, CommandInv, PlaceInv, CommandTypeOK
  <2>2. UnderWay(t)'
    BY <1>a, <1>2, <2>1 DEF Begin, CommandInv, Over, NothingPutOut, shared, UnderWay, Defined, CommandTypeOK
  <2> QED
    BY <1>1, <2>1, <2>2 DEF CommandInv, PlaceInv
<1>3. CASE Close(t)
  <2>1. at[t] = "ending" /\ at'[t] = "closing" /\ HasSession(t) /\ UnderWay(t)
    BY <1>a, <1>3 DEF Close, At, CommandInv, PlaceInv, CommandTypeOK
  <2>2. UnderWay(t)'
    BY <1>3, <2>1 DEF Close, outputs, shared, UnderWay, Built, Issuer, ReadsSigner, Defined
  <2> QED
    BY <1>1, <2>1, <2>2 DEF CommandInv, PlaceInv
<1> QED
  BY <1>1, <1>2, <1>3 DEF Enters

LEMMA StaysKeeps ==
    ASSUME NEW t \in Threads, Before(t), Stays(t) PROVE LockInv(t)' /\ CommandInv(t)'
<1>a. /\ LockInv(t)' /\ UNCHANGED <<pc[t], status[t]>>
      /\ HasSession(t)' <=> HasSession(t)
      /\ HasNothing(t)' <=> HasNothing(t)
  BY StaysPromises DEF Before
<1>b. CommandTypeOK /\ CommandInv(t)
  BY DEF Before
<1>c. /\ OpeningInv(t) /\ pc[t] = "idle" =>
             IF status[t] = "SUCCESS" THEN HasSession(t) ELSE HasNothing(t)
      /\ ClosingInv(t) /\ pc[t] = "idle" => HasNothing(t)
  BY DEF InitInv, OpeningInv, ClosingInv, HasSession, HasNothing
<1>d. CommandTypeOK /\ ProcOf[t] \in Procs
  BY ProcOfAssumption DEF Before
<1> USE DEF At, Status, Returns, NothingPutOut, outputs, shared, CommandTypeOK, CommandInv, PlaceInv
<1>1. CASE Refused(t)
  BY <1>a, <1>b, <1>1 DEF Refused, Over, ToFile, Built, Issuer, ReadsSigner, Defined
<1>2. CASE Opened(t)
  BY <1>a, <1>b, <1>c, <1>2 DEF Opened, UnderWay, Built, Issuer, ReadsSigner, Defined
<1>3. CASE eccx08_cert_load_pubkey(t) \/ eccx08_cert_load_pubkey_refuses(t) \/ atcab_read_pubkey(t)
  <2>1. Keyed(t, Issuer(t))
    BY <1>3, KeyReading
  <2>2. /\ at[t] = "issuer" /\ UnderWay(t) /\ HasSession(t)
        /\ UNCHANGED <<cmd, raw, saved, cert, pkey, rc, definitions>>
    BY <1>b, <2>1 DEF Keyed
  <2>3. PICK s \in CertStatuses :
             /\ at'[t] = IF s = "SUCCESS" THEN "read" ELSE "ending"
             /\ st'[t] = s
             /\ s = "SUCCESS" => g_signer_1_ca_public_key'[ProcOf[t]] = Issuer(t)
    <3>1. PICK s \in CertStatuses :
               /\ at' = [at EXCEPT ![t] = IF s = "SUCCESS" THEN "read" ELSE "ending"]
               /\ st' = [st EXCEPT ![t] = s]
               /\ s = "SUCCESS" => g_signer_1_ca_public_key' =
                       [g_signer_1_ca_public_key EXCEPT ![ProcOf[t]] = Issuer(t)]
      BY <2>1 DEF Keyed, Set
    <3> QED
      BY <1>d, <3>1
  <2>4. Built(t)' = Built(t) /\ Issuer(t)' = Issuer(t)
    BY <2>2 DEF Built, Issuer, ReadsSigner, Defined
  <2>5. UnderWay(t)'
    BY <2>2, <2>3, <2>4 DEF UnderWay, Defined
  <2>6. PlaceInv(t)'
    BY <1>a, <1>b, <2>2, <2>3
  <2> QED
    BY <1>a, <2>3, <2>5, <2>6
<1>4. CASE atcacert_read_cert(t)
  <2>1. at[t] = "read" /\ at'[t] = "ending" /\ UNCHANGED <<cmd, outputs, rc, shared>>
    BY <1>b, <1>4 DEF atcacert_read_cert
  <2>2. raw'[t] \in {{}, {Built(t)}} /\ (raw'[t] # {} <=> st'[t] = "SUCCESS")
    <3>1. g_signer_1_ca_public_key[ProcOf[t]] = Issuer(t)
      BY <1>b, <2>1 DEF UnderWay
    <3>2. PICK s \in Statuses :
               /\ st' = [st EXCEPT ![t] = s]
               /\ raw' = [raw EXCEPT ![t] = IF s = "SUCCESS" THEN {Built(t)} ELSE {}]
      BY <1>4, <3>1 DEF atcacert_read_cert, Built
    <3> QED
      BY <1>d, <3>2
  <2>3. Built(t)' = Built(t)
    BY <2>1 DEF Built, Issuer, ReadsSigner, Defined
  <2>4. UnderWay(t)'
    BY <1>b, <2>1, <2>2, <2>3 DEF UnderWay, Defined
  <2>5. PlaceInv(t)'
    BY <1>a, <1>b, <2>1
  <2> QED
    BY <1>a, <2>1, <2>4, <2>5
<1>5. CASE Closed(t)
  BY <1>a, <1>b, <1>c, <1>5 DEF Closed, UnderWay, Built, Issuer, ReadsSigner, Defined
<1>6. CASE NoOutput(t)
  BY <1>a, <1>b, <1>6 DEF NoOutput, Return, StatusToReturn, UnderWay, Over, Built, Issuer, ReadsSigner, Defined, ToFile
<1>7. CASE Save(t)
  BY <1>a, <1>b, <1>7 DEF Save, Return, UnderWay, Over, Built, Issuer, ReadsSigner, Defined, ToFile
<1>8. CASE SaveFails(t)
  BY <1>a, <1>b, <1>8 DEF SaveFails, Return, UnderWay, Over, Built, Issuer, ReadsSigner, Defined, ToFile
<1>9. CASE d2i_X509(t)
  BY <1>a, <1>b, <1>9 DEF d2i_X509, Return, UnderWay, Over, Built, Issuer, ReadsSigner, Defined, ToFile
<1> QED
  BY <1>1, <1>2, <1>3, <1>4, <1>5, <1>6, <1>7, <1>8, <1>9 DEF Stays, Reads

LEMMA RunKeeps ==
    ASSUME SingleThreaded, NEW t \in Threads, Before(t), Run(t)
    PROVE  LockInv(t)' /\ CommandInv(t)' /\ \A u \in Threads \ {t} : Untouched(u)
<1>a. SessionTypeOK /\ CommandInv(t) /\ LockInv(t)
  BY DEF Before
<1>1. /\ LockInv(t)'
      /\ OpeningInv(t) => OpeningInv(t)'
      /\ ClosingInv(t) => ClosingInv(t)'
  BY <1>a, StepPromises DEF Run
<1>2. pc[t] # "idle" /\ UNCHANGED certVars
  BY <1>a, StepMoves DEF Run
<1>3. at[t] \notin {"out", "issuer", "read", "ending", "output"}
  BY <1>a, <1>2 DEF CommandInv, PlaceInv
<1>4. UnderWay(t)'
  BY <1>a, <1>2, <1>3 DEF certVars, CommandInv, UnderWay, Built, Issuer, ReadsSigner, Defined
<1>5. CommandInv(t)'
  BY <1>a, <1>1, <1>2, <1>3, <1>4 DEF certVars, CommandInv, PlaceInv
<1>6. \A u \in Threads \ {t} : Untouched(u)
  BY <1>a, <1>2, StepKept DEF Run, Untouched, OwnVars, certVars
<1> QED
  BY <1>1, <1>5, <1>6

(***************************************************************************)
(* The three facts of the induction.                                       *)
(***************************************************************************)
LEMMA InitEstablishes == Init => CertsInv
<1> SUFFICES ASSUME Init PROVE CertsInv
  OBVIOUS
<1> USE ProcOfAssumption, NoThreadAssumption
<1>1. SessionTypeOK
  BY SessionInitTyped DEF Init
<1>2. CommandTypeOK
  BY DEF Init, CommandTypeOK, AtPoints, CertStatuses, Statuses, Commands, eccx08_cert_init
<1>3. ASSUME NEW t \in Threads PROVE LockInv(t) /\ CommandInv(t)
  BY DEF Init, SessionInit, MutexInit, LockInv, CommandInv, PlaceInv, Over, ToFile, HasNothing,
         InitPCs, ReleasePCs
<1> QED
  BY <1>1, <1>2, <1>3 DEF CertsInv, TypeOK, CommandTypeOK

LEMMA NextTyped ==
    ASSUME SessionTypeOK, CommandTypeOK, [Next]_vars PROVE SessionTypeOK' /\ CommandTypeOK'
<1>1. ASSUME NEW t \in Threads, Enters(t) \/ Stays(t) PROVE SessionTypeOK' /\ CommandTypeOK'
  BY <1>1, EntersSession, StaysInSession, CallTyped
<1>2. ASSUME NEW t \in Threads, Run(t) PROVE SessionTypeOK' /\ CommandTypeOK'
  BY <1>2, StepTyped DEF Run, certVars, CommandTypeOK
<1>3. ASSUME NEW p \in Procs, Die(p) PROVE SessionTypeOK' /\ CommandTypeOK'
  BY <1>3, KillTyped
  DEF Die, CommandTypeOK, Reset, AtPoints, CertStatuses, Statuses, Commands, eccx08_cert_init
<1>4. ASSUME UNCHANGED vars PROVE SessionTypeOK' /\ CommandTypeOK'
  BY <1>4, UnchangedTyped DEF vars, certVars, CommandTypeOK
<1> QED
  BY <1>1, <1>2, <1>3, <1>4 DEF Next, Step, Enters, Stays, Reads

LEMMA NextKeeps ==
    ASSUME SingleThreaded, CertsInv, [Next]_vars PROVE CertsInv'
<1>a. SessionTypeOK /\ CommandTypeOK /\ \A t \in Threads : Before(t)
  BY DEF CertsInv, TypeOK, CommandTypeOK, Before
<1>b. ASSUME \A u \in Threads : LockInv(u)' /\ CommandInv(u)' PROVE CertsInv'
  BY <1>a, <1>b, NextTyped DEF CertsInv, TypeOK, CommandTypeOK
<1>c. ASSUME NEW u \in Threads, Untouched(u) PROVE LockInv(u)' /\ CommandInv(u)'
  BY <1>a, <1>c, UntouchedKeeps, KeptPromises DEF Before, Untouched
<1>1. ASSUME NEW t \in Threads, Enters(t) \/ Stays(t) PROVE CertsInv'
  <2>1. LockInv(t)' /\ CommandInv(t)'
    BY <1>a, <1>1, EntersKeeps, StaysKeeps
  <2>2. \A u \in Threads \ {t} : Untouched(u)
    BY <1>a, <1>1, OthersUntouched
  <2> QED
    BY <1>b, <1>c, <2>1, <2>2
<1>2. ASSUME NEW t \in Threads, Run(t) PROVE CertsInv'
  BY <1>a, <1>b, <1>c, <1>2, RunKeeps
<1>3. ASSUME NEW p \in Procs, Die(p) PROVE CertsInv'
  <2>1. ASSUME NEW u \in Threads, ProcOf[u] = p PROVE LockInv(u)' /\ CommandInv(u)'
    <3>1. pc'[u] = "idle" /\ HasNothing(u)' /\ LockInv(u)'
      BY <1>a, <1>3, <2>1, KillKept DEF Die
    <3>2. /\ at'[u] = "out" /\ cmd'[u] = "load_client" /\ rc'[u] = "none"
          /\ saved'[u] = {} /\ cert'[u] = {} /\ pkey'[u] = FALSE /\ raw'[u] = {}
      BY <1>a, <1>3, <2>1 DEF Die, Reset, ThreadsOf, CommandTypeOK
    <3> QED
      BY <3>1, <3>2 DEF CommandInv, PlaceInv, Over, ToFile
  <2>2. ASSUME NEW u \in Threads, ProcOf[u] # p PROVE LockInv(u)' /\ CommandInv(u)'
    <3>1. Kept(u) /\ UNCHANGED OwnVars(u)
      BY <1>a, <1>3, <2>2, ProcOfAssumption, KillKept
      DEF Die, Reset, ThreadsOf, CommandTypeOK, OwnVars
    <3> QED
      BY <1>c, <3>1 DEF Untouched
  <2> QED
    BY <1>b, <2>1, <2>2
<1>4. ASSUME UNCHANGED vars PROVE CertsInv'
  <2>1. \A u \in Threads : Untouched(u)
    BY <1>4, UnchangedKept DEF vars, sessionVars, certVars, Untouched, OwnVars
  <2> QED
    BY <1>b, <1>c, <2>1
<1> QED
  BY <1>1, <1>2, <1>3, <1>4 DEF Next, Step, Enters, Stays, Reads

\* In every reachable state the point that a certificate command has reached tells
\* what it has of the session, of the certificate and of what its caller gets.
THEOREM CertsInvariance == ASSUME SingleThreaded PROVE Spec => []CertsInv
<1>1. CertsInv /\ [Next]_vars => CertsInv'
  BY NextKeeps
<1> QED
  BY <1>1, InitEstablishes, PTL DEF Spec

\* The variables of the commands keep their types, whatever threads share a process:
\* a certificate is always of a kind that the code can build, and the buffer holds a key.
THEOREM TypeCorrectness == Spec => []TypeOK
<1>1. TypeOK <=> SessionTypeOK /\ CommandTypeOK
  BY DEF TypeOK, CommandTypeOK
<1>2. Init => SessionTypeOK /\ CommandTypeOK
  BY InitEstablishes, <1>1 DEF CertsInv
<1>3. SessionTypeOK /\ CommandTypeOK /\ [Next]_vars => SessionTypeOK' /\ CommandTypeOK'
  BY NextTyped
<1> QED
  BY <1>1, <1>2, <1>3, PTL DEF Spec

\* Whichever definitions eccx08_cert_init could copy, a certificate that reaches the
\* caller, in the file or in the handshake, was built with the key of its own issuer,
\* although one buffer serves all commands and keeps the key of the last one that could
\* read it (eccx08_cmd_defns.c:114, 146), or it is the device's own, asked for by
\* GET_DEVICE_CERT without a definition of the signer, with the key of slot 15 (:136-143).
THEOREM IssuerCorrectness == ASSUME SingleThreaded PROVE Spec => []CertBuiltWithItsIssuer
<1>1. CertsInv => CertBuiltWithItsIssuer
  <2> SUFFICES ASSUME CertsInv, NEW t \in Threads, saved[t] \cup cert[t] # {}
               PROVE  \/ saved[t] \cup cert[t] \subseteq {Right(Subject(cmd[t]))}
                      \/ /\ cmd[t] = "get_device_cert" /\ ~Defined(t, "signer")
                         /\ saved[t] \cup cert[t] = {[of |-> "device", issuer |-> "ca"]}
    BY DEF CertBuiltWithItsIssuer
  <2>1. at[t] = "out" /\ Over(t)
    BY DEF CertsInv, CommandInv, UnderWay
  <2>2. saved[t] \cup cert[t] = {Built(t)}
    BY <2>1 DEF Over
  <2>3. \/ Built(t) = Right(Subject(cmd[t]))
        \/ /\ cmd[t] = "get_device_cert" /\ ~Defined(t, "signer")
           /\ Built(t) = [of |-> "device", issuer |-> "ca"]
    BY <2>1 DEF Over, Built, Issuer, ReadsSigner, Right, Subject, CertsInv, TypeOK, Commands
  <2> QED
    BY <2>2, <2>3
<1> QED
  BY <1>1, CertsInvariance, PTL

\* "Make sure we release the device before checking if the operation succeeded"
\* (eccx08_cmd_defns.c:152, eccx08_cert.c:288): however the reading failed, nothing of
\* the session is left when the command puts out what it has, or returns.
THEOREM Release == ASSUME SingleThreaded PROVE Spec => []ReleasedBeforeOutput
<1>1. CertsInv => ReleasedBeforeOutput
  BY DEF CertsInv, CommandInv, PlaceInv, HasNothing, ReleasedBeforeOutput
<1> QED
  BY <1>1, CertsInvariance, PTL

\* The handshake is given the device's certificate or a failure, never both, and a key
\* only with a certificate (eccx08_cert.c:314-339).
THEOREM Handshake == ASSUME SingleThreaded PROVE Spec => []HandshakeGetsCertOrFailure
<1>1. CertsInv => HandshakeGetsCertOrFailure
  <2> SUFFICES ASSUME CertsInv, NEW t \in Threads, at[t] = "out", ~ToFile(t)
               PROVE  /\ (rc[t] = "success") = (cert[t] = {Right("device")})
                      /\ pkey[t] => cert[t] # {}
    BY DEF HandshakeGetsCertOrFailure
  <2>1. Over(t) /\ cmd[t] \in {"load_client", "load_device_cert"}
    BY DEF CertsInv, CommandInv, TypeOK, Commands, ToFile
  <2>2. cert[t] # {} => cert[t] = {Right("device")}
    BY <2>1 DEF Over, Built, Issuer, ReadsSigner, Defined, Right, Subject
  <2> QED
    BY <2>1, <2>2 DEF Over
<1> QED
  BY <1>1, CertsInvariance, PTL
=================================================================================
