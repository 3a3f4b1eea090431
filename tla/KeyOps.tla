--------------------------------- MODULE KeyOps ---------------------------------
(***************************************************************************)
(* The operations on the device key that applications reach through        *)
(* OpenSSL, each a caller of the session functions:                        *)
(*   "sign"    eccx08_ecdsa_do_sign_sig                                    *)
(*   "load"    eccx08_load_privkey / eccx08_load_pubkey: a new EVP_PKEY    *)
(*   "reload"  eccx08_pkey_ec_init: the public key of an EVP_PKEY that is  *)
(*             in use is read again, on a borrowed reference               *)
(*   "keygen"  eccx08_pkey_ec_keygen                                       *)
(*   "verify"  eccx08_ecdsa_do_verify                                      *)
(*                                                                         *)
(* Keys are generations of the key in the device's slot; a signature is    *)
(* the generation that made it.  at[t] is the point that the operation of  *)
(* thread t has reached.                                                   *)
(***************************************************************************)
EXTENDS Session, Naturals

CONSTANTS Operations,  \* the operations the applications use
          Passwords,   \* FALSE: keys without a password, TRUE: with one
          HostFaults,  \* what fails on the host
          MaxKeys      \* bound: the slot is locked once it has held so many keys

AllOperations == {"sign", "load", "reload", "keygen", "verify"}

(***************************************************************************)
(* "malloc", "bignum"   an allocation of verify, the r or s of sign        *)
(* "convert"            eccx08_eckey_convert, before its last call         *)
(* "set_public_key"     that last call, whose result it does not look at   *)
(* "derive", "atcah"    the key from a password, the host's CheckMac       *)
(***************************************************************************)
AllHostFaults == {"malloc", "bignum", "convert", "set_public_key", "derive", "atcah"}

ASSUME KeyOpsAssumption ==
    /\ Operations \subseteq AllOperations
    /\ Passwords \subseteq BOOLEAN
    /\ HostFaults \subseteq AllHostFaults
    /\ MaxKeys \in Nat \ {0}

VARIABLES slot,    \* the generation of the key in the device's slot
          at, op,  \* per thread: where its operation stands, and which it is
          passwd,  \* per thread: its key is protected by a password
          st,      \* per thread: the operation's own status variable
          raw,     \* per thread: raw_sig or raw_pubkey, 0 if never written
          tried,   \* per thread: its command: not yet tried, tried "once", or "cured"
          pkey,    \* per thread: the public key in the EVP_PKEY it has loaded
          gkey,    \* per thread: the public key in the EVP_PKEY keygen returned
          sig,     \* per thread: the ECDSA_SIG its last operation returned
          asked,   \* per thread: the signature that verify was given
          verified, \* per thread: verify's flag, which the command sets
          answer,  \* per thread: history, what the chip has said in this call
          verdict  \* per thread: what verify returned

verifyVars == <<asked, verified, answer, verdict>>
opVars == <<slot, at, op, passwd, st, raw, tried, pkey, gkey, sig, verifyVars>>
vars == <<sessionVars, opVars>>

Keys == 1..MaxKeys
HalfBuilt == 0          \* an object without its public key, or without r and s
Absent == MaxKeys + 1   \* NULL

AtPoints == {"out", "opening", "auth", "first", "cure_wake", "cure_sleep", "second",
             "ending", "closing", "finish"}

\* A signature for the public key and the digest or not; a genuine one may have a
\* short r or s, which loses its leading zeros in raw_sig.
Signatures == {"genuine", "forged", "short"}
Verdicts == {"verified", "refused", "error"}

OpStatuses == Statuses \cup {"CHECKMAC_VERIFY_FAILED", "BAD_PARAM"}

Init ==
    /\ SessionInit
    /\ slot = 1
    /\ at = [t \in Threads |-> "out"]
    /\ op = [t \in Threads |-> "none"]
    /\ passwd = [t \in Threads |-> FALSE]
    /\ st = [t \in Threads |-> "SUCCESS"]
    /\ raw = [t \in Threads |-> 0]
    /\ tried = [t \in Threads |-> "no"]
    /\ pkey = [t \in Threads |-> Absent]
    /\ gkey = [t \in Threads |-> Absent]
    /\ sig = [t \in Threads |-> Absent]
    /\ asked = [t \in Threads |-> "none"]
    /\ verified = [t \in Threads |-> FALSE]
    /\ answer = [t \in Threads |-> "error"]
    /\ verdict = [t \in Threads |-> "none"]

At(t, from, to) == at[t] = from /\ at' = [at EXCEPT ![t] = to]
Status(t, s) == st' = [st EXCEPT ![t] = s]

(***************************************************************************)
(* The session, as each operation opens and closes it.                     *)
(***************************************************************************)
\* "sign" and "reload" take a key that "load" made, and its password: what keygen
\* makes lacks the private part that eccx08_eckey_isx08key looks for.
Begin(t) ==
    /\ At(t, "out", "opening")
    /\ \E o \in Operations, w \in Passwords :
         /\ o \in {"sign", "reload"} => pkey[t] # Absent /\ w = passwd[t]
         /\ o = "load" => pkey[t] = Absent
         /\ o \in {"keygen", "verify"} => w = passwd[t]
         /\ op' = [op EXCEPT ![t] = o]
         /\ passwd' = [passwd EXCEPT ![t] = w]
         /\ \E a \in IF o = "verify" THEN Signatures ELSE {"none"} : asked' = [asked EXCEPT ![t] = a]
    /\ verdict' = [verdict EXCEPT ![t] = "none"]
    /\ sig' = [sig EXCEPT ![t] = Absent]
    /\ gkey' = [gkey EXCEPT ![t] = Absent]
    /\ Enter(t, "init")
    /\ UNCHANGED <<slot, st, raw, tried, pkey, verified, answer>>

Authorizes(t) == passwd[t] /\ op[t] \notin {"keygen", "verify"}

Opened(t) ==
    /\ pc[t] = "idle"
    /\ status[t] = "SUCCESS"
    /\ At(t, "opening", IF Authorizes(t) THEN "auth" ELSE "first")
    /\ UNCHANGED <<sessionVars, slot, op, passwd, st, raw, tried, pkey, gkey, sig, verifyVars>>

NotOpened(t) ==
    /\ pc[t] = "idle"
    /\ status[t] # "SUCCESS"
    /\ At(t, "opening", "finish")
    /\ Status(t, status[t])
    /\ UNCHANGED <<sessionVars, slot, op, passwd, raw, tried, pkey, gkey, sig, verifyVars>>

Close(t) ==
    /\ At(t, "ending", "closing")
    /\ Enter(t, "release")
    /\ UNCHANGED <<slot, op, passwd, st, raw, tried, pkey, gkey, sig, verifyVars>>

\* Variant: one status for the command and for the release.
ClosedWithReleaseStatus(t) ==
    /\ pc[t] = "idle"
    /\ At(t, "closing", "finish")
    /\ Status(t, IF status[t] # "SUCCESS" THEN status[t] ELSE st[t])
    /\ UNCHANGED <<sessionVars, slot, op, passwd, raw, tried, pkey, gkey, sig, verifyVars>>

\* keygen alone gives up when the release fails, whatever its own status.
Closed(t) ==
    /\ pc[t] = "idle"
    /\ At(t, "closing", "finish")
    /\ Status(t, IF op[t] = "keygen" /\ status[t] # "SUCCESS" THEN status[t] ELSE st[t])
    /\ UNCHANGED <<sessionVars, slot, op, passwd, raw, tried, pkey, gkey, sig, verifyVars>>

(***************************************************************************)
(* Commands within the session.                                            *)
(***************************************************************************)

\* eccx08_auth_password: serial number, nonce and CheckMac; any of them may fail, the
\* host's steps between them too, and a wrong password is refused.  A password from
\* which no key can be derived is a success that the chip knows nothing of.
Authorized(s) ==
    \/ atcab_command(s)
    \/ s = "CHECKMAC_VERIFY_FAILED" /\ atcab_command("SUCCESS")
    \/ s = "BAD_PARAM" /\ "atcah" \in HostFaults /\ atcab_command("SUCCESS")
    \/ s = "SUCCESS" /\ "derive" \in HostFaults /\ UNCHANGED chip

\* Variant: a refused password returns at once.
AuthorizeUnreleased(t) ==
    /\ \E s \in OpStatuses :
         /\ Authorized(s)
         /\ Status(t, s)
         /\ At(t, "auth", IF s = "SUCCESS" THEN "first" ELSE "finish")
    /\ OnDevice
    /\ UNCHANGED <<slot, op, passwd, raw, tried, pkey, gkey, sig, verifyVars>>

Authorize(t) ==
    /\ \E s \in OpStatuses :
         /\ Authorized(s)
         /\ Status(t, s)
         /\ At(t, "auth", IF s = "SUCCESS" THEN "first" ELSE "ending")
    /\ OnDevice
    /\ UNCHANGED <<slot, op, passwd, raw, tried, pkey, gkey, sig, verifyVars>>

\* Variant: a health-test failure is final.
AfterFirstNoCure(t, s) ==
    IF s # "SUCCESS" /\ op[t] = "keygen" THEN "second" ELSE "ending"

AfterFirst(t, s) ==
    IF s = "SUCCESS" \/ op[t] = "verify" THEN "ending"
    ELSE IF op[t] = "keygen" THEN "second"
    ELSE IF s = "HEALTH_TEST_ERROR" THEN "cure_wake" ELSE "ending"

\* atcab_sign or atcab_get_pubkey: it answers from the key in the slot, or refuses a
\* key that it was not authorized for.
UseKey(t, s) ==
    /\ \/ atcab_command(s)
       \/ /\ s = "FUNC_FAIL" /\ atcab_command("SUCCESS")
          /\ Authorizes(t) /\ "derive" \in HostFaults
    /\ Status(t, s)
    /\ raw' = IF s = "SUCCESS" THEN [raw EXCEPT ![t] = slot] ELSE raw

FirstCommand(t) ==
    /\ op[t] \notin {"keygen", "verify"}
    /\ \E s \in Statuses : UseKey(t, s) /\ At(t, "first", AfterFirst(t, s))
    /\ tried' = [tried EXCEPT ![t] = "once"]
    /\ OnDevice
    /\ UNCHANGED <<slot, op, passwd, pkey, gkey, sig, verifyVars>>

\* atcab_verify_extern, with the public key from the host.  A short r or s was written
\* to the wrong end of its half of raw_sig: the chip is shown another signature.  Only
\* a command that succeeds is known to have set the flag.
VerifyCommand(t) ==
    /\ op[t] = "verify"
    /\ \E s \in Statuses, flag \in BOOLEAN :
         /\ atcab_command(s)
         /\ s = "SUCCESS" => flag = (asked[t] = "genuine")
         /\ Status(t, s)
         /\ verified' = [verified EXCEPT ![t] = flag]
         /\ answer' = [answer EXCEPT ![t] = IF s # "SUCCESS" THEN "error"
                                            ELSE IF flag THEN "verified" ELSE "refused"]
         /\ At(t, "first", AfterFirst(t, s))
    /\ OnDevice
    /\ UNCHANGED <<slot, op, passwd, raw, tried, pkey, gkey, sig, asked, verdict>>

\* atcab_genkey: a locked slot refuses; the answer that carries the new public
\* key may be lost after the key is made.
GenerateKey(t) ==
    /\ op[t] = "keygen"
    /\ \E s \in Statuses, new \in {slot, slot + 1} \cap Keys :
         /\ \/ atcab_command(s) /\ (s = "SUCCESS" => new = slot + 1)
                                /\ (s = "HEALTH_TEST_ERROR" => new = slot)
                                /\ ("bus" \notin Faults /\ s # "SUCCESS" => new = slot)
            \/ s = "FUNC_FAIL" /\ slot = MaxKeys /\ new = slot /\ atcab_command("SUCCESS")
         /\ slot' = new
         /\ Status(t, s)
         /\ raw' = IF s = "SUCCESS" THEN [raw EXCEPT ![t] = new] ELSE raw
         /\ At(t, "first", AfterFirst(t, s))
    /\ OnDevice
    /\ UNCHANGED <<op, passwd, tried, pkey, gkey, sig, verifyVars>>

CureWake(t) ==
    /\ At(t, "cure_wake", "cure_sleep")
    /\ atcab_wakeup
    /\ OnDevice
    /\ UNCHANGED <<slot, op, passwd, st, raw, tried, pkey, gkey, sig, verifyVars>>

CureSleep(t) ==
    /\ At(t, "cure_sleep", "second")
    /\ atcab_sleep
    /\ tried' = [tried EXCEPT ![t] = "cured"]
    /\ OnDevice
    /\ UNCHANGED <<slot, op, passwd, st, raw, pkey, gkey, sig, verifyVars>>

\* Variant: the retry is cured and repeated like the first command.
SecondCommandRepeated(t) ==
    /\ \E s \in Statuses :
         /\ UseKey(t, s)
         /\ At(t, "second", IF s = "HEALTH_TEST_ERROR" THEN "cure_wake" ELSE "ending")
    /\ OnDevice
    /\ UNCHANGED <<slot, op, passwd, tried, pkey, gkey, sig, verifyVars>>

\* The retry after a cure, or keygen's reading of a key it could not make.
SecondCommand(t) ==
    /\ \E s \in Statuses : UseKey(t, s)
    /\ At(t, "second", "ending")
    /\ OnDevice
    /\ UNCHANGED <<slot, op, passwd, tried, pkey, gkey, sig, verifyVars>>

(***************************************************************************)
(* What the operation returns, once it has no session any more.  Its local *)
(* variables are gone with the return.                                     *)
(***************************************************************************)
Return(t) ==
    /\ At(t, "finish", "out")
    /\ op' = [op EXCEPT ![t] = "none"]
    /\ Status(t, "SUCCESS")
    /\ raw' = [raw EXCEPT ![t] = 0]
    /\ tried' = [tried EXCEPT ![t] = "no"]
    /\ asked' = [asked EXCEPT ![t] = "none"]
    /\ verified' = [verified EXCEPT ![t] = FALSE]
    /\ answer' = [answer EXCEPT ![t] = "error"]
    /\ UNCHANGED <<sessionVars, slot, passwd>>

\* No result: the sign's SIG is freed, and so is the EVP_PKEY the load made;
\* a borrowed one is left as it was.
GiveUp(t) ==
    /\ op[t] # "verify"
    /\ \/ st[t] # "SUCCESS"
       \/ "bignum" \in HostFaults /\ op[t] = "sign"
       \/ "convert" \in HostFaults /\ op[t] \in {"load", "reload"}
    /\ Return(t)
    /\ UNCHANGED <<pkey, gkey, sig, verdict>>

\* Variant: a failed release breaks out before r and s are set.
ReturnSignatureIfReleased(t) ==
    /\ op[t] = "sign" /\ st[t] = "SUCCESS"
    /\ Return(t)
    /\ sig' = [sig EXCEPT ![t] = IF status[t] = "SUCCESS" THEN raw[t] ELSE HalfBuilt]
    /\ UNCHANGED <<pkey, gkey, verdict>>

ReturnSignature(t) ==
    /\ op[t] = "sign" /\ st[t] = "SUCCESS"
    /\ Return(t)
    /\ sig' = [sig EXCEPT ![t] = raw[t]]
    /\ UNCHANGED <<pkey, gkey, verdict>>

\* The public keys that an EVP_PKEY may have when the conversion has returned success.
\* What EC_KEY_set_public_key says is ignored: after a failure the EVP_PKEY has none, or,
\* in use, still the one that it had.
eccx08_eckey_convert(had, new) ==
    {new} \cup IF "set_public_key" \notin HostFaults THEN {}
               ELSE IF had = Absent THEN {HalfBuilt} ELSE {had}

ReturnLoadedKey(t) ==
    /\ op[t] \in {"load", "reload"} /\ st[t] = "SUCCESS"
    /\ Return(t)
    /\ \E k \in eccx08_eckey_convert(pkey[t], raw[t]) : pkey' = [pkey EXCEPT ![t] = k]
    /\ UNCHANGED <<gkey, sig, verdict>>

\* keygen returns success also when it could not convert the public key at all.
ReturnGeneratedKey(t) ==
    /\ op[t] = "keygen" /\ st[t] = "SUCCESS"
    /\ Return(t)
    /\ \E k \in eccx08_eckey_convert(Absent, raw[t])
              \cup (IF "convert" \in HostFaults THEN {HalfBuilt} ELSE {}) :
         gkey' = [gkey EXCEPT ![t] = k]
    /\ UNCHANGED <<pkey, sig, verdict>>

\* Variant: the flag is looked at before the status.
JudgedByFlag(t) ==
    IF verified[t] THEN "verified" ELSE IF st[t] = "SUCCESS" THEN "refused" ELSE "error"

\* 1, 0 or -1.
Judged(t) ==
    IF st[t] # "SUCCESS" THEN "error"
    ELSE IF verified[t] THEN "verified" ELSE "refused"

ReturnVerdict(t) ==
    /\ op[t] = "verify"
    /\ Return(t)
    /\ verdict' = [verdict EXCEPT ![t] = Judged(t)]
    /\ UNCHANGED <<pkey, gkey, sig>>

\* r or s does not fit, or there is no memory: no session is opened.
NotVerified(t) ==
    /\ at[t] = "out" /\ "verify" \in Operations /\ "malloc" \in HostFaults
    /\ verdict' = [verdict EXCEPT ![t] = "error"]
    /\ UNCHANGED <<sessionVars, slot, at, op, passwd, st, raw, tried, pkey, gkey, sig, asked,
                   verified, answer>>

\* The application drops the key it has loaded.
FreeKey(t) ==
    /\ at[t] = "out" /\ pkey[t] # Absent
    /\ pkey' = [pkey EXCEPT ![t] = Absent]
    /\ passwd' = [passwd EXCEPT ![t] = FALSE]
    /\ UNCHANGED <<sessionVars, slot, at, op, st, raw, tried, gkey, sig, verifyVars>>

(***************************************************************************)
(* The whole                                                               *)
(***************************************************************************)
Run(t) == SessionStep(t) /\ UNCHANGED opVars

Carries(t) ==
    \/ Run(t) \/ Opened(t) \/ NotOpened(t) \/ Close(t) \/ Closed(t)
    \/ Authorize(t) \/ FirstCommand(t) \/ GenerateKey(t) \/ VerifyCommand(t)
    \/ CureWake(t) \/ CureSleep(t) \/ SecondCommand(t)
    \/ GiveUp(t) \/ ReturnSignature(t) \/ ReturnLoadedKey(t) \/ ReturnGeneratedKey(t)
    \/ ReturnVerdict(t)

Die(p) ==
    /\ KillProcess(p)
    /\ at' = Reset(at, p, "out")
    /\ op' = Reset(op, p, "none")
    /\ passwd' = Reset(passwd, p, FALSE)
    /\ st' = Reset(st, p, "SUCCESS")
    /\ raw' = Reset(raw, p, 0)
    /\ tried' = Reset(tried, p, "no")
    /\ pkey' = Reset(pkey, p, Absent)
    /\ gkey' = Reset(gkey, p, Absent)
    /\ sig' = Reset(sig, p, Absent)
    /\ asked' = Reset(asked, p, "none")
    /\ verified' = Reset(verified, p, FALSE)
    /\ answer' = Reset(answer, p, "error")
    /\ verdict' = Reset(verdict, p, "none")
    /\ UNCHANGED slot

Interfere == UnlockedClient /\ OnDevice /\ UNCHANGED opVars

Next ==
    \/ \E t \in Threads : Begin(t) \/ FreeKey(t) \/ NotVerified(t) \/ Carries(t)
    \/ \E p \in Procs : Die(p)
    \/ Interfere

Spec == Init /\ [][Next]_vars

\* Every operation is straight-line code but for the wait for the mutex.
FairSpec == Spec /\ \A t \in Threads : WF_vars(Carries(t))
---------------------------------------------------------------------------------
TypeOK ==
    /\ SessionTypeOK
    /\ slot \in Keys
    /\ at \in [Threads -> AtPoints]
    /\ op \in [Threads -> AllOperations \cup {"none"}]
    /\ passwd \in [Threads -> BOOLEAN]
    /\ st \in [Threads -> OpStatuses]
    /\ raw \in [Threads -> Keys \cup {0}]
    /\ tried \in [Threads -> {"no", "once", "cured"}]
    /\ pkey \in [Threads -> Keys \cup {HalfBuilt, Absent}]
    /\ gkey \in [Threads -> Keys \cup {HalfBuilt, Absent}]
    /\ sig \in [Threads -> Keys \cup {HalfBuilt, Absent}]
    /\ asked \in [Threads -> Signatures \cup {"none"}]
    /\ verified \in [Threads -> BOOLEAN]
    /\ answer \in [Threads -> Verdicts]
    /\ verdict \in [Threads -> Verdicts \cup {"none"}]

\* A session's result is that of the key in the slot for as long as the session
\* lasts: nobody generates a key between a command and the release that
\* follows it, and keygen never reports the public key of the key it replaced.
KeyStableInSession ==
    \A t \in Threads :
        at[t] \in {"ending", "closing"} /\ raw[t] # 0 /\ pc[t] # "unmark"
            /\ ~(at[t] = "closing" /\ pc[t] = "idle")
        => raw[t] = slot

\* "Returning a non-NULL ECDSA_SIG with NULL r,s here would make
\* i2d_ECDSA_SIG() in the caller dereference NULL" (eccx08_ecdsa_sign.c:151-156)
\* and the same half-built-object pattern for a loaded key
\* (eccx08_eckey_meth.c:561-566): however the chip, the release or the host
\* fails, the SIG that the application is handed is whole, and so is an EVP_PKEY but
\* for two failures that nobody looks at: that of EC_KEY_set_public_key (:461), for
\* every key, and for keygen that of the whole conversion (:810-815).
ResultsAreWhole ==
    \A t \in Threads :
        /\ sig[t] # HalfBuilt
        /\ pkey[t] = HalfBuilt => "set_public_key" \in HostFaults
        /\ gkey[t] = HalfBuilt => {"convert", "set_public_key"} \cap HostFaults # {}

\* "Cure and retry once on a latched RNG health test instead of failing the
\* session" (debian/changelog:16-17): signing and loading fail with a health-test
\* error only when it came back after the cure, or when the authorization of a key
\* with a password met it, before the command that would have been cured
\* (eccx08_eckey_meth.c:532-543).
HealthFailureIsCured ==
    \A t \in Threads :
        at[t] = "finish" /\ st[t] = "HEALTH_TEST_ERROR" /\ op[t] \notin {"keygen", "verify"} =>
            tried[t] = "cured" \/ (tried[t] = "no" /\ passwd[t])

\* What the chip has produced is returned even when the release that follows
\* fails: only a failed command, or a failed allocation, makes an operation that
\* had its session return nothing (eccx08_ecdsa_sign.c:151-156,
\* eccx08_eckey_meth.c:561-566).  keygen alone loses the public key of the key it has
\* made, and to nothing but the release (:797-800).
NothingProducedIsLost ==
    \A t \in Threads :
        at[t] = "finish" /\ raw[t] # 0 /\ st[t] # "SUCCESS" => op[t] = "keygen" /\ st[t] = status[t]

\* "\return 1 for success (signature is verified and no error is detected)", "0 means
\* not verified" (eccx08_ecdsa_sign.c:263-264, 365-366): the verdict is what the chip
\* has said in the session of this call, and an error when it has said nothing,
\* whatever the session, the command or the release did and whatever a failed command
\* left in the flag.  So only a genuine signature is verified, and only one that was
\* forged, or reached the chip shifted because r or s is short (:302-310), is refused.
VerdictIsTheChips ==
    [][\A t \in Threads :
         verdict'[t] \notin {verdict[t], "none"} =>
            /\ verdict'[t] = answer[t]
            /\ verdict'[t] = "verified" => asked[t] = "genuine"
            /\ verdict'[t] = "refused" => asked[t] \in {"forged", "short"}]_vars

\* Each operation opens one session, works in it and releases it once on every
\* path, failed authorization included: it is a well-behaved user.
PlaceOf(a) ==
    CASE a \in {"out", "finish"} -> "out"
      [] a = "opening" -> "opening"
      [] a = "closing" -> "closing"
      [] OTHER -> "open"

Place == [t \in Threads |-> PlaceOf(at[t])]

Users == INSTANCE SessionUser WITH at <- Place

ImplementsSessionUser == Users!Spec

\* An operation that has its session comes to an end: the retry is not repeated
\* and the release never waits for the mutex.
SessionsEnd == \A t \in Threads : at[t] \in {"auth", "first"} ~> at[t] = "out"
=================================================================================
