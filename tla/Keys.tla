----------------------------------- MODULE Keys -----------------------------------
(***************************************************************************)
(* The EVP_PKEYs that the engine makes, from the load to the last free:    *)
(* who holds them, what their private part says, and what they need that   *)
(* the engine keeps elsewhere: the password in its store, the EC method,   *)
(* the functional references.  One thread of one process uses the engine;  *)
(* sessions (module KeyOps) are reduced to their results.                  *)
(*                                                                         *)
(* A call that uses what it must not (a freed object, a NULL pointer) sets *)
(* misuse, and that is the end of the process.                             *)
(***************************************************************************)
EXTENDS Lifecycle, PasswordStore, FiniteSets

CONSTANTS Keys,       \* places for the EVP_PKEYs of the application
          NoKey,
          OtherIds,   \* identifiers without a slot: "NULL", "malformed", "bad_bus"
          HostFaults  \* what fails on the host: "alloc", "assemble", "derive", "set_public_key"

ASSUME KeysAssumption ==
    /\ IsFiniteSet(Keys) /\ NoKey \notin Keys
    /\ OtherIds \subseteq {"NULL", "malformed", "bad_bus"} /\ OtherIds \cap Slots = {}
    /\ HostFaults \subseteq {"alloc", "assemble", "derive", "set_public_key"}

VARIABLES obj,      \* per place: the EVP_PKEY with its EC_KEY
          app,      \* per place: the application's reference
          ctx,      \* per place: an EVP_PKEY_CTX's
          wish,     \* per place: what the application asked for
          at, op,   \* where the load in progress stands, and who loads
          cur,      \* its pkey
          passwd_id,
          ok,       \* it has succeeded so far
          hold,     \* the application's own functional reference
          misuse

keyVars == <<obj, app, ctx, wish>>
loadVars == <<at, op, cur, passwd_id, ok>>
vars == <<keyVars, loadVars, hold, misuse, lifeVars, storeVars>>

NoSlot == "none"

\* Reference counts; the EC_KEY's functional reference and method; its private
\* part; the public key, as the slot it comes from; was it let in by the chip.
Nothing == [pkey |-> 0, eckey |-> 0, engine |-> FALSE, method |-> 0,
            slot |-> NoSlot, pid |-> NOPASSWD_ID, pub |-> NoSlot, derived |-> TRUE]
NoWish == [id |-> NoSlot, slot |-> NoSlot, password |-> "none"]

AtPoints == {"out", "password", "new", "info", "eckey", "group", "method",
             "get1", "session", "free", "return"}
LoadOps == {"load", "reload", "get_key"}

Init ==
    /\ LifecycleInit
    /\ StoreInit
    /\ obj = [k \in Keys |-> Nothing]
    /\ app = [k \in Keys |-> FALSE]
    /\ ctx = [k \in Keys |-> FALSE]
    /\ wish = [k \in Keys |-> NoWish]
    /\ at = "out"
    /\ op = "load"
    /\ cur = NoKey
    /\ passwd_id = NOPASSWD_ID
    /\ ok = TRUE
    /\ hold = "never"
    /\ misuse = "none"

At(from, to) == misuse = "none" /\ at = from /\ at' = to
Idle == misuse = "none" /\ at = "out"
Fine == misuse' = "none"

Start(o, k, id, p, to) ==
    /\ At("out", to)
    /\ op' = o
    /\ cur' = k
    /\ passwd_id' = id
    /\ ok' = TRUE
    /\ wish' = IF o = "reload" THEN wish ELSE [wish EXCEPT ![k] = p]

(***************************************************************************)
(* References to objects                                                   *)
(***************************************************************************)
Stale(o) == o.method # eccx08_ec

\* EVP_PKEY_free: with the last reference goes that on the EC_KEY, whose method
\* is asked to finish it.
AfterFree(o) ==
    IF o.pkey > 1 THEN [o EXCEPT !.pkey = @ - 1]
    ELSE IF o.eckey = 1 THEN Nothing
    ELSE [o EXCEPT !.pkey = 0, !.eckey = @ - 1]

FreeMisuse(o) ==
    CASE o.pkey = 0 -> "pkey"
      [] o.pkey = 1 /\ o.eckey = 1 /\ Stale(o) -> "method"
      [] OTHER -> "none"

EVP_PKEY_free(k) ==
    /\ misuse' = FreeMisuse(obj[k])
    /\ obj' = [obj EXCEPT ![k] = IF FreeMisuse(@) = "pkey" THEN @ ELSE AfterFree(@)]

(***************************************************************************)
(* The application's calls that load                                       *)
(***************************************************************************)
Vacant(k) == obj[k] = Nothing /\ ~app[k] /\ ~ctx[k]

\* eccx08_load_privkey and eccx08_load_pubkey, which are the same.
Load(k) ==
    /\ funct_ref > 0 /\ Vacant(k)
    /\ \E id \in Slots \cup OtherIds, given \in Given :
         Start("load", k, NOPASSWD_ID, [id |-> id, slot |-> id, password |-> given],
               IF eccx08_cbdata_to_password(given) THEN "password" ELSE "new")
    /\ UNCHANGED <<obj, app, ctx, hold, misuse, lifeVars, storeVars>>

StorePassword ==
    /\ At("password", "new")
    /\ eccx08_make_password(passwd_id')
    /\ LET entry == eccx08_get_password(passwd_id') IN
         IF entry = NullPointer
         THEN misuse' = "password" /\ UNCHANGED passwords
         ELSE Fine /\ passwords' = [passwords EXCEPT ![entry] = wish[cur].password]
    /\ UNCHANGED <<keyVars, op, cur, ok, hold, lifeVars>>

\* The command GET_DEVICE_KEY writes an identifier from pCfg, which only
\* eccx08_init sets, and loads the key; the ENGINE needs no functional reference.
get_key(k) ==
    /\ bound /\ Vacant(k)
    /\ Start("get_key", k, NOPASSWD_ID,
             [id |-> device_key_slot, slot |-> device_key_slot, password |-> "none"], "new")
    /\ misuse' = IF pCfg THEN "none" ELSE "config"
    /\ UNCHANGED <<obj, app, ctx, hold, lifeVars, storeVars>>

\* Every key of the engine has the mark in its private part, and the identifier.
eccx08_pkey_isx08key(k) == obj[k].pid

\* EVP_PKEY_CTX_new takes its references and calls eccx08_pkey_ec_init, which
\* finds the password's identifier in the private part.
eccx08_pkey_ec_init(k) ==
    /\ eccx08_pmeth_selector /\ app[k] /\ ~ctx[k]
    /\ TakeReference(TRUE)
    /\ Start("reload", k, eccx08_pkey_isx08key(k), wish[k], "get1")
    /\ obj' = [obj EXCEPT ![k].pkey = @ + 1]
    /\ UNCHANGED <<app, ctx, hold, misuse, storeVars>>

(***************************************************************************)
(* eccx08_eckey_new_key, step by step                                      *)
(***************************************************************************)
New ==
    /\ \/ At("new", "info") /\ obj' = [obj EXCEPT ![cur].pkey = 1] /\ UNCHANGED ok
       \/ At("new", "return") /\ "alloc" \in HostFaults /\ ok' = FALSE /\ UNCHANGED obj
    /\ UNCHANGED <<app, ctx, wish, op, cur, passwd_id, hold, misuse, lifeVars, storeVars>>

\* eccx08_eckey_string_to_struct.  Without an identifier, eccx08_eckey_init leaves
\* the password_id what was on the stack.
Info ==
    /\ At("info", "eckey")
    /\ wish[cur].id # "malformed"
    /\ \E pid \in IF wish[cur].id = "NULL" THEN Entries \cup {MAX_PASSWORDS, NOPASSWD_ID} ELSE {passwd_id} :
         LET id == wish[cur].id
             slot == IF id \in Slots THEN id ELSE device_key_slot IN
         /\ obj' = [obj EXCEPT ![cur].slot = IF id = "bad_bus" THEN NoSlot ELSE slot, ![cur].pid = pid]
         /\ wish' = [wish EXCEPT ![cur].slot = slot]
    /\ UNCHANGED <<app, ctx, op, cur, passwd_id, ok, hold, misuse, lifeVars, storeVars>>

\* EC_KEY_new_method takes a functional reference and the ENGINE's method.
NewECKey ==
    /\ At("eckey", "group")
    /\ TakeReference(TRUE)
    /\ misuse' = IF engine_ec = eccx08_ec THEN "none" ELSE "method"
    /\ obj' = [obj EXCEPT ![cur].eckey = 1, ![cur].engine = TRUE, ![cur].method = engine_ec]
    /\ UNCHANGED <<app, ctx, wish, op, cur, passwd_id, ok, hold, storeVars>>

\* The group, the pkey, the private part.
Assemble ==
    /\ At("group", "method")
    /\ UNCHANGED <<keyVars, op, cur, passwd_id, ok, hold, misuse, lifeVars, storeVars>>

\* A bad identifier, no memory for the EC_KEY, or one of the steps of Assemble
\* fails.  The pkey is freed, and its address is returned all the same: the caller
\* takes a reference of what is freed.
NotBuilt ==
    /\ \/ at = "info" /\ wish[cur].id = "malformed"
       \/ at = "eckey" /\ "alloc" \in HostFaults
       \/ at = "group" /\ "assemble" \in HostFaults
    /\ At(at, "out")
    /\ misuse' = "pkey"
    /\ obj' = [obj EXCEPT ![cur] = Nothing]
    /\ UNCHANGED <<app, ctx, wish, op, cur, passwd_id, ok, hold, lifeVars, storeVars>>

\* EC_KEY_set_method drops the functional reference: from here on the key uses
\* the method without keeping it.
SetMethod ==
    /\ At("method", "get1")
    /\ DropReference
    /\ obj' = [obj EXCEPT ![cur].method = eccx08_ec, ![cur].engine = FALSE]
    /\ misuse' = IF eccx08_ec' = 0 THEN "method" ELSE "none"
    /\ UNCHANGED <<app, ctx, wish, op, cur, passwd_id, ok, hold, storeVars>>

(***************************************************************************)
(* eccx08_load_pubkey_internal, once it has a pkey                         *)
(***************************************************************************)
Get1 ==
    /\ At("get1", "session")
    /\ obj' = [obj EXCEPT ![cur].eckey = @ + 1]
    /\ UNCHANGED <<app, ctx, wish, op, cur, passwd_id, ok, hold, misuse, lifeVars, storeVars>>

\* The bus that the private part names is one the engine knows.
eccx08_get_iface_cfg(o) == o.slot # NoSlot

\* atcab_init_from_privkey_safe knows no interface, or there is no session, or the
\* command fails.
SessionFails ==
    /\ At("session", "free")
    /\ ok' = FALSE
    /\ UNCHANGED <<keyVars, op, cur, passwd_id, hold, misuse, lifeVars, storeVars>>

\* The identifier of the password points outside the store.
NoPassword ==
    /\ at = "session" /\ eccx08_get_iface_cfg(obj[cur]) /\ passwd_id # NOPASSWD_ID
    /\ eccx08_get_password(passwd_id) = NullPointer
    /\ At("session", "out")
    /\ misuse' = "password"
    /\ UNCHANGED <<keyVars, op, cur, passwd_id, ok, hold, lifeVars, storeVars>>

\* Variant: a failed authorization is logged only.
AuthorizesLoosely(derived) ==
    passwd_id # NOPASSWD_ID => eccx08_get_password(passwd_id) # NullPointer

Authorizes(derived) ==
    passwd_id # NOPASSWD_ID =>
        /\ eccx08_get_password(passwd_id) # NullPointer
        /\ eccx08_auth_password(eccx08_get_password(passwd_id), derived)

\* eccx08_eckey_convert sets the public key by way of the key's method, and does not
\* look whether EC_KEY_set_public_key could: then the key has the one it had, or none.
Convert(slot, derived) ==
    IF Stale(obj[cur]) THEN misuse' = "method" /\ UNCHANGED obj
    ELSE /\ Fine
         /\ \E pub \in {slot} \cup (IF "set_public_key" \in HostFaults THEN {obj[cur].pub} ELSE {}) :
              obj' = [obj EXCEPT ![cur].pub = pub, ![cur].derived = derived]

\* Variant: the slot is the one that is configured now, as in keygen.
ReadPublicKeyConfigured ==
    /\ At("session", "free")
    /\ eccx08_get_iface_cfg(obj[cur])
    /\ \E derived \in IF "derive" \in HostFaults THEN BOOLEAN ELSE {TRUE} :
         /\ Authorizes(derived)
         /\ Convert(device_key_slot, derived)
    /\ UNCHANGED <<app, ctx, wish, op, cur, passwd_id, ok, hold, lifeVars, storeVars>>

ReadPublicKey ==
    /\ At("session", "free")
    /\ eccx08_get_iface_cfg(obj[cur])
    /\ \E derived \in IF "derive" \in HostFaults THEN BOOLEAN ELSE {TRUE} :
         /\ Authorizes(derived)
         /\ Convert(obj[cur].slot, derived)
    /\ UNCHANGED <<app, ctx, wish, op, cur, passwd_id, ok, hold, lifeVars, storeVars>>

\* Variant: the EC_KEY is freed on the error path only.
BalancedOnError(o) == [o EXCEPT !.eckey = IF ok THEN @ ELSE @ - 1]

\* The reference of Get1 goes on every path.
Balanced(o) == [o EXCEPT !.eckey = @ - 1]

\* Variant: a borrowed pkey is freed as well.
PkeyIsOursAlways == TRUE

PkeyIsOurs == op # "reload"

Free ==
    /\ At("free", "return")
    /\ LET o == Balanced(obj[cur]) IN
         obj' = [obj EXCEPT ![cur] = IF ~ok /\ PkeyIsOurs THEN AfterFree(o) ELSE o]
    /\ UNCHANGED <<app, ctx, wish, op, cur, passwd_id, ok, hold, misuse, lifeVars, storeVars>>

(***************************************************************************)
(* Back to whom it was done for                                            *)
(***************************************************************************)
Done ==
    /\ At("return", "out")
    /\ op' = "load" /\ cur' = NoKey
    /\ passwd_id' = NOPASSWD_ID /\ ok' = TRUE

\* Variant: a load that failed also gives a functional reference back.
ReturnKeyFinished ==
    /\ op = "load"
    /\ Done
    /\ app' = [app EXCEPT ![cur] = ok]
    /\ wish' = IF ok THEN wish ELSE [wish EXCEPT ![cur] = NoWish]
    /\ IF ok THEN UNCHANGED lifeVars ELSE DropReference
    /\ UNCHANGED <<obj, ctx, hold, misuse, storeVars>>

ReturnKey ==
    /\ op = "load"
    /\ Done
    /\ app' = [app EXCEPT ![cur] = ok]
    /\ wish' = IF ok THEN wish ELSE [wish EXCEPT ![cur] = NoWish]
    /\ UNCHANGED <<obj, ctx, hold, misuse, lifeVars, storeVars>>

\* get_key writes the private part to the file and frees the key.
ReturnKeyFile ==
    /\ op = "get_key"
    /\ Done
    /\ IF ok THEN EVP_PKEY_free(cur) ELSE UNCHANGED <<obj, misuse>>
    /\ wish' = [wish EXCEPT ![cur] = NoWish]
    /\ UNCHANGED <<app, ctx, hold, lifeVars, storeVars>>

\* The default initialization follows, which allocates.  A failed one makes OpenSSL
\* free the context.
ReturnContext ==
    /\ op = "reload"
    /\ Done
    /\ \E initialized \in {ok, ok /\ "alloc" \notin HostFaults} :
         /\ ctx' = [ctx EXCEPT ![cur] = initialized]
         /\ IF initialized THEN UNCHANGED <<obj, misuse, lifeVars>>
                           ELSE EVP_PKEY_free(cur) /\ DropReference
    /\ UNCHANGED <<app, wish, hold, storeVars>>

(***************************************************************************)
(* The application's other calls                                           *)
(***************************************************************************)
\* A signature with the key goes through its method, and needs its password.
Sign(k) ==
    /\ Idle /\ app[k]
    /\ misuse' = IF Stale(obj[k]) THEN "method"
                 ELSE IF /\ eccx08_pkey_isx08key(k) # NOPASSWD_ID
                         /\ eccx08_get_password(eccx08_pkey_isx08key(k)) = NullPointer
                 THEN "password" ELSE "none"
    /\ UNCHANGED <<keyVars, loadVars, hold, lifeVars, storeVars>>

\* Variant: the identifier of a freed key's password is given back.
FreeKeyReleasing(k) ==
    /\ Idle /\ app[k]
    /\ EVP_PKEY_free(k)
    /\ app' = [app EXCEPT ![k] = FALSE]
    /\ wish' = IF ctx[k] THEN wish ELSE [wish EXCEPT ![k] = NoWish]
    /\ IF wish[k].password = "none" THEN UNCHANGED current_id ELSE eccx08_release_password
    /\ UNCHANGED <<ctx, loadVars, hold, lifeVars, passwords>>

FreeKey(k) ==
    /\ Idle /\ app[k]
    /\ EVP_PKEY_free(k)
    /\ app' = [app EXCEPT ![k] = FALSE]
    /\ wish' = IF ctx[k] THEN wish ELSE [wish EXCEPT ![k] = NoWish]
    /\ UNCHANGED <<ctx, loadVars, hold, lifeVars, storeVars>>

FreeContext(k) ==
    /\ Idle /\ ctx[k]
    /\ EVP_PKEY_free(k)
    /\ DropReference
    /\ ctx' = [ctx EXCEPT ![k] = FALSE]
    /\ wish' = IF app[k] THEN wish ELSE [wish EXCEPT ![k] = NoWish]
    /\ UNCHANGED <<app, loadVars, hold, storeVars>>

\* The certificate commands need only the ENGINE: a NULL definition is refused.
CertCommand(d) ==
    /\ Idle /\ bound
    /\ misuse' = IF defs[d] = "freed" THEN "definition" ELSE "none"
    /\ UNCHANGED <<keyVars, loadVars, hold, lifeVars, storeVars>>

Initialize ==
    /\ Idle /\ bound /\ hold \in {"never", "dropped"}
    /\ \E done \in BOOLEAN :
         /\ TakeReference(done)
         /\ hold' = IF ~done THEN hold ELSE IF hold = "never" THEN "held" ELSE "again"
    /\ UNCHANGED <<keyVars, loadVars, misuse, storeVars>>

Finish ==
    /\ Idle /\ hold \in {"held", "again"}
    /\ DropReference
    /\ hold' = "dropped"
    /\ UNCHANGED <<keyVars, loadVars, misuse, storeVars>>

Configure ==
    /\ Idle
    /\ \E i \in Slots : set_device_key_slot(i)
    /\ UNCHANGED <<keyVars, loadVars, hold, misuse, storeVars>>

Bind == Idle /\ bind_helper /\ UNCHANGED <<keyVars, loadVars, hold, misuse, storeVars>>

Unload == Idle /\ eccx08_destroy /\ StoreUnloaded /\ UNCHANGED <<keyVars, loadVars, hold, misuse>>

\* The process ends with a misuse, or when it has used the engine MaxBinds times.
Ended == (misuse # "none" \/ (~bound /\ binds = MaxBinds)) /\ UNCHANGED vars

eccx08_load_pubkey_internal ==
    \/ StorePassword \/ New \/ Info \/ NewECKey \/ Assemble \/ NotBuilt \/ SetMethod
    \/ Get1 \/ SessionFails \/ NoPassword \/ ReadPublicKey \/ Free
    \/ ReturnKey \/ ReturnKeyFile \/ ReturnContext

Next ==
    \/ eccx08_load_pubkey_internal
    \/ \E k \in Keys : \/ Load(k) \/ get_key(k) \/ eccx08_pkey_ec_init(k)
                       \/ Sign(k) \/ FreeKey(k) \/ FreeContext(k)
    \/ \E d \in Defs : CertCommand(d)
    \/ Bind \/ Unload \/ Configure \/ Initialize \/ Finish \/ Ended

Spec == Init /\ [][Next]_vars
-----------------------------------------------------------------------------------
Count(p) == IF p THEN 1 ELSE 0

KeyObjects ==
    [pkey : 0..3, eckey : 0..2, engine : BOOLEAN, method : 0..MaxBinds,
     slot : Slots \cup {NoSlot}, pid : 0..NOPASSWD_ID,
     pub : Slots \cup {NoSlot}, derived : BOOLEAN]

Wishes == [id : Slots \cup OtherIds \cup {NoSlot}, slot : Slots \cup OtherIds \cup {NoSlot},
           password : Given \cup {"none"}]

KeysTypeOK ==
    /\ obj \in [Keys -> KeyObjects]
    /\ app \in [Keys -> BOOLEAN] /\ ctx \in [Keys -> BOOLEAN]
    /\ wish \in [Keys -> Wishes]

LoadTypeOK ==
    /\ at \in AtPoints /\ op \in LoadOps /\ cur \in Keys \cup {NoKey}
    /\ passwd_id \in 0..NOPASSWD_ID /\ ok \in BOOLEAN
    /\ hold \in {"never", "held", "dropped", "again"}
    /\ misuse \in {"none", "pkey", "method", "password", "config", "definition"}

TypeOK == LifecycleTypeOK /\ StoreTypeOK /\ KeysTypeOK /\ LoadTypeOK

\* "Balance EVP_PKEY_get1_EC_KEY(): the pkey holds its own reference"
\* (eccx08_eckey_meth.c:602-605) and "Only drop the reference if we created the
\* pkey ourselves" (:611-615): after any sequence of loads, reloads and frees,
\* each failed wherever it may, the references on a key are those of its holders,
\* and the functional references on the ENGINE those of the application and its
\* contexts.
ReferencesBalanced ==
    Idle =>
        /\ \A k \in Keys : /\ obj[k].pkey = Count(app[k]) + Count(ctx[k])
                           /\ obj[k].eckey = Count(app[k] \/ ctx[k])
        /\ funct_ref = Count(hold \in {"held", "again"}) + Cardinality({k \in Keys : ctx[k]})

\* A key uses the EC method that eccx08_finish frees (eccx08_engine.c:377), a
\* certificate command the definitions (:370), GET_DEVICE_KEY the configuration
\* that eccx08_init sets: an application that keeps its own functional reference
\* from before its first use of the engine finds them all in place, whatever
\* references its keys, loads and contexts take and drop on their own.
SafeWhileHeld == hold = "held" => misuse \notin {"method", "definition", "config"}

\* The definitions are freed once for each time that they are copied, although
\* eccx08_cert_cleanup keeps the pointers (eccx08_cert.c:184-186) and a copy may fail.
DefinitionsFreedOnce == \A d \in Defs : defs[d] # "corrupt"

\* "\return EVP_PKEY for success, NULL otherwise" (eccx08_eckey_meth.c:486): a freed
\* EVP_PKEY is used in one case only, a new key that could not be built
\* (eccx08_eckey_new_key returns the pkey that it has freed, :269-277).
FreedKeyOnlyIfNotBuilt == misuse = "pkey" => cur # NoKey /\ op # "reload"

\* A password's entry is looked for outside the store in two cases only: all
\* entries have been filled, or the key was loaded without an identifier and its
\* password_id never set (eccx08_auth.c:136-158, eckey_meth.c:107-131).
NoPasswordOnlyIfFull ==
    misuse = "password" =>
        \/ \A i \in Entries : passwords[i] # "unset"
        \/ \E k \in Keys : wish[k].id = "NULL"

\* The private part names the password by its place in the store: as long as a key
\* can be used, that place holds what the application gave for this key,
\* whatever other keys were loaded, failed or were freed meanwhile.
PasswordsAreTheirKeys ==
    \A k \in Keys :
        app[k] /\ ~Stale(obj[k]) /\ wish[k].id # "NULL" =>
            IF wish[k].password = "none" THEN obj[k].pid = NOPASSWD_ID
            ELSE obj[k].pid \in Entries /\ passwords[obj[k].pid] = wish[k].password

\* A key that was loaded with a wrong password has got past the chip in one way
\* only: its last authorization returned 0 because no key could be derived from
\* the password (eccx08_auth.c:30-35).
WrongPasswordOnlyIfNotDerived ==
    \A k \in Keys :
        app[k] /\ wish[k].password = "wrong" /\ wish[k].id # "NULL" => ~obj[k].derived

\* The public key is that of the slot the key was loaded for, also when the
\* configured slot has been changed, or reset by eccx08_init, before a reload.
PublicKeyOfItsSlot ==
    \A k \in Keys : obj[k].pub # NoSlot => obj[k].pub = wish[k].slot
===================================================================================
