------------------------------ MODULE KeysInvariant ------------------------------
(***************************************************************************)
(* The inductive invariant of Keys: what each place of a load implies for  *)
(* the references on its key and on the ENGINE.                            *)
(***************************************************************************)
EXTENDS Keys

Refs(k, p, e) == obj[k].pkey = p /\ obj[k].eckey = e

\* A key that no load is working on.
AtRest(k) ==
    /\ Refs(k, Count(app[k]) + Count(ctx[k]), Count(app[k] \/ ctx[k]))
    /\ ~app[k] /\ ~ctx[k] => obj[k] = Nothing

\* A key that is being loaded: nobody else has it.
InLoad(k) ==
    /\ ~app[k] /\ ~ctx[k]
    /\ at \in {"password", "new"} => obj[k] = Nothing
    /\ at = "info" => obj[k] = [Nothing EXCEPT !.pkey = 1]
    /\ at = "eckey" => Refs(k, 1, 0)
    /\ at \in {"group", "method", "get1"} => Refs(k, 1, 1)
    /\ at \in {"session", "free"} => Refs(k, 1, 2)
    /\ at = "return" => IF ok THEN Refs(k, 1, 1) ELSE obj[k] = Nothing

\* A key that is being reloaded for a context.
InReload(k) ==
    /\ app[k] /\ ~ctx[k]
    /\ at \in {"get1", "session", "free", "return"}
    /\ IF at \in {"session", "free"} THEN Refs(k, 2, 2) ELSE Refs(k, 2, 1)

KeyRefs(k) ==
    IF at = "out" \/ cur # k THEN AtRest(k)
    ELSE IF op = "reload" THEN InReload(k) ELSE InLoad(k)

\* The functional reference of the load in progress.
InFlight == Count(at \in {"group", "method"} \/ (at # "out" /\ op = "reload"))

Contexts == {k \in Keys : ctx[k]}

RefsInv ==
    /\ at # "out" => cur \in Keys
    /\ at = "password" => wish[cur].password # "none"
    /\ \A k \in Keys : KeyRefs(k)
    /\ funct_ref = Count(hold \in {"held", "again"}) + Cardinality(Contexts) + InFlight

\* Before the application's first reference there is nothing that uses the engine.
Untouched ==
    /\ at = "out" /\ ~pCfg
    /\ \A k \in Keys : ~app[k] /\ ~ctx[k]
    /\ engine_ec = eccx08_ec
    /\ bound => eccx08_ec # 0

\* While the application holds that reference, every key has the method of the engine.
InPlace ==
    /\ pCfg
    /\ engine_ec = eccx08_ec /\ eccx08_ec # 0
    /\ \A k \in Keys : obj[k].eckey > 0 => ~Stale(obj[k])

HeldInv == (hold = "never" => Untouched) /\ (hold = "held" => InPlace)

\* The definitions are there while the engine is functional.
DefsInv ==
    /\ DefinitionsFreedOnce
    /\ funct_ref > 0 => \A d \in Defs : defs[d] # "freed"

SlotsInv ==
    /\ PublicKeyOfItsSlot
    /\ \A k \in Keys : obj[k].slot # NoSlot => obj[k].slot = wish[k].slot

\* A misuse is the end: the references need not be right any more.
KeysInv ==
    /\ TypeOK
    /\ DefsInv
    /\ SlotsInv
    /\ misuse = "none" => RefsInv /\ HeldInv
    /\ SafeWhileHeld
    /\ FreedKeyOnlyIfNotBuilt

(***************************************************************************)
(* The passwords.                                                          *)
(***************************************************************************)
\* The store is filled in order, and no entry is filled twice.
StoreInv == \A i \in Entries : passwords[i] # "unset" <=> i < current_id

\* A method that a key has is from a binding up to now: the next one gives another.
MethodsInv ==
    /\ funct_ref > 0 \/ at # "out" => bound
    /\ IF bound THEN engine_ec # 0 ELSE eccx08_ec = 0
    /\ eccx08_ec <= binds
    /\ \A k \in Keys : obj[k].method <= binds /\ (obj[k].eckey > 0 => obj[k].method # 0)
    /\ at \in {"group", "method"} => ~Stale(obj[cur])

\* The identifier of what the application gave.
Identifies(id, password) ==
    IF password = "none" THEN id = NOPASSWD_ID ELSE id \in Entries /\ passwords[id] = password

\* The identifier that the load in progress authorizes with.
LoadPassword ==
    at \notin {"out", "password"} =>
        IF op = "reload" THEN passwd_id = obj[cur].pid ELSE Identifies(passwd_id, wish[cur].password)

\* The identifier in the private part, from eccx08_eckey_string_to_struct on.
KeyPassword(k) ==
    (at = "eckey" /\ cur = k) \/ obj[k].eckey > 0 \/ app[k] =>
        \/ wish[k].id = "NULL"
        \/ /\ obj[k].pid \in Entries \cup {NOPASSWD_ID}
           /\ (at = "eckey" /\ cur = k) \/ ~Stale(obj[k]) => Identifies(obj[k].pid, wish[k].password)

\* A key that the chip has let in, for the application or in a load that goes on.
LetIn(k) ==
    app[k] \/ (misuse = "none" /\ cur = k /\ op # "reload" /\ at \in {"free", "return"} /\ ok)

NotDerived(k) == LetIn(k) /\ wish[k].password = "wrong" /\ wish[k].id # "NULL" => ~obj[k].derived

PasswordsInv ==
    /\ misuse = "none" => StoreInv /\ MethodsInv /\ LoadPassword
    /\ \A k \in Keys : KeyPassword(k) /\ NotDerived(k)
    /\ NoPasswordOnlyIfFull
==================================================================================
