------------------------------- MODULE KeysProofs -------------------------------
(***************************************************************************)
(* Theorems about the keys, for any number of keys, passwords, slots,      *)
(* definitions and bindings, and any failures of the host.                 *)
(***************************************************************************)
EXTENDS KeysInvariant, FiniteSetTheorems, TLAPS

(***************************************************************************)
(* The contexts are counted.                                               *)
(***************************************************************************)
LEMMA ContextsCounted ==
    /\ IsFiniteSet(Contexts) /\ Cardinality(Contexts) \in Nat
    /\ \A k \in Keys : ctx[k] => Cardinality(Contexts) > 0
<1>1. IsFiniteSet(Contexts)
  BY FS_Subset, KeysAssumption DEF Contexts
<1>2. Cardinality(Contexts) \in Nat
  BY <1>1, FS_CardinalityType
<1>3. Cardinality(Contexts) = 0 => Contexts = {}
  BY <1>1, FS_EmptySet
<1> QED
  BY <1>1, <1>2, <1>3 DEF Contexts

LEMMA ContextAdded ==
    ASSUME ctx \in [Keys -> BOOLEAN], NEW k \in Keys, ~ctx[k],
           ctx' = [ctx EXCEPT ![k] = TRUE]
    PROVE  Cardinality(Contexts)' = Cardinality(Contexts) + 1
<1>1. Contexts' = Contexts \cup {k}
  BY DEF Contexts
<1>2. k \notin Contexts
  BY DEF Contexts
<1> QED
  BY <1>1, <1>2, ContextsCounted, FS_AddElement

LEMMA ContextRemoved ==
    ASSUME ctx \in [Keys -> BOOLEAN], NEW k \in Keys, ctx[k],
           ctx' = [ctx EXCEPT ![k] = FALSE]
    PROVE  Cardinality(Contexts)' = Cardinality(Contexts) - 1
<1>1. Contexts' = Contexts \ {k}
  BY DEF Contexts
<1>2. k \in Contexts
  BY DEF Contexts
<1> QED
  BY <1>1, <1>2, ContextsCounted, FS_RemoveElement

(***************************************************************************)
(* The engine's own state.                                                 *)
(***************************************************************************)
LEMMA ReferenceTaken ==
    ASSUME LifecycleTypeOK, DefsInv, NEW r \in BOOLEAN, TakeReference(r)
    PROVE  /\ LifecycleTypeOK' /\ DefsInv'
           /\ pCfg => pCfg'
           /\ r /\ funct_ref = 0 => pCfg'
           /\ funct_ref # 0 => r /\ pCfg' = pCfg
           /\ ~r => pCfg' = pCfg
           /\ funct_ref' = IF r THEN funct_ref + 1 ELSE funct_ref
           /\ UNCHANGED <<bound, engine_ec, eccx08_ec>>
<1> USE LifecycleAssumption DEF LifecycleTypeOK, DefsInv, DefinitionsFreedOnce, Pointers
<1>1. CASE UNCHANGED servingVars /\ (funct_ref # 0 \/ ~r)
  BY <1>1 DEF TakeReference, servingVars
<1>2. CASE /\ funct_ref = 0 /\ r
           /\ mutex' = IF mutex = "NULL" THEN "created" ELSE mutex
           /\ eccx08_platform_init /\ eccx08_cert_init
  <2>1. /\ defs' \in [Defs -> Pointers]
        /\ \A d \in Defs : defs'[d] \in {"live", "NULL"}
    BY <1>2 DEF eccx08_cert_init
  <2> QED
    BY <1>2, <2>1 DEF TakeReference, eccx08_platform_init
<1>3. funct_ref # 0 => UNCHANGED servingVars
  BY DEF TakeReference
<1>4. funct_ref = 0 => eccx08_init(r)
  BY DEF TakeReference
<1> QED
  BY <1>1, <1>2, <1>3, <1>4 DEF eccx08_init

LEMMA ReferenceDropped ==
    ASSUME LifecycleTypeOK, DefsInv, funct_ref > 0, DropReference
    PROVE  /\ LifecycleTypeOK' /\ DefsInv'
           /\ UNCHANGED <<bound, pCfg, engine_ec>>
           /\ funct_ref > 1 => eccx08_ec' = eccx08_ec
           /\ funct_ref' = funct_ref - 1
<1> USE LifecycleAssumption DEF LifecycleTypeOK, DefsInv, DefinitionsFreedOnce, Pointers
<1>1. CASE funct_ref = 1
  <2>1. eccx08_cert_cleanup /\ eccx08_ec' = 0 /\ UNCHANGED <<mutex, pCfg, device_key_slot>>
    BY <1>1 DEF DropReference, eccx08_finish, eccx08_ec_cleanup
  <2>2. defs' \in [Defs -> Pointers] /\ \A d \in Defs : defs'[d] \in {"NULL", "freed"}
    BY <1>1, <2>1 DEF eccx08_cert_cleanup
  <2> QED
    BY <1>1, <2>1, <2>2 DEF DropReference
<1>2. CASE funct_ref > 1
  BY <1>2 DEF DropReference, servingVars
<1> QED
  BY <1>1, <1>2

(***************************************************************************)
(* What holds whatever the references are: actions that leave the keys and *)
(* the ENGINE's references alone.                                          *)
(***************************************************************************)
LEMMA LifecycleInitTyped == ASSUME LifecycleInit PROVE LifecycleTypeOK
<1>1. bound \in BOOLEAN /\ eccx08_pkey_meth \in BOOLEAN /\ pCfg \in BOOLEAN
  BY DEF LifecycleInit
<1>2. defs \in [Defs -> Pointers]
  BY DEF LifecycleInit, Pointers
<1>3. 0 \in 0..MaxBinds /\ DefaultSlot \in Slots
  BY LifecycleAssumption
<1> QED
  BY <1>1, <1>2, <1>3 DEF LifecycleInit, LifecycleTypeOK

LEMMA StoreInitTyped == ASSUME StoreInit PROVE StoreTypeOK
BY StoreAssumption DEF StoreInit, StoreTypeOK

LEMMA NothingTyped == Nothing \in KeyObjects
BY LifecycleAssumption DEF Nothing, KeyObjects, NOPASSWD_ID

LEMMA NoWishTyped == NoWish \in Wishes
BY DEF NoWish, Wishes

LEMMA Updated ==
    ASSUME NEW o \in KeyObjects
    PROVE  /\ \A n \in 0..3 : [o EXCEPT !.pkey = n] \in KeyObjects
           /\ \A n \in 0..2 : [o EXCEPT !.eckey = n] \in KeyObjects
           /\ \A b \in BOOLEAN : [o EXCEPT !.engine = b] \in KeyObjects
           /\ \A m \in 0..MaxBinds : [o EXCEPT !.method = m] \in KeyObjects
           /\ \A i \in Slots \cup {NoSlot} : [o EXCEPT !.slot = i] \in KeyObjects
           /\ \A i \in Slots \cup {NoSlot} : [o EXCEPT !.pub = i] \in KeyObjects
           /\ \A n \in 0..NOPASSWD_ID : [o EXCEPT !.pid = n] \in KeyObjects
           /\ \A b \in BOOLEAN : [o EXCEPT !.derived = b] \in KeyObjects
<1>1. \A n \in 0..3 : [o EXCEPT !.pkey = n] \in KeyObjects
  BY DEF KeyObjects
<1>2. \A n \in 0..2 : [o EXCEPT !.eckey = n] \in KeyObjects
  BY DEF KeyObjects
<1>3. \A b \in BOOLEAN : [o EXCEPT !.engine = b] \in KeyObjects
  BY DEF KeyObjects
<1>4. \A m \in 0..MaxBinds : [o EXCEPT !.method = m] \in KeyObjects
  BY DEF KeyObjects
<1>5. \A i \in Slots \cup {NoSlot} : [o EXCEPT !.slot = i] \in KeyObjects
  BY DEF KeyObjects
<1>6. \A i \in Slots \cup {NoSlot} : [o EXCEPT !.pub = i] \in KeyObjects
  BY DEF KeyObjects
<1>7. \A n \in 0..NOPASSWD_ID : [o EXCEPT !.pid = n] \in KeyObjects
  BY DEF KeyObjects
<1>8. \A b \in BOOLEAN : [o EXCEPT !.derived = b] \in KeyObjects
  BY DEF KeyObjects
<1> QED
  BY <1>1, <1>2, <1>3, <1>4, <1>5, <1>6, <1>7, <1>8

LEMMA InitInv == ASSUME Init PROVE KeysInv
<1> USE DEF Init
<1>1. LifecycleTypeOK /\ StoreTypeOK
  BY LifecycleInitTyped, StoreInitTyped
<1>2. LoadTypeOK
  BY DEF LoadTypeOK, AtPoints, LoadOps, NOPASSWD_ID
<1>3. KeysTypeOK
  BY NothingTyped, NoWishTyped DEF KeysTypeOK
<1>4. DefsInv /\ SlotsInv /\ SafeWhileHeld /\ FreedKeyOnlyIfNotBuilt
  BY DEF DefsInv, DefinitionsFreedOnce, SlotsInv, PublicKeyOfItsSlot, SafeWhileHeld,
         FreedKeyOnlyIfNotBuilt, Nothing, NoSlot, LifecycleInit
<1>5. RefsInv
  <2>1. Contexts = {}
    BY DEF Contexts
  <2> QED
    BY <2>1, FS_EmptySet DEF RefsInv, KeyRefs, AtRest, Refs, Count, Nothing, InFlight, LifecycleInit
<1>6. HeldInv
  BY DEF HeldInv, Untouched, LifecycleInit
<1> QED
  BY <1>1, <1>2, <1>3, <1>4, <1>5, <1>6 DEF KeysInv, TypeOK

(***************************************************************************)
(* What a step leaves alone.                                               *)
(***************************************************************************)
LEMMA DefsStay ==
    ASSUME DefsInv, UNCHANGED <<funct_ref, defs>>
    PROVE  DefsInv'
BY DEF DefsInv, DefinitionsFreedOnce

LEMMA SlotsStay ==
    ASSUME SlotsInv, UNCHANGED <<obj, wish>>
    PROVE  SlotsInv'
BY DEF SlotsInv, PublicKeyOfItsSlot

LEMMA RestStays ==
    ASSUME NEW k \in Keys, KeyRefs(k), at = "out" \/ cur # k, (at = "out" \/ cur # k)',
           obj'[k] = obj[k], app'[k] = app[k], ctx'[k] = ctx[k]
    PROVE  KeyRefs(k)'
BY DEF KeyRefs, AtRest, Refs, Count

LEMMA HeldStays ==
    ASSUME RefsInv, HeldInv, at # "out", UNCHANGED <<obj, hold, lifeVars>>
    PROVE  HeldInv'
BY DEF HeldInv, Untouched, InPlace, Stale, lifeVars, servingVars

LEMMA NoMisuse ==
    ASSUME misuse' = "none"
    PROVE  SafeWhileHeld' /\ FreedKeyOnlyIfNotBuilt'
BY DEF SafeWhileHeld, FreedKeyOnlyIfNotBuilt

LEMMA Before ==
    ASSUME KeysInv, misuse = "none"
    PROVE  /\ LifecycleTypeOK /\ StoreTypeOK /\ KeysTypeOK /\ LoadTypeOK
           /\ DefsInv /\ SlotsInv /\ RefsInv /\ HeldInv
BY DEF KeysInv, TypeOK

\* What is left to show of a step that misuses nothing.
LEMMA After ==
    ASSUME misuse' = "none",
           (LifecycleTypeOK /\ StoreTypeOK /\ KeysTypeOK /\ LoadTypeOK)',
           (DefsInv /\ SlotsInv /\ RefsInv /\ HeldInv)'
    PROVE  KeysInv'
BY DEF KeysInv, TypeOK, SafeWhileHeld, FreedKeyOnlyIfNotBuilt

\* A step that ends with a misuse.
LEMMA AfterMisuse ==
    ASSUME misuse' # "none",
           (LifecycleTypeOK /\ StoreTypeOK /\ KeysTypeOK /\ LoadTypeOK)',
           (DefsInv /\ SlotsInv /\ SafeWhileHeld /\ FreedKeyOnlyIfNotBuilt)'
    PROVE  KeysInv'
BY DEF KeysInv, TypeOK

LEMMA TypesStay ==
    /\ LifecycleTypeOK /\ UNCHANGED lifeVars => LifecycleTypeOK'
    /\ StoreTypeOK /\ UNCHANGED storeVars => StoreTypeOK'
    /\ KeysTypeOK /\ UNCHANGED keyVars => KeysTypeOK'
<1>1. LifecycleTypeOK /\ UNCHANGED lifeVars => LifecycleTypeOK'
  BY DEF LifecycleTypeOK, lifeVars, servingVars
<1>2. StoreTypeOK /\ UNCHANGED storeVars => StoreTypeOK'
  BY DEF StoreTypeOK, storeVars
<1>3. KeysTypeOK /\ UNCHANGED keyVars => KeysTypeOK'
  BY DEF KeysTypeOK, keyVars
<1> QED
  BY <1>1, <1>2, <1>3

LEMMA SlotsStep ==
    ASSUME SlotsInv,
           \A k \in Keys :
               \/ /\ obj'[k].slot = obj[k].slot /\ obj'[k].pub = obj[k].pub
                  /\ wish'[k].slot = wish[k].slot
               \/ obj'[k].slot = NoSlot /\ obj'[k].pub = NoSlot
    PROVE  SlotsInv'
BY DEF SlotsInv, PublicKeyOfItsSlot

\* A step within a load changes its own key.
LEMMA RefsStep ==
    ASSUME RefsInv, at # "out", at' \notin {"out", "password"}, cur' = cur,
           UNCHANGED <<app, ctx, hold>>,
           \A k \in Keys : k # cur => obj'[k] = obj[k],
           KeyRefs(cur)',
           funct_ref \in Int, funct_ref' \in Int,
           funct_ref' - InFlight' = funct_ref - InFlight
    PROVE  RefsInv'
<1>1. Contexts' = Contexts
  BY DEF Contexts
<1>2. \A k \in Keys : KeyRefs(k)'
  <2> TAKE k \in Keys
  <2>1. CASE k = cur
    BY <2>1
  <2>2. CASE k # cur
    BY <2>2, RestStays DEF RefsInv
  <2> QED
    BY <2>1, <2>2
<1>3. InFlight \in Int /\ InFlight' \in Int /\ Count(hold \in {"held", "again"}) \in Int
  BY DEF InFlight, Count
<1>4. funct_ref' = Count(hold \in {"held", "again"})' + Cardinality(Contexts)' + InFlight'
  BY <1>1, <1>3, ContextsCounted DEF RefsInv
<1> QED
  BY <1>2, <1>4 DEF RefsInv

\* A step that touches no key but c, which is in no load or leaves one or enters one.
LEMMA RefsTouch ==
    ASSUME RefsInv, NEW c \in Keys, at = "out" \/ cur = c, at' = "out" \/ cur' = c,
           \A k \in Keys : k # c => obj'[k] = obj[k] /\ app'[k] = app[k] /\ ctx'[k] = ctx[k],
           KeyRefs(c)',
           (at = "password" => wish[cur].password # "none")',
           funct_ref' = Count(hold \in {"held", "again"})' + Cardinality(Contexts)' + InFlight'
    PROVE  RefsInv'
<1>1. \A k \in Keys : KeyRefs(k)'
  <2> TAKE k \in Keys
  <2>1. CASE k = c
    BY <2>1
  <2>2. CASE k # c
    BY <2>2, RestStays DEF RefsInv
  <2> QED
    BY <2>1, <2>2
<1> QED
  BY <1>1 DEF RefsInv

LEMMA HeldTouch ==
    ASSUME HeldInv, hold # "never", hold' = hold,
           hold = "held" => UNCHANGED <<pCfg, engine_ec, eccx08_ec>>,
           \A k \in Keys : obj'[k].eckey > 0 =>
               obj[k].eckey > 0 /\ obj'[k].method = obj[k].method
    PROVE  HeldInv'
BY DEF HeldInv, InPlace, Stale

LEMMA HeldStep ==
    ASSUME RefsInv, HeldInv, at # "out", hold' = hold,
           hold = "held" => UNCHANGED <<pCfg, engine_ec, eccx08_ec>>,
           \A k \in Keys : obj'[k].eckey > 0 =>
               obj[k].eckey > 0 /\ obj'[k].method = obj[k].method
    PROVE  HeldInv'
BY DEF HeldInv, Untouched, InPlace, Stale

\* A step that gives one object a value of its type.
LEMMA TypesStep ==
    ASSUME KeysTypeOK, NEW k \in Keys, NEW o \in KeyObjects, obj' = [obj EXCEPT ![k] = o],
           UNCHANGED <<app, ctx, wish>>
    PROVE  KeysTypeOK'
BY DEF KeysTypeOK

LEMMA Functional ==
    ASSUME RefsInv
    PROVE  /\ InFlight \in {0, 1} /\ funct_ref >= InFlight
           /\ hold \in {"held", "again"} => funct_ref >= InFlight + 1
<1>1. InFlight \in {0, 1}
  BY DEF InFlight, Count
<1>2. Count(hold \in {"held", "again"}) = IF hold \in {"held", "again"} THEN 1 ELSE 0
  BY DEF Count
<1> QED
  BY <1>1, <1>2, ContextsCounted DEF RefsInv

\* A step of a load that does no more than change its key and go on.
LEMMA LoadStep ==
    ASSUME KeysInv, misuse = "none", misuse' = "none", at # "out",
           at' \in AtPoints \ {"out", "password"}, ok' \in BOOLEAN,
           UNCHANGED <<app, ctx, wish, op, cur, passwd_id, hold, storeVars>>,
           obj' = [obj EXCEPT ![cur] = obj'[cur]],
           obj'[cur] \in KeyObjects,
           obj'[cur].slot \in {NoSlot, obj[cur].slot},
           obj'[cur].pub \in {NoSlot, obj[cur].slot, obj[cur].pub},
           hold = "held" /\ obj'[cur].eckey > 0 => obj'[cur].method = eccx08_ec,
           hold = "held" => UNCHANGED <<pCfg, engine_ec, eccx08_ec>>,
           LifecycleTypeOK', DefsInv',
           funct_ref' - InFlight' = funct_ref - InFlight,
           KeyRefs(cur)'
    PROVE  KeysInv'
<1>1. /\ LifecycleTypeOK /\ StoreTypeOK /\ KeysTypeOK /\ LoadTypeOK
      /\ DefsInv /\ SlotsInv /\ RefsInv /\ HeldInv
  BY Before
<1>2. cur \in Keys
  BY <1>1 DEF RefsInv
<1>3. \A k \in Keys : k # cur => obj'[k] = obj[k]
  BY <1>1, <1>2 DEF KeysTypeOK
<1>4. StoreTypeOK' /\ KeysTypeOK'
  BY <1>1, <1>2, TypesStay, TypesStep
<1>5. LoadTypeOK'
  BY <1>1 DEF LoadTypeOK
<1>6. SlotsInv'
  BY <1>1, <1>2, <1>3 DEF SlotsInv, PublicKeyOfItsSlot
<1>7. RefsInv'
  BY <1>1, <1>3, RefsStep DEF LifecycleTypeOK
<1>8. HeldInv'
  BY <1>1, <1>2, <1>3 DEF HeldInv, Untouched, InPlace, Stale
<1> QED
  BY <1>1, <1>4, <1>5, <1>6, <1>7, <1>8, After

(***************************************************************************)
(* The steps of a load                                                     *)
(***************************************************************************)
LEMMA StorePasswordInv == ASSUME KeysInv, StorePassword PROVE KeysInv'
<1>1. /\ misuse = "none" /\ at = "password" /\ at' = "new"
      /\ misuse' \in {"none", "password"}
      /\ UNCHANGED <<keyVars, op, cur, ok, hold, lifeVars>>
  BY DEF StorePassword, At, Fine
<1>2. /\ LifecycleTypeOK /\ StoreTypeOK /\ KeysTypeOK /\ LoadTypeOK
      /\ DefsInv /\ SlotsInv /\ RefsInv /\ HeldInv
  BY <1>1, Before
<1>3. cur \in Keys /\ wish[cur].password \in {"right", "wrong"}
  BY <1>1, <1>2, StoreAssumption DEF RefsInv, KeysTypeOK, Wishes
<1>4. StoreTypeOK' /\ passwd_id' \in 0..NOPASSWD_ID
  <2>1. current_id' \in 0..MAX_PASSWORDS /\ passwd_id' \in 0..NOPASSWD_ID
    BY <1>2, StoreAssumption DEF StorePassword, StoreTypeOK, eccx08_make_password, NOPASSWD_ID
  <2>2. passwords' \in [Entries -> {"unset", "right", "wrong"}]
    BY <1>2, <1>3 DEF StorePassword, StoreTypeOK
  <2> QED
    BY <2>1, <2>2 DEF StoreTypeOK
<1>5. LifecycleTypeOK' /\ KeysTypeOK'
  BY <1>1, <1>2, TypesStay
<1>6. LoadTypeOK'
  BY <1>1, <1>2, <1>4 DEF LoadTypeOK, AtPoints
<1>7. DefsInv' /\ SlotsInv' /\ HeldInv'
  BY <1>1, <1>2, DefsStay, SlotsStay, HeldStays DEF keyVars, lifeVars, servingVars
<1>8. RefsInv'
  <2>1. Contexts' = Contexts /\ InFlight' = InFlight
    BY <1>1 DEF Contexts, InFlight, keyVars, Count
  <2>2. \A k \in Keys : KeyRefs(k)'
    BY <1>1, <1>2 DEF RefsInv, KeyRefs, AtRest, InLoad, InReload, Refs, keyVars, Count
  <2> QED
    BY <1>1, <1>2, <2>1, <2>2 DEF RefsInv, lifeVars, keyVars
<1> QED
  BY <1>1, <1>4, <1>5, <1>6, <1>7, <1>8, After, AfterMisuse
     DEF SafeWhileHeld, FreedKeyOnlyIfNotBuilt

LEMMA NewInv == ASSUME KeysInv, New PROVE KeysInv'
<1>1. /\ misuse = "none" /\ misuse' = "none" /\ at = "new"
      /\ UNCHANGED <<app, ctx, wish, op, cur, passwd_id, hold, lifeVars, storeVars>>
      /\ \/ at' = "info" /\ obj' = [obj EXCEPT ![cur].pkey = 1] /\ ok' = ok
         \/ at' = "return" /\ ok' = FALSE /\ obj' = obj
  BY DEF New, At
<1>2. /\ LifecycleTypeOK /\ KeysTypeOK /\ LoadTypeOK /\ DefsInv /\ RefsInv
  BY <1>1, Before
<1>3. cur \in Keys /\ op # "reload" /\ InLoad(cur) /\ obj[cur] = Nothing
  BY <1>1, <1>2 DEF RefsInv, KeyRefs, InReload, InLoad
<1>4. /\ obj' = [obj EXCEPT ![cur] = obj'[cur]]
      /\ obj'[cur] = IF at' = "info" THEN [Nothing EXCEPT !.pkey = 1] ELSE Nothing
  BY <1>1, <1>2, <1>3 DEF KeysTypeOK
<1>5. obj'[cur] \in KeyObjects
  BY <1>4, NothingTyped DEF KeyObjects
<1>6. obj'[cur].slot = NoSlot /\ obj'[cur].pub = NoSlot /\ obj'[cur].eckey = 0
  BY <1>4 DEF Nothing
<1>7. KeyRefs(cur)'
  BY <1>1, <1>3, <1>4 DEF KeyRefs, InLoad
<1>8. /\ LifecycleTypeOK' /\ DefsInv' /\ UNCHANGED <<pCfg, engine_ec, eccx08_ec>>
      /\ funct_ref' - InFlight' = funct_ref - InFlight
  BY <1>1, <1>2, <1>3, TypesStay, DefsStay DEF InFlight, Count, lifeVars, servingVars
<1>9. at' \in AtPoints \ {"out", "password"} /\ ok' \in BOOLEAN
  BY <1>1, <1>2 DEF AtPoints, LoadTypeOK
<1> QED
  BY <1>1, <1>4, <1>5, <1>6, <1>7, <1>8, <1>9, LoadStep

LEMMA InfoInv == ASSUME KeysInv, Info PROVE KeysInv'
<1>1. /\ misuse = "none" /\ misuse' = "none" /\ at = "info" /\ at' = "eckey"
      /\ UNCHANGED <<app, ctx, op, cur, passwd_id, ok, hold, lifeVars, storeVars>>
  BY DEF Info, At
<1>2. /\ LifecycleTypeOK /\ StoreTypeOK /\ KeysTypeOK /\ LoadTypeOK
      /\ DefsInv /\ SlotsInv /\ RefsInv /\ HeldInv
  BY <1>1, Before
<1>3. cur \in Keys /\ op # "reload" /\ InLoad(cur) /\ obj[cur] = [Nothing EXCEPT !.pkey = 1]
  BY <1>1, <1>2 DEF RefsInv, KeyRefs, InReload, InLoad
<1>4. PICK pid \in 0..NOPASSWD_ID, slot \in Slots, known \in BOOLEAN :
        /\ obj' = [obj EXCEPT ![cur].slot = IF known THEN slot ELSE NoSlot, ![cur].pid = pid]
        /\ wish' = [wish EXCEPT ![cur].slot = slot]
  <2>1. PICK pid \in IF wish[cur].id = "NULL" THEN Entries \cup {MAX_PASSWORDS, NOPASSWD_ID} ELSE {passwd_id} :
          LET id == wish[cur].id
              slot == IF id \in Slots THEN id ELSE device_key_slot IN
          /\ obj' = [obj EXCEPT ![cur].slot = IF id = "bad_bus" THEN NoSlot ELSE slot, ![cur].pid = pid]
          /\ wish' = [wish EXCEPT ![cur].slot = slot]
    BY DEF Info
  <2>2. pid \in 0..NOPASSWD_ID
    BY <1>2, StoreAssumption DEF Entries, NOPASSWD_ID, LoadTypeOK
  <2>3. device_key_slot \in Slots
    BY <1>2 DEF LifecycleTypeOK
  <2>4. \E slot \in Slots, known \in BOOLEAN :
          /\ slot = IF wish[cur].id \in Slots THEN wish[cur].id ELSE device_key_slot
          /\ known = (wish[cur].id # "bad_bus")
    BY <2>3
  <2> QED
    BY <2>1, <2>2, <2>4
<1>5. /\ obj'[cur] = [obj[cur] EXCEPT !.slot = IF known THEN slot ELSE NoSlot, !.pid = pid]
      /\ wish'[cur] = [wish[cur] EXCEPT !.slot = slot]
      /\ \A k \in Keys : k # cur => obj'[k] = obj[k] /\ wish'[k] = wish[k]
  BY <1>2, <1>3, <1>4 DEF KeysTypeOK
<1>6. /\ obj'[cur].pkey = 1 /\ obj'[cur].eckey = 0 /\ obj'[cur].pub = NoSlot
      /\ obj'[cur].slot = IF known THEN slot ELSE NoSlot
      /\ wish'[cur].slot = slot
  BY <1>2, <1>3, <1>5 DEF KeysTypeOK, Nothing
<1>7. LifecycleTypeOK' /\ StoreTypeOK' /\ DefsInv'
  BY <1>1, <1>2, TypesStay, DefsStay DEF lifeVars, servingVars
<1>8. KeysTypeOK'
  <2>1. obj'[cur] \in KeyObjects
    BY <1>2, <1>3, <1>5 DEF KeysTypeOK, KeyObjects
  <2>2. obj' \in [Keys -> KeyObjects]
    BY <1>2, <1>4, <2>1, <1>5 DEF KeysTypeOK
  <2>3. wish' \in [Keys -> Wishes]
    BY <1>2, <1>3, <1>4 DEF KeysTypeOK, Wishes
  <2> QED
    BY <1>1, <1>2, <2>2, <2>3 DEF KeysTypeOK
<1>9. LoadTypeOK'
  BY <1>1, <1>2 DEF LoadTypeOK, AtPoints
<1>10. SlotsInv'
  BY <1>2, <1>5, <1>6 DEF SlotsInv, PublicKeyOfItsSlot
<1>11. RefsInv'
  <2>1. KeyRefs(cur)'
    BY <1>1, <1>3, <1>6 DEF KeyRefs, InLoad, Refs
  <2>2. funct_ref' - InFlight' = funct_ref - InFlight /\ funct_ref \in Int /\ funct_ref' \in Int
    BY <1>1, <1>2, <1>3 DEF InFlight, Count, lifeVars, LifecycleTypeOK
  <2> QED
    BY <1>1, <1>2, <1>5, <2>1, <2>2, RefsStep
<1>12. HeldInv'
  <2>1. \A k \in Keys : obj'[k].eckey > 0 => obj[k].eckey > 0 /\ obj'[k].method = obj[k].method
    <3> TAKE k \in Keys
    <3>1. CASE k = cur
      BY <1>6, <3>1
    <3>2. CASE k # cur
      BY <1>5, <3>2
    <3> QED
      BY <3>1, <3>2
  <2> QED
    BY <1>1, <1>2, <2>1, HeldStep DEF lifeVars, servingVars
<1> QED
  BY <1>1, <1>2, <1>7, <1>8, <1>9, <1>10, <1>11, <1>12, After

LEMMA NewECKeyInv == ASSUME KeysInv, NewECKey PROVE KeysInv'
<1>1. /\ misuse = "none" /\ at = "eckey" /\ at' = "group" /\ TakeReference(TRUE)
      /\ misuse' = IF engine_ec = eccx08_ec THEN "none" ELSE "method"
      /\ obj' = [obj EXCEPT ![cur].eckey = 1, ![cur].engine = TRUE, ![cur].method = engine_ec]
      /\ UNCHANGED <<app, ctx, wish, op, cur, passwd_id, ok, hold, storeVars>>
  BY DEF NewECKey, At
<1>2. /\ LifecycleTypeOK /\ StoreTypeOK /\ KeysTypeOK /\ LoadTypeOK
      /\ DefsInv /\ SlotsInv /\ RefsInv /\ HeldInv
  BY <1>1, Before
<1>3. cur \in Keys /\ op # "reload" /\ InLoad(cur) /\ Refs(cur, 1, 0)
  BY <1>1, <1>2 DEF RefsInv, KeyRefs, InReload, InLoad
<1>4. /\ obj' = [obj EXCEPT ![cur] = obj'[cur]]
      /\ obj'[cur] = [obj[cur] EXCEPT !.eckey = 1, !.engine = TRUE, !.method = engine_ec]
  BY <1>1, <1>2, <1>3 DEF KeysTypeOK
<1>5. obj'[cur] \in KeyObjects
  <2>1. obj[cur] \in KeyObjects /\ engine_ec \in 0..MaxBinds
    BY <1>2, <1>3 DEF KeysTypeOK, LifecycleTypeOK
  <2>2. [obj[cur] EXCEPT !.eckey = 1] \in KeyObjects
    <3>1. 1 \in 0..2
      OBVIOUS
    <3> QED
      BY <2>1, <3>1, Updated
  <2>3. [obj[cur] EXCEPT !.eckey = 1, !.engine = TRUE] \in KeyObjects
    BY <2>2, Updated
  <2> QED
    BY <1>4, <2>1, <2>3, Updated
<1>6. /\ obj'[cur].slot = obj[cur].slot /\ obj'[cur].pub = obj[cur].pub
      /\ obj'[cur].pkey = 1 /\ obj'[cur].eckey = 1 /\ obj'[cur].method = engine_ec
  BY <1>2, <1>3, <1>4 DEF KeyObjects, KeysTypeOK, Refs
<1>7. LifecycleTypeOK' /\ DefsInv'
  BY <1>1, <1>2, ReferenceTaken
<1>8. /\ funct_ref' = funct_ref + 1 /\ funct_ref \in Int
      /\ hold = "held" => UNCHANGED <<pCfg, engine_ec, eccx08_ec>>
  <2>1. hold = "held" => funct_ref # 0
    BY <1>2, Functional DEF LifecycleTypeOK
  <2>2. TakeReference(TRUE)
    BY <1>1
  <2>3. funct_ref \in Int
    BY <1>2 DEF LifecycleTypeOK
  <2> QED
    BY <1>2, <2>1, <2>2, <2>3, ReferenceTaken
<1>9. hold = "held" => engine_ec = eccx08_ec
  BY <1>2 DEF HeldInv, InPlace
<1>10. CASE misuse' = "none"
  <2>1. KeyRefs(cur)'
    BY <1>1, <1>3, <1>6 DEF KeyRefs, InLoad, Refs
  <2>2. funct_ref' - InFlight' = funct_ref - InFlight
    BY <1>1, <1>3, <1>8 DEF InFlight, Count
  <2>3. at' \in AtPoints \ {"out", "password"} /\ ok' \in BOOLEAN
    BY <1>1, <1>2 DEF AtPoints, LoadTypeOK
  <2> QED
    BY <1>1, <1>4, <1>5, <1>6, <1>7, <1>8, <1>9, <1>10, <2>1, <2>2, <2>3, LoadStep
<1>11. CASE misuse' = "method"
  <2>1. SafeWhileHeld' /\ FreedKeyOnlyIfNotBuilt'
    BY <1>1, <1>9, <1>11 DEF SafeWhileHeld, FreedKeyOnlyIfNotBuilt
  <2>2. StoreTypeOK' /\ KeysTypeOK' /\ LoadTypeOK'
    BY <1>1, <1>2, <1>3, <1>4, <1>5, <1>11, TypesStay, TypesStep DEF LoadTypeOK, AtPoints
  <2>3. SlotsInv'
    <3>1. \A k \in Keys : obj'[k].slot = obj[k].slot /\ obj'[k].pub = obj[k].pub
      BY <1>2, <1>4, <1>6 DEF KeysTypeOK
    <3> QED
      BY <1>1, <1>2, <3>1, SlotsStep
  <2> QED
    BY <1>7, <1>11, <2>1, <2>2, <2>3, AfterMisuse
<1> QED
  BY <1>1, <1>10, <1>11

LEMMA AssembleInv == ASSUME KeysInv, Assemble PROVE KeysInv'
<1>1. /\ misuse = "none" /\ misuse' = "none" /\ at = "group" /\ at' = "method"
      /\ UNCHANGED <<keyVars, op, cur, passwd_id, ok, hold, lifeVars, storeVars>>
  BY DEF Assemble, At
<1>2. /\ LifecycleTypeOK /\ KeysTypeOK /\ LoadTypeOK /\ DefsInv /\ RefsInv /\ HeldInv
  BY <1>1, Before
<1>3. cur \in Keys /\ op # "reload" /\ InLoad(cur) /\ Refs(cur, 1, 1)
  BY <1>1, <1>2 DEF RefsInv, KeyRefs, InReload, InLoad
<1>4. obj' = [obj EXCEPT ![cur] = obj'[cur]] /\ obj'[cur] = obj[cur] /\ obj'[cur] \in KeyObjects
  BY <1>1, <1>2, <1>3 DEF keyVars, KeysTypeOK
<1>5. hold = "held" /\ obj'[cur].eckey > 0 => obj'[cur].method = eccx08_ec
  BY <1>2, <1>3, <1>4 DEF HeldInv, InPlace, Stale
<1>6. KeyRefs(cur)'
  BY <1>1, <1>3, <1>4 DEF KeyRefs, InLoad, Refs, keyVars
<1>7. /\ LifecycleTypeOK' /\ DefsInv' /\ UNCHANGED <<pCfg, engine_ec, eccx08_ec>>
      /\ funct_ref' - InFlight' = funct_ref - InFlight
  BY <1>1, <1>2, <1>3, TypesStay, DefsStay DEF InFlight, Count, lifeVars, servingVars
<1>8. at' \in AtPoints \ {"out", "password"} /\ ok' \in BOOLEAN
  BY <1>1, <1>2 DEF AtPoints, LoadTypeOK
<1> QED
  BY <1>1, <1>4, <1>5, <1>6, <1>7, <1>8, LoadStep DEF keyVars

LEMMA SetMethodInv == ASSUME KeysInv, SetMethod PROVE KeysInv'
<1>1. /\ misuse = "none" /\ at = "method" /\ at' = "get1" /\ DropReference
      /\ misuse' = IF eccx08_ec' = 0 THEN "method" ELSE "none"
      /\ obj' = [obj EXCEPT ![cur].method = eccx08_ec, ![cur].engine = FALSE]
      /\ UNCHANGED <<app, ctx, wish, op, cur, passwd_id, ok, hold, storeVars>>
  BY DEF SetMethod, At
<1>2. /\ LifecycleTypeOK /\ StoreTypeOK /\ KeysTypeOK /\ LoadTypeOK
      /\ DefsInv /\ SlotsInv /\ RefsInv /\ HeldInv
  BY <1>1, Before
<1>3. cur \in Keys /\ op # "reload" /\ InLoad(cur) /\ Refs(cur, 1, 1)
  BY <1>1, <1>2 DEF RefsInv, KeyRefs, InReload, InLoad
<1>4. /\ obj' = [obj EXCEPT ![cur] = obj'[cur]]
      /\ obj'[cur] = [obj[cur] EXCEPT !.method = eccx08_ec, !.engine = FALSE]
  BY <1>1, <1>2, <1>3 DEF KeysTypeOK
<1>5. obj'[cur] \in KeyObjects
  <2>1. obj[cur] \in KeyObjects /\ eccx08_ec \in 0..MaxBinds
    BY <1>2, <1>3 DEF KeysTypeOK, LifecycleTypeOK
  <2>2. [obj[cur] EXCEPT !.method = eccx08_ec] \in KeyObjects
    BY <2>1, Updated
  <2> QED
    BY <1>4, <2>2, Updated
<1>6. /\ obj'[cur].slot = obj[cur].slot /\ obj'[cur].pub = obj[cur].pub
      /\ obj'[cur].pkey = 1 /\ obj'[cur].eckey = 1 /\ obj'[cur].method = eccx08_ec
  BY <1>2, <1>3, <1>4 DEF KeyObjects, KeysTypeOK, Refs
<1>7. InFlight = 1 /\ InFlight' = 0
  BY <1>1, <1>3 DEF InFlight, Count
<1>8. /\ funct_ref > 0 /\ funct_ref \in Int
      /\ hold = "held" => funct_ref > 1
  BY <1>2, <1>7, Functional DEF LifecycleTypeOK
<1>9. /\ LifecycleTypeOK' /\ DefsInv' /\ funct_ref' = funct_ref - 1
      /\ hold = "held" => UNCHANGED <<pCfg, engine_ec, eccx08_ec>>
  BY <1>1, <1>2, <1>8, ReferenceDropped
<1>10. CASE misuse' = "none"
  <2>1. KeyRefs(cur)'
    BY <1>1, <1>3, <1>6 DEF KeyRefs, InLoad, Refs
  <2>2. at' \in AtPoints \ {"out", "password"} /\ ok' \in BOOLEAN
    BY <1>1, <1>2 DEF AtPoints, LoadTypeOK
  <2>3. funct_ref' - InFlight' = funct_ref - InFlight
    BY <1>7, <1>8, <1>9
  <2> QED
    BY <1>1, <1>4, <1>5, <1>6, <1>9, <1>10, <2>1, <2>2, <2>3, LoadStep
<1>11. CASE misuse' = "method"
  <2>1. hold = "held" => eccx08_ec # 0
    BY <1>2 DEF HeldInv, InPlace
  <2>2. SafeWhileHeld' /\ FreedKeyOnlyIfNotBuilt'
    BY <1>1, <1>9, <1>11, <2>1 DEF SafeWhileHeld, FreedKeyOnlyIfNotBuilt
  <2>3. StoreTypeOK' /\ KeysTypeOK' /\ LoadTypeOK'
    BY <1>1, <1>2, <1>3, <1>4, <1>5, <1>11, TypesStay, TypesStep DEF LoadTypeOK, AtPoints
  <2>4. SlotsInv'
    <3>1. \A k \in Keys : obj'[k].slot = obj[k].slot /\ obj'[k].pub = obj[k].pub
      BY <1>2, <1>4, <1>6 DEF KeysTypeOK
    <3> QED
      BY <1>1, <1>2, <3>1, SlotsStep
  <2> QED
    BY <1>9, <1>11, <2>2, <2>3, <2>4, AfterMisuse
<1> QED
  BY <1>1, <1>10, <1>11

LEMMA Get1Inv == ASSUME KeysInv, Get1 PROVE KeysInv'
<1>1. /\ misuse = "none" /\ misuse' = "none" /\ at = "get1" /\ at' = "session"
      /\ obj' = [obj EXCEPT ![cur].eckey = @ + 1]
      /\ UNCHANGED <<app, ctx, wish, op, cur, passwd_id, ok, hold, lifeVars, storeVars>>
  BY DEF Get1, At
<1>2. /\ LifecycleTypeOK /\ KeysTypeOK /\ LoadTypeOK /\ DefsInv /\ RefsInv /\ HeldInv
  BY <1>1, Before
<1>3. /\ cur \in Keys
      /\ IF op = "reload" THEN InReload(cur) /\ Refs(cur, 2, 1) ELSE InLoad(cur) /\ Refs(cur, 1, 1)
  BY <1>1, <1>2 DEF RefsInv, KeyRefs, InReload, InLoad
<1>4. /\ obj' = [obj EXCEPT ![cur] = obj'[cur]]
      /\ obj'[cur] = [obj[cur] EXCEPT !.eckey = 2]
  BY <1>1, <1>2, <1>3 DEF KeysTypeOK, Refs
<1>5. obj'[cur] \in KeyObjects
  <2>1. obj[cur] \in KeyObjects /\ 2 \in 0..2
    BY <1>2, <1>3 DEF KeysTypeOK
  <2>2. [obj[cur] EXCEPT !.eckey = 2] \in KeyObjects
    BY <2>1, Updated
  <2> QED
    BY <1>4, <2>2
<1>6. /\ obj'[cur].slot = obj[cur].slot /\ obj'[cur].pub = obj[cur].pub
      /\ obj'[cur].pkey = obj[cur].pkey /\ obj'[cur].eckey = 2
      /\ obj'[cur].method = obj[cur].method
  BY <1>2, <1>3, <1>4 DEF KeyObjects, KeysTypeOK
<1>7. hold = "held" => obj'[cur].method = eccx08_ec
  <2>1. obj[cur].eckey > 0
    BY <1>3 DEF Refs
  <2> QED
    BY <1>2, <1>3, <1>6, <2>1 DEF HeldInv, InPlace, Stale
<1>8. KeyRefs(cur)'
  BY <1>1, <1>3, <1>6 DEF KeyRefs, InLoad, InReload, Refs
<1>9. /\ LifecycleTypeOK' /\ DefsInv' /\ UNCHANGED <<pCfg, engine_ec, eccx08_ec>>
      /\ funct_ref' - InFlight' = funct_ref - InFlight
  BY <1>1, <1>2, <1>3, TypesStay, DefsStay DEF InFlight, Count, lifeVars, servingVars
<1>10. at' \in AtPoints \ {"out", "password"} /\ ok' \in BOOLEAN
  BY <1>1, <1>2 DEF AtPoints, LoadTypeOK
<1> QED
  BY <1>1, <1>4, <1>5, <1>6, <1>7, <1>8, <1>9, <1>10, LoadStep

LEMMA SessionFailsInv == ASSUME KeysInv, SessionFails PROVE KeysInv'
<1>1. /\ misuse = "none" /\ misuse' = "none" /\ at = "session" /\ at' = "free" /\ ok' = FALSE
      /\ UNCHANGED <<keyVars, op, cur, passwd_id, hold, lifeVars, storeVars>>
  BY DEF SessionFails, At
<1>2. /\ LifecycleTypeOK /\ KeysTypeOK /\ LoadTypeOK /\ DefsInv /\ RefsInv /\ HeldInv
  BY <1>1, Before
<1>3. /\ cur \in Keys
      /\ IF op = "reload" THEN InReload(cur) /\ Refs(cur, 2, 2) ELSE InLoad(cur) /\ Refs(cur, 1, 2)
  BY <1>1, <1>2 DEF RefsInv, KeyRefs, InReload, InLoad
<1>4. obj' = [obj EXCEPT ![cur] = obj'[cur]] /\ obj'[cur] = obj[cur] /\ obj'[cur] \in KeyObjects
  BY <1>1, <1>2, <1>3 DEF keyVars, KeysTypeOK
<1>5. hold = "held" /\ obj'[cur].eckey > 0 => obj'[cur].method = eccx08_ec
  BY <1>2, <1>3, <1>4 DEF HeldInv, InPlace, Stale
<1>6. KeyRefs(cur)'
  BY <1>1, <1>3, <1>4 DEF KeyRefs, InLoad, InReload, Refs, keyVars
<1>7. /\ LifecycleTypeOK' /\ DefsInv' /\ UNCHANGED <<pCfg, engine_ec, eccx08_ec>>
      /\ funct_ref' - InFlight' = funct_ref - InFlight
  BY <1>1, <1>2, <1>3, TypesStay, DefsStay DEF InFlight, Count, lifeVars, servingVars
<1>8. at' \in AtPoints \ {"out", "password"} /\ ok' \in BOOLEAN
  BY <1>1, <1>2 DEF AtPoints, LoadTypeOK
<1> QED
  BY <1>1, <1>4, <1>5, <1>6, <1>7, <1>8, LoadStep DEF keyVars

LEMMA ReadPublicKeyInv == ASSUME KeysInv, ReadPublicKey PROVE KeysInv'
<1>1. /\ misuse = "none" /\ at = "session" /\ at' = "free" /\ eccx08_get_iface_cfg(obj[cur])
      /\ UNCHANGED <<app, ctx, wish, op, cur, passwd_id, ok, hold, lifeVars, storeVars>>
  BY DEF ReadPublicKey, At
<1>2. /\ LifecycleTypeOK /\ StoreTypeOK /\ KeysTypeOK /\ LoadTypeOK
      /\ DefsInv /\ SlotsInv /\ RefsInv /\ HeldInv
  BY <1>1, Before
<1>3. /\ cur \in Keys
      /\ IF op = "reload" THEN InReload(cur) /\ Refs(cur, 2, 2) ELSE InLoad(cur) /\ Refs(cur, 1, 2)
  BY <1>1, <1>2 DEF RefsInv, KeyRefs, InReload, InLoad
<1>4. PICK derived \in BOOLEAN : Convert(obj[cur].slot, derived)
  BY DEF ReadPublicKey
<1>5. LifecycleTypeOK' /\ StoreTypeOK' /\ DefsInv'
  BY <1>1, <1>2, TypesStay, DefsStay DEF lifeVars, servingVars
<1>6. CASE Stale(obj[cur])
  <2>1. misuse' = "method" /\ obj' = obj
    BY <1>4, <1>6 DEF Convert
  <2>2. hold # "held"
    BY <1>2, <1>3, <1>6 DEF HeldInv, InPlace, Refs
  <2>3. SafeWhileHeld' /\ FreedKeyOnlyIfNotBuilt'
    BY <1>1, <2>1, <2>2 DEF SafeWhileHeld, FreedKeyOnlyIfNotBuilt
  <2>4. KeysTypeOK' /\ LoadTypeOK' /\ SlotsInv'
    BY <1>1, <1>2, <2>1, TypesStay, SlotsStay DEF LoadTypeOK, AtPoints, keyVars
  <2> QED
    BY <1>5, <2>1, <2>3, <2>4, AfterMisuse
<1>7. CASE ~Stale(obj[cur])
  <2>1. PICK pub \in {obj[cur].slot, obj[cur].pub} :
             /\ misuse' = "none"
             /\ obj' = [obj EXCEPT ![cur].pub = pub, ![cur].derived = derived]
    BY <1>4, <1>7 DEF Convert, Fine
  <2>2. /\ obj' = [obj EXCEPT ![cur] = obj'[cur]]
        /\ obj'[cur] = [obj[cur] EXCEPT !.pub = pub, !.derived = derived]
    BY <1>2, <1>3, <2>1 DEF KeysTypeOK
  <2>3. obj'[cur] \in KeyObjects
    <3>1. obj[cur] \in KeyObjects
      BY <1>2, <1>3 DEF KeysTypeOK
    <3>2. pub \in Slots \cup {NoSlot}
      BY <2>1, <3>1 DEF KeyObjects
    <3>3. [obj[cur] EXCEPT !.pub = pub] \in KeyObjects
      BY <3>1, <3>2, Updated
    <3> QED
      BY <2>2, <3>3, Updated
  <2>4. /\ obj'[cur].slot = obj[cur].slot /\ obj'[cur].pub \in {obj[cur].slot, obj[cur].pub}
        /\ obj'[cur].pkey = obj[cur].pkey /\ obj'[cur].eckey = obj[cur].eckey
        /\ obj'[cur].method = obj[cur].method
    BY <1>2, <1>3, <2>2 DEF KeyObjects, KeysTypeOK
  <2>5. hold = "held" => obj'[cur].method = eccx08_ec
    BY <1>7, <2>4 DEF Stale
  <2>6. KeyRefs(cur)'
    BY <1>1, <1>3, <2>4 DEF KeyRefs, InLoad, InReload, Refs
  <2>7. /\ UNCHANGED <<pCfg, engine_ec, eccx08_ec>>
        /\ funct_ref' - InFlight' = funct_ref - InFlight
    BY <1>1, <1>3 DEF InFlight, Count, lifeVars, servingVars
  <2>8. at' \in AtPoints \ {"out", "password"} /\ ok' \in BOOLEAN
    BY <1>1, <1>2 DEF AtPoints, LoadTypeOK
  <2> QED
    BY <1>1, <1>5, <2>1, <2>2, <2>3, <2>4, <2>5, <2>6, <2>7, <2>8, LoadStep
<1> QED
  BY <1>6, <1>7

LEMMA FreeInv == ASSUME KeysInv, Free PROVE KeysInv'
<1> DEFINE b == Balanced(obj[cur])
<1>1. /\ misuse = "none" /\ misuse' = "none" /\ at = "free" /\ at' = "return"
      /\ obj' = [obj EXCEPT ![cur] = IF ~ok /\ PkeyIsOurs THEN AfterFree(b) ELSE b]
      /\ UNCHANGED <<app, ctx, wish, op, cur, passwd_id, ok, hold, lifeVars, storeVars>>
  BY DEF Free, At
<1>2. /\ LifecycleTypeOK /\ KeysTypeOK /\ LoadTypeOK /\ DefsInv /\ RefsInv /\ HeldInv
  BY <1>1, Before
<1>3. /\ cur \in Keys
      /\ IF op = "reload" THEN InReload(cur) /\ Refs(cur, 2, 2) ELSE InLoad(cur) /\ Refs(cur, 1, 2)
  BY <1>1, <1>2 DEF RefsInv, KeyRefs, InReload, InLoad
<1>4. b = [obj[cur] EXCEPT !.eckey = 1] /\ b \in KeyObjects
  <2>1. obj[cur] \in KeyObjects /\ 1 \in 0..2
    BY <1>2, <1>3 DEF KeysTypeOK
  <2>2. b = [obj[cur] EXCEPT !.eckey = 1]
    BY <1>3 DEF Balanced, Refs
  <2> QED
    BY <2>1, <2>2, Updated
<1>5. /\ b.slot = obj[cur].slot /\ b.pub = obj[cur].pub /\ b.pkey = obj[cur].pkey
      /\ b.eckey = 1 /\ b.method = obj[cur].method
  BY <1>2, <1>3, <1>4 DEF KeyObjects, KeysTypeOK
<1> HIDE DEF b
<1>6. /\ obj' = [obj EXCEPT ![cur] = obj'[cur]]
      /\ obj'[cur] = IF ~ok /\ op # "reload" THEN Nothing ELSE b
  <2>1. obj'[cur] = IF ~ok /\ op # "reload" THEN AfterFree(b) ELSE b
    BY <1>1, <1>2, <1>3 DEF KeysTypeOK, PkeyIsOurs
  <2>2. op # "reload" => AfterFree(b) = Nothing
    BY <1>3, <1>5 DEF AfterFree, Refs
  <2>3. obj' = [obj EXCEPT ![cur] = obj'[cur]]
    BY <1>1, <1>2, <1>3 DEF KeysTypeOK
  <2> QED
    BY <2>1, <2>2, <2>3
<1>7. /\ obj'[cur] \in KeyObjects
      /\ obj'[cur].slot \in {NoSlot, obj[cur].slot}
      /\ obj'[cur].pub \in {NoSlot, obj[cur].slot, obj[cur].pub}
  <2>1. Nothing.slot = NoSlot /\ Nothing.pub = NoSlot
    BY DEF Nothing
  <2> QED
    BY <1>4, <1>5, <1>6, <2>1, NothingTyped
<1>8. hold = "held" /\ obj'[cur].eckey > 0 => obj'[cur].method = eccx08_ec
  <2>1. obj[cur].eckey > 0
    BY <1>3 DEF Refs
  <2>2. hold = "held" => b.method = eccx08_ec
    BY <1>2, <1>3, <1>5, <2>1 DEF HeldInv, InPlace, Stale
  <2>3. Nothing.eckey = 0
    BY DEF Nothing
  <2> QED
    BY <1>6, <2>2, <2>3
<1>9. KeyRefs(cur)'
  BY <1>1, <1>3, <1>5, <1>6 DEF KeyRefs, InLoad, InReload, Refs
<1>10. /\ LifecycleTypeOK' /\ DefsInv' /\ UNCHANGED <<pCfg, engine_ec, eccx08_ec>>
       /\ funct_ref' - InFlight' = funct_ref - InFlight
  BY <1>1, <1>2, <1>3, TypesStay, DefsStay DEF InFlight, Count, lifeVars, servingVars
<1>11. at' \in AtPoints \ {"out", "password"} /\ ok' \in BOOLEAN
  BY <1>1, <1>2 DEF AtPoints, LoadTypeOK
<1> QED
  BY <1>1, <1>6, <1>7, <1>8, <1>9, <1>10, <1>11, LoadStep

LEMMA NotBuiltInv == ASSUME KeysInv, NotBuilt PROVE KeysInv'
<1>1. /\ misuse = "none" /\ misuse' = "pkey" /\ at \in {"info", "eckey", "group"} /\ at' = "out"
      /\ obj' = [obj EXCEPT ![cur] = Nothing]
      /\ UNCHANGED <<app, ctx, wish, op, cur, passwd_id, ok, hold, lifeVars, storeVars>>
  BY DEF NotBuilt, At
<1>2. /\ LifecycleTypeOK /\ StoreTypeOK /\ KeysTypeOK /\ LoadTypeOK
      /\ DefsInv /\ SlotsInv /\ RefsInv
  BY <1>1, Before
<1>3. cur \in Keys /\ op # "reload"
  BY <1>1, <1>2 DEF RefsInv, KeyRefs, InReload
<1>4. SafeWhileHeld' /\ FreedKeyOnlyIfNotBuilt'
  BY <1>1, <1>3, KeysAssumption DEF SafeWhileHeld, FreedKeyOnlyIfNotBuilt
<1>5. LifecycleTypeOK' /\ StoreTypeOK' /\ KeysTypeOK' /\ DefsInv'
  BY <1>1, <1>2, <1>3, TypesStay, TypesStep, NothingTyped, DefsStay DEF lifeVars, servingVars
<1>6. LoadTypeOK'
  BY <1>1, <1>2 DEF LoadTypeOK, AtPoints
<1>7. SlotsInv'
  <2>1. \A k \in Keys : IF k = cur THEN obj'[k] = Nothing ELSE obj'[k] = obj[k]
    BY <1>1, <1>2 DEF KeysTypeOK
  <2>2. Nothing.slot = NoSlot /\ Nothing.pub = NoSlot
    BY DEF Nothing
  <2> QED
    BY <1>1, <1>2, <2>1, <2>2, SlotsStep
<1> QED
  BY <1>1, <1>4, <1>5, <1>6, <1>7, AfterMisuse

LEMMA NoPasswordInv == ASSUME KeysInv, NoPassword PROVE KeysInv'
<1>1. /\ misuse = "none" /\ misuse' = "password" /\ at' = "out"
      /\ UNCHANGED <<keyVars, op, cur, passwd_id, ok, hold, lifeVars, storeVars>>
  BY DEF NoPassword, At
<1>2. /\ LifecycleTypeOK /\ StoreTypeOK /\ KeysTypeOK /\ LoadTypeOK
      /\ DefsInv /\ SlotsInv
  BY <1>1, Before
<1>3. SafeWhileHeld' /\ FreedKeyOnlyIfNotBuilt'
  BY <1>1 DEF SafeWhileHeld, FreedKeyOnlyIfNotBuilt
<1>4. LifecycleTypeOK' /\ StoreTypeOK' /\ KeysTypeOK' /\ DefsInv' /\ SlotsInv'
  BY <1>1, <1>2, TypesStay, DefsStay, SlotsStay DEF lifeVars, servingVars, keyVars
<1>5. LoadTypeOK'
  BY <1>1, <1>2 DEF LoadTypeOK, AtPoints
<1> QED
  BY <1>1, <1>3, <1>4, <1>5, AfterMisuse

(***************************************************************************)
(* The returns                                                             *)
(***************************************************************************)
\* EVP_PKEY_free of a key with one EC_KEY.
LEMMA Freed ==
    ASSUME KeysTypeOK, NEW k \in Keys, EVP_PKEY_free(k), obj[k].pkey > 0, obj[k].eckey = 1
    PROVE  /\ obj[k].pkey = 1 => misuse' = IF Stale(obj[k]) THEN "method" ELSE "none"
           /\ obj[k].pkey # 1 => misuse' = "none"
           /\ obj' \in [Keys -> KeyObjects]
           /\ \A l \in Keys : l # k => obj'[l] = obj[l]
           /\ obj[k].pkey = 1 => obj'[k] = Nothing
           /\ obj[k].pkey # 1 => obj'[k] = [obj[k] EXCEPT !.pkey = obj[k].pkey - 1]
<1>1. obj \in [Keys -> KeyObjects] /\ obj[k] \in KeyObjects /\ obj[k].pkey \in 1..3
  BY DEF KeysTypeOK, KeyObjects
<1>2. FreeMisuse(obj[k]) = IF obj[k].pkey = 1 /\ Stale(obj[k]) THEN "method" ELSE "none"
  BY <1>1 DEF FreeMisuse
<1>3. AfterFree(obj[k]) = IF obj[k].pkey = 1 THEN Nothing
                          ELSE [obj[k] EXCEPT !.pkey = obj[k].pkey - 1]
  BY <1>1 DEF AfterFree
<1>4. AfterFree(obj[k]) \in KeyObjects
  <2>1. CASE obj[k].pkey = 1
    BY <1>3, <2>1, NothingTyped
  <2>2. CASE obj[k].pkey # 1
    <3>1. obj[k].pkey - 1 \in 0..3
      BY <1>1
    <3>2. [obj[k] EXCEPT !.pkey = obj[k].pkey - 1] \in KeyObjects
      BY <1>1, <3>1, Updated
    <3> QED
      BY <1>3, <2>2, <3>2
  <2> QED
    BY <2>1, <2>2
<1>5. misuse' = FreeMisuse(obj[k]) /\ obj' = [obj EXCEPT ![k] = AfterFree(obj[k])]
  BY <1>2 DEF EVP_PKEY_free
<1>6. obj' \in [Keys -> KeyObjects] /\ obj'[k] = AfterFree(obj[k])
      /\ \A l \in Keys : l # k => obj'[l] = obj[l]
  BY <1>1, <1>4, <1>5
<1> QED
  BY <1>2, <1>3, <1>5, <1>6

\* What a key that is freed leaves of the invariant.
LEMMA FreedSlots ==
    ASSUME SlotsInv, KeysTypeOK, NEW k \in Keys, EVP_PKEY_free(k), obj[k].pkey > 0, obj[k].eckey = 1,
           \A l \in Keys : l # k => wish'[l] = wish[l],
           wish'[k] = wish[k] \/ obj[k].pkey = 1
    PROVE  SlotsInv'
<1>1. obj[k] \in KeyObjects
  BY DEF KeysTypeOK
<1>2. \A l \in Keys : l # k => obj'[l] = obj[l]
  BY Freed
<1>3. CASE obj[k].pkey = 1
  <2>1. obj'[k] = Nothing
    BY <1>3, Freed
  <2>2. obj'[k].slot = NoSlot /\ obj'[k].pub = NoSlot
    BY <2>1 DEF Nothing
  <2> QED
    BY <1>2, <2>2, SlotsStep
<1>4. CASE obj[k].pkey # 1
  <2>1. obj'[k] = [obj[k] EXCEPT !.pkey = obj[k].pkey - 1]
    BY <1>4, Freed
  <2>2. obj'[k].slot = obj[k].slot /\ obj'[k].pub = obj[k].pub
    BY <1>1, <2>1 DEF KeyObjects
  <2> QED
    BY <1>2, <1>4, <2>2, SlotsStep
<1> QED
  BY <1>3, <1>4

LEMMA FreedMethods ==
    ASSUME KeysTypeOK, NEW k \in Keys, EVP_PKEY_free(k), obj[k].pkey > 0, obj[k].eckey = 1
    PROVE  \A l \in Keys : obj'[l].eckey > 0 =>
               obj[l].eckey > 0 /\ obj'[l].method = obj[l].method
<1>1. obj[k] \in KeyObjects
  BY DEF KeysTypeOK
<1>2. \A l \in Keys : l # k => obj'[l] = obj[l]
  BY Freed
<1>3. CASE obj[k].pkey = 1
  <2>1. obj'[k] = Nothing
    BY <1>3, Freed
  <2>2. obj'[k].eckey = 0
    BY <2>1 DEF Nothing
  <2> QED
    BY <1>2, <2>2
<1>4. CASE obj[k].pkey # 1
  <2>1. obj'[k] = [obj[k] EXCEPT !.pkey = obj[k].pkey - 1]
    BY <1>4, Freed
  <2>2. obj'[k].eckey = obj[k].eckey /\ obj'[k].method = obj[k].method
    BY <1>1, <2>1 DEF KeyObjects
  <2> QED
    BY <1>2, <2>2
<1> QED
  BY <1>3, <1>4

LEMMA ReturnKeyInv == ASSUME KeysInv, ReturnKey PROVE KeysInv'
<1>1. /\ misuse = "none" /\ misuse' = "none" /\ at = "return" /\ at' = "out"
      /\ op = "load" /\ op' = "load" /\ cur' = NoKey /\ passwd_id' = NOPASSWD_ID /\ ok' = TRUE
      /\ app' = [app EXCEPT ![cur] = ok]
      /\ wish' = IF ok THEN wish ELSE [wish EXCEPT ![cur] = NoWish]
      /\ UNCHANGED <<obj, ctx, hold, lifeVars, storeVars>>
  BY DEF ReturnKey, Done, At
<1>2. /\ LifecycleTypeOK /\ StoreTypeOK /\ KeysTypeOK /\ LoadTypeOK
      /\ DefsInv /\ SlotsInv /\ RefsInv /\ HeldInv
  BY <1>1, Before
<1>3. /\ cur \in Keys /\ ok \in BOOLEAN /\ ~app[cur] /\ ~ctx[cur]
      /\ IF ok THEN Refs(cur, 1, 1) ELSE obj[cur] = Nothing
  BY <1>1, <1>2 DEF RefsInv, KeyRefs, InLoad, LoadTypeOK
<1>4. /\ app'[cur] = ok /\ app' \in [Keys -> BOOLEAN]
      /\ \A k \in Keys : k # cur => app'[k] = app[k] /\ wish'[k] = wish[k]
      /\ ok => wish'[cur] = wish[cur]
      /\ wish' \in [Keys -> Wishes]
  BY <1>1, <1>2, <1>3, NoWishTyped DEF KeysTypeOK
<1>5. LifecycleTypeOK' /\ StoreTypeOK' /\ KeysTypeOK' /\ DefsInv'
  BY <1>1, <1>2, <1>4, TypesStay, DefsStay DEF lifeVars, servingVars, KeysTypeOK
<1>6. LoadTypeOK'
  BY <1>1, <1>2 DEF LoadTypeOK, AtPoints, LoadOps, NOPASSWD_ID
<1>7. SlotsInv'
  <2>1. ~ok => obj[cur].slot = NoSlot /\ obj[cur].pub = NoSlot
    BY <1>3 DEF Nothing
  <2> QED
    BY <1>1, <1>2, <1>4, <2>1, SlotsStep
<1>8. RefsInv'
  <2>1. PICK c \in Keys : c = cur
    BY <1>3
  <2>2. AtRest(c)'
    <3>1. CASE ok
      BY <1>1, <1>3, <1>4, <2>1, <3>1 DEF AtRest, Refs, Count
    <3>2. CASE ~ok
      BY <1>1, <1>3, <1>4, <2>1, <3>2 DEF AtRest, Refs, Count, Nothing
    <3> QED
      BY <3>1, <3>2
  <2>3. KeyRefs(c)'
    BY <1>1, <2>2 DEF KeyRefs
  <2>4. Contexts' = Contexts /\ InFlight = 0 /\ InFlight' = 0
    BY <1>1 DEF Contexts, InFlight, Count
  <2>5. funct_ref' = Count(hold \in {"held", "again"})' + Cardinality(Contexts)' + InFlight'
    BY <1>1, <1>2, <2>4 DEF RefsInv, lifeVars
  <2> QED
    BY <1>1, <1>2, <1>4, <2>1, <2>3, <2>5, RefsTouch
<1>9. HeldInv'
  BY <1>1, <1>2, HeldStep DEF lifeVars, servingVars
<1> QED
  BY <1>1, <1>2, <1>5, <1>6, <1>7, <1>8, <1>9, After

LEMMA ReturnKeyFileInv == ASSUME KeysInv, ReturnKeyFile PROVE KeysInv'
<1>1. /\ misuse = "none" /\ at = "return" /\ at' = "out"
      /\ op = "get_key" /\ op' = "load" /\ cur' = NoKey /\ passwd_id' = NOPASSWD_ID /\ ok' = TRUE
      /\ IF ok THEN EVP_PKEY_free(cur) ELSE UNCHANGED <<obj, misuse>>
      /\ wish' = [wish EXCEPT ![cur] = NoWish]
      /\ UNCHANGED <<app, ctx, hold, lifeVars, storeVars>>
  BY DEF ReturnKeyFile, Done, At
<1>2. /\ LifecycleTypeOK /\ StoreTypeOK /\ KeysTypeOK /\ LoadTypeOK
      /\ DefsInv /\ SlotsInv /\ RefsInv /\ HeldInv
  BY <1>1, Before
<1>3. /\ cur \in Keys /\ ok \in BOOLEAN /\ ~app[cur] /\ ~ctx[cur]
      /\ IF ok THEN Refs(cur, 1, 1) ELSE obj[cur] = Nothing
  BY <1>1, <1>2 DEF RefsInv, KeyRefs, InLoad, LoadTypeOK
<1>4. /\ \A k \in Keys : k # cur => wish'[k] = wish[k]
      /\ wish' \in [Keys -> Wishes]
  BY <1>1, <1>2, <1>3, NoWishTyped DEF KeysTypeOK
<1>5. /\ obj' \in [Keys -> KeyObjects] /\ obj'[cur] = Nothing
      /\ \A k \in Keys : k # cur => obj'[k] = obj[k]
      /\ misuse' = IF ok /\ Stale(obj[cur]) THEN "method" ELSE "none"
  <2>1. CASE ok
    <3>1. EVP_PKEY_free(cur) /\ obj[cur].pkey = 1 /\ obj[cur].pkey > 0 /\ obj[cur].eckey = 1
      BY <1>1, <1>3, <2>1 DEF Refs
    <3> QED
      BY <1>2, <1>3, <2>1, <3>1, Freed
  <2>2. CASE ~ok
    BY <1>1, <1>2, <1>3, <2>2 DEF KeysTypeOK
  <2> QED
    BY <2>1, <2>2
<1>6. LifecycleTypeOK' /\ StoreTypeOK' /\ KeysTypeOK' /\ DefsInv'
  BY <1>1, <1>2, <1>4, <1>5, TypesStay, DefsStay DEF lifeVars, servingVars, KeysTypeOK
<1>7. LoadTypeOK'
  BY <1>1, <1>2, <1>5 DEF LoadTypeOK, AtPoints, LoadOps, NOPASSWD_ID
<1>8. SlotsInv'
  <2>1. obj'[cur].slot = NoSlot /\ obj'[cur].pub = NoSlot
    BY <1>5 DEF Nothing
  <2> QED
    BY <1>2, <1>4, <1>5, <2>1, SlotsStep
<1>9. RefsInv'
  <2>1. PICK c \in Keys : c = cur
    BY <1>3
  <2>2. KeyRefs(c)'
    BY <1>1, <1>3, <1>5, <2>1 DEF KeyRefs, AtRest, Refs, Count, Nothing
  <2>3. Contexts' = Contexts /\ InFlight = 0 /\ InFlight' = 0
    BY <1>1 DEF Contexts, InFlight, Count
  <2>4. funct_ref' = Count(hold \in {"held", "again"})' + Cardinality(Contexts)' + InFlight'
    BY <1>1, <1>2, <2>3 DEF RefsInv, lifeVars
  <2> QED
    BY <1>1, <1>2, <1>5, <2>1, <2>2, <2>4, RefsTouch
<1>10. HeldInv'
  <2>1. Nothing.eckey = 0
    BY DEF Nothing
  <2>2. \A k \in Keys : obj'[k].eckey > 0 => obj[k].eckey > 0 /\ obj'[k].method = obj[k].method
    BY <1>5, <2>1
  <2> QED
    BY <1>1, <1>2, <2>2, HeldStep DEF lifeVars, servingVars
<1>11. CASE misuse' = "none"
  BY <1>6, <1>7, <1>8, <1>9, <1>10, <1>11, After
<1>12. CASE misuse' = "method"
  <2>1. ok /\ Stale(obj[cur])
    BY <1>5, <1>12
  <2>2. hold # "held"
    BY <1>2, <1>3, <2>1 DEF HeldInv, InPlace, Refs
  <2>3. SafeWhileHeld' /\ FreedKeyOnlyIfNotBuilt'
    BY <1>1, <1>12, <2>2 DEF SafeWhileHeld, FreedKeyOnlyIfNotBuilt
  <2> QED
    BY <1>6, <1>7, <1>8, <1>12, <2>3, AfterMisuse
<1> QED
  BY <1>5, <1>11, <1>12

LEMMA ReturnContextInv == ASSUME KeysInv, ReturnContext PROVE KeysInv'
<1>1. /\ misuse = "none" /\ at = "return" /\ at' = "out"
      /\ op = "reload" /\ op' = "load" /\ cur' = NoKey /\ passwd_id' = NOPASSWD_ID /\ ok' = TRUE
      /\ UNCHANGED <<app, wish, hold, storeVars>>
  BY DEF ReturnContext, Done, At
<1>2. /\ LifecycleTypeOK /\ StoreTypeOK /\ KeysTypeOK /\ LoadTypeOK
      /\ DefsInv /\ SlotsInv /\ RefsInv /\ HeldInv
  BY <1>1, Before
<1>3. cur \in Keys /\ ok \in BOOLEAN /\ app[cur] /\ ~ctx[cur] /\ Refs(cur, 2, 1)
  BY <1>1, <1>2 DEF RefsInv, KeyRefs, InReload, LoadTypeOK
<1>4. LoadTypeOK' /\ StoreTypeOK'
  <2>1. misuse' = "none"
    <3>1. obj[cur].pkey # 1 /\ obj[cur].pkey > 0 /\ obj[cur].eckey = 1
      BY <1>3 DEF Refs
    <3>2. EVP_PKEY_free(cur) => misuse' = "none"
      BY <1>2, <1>3, <3>1, Freed
    <3> QED
      BY <1>1, <3>2 DEF ReturnContext
  <2> QED
    BY <1>1, <1>2, <2>1, TypesStay DEF LoadTypeOK, AtPoints, LoadOps, NOPASSWD_ID
<1>5. PICK c \in Keys : c = cur
  BY <1>3
<1>6. InFlight = 1 /\ InFlight' = 0
  BY <1>1 DEF InFlight, Count
<1>7. CASE ctx' = [ctx EXCEPT ![cur] = TRUE] /\ UNCHANGED <<obj, misuse, lifeVars>>
  <2>1. /\ LifecycleTypeOK' /\ DefsInv' /\ SlotsInv'
    BY <1>1, <1>2, <1>7, TypesStay, DefsStay, SlotsStay DEF lifeVars, servingVars
  <2>2. ctx' \in [Keys -> BOOLEAN] /\ ctx'[cur] /\ \A k \in Keys : k # cur => ctx'[k] = ctx[k]
    BY <1>2, <1>3, <1>7 DEF KeysTypeOK
  <2>3. KeysTypeOK'
    BY <1>1, <1>2, <1>7, <2>2 DEF KeysTypeOK
  <2>4. KeyRefs(c)'
    BY <1>1, <1>3, <1>5, <1>7, <2>2 DEF KeyRefs, AtRest, Refs, Count
  <2>5. Cardinality(Contexts)' = Cardinality(Contexts) + 1
    BY <1>2, <1>3, <1>5, <1>7, ContextAdded DEF KeysTypeOK
  <2>6. Count(hold \in {"held", "again"}) \in Int /\ Count(hold \in {"held", "again"})' = Count(hold \in {"held", "again"})
    BY <1>1 DEF Count
  <2>7. funct_ref' = Count(hold \in {"held", "again"})' + Cardinality(Contexts)' + InFlight'
    BY <1>2, <1>6, <1>7, <2>5, <2>6, ContextsCounted DEF RefsInv, lifeVars
  <2>8. RefsInv'
    BY <1>1, <1>2, <1>5, <1>7, <2>2, <2>4, <2>7, RefsTouch
  <2>9. HeldInv'
    BY <1>1, <1>2, <1>7, HeldStays
  <2> QED
    BY <1>1, <1>4, <1>7, <2>1, <2>3, <2>8, <2>9, After
<1>8. CASE ctx' = [ctx EXCEPT ![cur] = FALSE] /\ EVP_PKEY_free(cur) /\ DropReference
  <2>1. ctx' = ctx
    BY <1>2, <1>3, <1>8 DEF KeysTypeOK
  <2>2. /\ misuse' = "none" /\ obj' \in [Keys -> KeyObjects]
        /\ \A k \in Keys : k # cur => obj'[k] = obj[k]
        /\ obj'[cur] = [obj[cur] EXCEPT !.pkey = 1]
    BY <1>2, <1>3, <1>8, Freed DEF Refs
  <2>3. obj'[cur].pkey = 1 /\ obj'[cur].eckey = 1
    BY <1>2, <1>3, <2>2 DEF KeysTypeOK, KeyObjects, Refs
  <2>4. KeyRefs(c)'
    BY <1>1, <1>3, <1>5, <2>1, <2>3 DEF KeyRefs, AtRest, Refs, Count
  <2>5. funct_ref > 0 /\ (hold = "held" => funct_ref > 1) /\ funct_ref \in Int
    BY <1>2, <1>6, Functional DEF LifecycleTypeOK
  <2>6. /\ LifecycleTypeOK' /\ DefsInv' /\ funct_ref' = funct_ref - 1
        /\ hold = "held" => UNCHANGED <<pCfg, engine_ec, eccx08_ec>>
    BY <1>2, <1>8, <2>5, ReferenceDropped
  <2>7. KeysTypeOK'
    BY <1>1, <1>2, <2>1, <2>2 DEF KeysTypeOK
  <2>8. SlotsInv'
    BY <1>1, <1>2, <1>3, <1>8, FreedSlots DEF Refs
  <2>9. RefsInv'
    <3>1. Contexts' = Contexts
      BY <2>1 DEF Contexts
    <3>2. Count(hold \in {"held", "again"}) \in Int /\ Count(hold \in {"held", "again"})' = Count(hold \in {"held", "again"})
      BY <1>1 DEF Count
    <3>3. funct_ref' = Count(hold \in {"held", "again"})' + Cardinality(Contexts)' + InFlight'
      BY <1>2, <1>6, <2>6, <3>1, <3>2, ContextsCounted DEF RefsInv
    <3> QED
      BY <1>1, <1>2, <1>5, <2>1, <2>2, <2>4, <3>3, RefsTouch
  <2>10. HeldInv'
    <3>1. \A k \in Keys : obj'[k].eckey > 0 => obj[k].eckey > 0 /\ obj'[k].method = obj[k].method
      BY <1>2, <1>3, <1>8, FreedMethods DEF Refs
    <3> QED
      BY <1>1, <1>2, <2>6, <3>1, HeldStep
  <2> QED
    BY <1>4, <2>2, <2>6, <2>7, <2>8, <2>9, <2>10, After
<1> QED
  BY <1>3, <1>7, <1>8 DEF ReturnContext

(***************************************************************************)
(* The application's calls                                                 *)
(***************************************************************************)
LEMMA NeverFunctional ==
    ASSUME RefsInv, HeldInv, hold = "never"
    PROVE  funct_ref = 0 /\ Untouched
<1>1. Untouched
  BY DEF HeldInv
<1>2. Contexts = {} /\ InFlight = 0 /\ Count(hold \in {"held", "again"}) = 0
  BY <1>1 DEF Contexts, InFlight, Count, Untouched
<1> QED
  BY <1>1, <1>2, FS_EmptySet DEF RefsInv

LEMMA LoadInv == ASSUME KeysInv, NEW k \in Keys, Load(k) PROVE KeysInv'
<1>1. PICK id \in Slots \cup OtherIds, given \in Given :
        Start("load", k, NOPASSWD_ID, [id |-> id, slot |-> id, password |-> given],
              IF eccx08_cbdata_to_password(given) THEN "password" ELSE "new")
  BY DEF Load
<1>2. /\ misuse = "none" /\ misuse' = "none" /\ at = "out"
      /\ at' = IF given # "none" THEN "password" ELSE "new"
      /\ op' = "load" /\ cur' = k /\ passwd_id' = NOPASSWD_ID /\ ok' = TRUE
      /\ wish' = [wish EXCEPT ![k] = [id |-> id, slot |-> id, password |-> given]]
      /\ funct_ref > 0 /\ obj[k] = Nothing /\ ~app[k] /\ ~ctx[k]
      /\ UNCHANGED <<obj, app, ctx, hold, lifeVars, storeVars>>
  BY <1>1 DEF Load, Start, At, Vacant, eccx08_cbdata_to_password
<1>3. /\ LifecycleTypeOK /\ StoreTypeOK /\ KeysTypeOK /\ LoadTypeOK
      /\ DefsInv /\ SlotsInv /\ RefsInv /\ HeldInv
  BY <1>2, Before
<1>4. /\ wish' \in [Keys -> Wishes] /\ wish'[k].password = given
      /\ \A l \in Keys : l # k => wish'[l] = wish[l]
  <2>1. [id |-> id, slot |-> id, password |-> given] \in Wishes
    BY DEF Wishes
  <2> QED
    BY <1>2, <1>3, <2>1 DEF KeysTypeOK
<1>5. LifecycleTypeOK' /\ StoreTypeOK' /\ KeysTypeOK' /\ DefsInv'
  BY <1>2, <1>3, <1>4, TypesStay, DefsStay DEF lifeVars, servingVars, KeysTypeOK
<1>6. LoadTypeOK'
  BY <1>2, <1>3 DEF LoadTypeOK, AtPoints, LoadOps, NOPASSWD_ID
<1>7. SlotsInv'
  <2>1. obj[k].slot = NoSlot /\ obj[k].pub = NoSlot
    BY <1>2 DEF Nothing
  <2> QED
    BY <1>2, <1>3, <1>4, <2>1, SlotsStep
<1>8. RefsInv'
  <2>1. KeyRefs(k)'
    BY <1>2 DEF KeyRefs, InLoad
  <2>2. Contexts' = Contexts /\ InFlight = 0 /\ InFlight' = 0
    BY <1>2 DEF Contexts, InFlight, Count
  <2>3. funct_ref' = Count(hold \in {"held", "again"})' + Cardinality(Contexts)' + InFlight'
    BY <1>2, <1>3, <2>2 DEF RefsInv, lifeVars
  <2>4. (at = "password" => wish[cur].password # "none")'
    BY <1>2, <1>4
  <2> QED
    BY <1>2, <1>3, <2>1, <2>3, <2>4, RefsTouch
<1>9. HeldInv'
  <2>1. hold # "never"
    BY <1>2, <1>3, NeverFunctional
  <2> QED
    BY <1>2, <1>3, <2>1, HeldTouch DEF lifeVars, servingVars
<1> QED
  BY <1>2, <1>5, <1>6, <1>7, <1>8, <1>9, After

LEMMA get_keyInv == ASSUME KeysInv, NEW k \in Keys, get_key(k) PROVE KeysInv'
<1>1. /\ misuse = "none" /\ misuse' = (IF pCfg THEN "none" ELSE "config") /\ at = "out"
      /\ at' = "new" /\ op' = "get_key" /\ cur' = k /\ passwd_id' = NOPASSWD_ID /\ ok' = TRUE
      /\ wish' = [wish EXCEPT ![k] =
                    [id |-> device_key_slot, slot |-> device_key_slot, password |-> "none"]]
      /\ obj[k] = Nothing /\ ~app[k] /\ ~ctx[k]
      /\ UNCHANGED <<obj, app, ctx, hold, lifeVars, storeVars>>
  BY DEF get_key, Start, At, Vacant
<1>2. /\ LifecycleTypeOK /\ StoreTypeOK /\ KeysTypeOK /\ LoadTypeOK
      /\ DefsInv /\ SlotsInv /\ RefsInv /\ HeldInv
  BY <1>1, Before
<1>3. /\ wish' \in [Keys -> Wishes]
      /\ \A l \in Keys : l # k => wish'[l] = wish[l]
  <2>1. [id |-> device_key_slot, slot |-> device_key_slot, password |-> "none"] \in Wishes
    BY <1>2 DEF Wishes, LifecycleTypeOK
  <2> QED
    BY <1>1, <1>2, <2>1 DEF KeysTypeOK
<1>4. LifecycleTypeOK' /\ StoreTypeOK' /\ KeysTypeOK' /\ DefsInv'
  BY <1>1, <1>2, <1>3, TypesStay, DefsStay DEF lifeVars, servingVars, KeysTypeOK
<1>5. LoadTypeOK'
  BY <1>1, <1>2 DEF LoadTypeOK, AtPoints, LoadOps, NOPASSWD_ID
<1>6. SlotsInv'
  <2>1. obj[k].slot = NoSlot /\ obj[k].pub = NoSlot
    BY <1>1 DEF Nothing
  <2> QED
    BY <1>1, <1>2, <1>3, <2>1, SlotsStep
<1>7. CASE pCfg
  <2>1. RefsInv'
    <3>1. KeyRefs(k)'
      BY <1>1 DEF KeyRefs, InLoad
    <3>2. Contexts' = Contexts /\ InFlight = 0 /\ InFlight' = 0
      BY <1>1 DEF Contexts, InFlight, Count
    <3>3. funct_ref' = Count(hold \in {"held", "again"})' + Cardinality(Contexts)' + InFlight'
      BY <1>1, <1>2, <3>2 DEF RefsInv, lifeVars
    <3> QED
      BY <1>1, <1>2, <3>1, <3>3, RefsTouch
  <2>2. HeldInv'
    <3>1. hold # "never"
      BY <1>2, <1>7, NeverFunctional DEF Untouched
    <3> QED
      BY <1>1, <1>2, <3>1, HeldTouch DEF lifeVars, servingVars
  <2> QED
    BY <1>1, <1>4, <1>5, <1>6, <1>7, <2>1, <2>2, After
<1>8. CASE ~pCfg
  <2>1. hold # "held"
    BY <1>2, <1>8 DEF HeldInv, InPlace
  <2>2. SafeWhileHeld' /\ FreedKeyOnlyIfNotBuilt'
    BY <1>1, <1>8, <2>1 DEF SafeWhileHeld, FreedKeyOnlyIfNotBuilt
  <2> QED
    BY <1>1, <1>4, <1>5, <1>6, <1>8, <2>2, AfterMisuse
<1> QED
  BY <1>7, <1>8

LEMMA eccx08_pkey_ec_initInv ==
    ASSUME KeysInv, NEW k \in Keys, eccx08_pkey_ec_init(k) PROVE KeysInv'
<1>1. /\ misuse = "none" /\ misuse' = "none" /\ at = "out" /\ at' = "get1"
      /\ op' = "reload" /\ cur' = k /\ passwd_id' = obj[k].pid /\ ok' = TRUE
      /\ app[k] /\ ~ctx[k]
      /\ UNCHANGED <<app, ctx, wish, hold, storeVars>>
  BY DEF eccx08_pkey_ec_init, Start, At, eccx08_pkey_isx08key
<1>2. TakeReference(TRUE) /\ obj' = [obj EXCEPT ![k].pkey = @ + 1]
  BY DEF eccx08_pkey_ec_init
<1>3. /\ LifecycleTypeOK /\ StoreTypeOK /\ KeysTypeOK /\ LoadTypeOK
      /\ DefsInv /\ SlotsInv /\ RefsInv /\ HeldInv
  BY <1>1, Before
<1>4. Refs(k, 1, 1) /\ obj[k] \in KeyObjects
  BY <1>1, <1>3 DEF RefsInv, KeyRefs, AtRest, Refs, Count, KeysTypeOK
<1>5. /\ obj'[k] = [obj[k] EXCEPT !.pkey = 2] /\ obj' = [obj EXCEPT ![k] = obj'[k]]
      /\ \A l \in Keys : l # k => obj'[l] = obj[l]
  BY <1>2, <1>3, <1>4 DEF KeysTypeOK, Refs
<1>6. /\ obj'[k].pkey = 2 /\ obj'[k].eckey = 1 /\ obj'[k].method = obj[k].method
      /\ obj'[k].slot = obj[k].slot /\ obj'[k].pub = obj[k].pub
  BY <1>4, <1>5 DEF Refs, KeyObjects
<1>7. hold # "never"
  BY <1>1, <1>3 DEF HeldInv, Untouched
<1>8. funct_ref \in Int /\ (hold = "held" => funct_ref # 0)
  BY <1>3, Functional DEF LifecycleTypeOK
<1>9. /\ LifecycleTypeOK' /\ DefsInv' /\ funct_ref' = funct_ref + 1
      /\ hold = "held" => UNCHANGED <<pCfg, engine_ec, eccx08_ec>>
  BY <1>2, <1>3, <1>8, ReferenceTaken
<1>10. StoreTypeOK' /\ KeysTypeOK'
  <2>1. 2 \in 0..3
    OBVIOUS
  <2>2. [obj[k] EXCEPT !.pkey = 2] \in KeyObjects
    BY <1>4, <2>1, Updated
  <2> QED
    BY <1>1, <1>3, <1>5, <2>2, TypesStay, TypesStep
<1>11. LoadTypeOK'
  <2>1. obj[k].pid \in 0..NOPASSWD_ID
    BY <1>4 DEF KeyObjects
  <2> QED
    BY <1>1, <1>3, <2>1 DEF LoadTypeOK, AtPoints, LoadOps
<1>12. SlotsInv'
  BY <1>1, <1>3, <1>5, <1>6, SlotsStep
<1>13. RefsInv'
  <2>1. KeyRefs(k)'
    BY <1>1, <1>6 DEF KeyRefs, InReload, Refs
  <2>2. Contexts' = Contexts /\ InFlight = 0 /\ InFlight' = 1
    BY <1>1 DEF Contexts, InFlight, Count
  <2>3. Count(hold \in {"held", "again"}) \in Int /\ Count(hold \in {"held", "again"})' = Count(hold \in {"held", "again"})
    BY <1>1 DEF Count
  <2>4. funct_ref' = Count(hold \in {"held", "again"})' + Cardinality(Contexts)' + InFlight'
    BY <1>3, <1>9, <2>2, <2>3, ContextsCounted DEF RefsInv
  <2> QED
    BY <1>1, <1>3, <1>5, <2>1, <2>4, RefsTouch
<1>14. HeldInv'
  <2>1. obj[k].eckey > 0
    BY <1>4 DEF Refs
  <2>2. \A l \in Keys : obj'[l].eckey > 0 => obj[l].eckey > 0 /\ obj'[l].method = obj[l].method
    BY <1>5, <1>6, <2>1
  <2> QED
    BY <1>1, <1>3, <1>7, <1>9, <2>2, HeldTouch
<1> QED
  BY <1>1, <1>9, <1>10, <1>11, <1>12, <1>13, <1>14, After

\* A call that may misuse something and changes nothing.
LEMMA OnlyUse ==
    ASSUME KeysInv, misuse = "none", UNCHANGED <<keyVars, loadVars, hold, lifeVars, storeVars>>,
           misuse' \in {"none", "method", "password", "definition"},
           hold = "held" => misuse' \in {"none", "password"}
    PROVE  KeysInv'
<1>1. /\ LifecycleTypeOK /\ StoreTypeOK /\ KeysTypeOK /\ LoadTypeOK
      /\ DefsInv /\ SlotsInv /\ RefsInv /\ HeldInv
  BY Before
<1>2. LifecycleTypeOK' /\ StoreTypeOK' /\ KeysTypeOK' /\ DefsInv' /\ SlotsInv'
  BY <1>1, TypesStay, DefsStay, SlotsStay DEF lifeVars, servingVars, keyVars
<1>3. LoadTypeOK'
  BY <1>1 DEF LoadTypeOK, loadVars
<1>4. RefsInv'
  BY <1>1 DEF RefsInv, KeyRefs, AtRest, InLoad, InReload, Refs, InFlight, Contexts,
              keyVars, loadVars, lifeVars
<1>5. HeldInv'
  BY <1>1 DEF HeldInv, Untouched, InPlace, Stale, keyVars, loadVars, lifeVars, servingVars
<1>6. SafeWhileHeld' /\ FreedKeyOnlyIfNotBuilt'
  BY DEF SafeWhileHeld, FreedKeyOnlyIfNotBuilt
<1> QED
  BY <1>2, <1>3, <1>4, <1>5, <1>6, After, AfterMisuse

LEMMA SignInv == ASSUME KeysInv, NEW k \in Keys, Sign(k) PROVE KeysInv'
<1>1. /\ misuse = "none" /\ at = "out" /\ app[k]
      /\ misuse' \in {"none", "method", "password"}
      /\ misuse' = "method" => Stale(obj[k])
      /\ UNCHANGED <<keyVars, loadVars, hold, lifeVars, storeVars>>
  BY DEF Sign, Idle
<1>2. RefsInv /\ HeldInv
  BY <1>1, Before
<1>3. hold = "held" => ~Stale(obj[k])
  <2>1. obj[k].eckey > 0
    BY <1>1, <1>2 DEF RefsInv, KeyRefs, AtRest, Refs, Count
  <2> QED
    BY <1>2, <2>1 DEF HeldInv, InPlace
<1> QED
  BY <1>1, <1>3, OnlyUse

LEMMA CertCommandInv == ASSUME KeysInv, NEW d \in Defs, CertCommand(d) PROVE KeysInv'
<1>1. /\ misuse = "none"
      /\ misuse' = (IF defs[d] = "freed" THEN "definition" ELSE "none")
      /\ UNCHANGED <<keyVars, loadVars, hold, lifeVars, storeVars>>
  BY DEF CertCommand, Idle
<1>2. LifecycleTypeOK /\ DefsInv /\ RefsInv
  BY <1>1, Before
<1>3. hold = "held" => defs[d] # "freed"
  <2>1. hold = "held" => funct_ref > 0
    BY <1>2, Functional DEF LifecycleTypeOK
  <2> QED
    BY <1>2, <2>1 DEF DefsInv
<1> QED
  BY <1>1, <1>3, OnlyUse

LEMMA FreeKeyInv == ASSUME KeysInv, NEW k \in Keys, FreeKey(k) PROVE KeysInv'
<1>1. /\ misuse = "none" /\ at = "out" /\ app[k] /\ EVP_PKEY_free(k)
      /\ app' = [app EXCEPT ![k] = FALSE]
      /\ wish' = IF ctx[k] THEN wish ELSE [wish EXCEPT ![k] = NoWish]
      /\ UNCHANGED <<ctx, loadVars, hold, lifeVars, storeVars>>
  BY DEF FreeKey, Idle
<1>2. /\ LifecycleTypeOK /\ StoreTypeOK /\ KeysTypeOK /\ LoadTypeOK
      /\ DefsInv /\ SlotsInv /\ RefsInv /\ HeldInv
  BY <1>1, Before
<1>3. /\ obj[k].pkey = IF ctx[k] THEN 2 ELSE 1
      /\ obj[k].pkey > 0 /\ obj[k].eckey = 1 /\ obj[k].eckey > 0
  BY <1>1, <1>2 DEF RefsInv, KeyRefs, AtRest, Refs, Count
<1>4. /\ app' \in [Keys -> BOOLEAN] /\ ~app'[k] /\ wish' \in [Keys -> Wishes]
      /\ \A l \in Keys : l # k => app'[l] = app[l] /\ wish'[l] = wish[l]
      /\ ctx[k] => wish'[k] = wish[k]
  BY <1>1, <1>2, NoWishTyped DEF KeysTypeOK
<1>5. /\ obj' \in [Keys -> KeyObjects]
      /\ \A l \in Keys : l # k => obj'[l] = obj[l]
      /\ misuse' \in {"none", "method"}
      /\ misuse' = "method" => Stale(obj[k])
  BY <1>1, <1>2, <1>3, Freed
<1>6. LifecycleTypeOK' /\ StoreTypeOK' /\ KeysTypeOK' /\ DefsInv'
  BY <1>1, <1>2, <1>4, <1>5, TypesStay, DefsStay DEF lifeVars, servingVars, KeysTypeOK
<1>7. LoadTypeOK'
  BY <1>1, <1>2, <1>5 DEF LoadTypeOK, loadVars
<1>8. SlotsInv'
  BY <1>1, <1>2, <1>3, <1>4, FreedSlots
<1>9. RefsInv'
  <2>1. KeyRefs(k)'
    <3>1. CASE ctx[k]
      <4>1. obj'[k] = [obj[k] EXCEPT !.pkey = obj[k].pkey - 1] /\ obj[k].pkey = 2
        BY <1>1, <1>2, <1>3, <3>1, Freed
      <4>2. obj'[k].pkey = 1 /\ obj'[k].eckey = 1
        BY <1>2, <1>3, <4>1 DEF KeysTypeOK, KeyObjects
      <4> QED
        BY <1>1, <1>4, <3>1, <4>2 DEF KeyRefs, AtRest, Refs, Count, loadVars
    <3>2. CASE ~ctx[k]
      <4>1. obj'[k] = Nothing
        BY <1>1, <1>2, <1>3, <3>2, Freed
      <4> QED
        BY <1>1, <1>4, <3>2, <4>1 DEF KeyRefs, AtRest, Refs, Count, Nothing, loadVars
    <3> QED
      BY <3>1, <3>2
  <2>2. Contexts' = Contexts /\ InFlight = 0 /\ InFlight' = 0
    BY <1>1 DEF Contexts, InFlight, Count, loadVars
  <2>3. funct_ref' = Count(hold \in {"held", "again"})' + Cardinality(Contexts)' + InFlight'
    BY <1>1, <1>2, <2>2 DEF RefsInv, lifeVars
  <2> QED
    BY <1>1, <1>2, <1>4, <1>5, <2>1, <2>3, RefsTouch DEF loadVars
<1>10. HeldInv'
  <2>1. hold # "never"
    BY <1>1, <1>2 DEF HeldInv, Untouched
  <2>2. \A l \in Keys : obj'[l].eckey > 0 => obj[l].eckey > 0 /\ obj'[l].method = obj[l].method
    BY <1>1, <1>2, <1>3, FreedMethods
  <2> QED
    BY <1>1, <1>2, <2>1, <2>2, HeldTouch DEF lifeVars, servingVars
<1>11. SafeWhileHeld' /\ FreedKeyOnlyIfNotBuilt'
  <2>1. hold = "held" => ~Stale(obj[k])
    BY <1>2, <1>3 DEF HeldInv, InPlace
  <2> QED
    BY <1>1, <1>5, <2>1 DEF SafeWhileHeld, FreedKeyOnlyIfNotBuilt
<1> QED
  BY <1>5, <1>6, <1>7, <1>8, <1>9, <1>10, <1>11, After, AfterMisuse

LEMMA FreeContextInv == ASSUME KeysInv, NEW k \in Keys, FreeContext(k) PROVE KeysInv'
<1>1. /\ misuse = "none" /\ at = "out" /\ ctx[k] /\ EVP_PKEY_free(k) /\ DropReference
      /\ ctx' = [ctx EXCEPT ![k] = FALSE]
      /\ wish' = IF app[k] THEN wish ELSE [wish EXCEPT ![k] = NoWish]
      /\ UNCHANGED <<app, loadVars, hold, storeVars>>
  BY DEF FreeContext, Idle
<1>2. /\ LifecycleTypeOK /\ StoreTypeOK /\ KeysTypeOK /\ LoadTypeOK
      /\ DefsInv /\ SlotsInv /\ RefsInv /\ HeldInv
  BY <1>1, Before
<1>3. /\ obj[k].pkey = IF app[k] THEN 2 ELSE 1
      /\ obj[k].pkey > 0 /\ obj[k].eckey = 1 /\ obj[k].eckey > 0
  BY <1>1, <1>2 DEF RefsInv, KeyRefs, AtRest, Refs, Count
<1>4. /\ ctx' \in [Keys -> BOOLEAN] /\ ~ctx'[k] /\ wish' \in [Keys -> Wishes]
      /\ \A l \in Keys : l # k => ctx'[l] = ctx[l] /\ wish'[l] = wish[l]
      /\ app[k] => wish'[k] = wish[k]
  BY <1>1, <1>2, NoWishTyped DEF KeysTypeOK
<1>5. /\ obj' \in [Keys -> KeyObjects]
      /\ \A l \in Keys : l # k => obj'[l] = obj[l]
      /\ misuse' \in {"none", "method"}
      /\ misuse' = "method" => Stale(obj[k])
  BY <1>1, <1>2, <1>3, Freed
<1>6. Cardinality(Contexts) \in Nat /\ Cardinality(Contexts) > 0
      /\ Cardinality(Contexts)' = Cardinality(Contexts) - 1
  BY <1>1, <1>2, ContextsCounted, ContextRemoved DEF KeysTypeOK
<1>7. /\ InFlight = 0 /\ InFlight' = 0
      /\ Count(hold \in {"held", "again"}) = IF hold \in {"held", "again"} THEN 1 ELSE 0
      /\ Count(hold \in {"held", "again"})' = Count(hold \in {"held", "again"})
  BY <1>1 DEF InFlight, Count, loadVars
<1>8. funct_ref > 0 /\ (hold = "held" => funct_ref > 1) /\ funct_ref \in Int
  BY <1>2, <1>6, <1>7 DEF RefsInv, LifecycleTypeOK
<1>9. /\ LifecycleTypeOK' /\ DefsInv' /\ funct_ref' = funct_ref - 1
      /\ hold = "held" => UNCHANGED <<pCfg, engine_ec, eccx08_ec>>
  BY <1>1, <1>2, <1>8, ReferenceDropped
<1>10. StoreTypeOK' /\ KeysTypeOK' /\ LoadTypeOK'
  BY <1>1, <1>2, <1>4, <1>5, TypesStay DEF KeysTypeOK, LoadTypeOK, loadVars
<1>11. SlotsInv'
  BY <1>1, <1>2, <1>3, <1>4, FreedSlots
<1>12. RefsInv'
  <2>1. KeyRefs(k)'
    <3>1. CASE app[k]
      <4>1. obj'[k] = [obj[k] EXCEPT !.pkey = obj[k].pkey - 1] /\ obj[k].pkey = 2
        BY <1>1, <1>2, <1>3, <3>1, Freed
      <4>2. obj'[k].pkey = 1 /\ obj'[k].eckey = 1
        BY <1>2, <1>3, <4>1 DEF KeysTypeOK, KeyObjects
      <4> QED
        BY <1>1, <1>4, <3>1, <4>2 DEF KeyRefs, AtRest, Refs, Count, loadVars
    <3>2. CASE ~app[k]
      <4>1. obj'[k] = Nothing
        BY <1>1, <1>2, <1>3, <3>2, Freed
      <4> QED
        BY <1>1, <1>4, <3>2, <4>1 DEF KeyRefs, AtRest, Refs, Count, Nothing, loadVars
    <3> QED
      BY <3>1, <3>2
  <2>2. funct_ref' = Count(hold \in {"held", "again"})' + Cardinality(Contexts)' + InFlight'
    BY <1>2, <1>6, <1>7, <1>9 DEF RefsInv
  <2> QED
    BY <1>1, <1>2, <1>4, <1>5, <2>1, <2>2, RefsTouch DEF loadVars
<1>13. HeldInv'
  <2>1. hold # "never"
    BY <1>1, <1>2 DEF HeldInv, Untouched
  <2>2. \A l \in Keys : obj'[l].eckey > 0 => obj[l].eckey > 0 /\ obj'[l].method = obj[l].method
    BY <1>1, <1>2, <1>3, FreedMethods
  <2> QED
    BY <1>1, <1>2, <1>9, <2>1, <2>2, HeldTouch
<1>14. SafeWhileHeld' /\ FreedKeyOnlyIfNotBuilt'
  <2>1. hold = "held" => ~Stale(obj[k])
    BY <1>2, <1>3 DEF HeldInv, InPlace
  <2> QED
    BY <1>1, <1>5, <2>1 DEF SafeWhileHeld, FreedKeyOnlyIfNotBuilt
<1> QED
  BY <1>5, <1>9, <1>10, <1>11, <1>12, <1>13, <1>14, After, AfterMisuse

(***************************************************************************)
(* The application's own references, and its other calls.                  *)
(***************************************************************************)
LEMMA AllAtRest ==
    ASSUME RefsInv, at = "out", UNCHANGED <<obj, app, ctx, at, cur, wish>>
    PROVE  \A k \in Keys : KeyRefs(k)'
BY DEF RefsInv, KeyRefs, AtRest, Refs

LEMMA InitializeInv == ASSUME KeysInv, Initialize PROVE KeysInv'
<1>1. PICK done \in BOOLEAN :
        /\ TakeReference(done)
        /\ hold' = IF ~done THEN hold ELSE IF hold = "never" THEN "held" ELSE "again"
  BY DEF Initialize
<1>2. /\ misuse = "none" /\ misuse' = "none" /\ at = "out" /\ bound
      /\ hold \in {"never", "dropped"}
      /\ UNCHANGED <<keyVars, loadVars, storeVars>>
  BY DEF Initialize, Idle
<1>3. /\ LifecycleTypeOK /\ StoreTypeOK /\ KeysTypeOK /\ LoadTypeOK
      /\ DefsInv /\ SlotsInv /\ RefsInv /\ HeldInv
  BY <1>2, Before
<1>4. hold' = IF ~done THEN hold ELSE IF hold = "never" THEN "held" ELSE "again"
  BY <1>1
<1>5. /\ LifecycleTypeOK' /\ DefsInv'
      /\ done /\ funct_ref = 0 => pCfg'
      /\ ~done => pCfg' = pCfg
      /\ funct_ref' = IF done THEN funct_ref + 1 ELSE funct_ref
      /\ UNCHANGED <<bound, engine_ec, eccx08_ec>>
  BY <1>1, <1>3, ReferenceTaken
<1>6. StoreTypeOK' /\ KeysTypeOK' /\ SlotsInv' /\ LoadTypeOK'
  BY <1>2, <1>3, <1>4, TypesStay, SlotsStay DEF LoadTypeOK, keyVars, loadVars
<1>7. RefsInv'
  <2>1. Contexts' = Contexts /\ InFlight = 0 /\ InFlight' = 0
    BY <1>2 DEF Contexts, InFlight, Count, keyVars, loadVars
  <2>2. /\ Count(hold \in {"held", "again"}) = 0
        /\ Count(hold \in {"held", "again"})' = IF done THEN 1 ELSE 0
    BY <1>2, <1>4 DEF Count
  <2>3. funct_ref' = Count(hold \in {"held", "again"})' + Cardinality(Contexts)' + InFlight'
    BY <1>3, <1>5, <2>1, <2>2, ContextsCounted DEF RefsInv
  <2>4. \A k \in Keys : KeyRefs(k)'
    BY <1>2, <1>3, AllAtRest DEF keyVars, loadVars
  <2> QED
    BY <1>2, <2>3, <2>4 DEF RefsInv, loadVars
<1>8. HeldInv'
  <2>1. CASE hold = "never" /\ done
    <3>1. funct_ref = 0 /\ Untouched
      BY <1>3, <2>1, NeverFunctional
    <3>2. \A k \in Keys : obj[k].eckey = 0
      BY <1>2, <1>3, <3>1 DEF RefsInv, KeyRefs, AtRest, Refs, Count, Untouched
    <3>3. pCfg' /\ eccx08_ec # 0 /\ engine_ec = eccx08_ec
      BY <1>2, <1>5, <2>1, <3>1 DEF Untouched
    <3> QED
      BY <1>2, <1>4, <1>5, <2>1, <3>2, <3>3 DEF HeldInv, InPlace, keyVars
  <2>2. CASE hold = "never" /\ ~done
    <3>1. Untouched'
      BY <1>2, <1>3, <1>5, <2>2 DEF HeldInv, Untouched, keyVars, loadVars
    <3> QED
      BY <1>4, <2>2, <3>1 DEF HeldInv
  <2>3. CASE hold = "dropped"
    BY <1>4, <2>3 DEF HeldInv
  <2> QED
    BY <1>2, <2>1, <2>2, <2>3
<1> QED
  BY <1>2, <1>5, <1>6, <1>7, <1>8, After

LEMMA FinishInv == ASSUME KeysInv, Finish PROVE KeysInv'
<1>1. /\ misuse = "none" /\ misuse' = "none" /\ at = "out" /\ DropReference
      /\ hold \in {"held", "again"} /\ hold' = "dropped"
      /\ UNCHANGED <<keyVars, loadVars, storeVars>>
  BY DEF Finish, Idle
<1>2. /\ LifecycleTypeOK /\ StoreTypeOK /\ KeysTypeOK /\ LoadTypeOK
      /\ DefsInv /\ SlotsInv /\ RefsInv
  BY <1>1, Before
<1>3. funct_ref > 0 /\ funct_ref \in Int
  BY <1>1, <1>2, Functional DEF LifecycleTypeOK
<1>4. LifecycleTypeOK' /\ DefsInv' /\ funct_ref' = funct_ref - 1
  BY <1>1, <1>2, <1>3, ReferenceDropped
<1>5. StoreTypeOK' /\ KeysTypeOK' /\ SlotsInv' /\ LoadTypeOK'
  BY <1>1, <1>2, TypesStay, SlotsStay DEF LoadTypeOK, keyVars, loadVars
<1>6. RefsInv'
  <2>1. Contexts' = Contexts /\ InFlight = 0 /\ InFlight' = 0
    BY <1>1 DEF Contexts, InFlight, Count, keyVars, loadVars
  <2>2. Count(hold \in {"held", "again"}) = 1 /\ Count(hold \in {"held", "again"})' = 0
    BY <1>1 DEF Count
  <2>3. funct_ref' = Count(hold \in {"held", "again"})' + Cardinality(Contexts)' + InFlight'
    BY <1>2, <1>4, <2>1, <2>2, ContextsCounted DEF RefsInv
  <2>4. \A k \in Keys : KeyRefs(k)'
    BY <1>1, <1>2, AllAtRest DEF keyVars, loadVars
  <2> QED
    BY <1>1, <2>3, <2>4 DEF RefsInv, loadVars
<1>7. HeldInv'
  BY <1>1 DEF HeldInv
<1> QED
  BY <1>1, <1>4, <1>5, <1>6, <1>7, After

\* A call that changes neither the keys nor the references.
LEMMA NoReference ==
    ASSUME KeysInv, misuse = "none", misuse' = "none", at = "out",
           UNCHANGED <<keyVars, loadVars, hold, funct_ref>>,
           LifecycleTypeOK', StoreTypeOK', DefsInv', HeldInv'
    PROVE  KeysInv'
<1>1. KeysTypeOK /\ LoadTypeOK /\ SlotsInv /\ RefsInv
  BY Before
<1>2. KeysTypeOK' /\ LoadTypeOK' /\ SlotsInv'
  BY <1>1, TypesStay, SlotsStay DEF LoadTypeOK, keyVars, loadVars
<1>3. RefsInv'
  <2>1. Contexts' = Contexts /\ InFlight' = InFlight
    BY DEF Contexts, InFlight, keyVars, loadVars
  <2>2. \A k \in Keys : KeyRefs(k)'
    BY <1>1, AllAtRest DEF keyVars, loadVars
  <2> QED
    BY <1>1, <2>1, <2>2 DEF RefsInv, loadVars
<1> QED
  BY <1>2, <1>3, After

LEMMA ConfigureInv == ASSUME KeysInv, Configure PROVE KeysInv'
<1>1. PICK i \in Slots : set_device_key_slot(i)
  BY DEF Configure
<1>2. /\ misuse = "none" /\ misuse' = "none" /\ at = "out"
      /\ UNCHANGED <<keyVars, loadVars, hold, storeVars>>
  BY DEF Configure, Idle
<1>3. UNCHANGED <<binds, bound, funct_ref, eccx08_ec, engine_ec, eccx08_pkey_meth, mutex, pCfg, defs>>
      /\ device_key_slot' = i
  BY <1>1 DEF set_device_key_slot
<1>4. LifecycleTypeOK /\ StoreTypeOK /\ DefsInv /\ HeldInv
  BY <1>2, Before
<1>5. LifecycleTypeOK' /\ StoreTypeOK' /\ DefsInv'
  BY <1>2, <1>3, <1>4, TypesStay, DefsStay DEF LifecycleTypeOK
<1>6. HeldInv'
  BY <1>2, <1>3, <1>4 DEF HeldInv, Untouched, InPlace, Stale, keyVars, loadVars
<1> QED
  BY <1>2, <1>3, <1>5, <1>6, NoReference

LEMMA BindInv == ASSUME KeysInv, Bind PROVE KeysInv'
<1>1. /\ misuse = "none" /\ misuse' = "none" /\ at = "out" /\ bind_helper
      /\ UNCHANGED <<keyVars, loadVars, hold, storeVars>>
  BY DEF Bind, Idle
<1>2. /\ binds < MaxBinds /\ binds' = binds + 1 /\ bound' = TRUE
      /\ eccx08_ec' = IF eccx08_ec = 0 THEN binds + 1 ELSE eccx08_ec
      /\ engine_ec' = eccx08_ec'
      /\ eccx08_pkey_meth' = TRUE
      /\ UNCHANGED <<funct_ref, mutex, pCfg, device_key_slot, defs>>
  BY <1>1 DEF bind_helper, eccx08_ec_init, eccx08_pkey_meth_init, servingVars
<1>3. LifecycleTypeOK /\ StoreTypeOK /\ DefsInv /\ HeldInv
  BY <1>1, Before
<1>4. LifecycleTypeOK'
  <2>1. binds' \in 0..MaxBinds /\ eccx08_ec' \in 0..MaxBinds
    BY <1>2, <1>3, LifecycleAssumption DEF LifecycleTypeOK
  <2> QED
    BY <1>2, <1>3, <2>1 DEF LifecycleTypeOK
<1>5. StoreTypeOK' /\ DefsInv'
  BY <1>1, <1>2, <1>3, TypesStay, DefsStay
<1>6. HeldInv'
  <2>1. eccx08_ec' # 0 /\ (eccx08_ec # 0 => eccx08_ec' = eccx08_ec)
    BY <1>2, <1>3 DEF LifecycleTypeOK
  <2>2. hold = "never" => Untouched'
    BY <1>1, <1>2, <1>3, <2>1 DEF HeldInv, Untouched, keyVars, loadVars
  <2>3. hold = "held" => InPlace'
    BY <1>1, <1>2, <1>3, <2>1 DEF HeldInv, InPlace, Stale, keyVars
  <2> QED
    BY <1>1, <2>2, <2>3 DEF HeldInv
<1> QED
  BY <1>1, <1>2, <1>4, <1>5, <1>6, NoReference

LEMMA UnloadInv == ASSUME KeysInv, Unload PROVE KeysInv'
<1>1. /\ misuse = "none" /\ misuse' = "none" /\ at = "out" /\ eccx08_destroy /\ StoreUnloaded
      /\ UNCHANGED <<keyVars, loadVars, hold>>
  BY DEF Unload, Idle
<1>2. /\ LifecycleTypeOK /\ RefsInv /\ HeldInv
  BY <1>1, Before
<1>3. funct_ref = 0 /\ UNCHANGED <<binds, funct_ref>>
      /\ bound' = FALSE /\ mutex' = "NULL" /\ eccx08_ec' = 0 /\ engine_ec' = 0
      /\ eccx08_pkey_meth' = FALSE /\ pCfg' = FALSE /\ device_key_slot' = DefaultSlot
      /\ defs' = [d \in Defs |-> "NULL"]
  BY <1>1 DEF eccx08_destroy
<1>4. hold # "held"
  BY <1>2, <1>3, Functional
<1>5. LifecycleTypeOK'
  <2>1. defs' \in [Defs -> Pointers]
    BY <1>3 DEF Pointers
  <2>2. 0 \in 0..MaxBinds /\ DefaultSlot \in Slots
    BY LifecycleAssumption
  <2> QED
    BY <1>2, <1>3, <2>1, <2>2 DEF LifecycleTypeOK
<1>6. StoreTypeOK'
  BY <1>1, StoreAssumption DEF StoreUnloaded, StoreTypeOK
<1>7. DefsInv'
  BY <1>3 DEF DefsInv, DefinitionsFreedOnce
<1>8. HeldInv'
  BY <1>1, <1>2, <1>3, <1>4 DEF HeldInv, Untouched, keyVars, loadVars
<1> QED
  BY <1>1, <1>3, <1>5, <1>6, <1>7, <1>8, NoReference

LEMMA StutterInv == ASSUME KeysInv, UNCHANGED vars PROVE KeysInv'
<1>1. UNCHANGED <<obj, app, ctx, wish, at, op, cur, passwd_id, ok, hold, misuse, binds, bound,
                  funct_ref, eccx08_ec, engine_ec, eccx08_pkey_meth, mutex, pCfg,
                  device_key_slot, defs, passwords, current_id>>
  BY DEF vars, keyVars, loadVars, lifeVars, servingVars, storeVars
<1>2. TypeOK'
  BY <1>1 DEF KeysInv, TypeOK, LifecycleTypeOK, StoreTypeOK, KeysTypeOK, LoadTypeOK
<1>3. DefsInv' /\ SlotsInv'
  BY <1>1, DefsStay, SlotsStay DEF KeysInv
<1>4. misuse = "none" => RefsInv' /\ HeldInv'
  BY <1>1 DEF KeysInv, RefsInv, HeldInv, KeyRefs, AtRest, InLoad, InReload, Refs, InFlight,
              Contexts, Untouched, InPlace, Stale
<1>5. SafeWhileHeld' /\ FreedKeyOnlyIfNotBuilt'
  BY <1>1 DEF KeysInv, SafeWhileHeld, FreedKeyOnlyIfNotBuilt
<1> QED
  BY <1>1, <1>2, <1>3, <1>4, <1>5 DEF KeysInv

(***************************************************************************)
(* The theorems                                                            *)
(***************************************************************************)
LEMMA StepInv == ASSUME KeysInv, [Next]_vars PROVE KeysInv'
<1>1. CASE eccx08_load_pubkey_internal
  BY <1>1, StorePasswordInv, NewInv, InfoInv, NewECKeyInv, AssembleInv, NotBuiltInv,
     SetMethodInv, Get1Inv, SessionFailsInv, NoPasswordInv, ReadPublicKeyInv, FreeInv,
     ReturnKeyInv, ReturnKeyFileInv, ReturnContextInv DEF eccx08_load_pubkey_internal
<1>2. ASSUME NEW k \in Keys,
             \/ Load(k) \/ get_key(k) \/ eccx08_pkey_ec_init(k)
             \/ Sign(k) \/ FreeKey(k) \/ FreeContext(k)
      PROVE  KeysInv'
  BY <1>2, LoadInv, get_keyInv, eccx08_pkey_ec_initInv, SignInv, FreeKeyInv, FreeContextInv
<1>3. ASSUME NEW d \in Defs, CertCommand(d) PROVE KeysInv'
  BY <1>3, CertCommandInv
<1>4. CASE Bind \/ Unload \/ Configure \/ Initialize \/ Finish
  BY <1>4, BindInv, UnloadInv, ConfigureInv, InitializeInv, FinishInv
<1>5. CASE Ended \/ UNCHANGED vars
  BY <1>5, StutterInv DEF Ended
<1> QED
  BY <1>1, <1>2, <1>3, <1>4, <1>5 DEF Next

\* The references, methods, definitions and slots of the keys are what the place of
\* the load in progress says, after any sequence of loads, reloads, frees and
\* initializations (eccx08_eckey_meth.c:229-277, 488-691, eccx08_engine.c:328-388).
THEOREM KeysInvariance == Spec => []KeysInv
<1>1. KeysInv /\ [Next]_vars => KeysInv'
  BY StepInv
<1> QED
  BY InitInv, <1>1, PTL DEF Spec

\* Reference counts stay in their ranges (at most one load, one application and one
\* context hold a key), and every other variable in its type.
THEOREM TypeCorrectness == Spec => []TypeOK
<1>1. KeysInv => TypeOK
  BY DEF KeysInv
<1> QED
  BY <1>1, KeysInvariance, PTL

\* "Balance EVP_PKEY_get1_EC_KEY()" (eccx08_eckey_meth.c:602-615): between calls each
\* key and the ENGINE have the references of their holders and no other.
THEOREM ReferencesCorrectness == Spec => []ReferencesBalanced
<1>1. KeysInv => ReferencesBalanced
  <2> SUFFICES ASSUME KeysInv, Idle PROVE ReferencesBalanced
    BY DEF ReferencesBalanced
  <2>1. RefsInv /\ at = "out"
    BY DEF KeysInv, Idle
  <2>2. InFlight = 0 /\ Contexts = {k \in Keys : ctx[k]}
    BY <2>1 DEF InFlight, Count, Contexts
  <2>3. Count(hold \in {"held", "again"}) \in Int
    BY DEF Count
  <2>4. funct_ref = Count(hold \in {"held", "again"}) + Cardinality({k \in Keys : ctx[k]})
    BY <2>1, <2>2, <2>3, ContextsCounted DEF RefsInv
  <2>5. \A k \in Keys : Refs(k, Count(app[k]) + Count(ctx[k]), Count(app[k] \/ ctx[k]))
    BY <2>1 DEF RefsInv, KeyRefs, AtRest
  <2> QED
    BY <2>4, <2>5 DEF ReferencesBalanced, Refs
<1> QED
  BY <1>1, KeysInvariance, PTL

\* An application that holds a functional reference from before its first use of the
\* engine never meets the freed method (eccx08_engine.c:377), the freed definitions
\* (:370) or the missing configuration (eccx08_cmd_defns.c:282).
THEOREM HolderIsSafe == Spec => []SafeWhileHeld
<1>1. KeysInv => SafeWhileHeld
  BY DEF KeysInv
<1> QED
  BY <1>1, KeysInvariance, PTL

\* eccx08_cert_cleanup keeps the pointers it frees (eccx08_cert.c:184-186): it never
\* frees one twice.
THEOREM FreedOnce == Spec => []DefinitionsFreedOnce
<1>1. KeysInv => DefinitionsFreedOnce
  BY DEF KeysInv, DefsInv
<1> QED
  BY <1>1, KeysInvariance, PTL

\* A freed EVP_PKEY is used only after eccx08_eckey_new_key could not build it
\* (eccx08_eckey_meth.c:269-277).
THEOREM FreedKeyCorrectness == Spec => []FreedKeyOnlyIfNotBuilt
<1>1. KeysInv => FreedKeyOnlyIfNotBuilt
  BY DEF KeysInv
<1> QED
  BY <1>1, KeysInvariance, PTL

\* The public key of an EVP_PKEY is that of the slot in its private part, whatever
\* slot is configured when it is read again (eccx08_eckey_meth.c:545-589, 663-691).
THEOREM SlotCorrectness == Spec => []PublicKeyOfItsSlot
<1>1. KeysInv => PublicKeyOfItsSlot
  BY DEF KeysInv, SlotsInv
<1> QED
  BY <1>1, KeysInvariance, PTL

(***************************************************************************)
(* The passwords: what a step leaves alone.                                *)
(***************************************************************************)
PasswordsTypeOK == LifecycleTypeOK /\ StoreTypeOK /\ KeysTypeOK /\ LoadTypeOK

LEMMA BeforePasswords ==
    ASSUME KeysInv, PasswordsInv, misuse = "none"
    PROVE  /\ PasswordsTypeOK /\ RefsInv
           /\ StoreInv /\ MethodsInv /\ LoadPassword
           /\ \A k \in Keys : /\ KeyPassword(k) /\ NotDerived(k)
                              /\ app[k] => obj[k].eckey > 0
<1>1. RefsInv
  BY Before
<1>2. ASSUME NEW k \in Keys, app[k] PROVE obj[k].eckey > 0
  <2>1. CASE at = "out" \/ cur # k
    BY <1>1, <1>2, <2>1 DEF RefsInv, KeyRefs, AtRest, Refs, Count
  <2>2. CASE at # "out" /\ cur = k
    BY <1>1, <1>2, <2>2 DEF RefsInv, KeyRefs, InReload, InLoad, Refs
  <2> QED
    BY <2>1, <2>2
<1> QED
  BY <1>1, <1>2, Before DEF PasswordsInv, PasswordsTypeOK

\* The entries that are filled stay as they are.
StoreKept == \A i \in Entries : passwords[i] # "unset" => passwords'[i] = passwords[i]

\* The method stays, or the engine drops its last functional reference.
MethodKept == eccx08_ec' \in {eccx08_ec, 0}

LEMMA IdentifiesStays ==
    ASSUME StoreKept, NEW id, NEW w \in Wishes, Identifies(id, w.password)
    PROVE  Identifies(id, w.password)'
<1>1. w.password # "unset"
  BY StoreAssumption DEF Wishes
<1> QED
  BY <1>1 DEF StoreKept, Identifies, Entries

\* A key whose private part and whose method stay.
LEMMA KeyStays ==
    ASSUME KeysInv, PasswordsInv, misuse = "none", StoreKept, MethodKept,
           NEW k \in Keys,
           obj'[k].pid = obj[k].pid, obj'[k].derived = obj[k].derived,
           obj'[k].method = obj[k].method, wish'[k] = wish[k],
           app'[k] => app[k], obj'[k].eckey > 0 => obj[k].eckey > 0,
           ~(at' = "eckey" /\ cur' = k),
           LetIn(k)' => LetIn(k)
    PROVE  KeyPassword(k)' /\ NotDerived(k)'
<1>1. /\ KeysTypeOK /\ MethodsInv /\ KeyPassword(k) /\ NotDerived(k)
      /\ app[k] => obj[k].eckey > 0
  BY BeforePasswords DEF PasswordsTypeOK
<1>2. NotDerived(k)'
  BY <1>1 DEF NotDerived
<1>3. ASSUME app'[k] \/ obj'[k].eckey > 0, wish[k].id # "NULL", ~Stale(obj[k])'
      PROVE  Identifies(obj[k].pid, wish[k].password)'
  <2>1. obj[k].method # 0 /\ obj[k].eckey > 0
    BY <1>1, <1>3 DEF MethodsInv
  <2>2. ~Stale(obj[k])
    BY <1>3, <2>1 DEF MethodKept, Stale
  <2>3. Identifies(obj[k].pid, wish[k].password)
    BY <1>1, <1>3, <2>1, <2>2 DEF KeyPassword
  <2>4. wish[k] \in Wishes
    BY <1>1 DEF KeysTypeOK
  <2> QED
    BY <2>3, <2>4, IdentifiesStays
<1>4. KeyPassword(k)'
  BY <1>1, <1>3 DEF KeyPassword
<1> QED
  BY <1>2, <1>4

\* A key that the application does not have and that has no EC_KEY.
LEMMA KeyGone ==
    ASSUME NEW k \in Keys, ~app'[k], obj'[k].eckey = 0, at' # "eckey", ~LetIn(k)'
    PROVE  KeyPassword(k)' /\ NotDerived(k)'
BY DEF KeyPassword, NotDerived

\* A step that touches no key but c, which is in no load or leaves one or enters one.
LEMMA PasswordsTouch ==
    ASSUME KeysInv, PasswordsInv, misuse = "none", NEW c \in Keys,
           at = "out" \/ cur = c, at' = "out" \/ cur' = c,
           \A k \in Keys : k # c => obj'[k] = obj[k] /\ app'[k] = app[k] /\ wish'[k] = wish[k],
           StoreKept, MethodKept,
           misuse' = "none" => (StoreInv /\ MethodsInv /\ LoadPassword)',
           (KeyPassword(c) /\ NotDerived(c))',
           misuse' # "password" \/ NoPasswordOnlyIfFull'
    PROVE  PasswordsInv'
<1>1. ASSUME NEW k \in Keys, k # c PROVE KeyPassword(k)' /\ NotDerived(k)'
  <2>1. LetIn(k)' => LetIn(k)
    BY <1>1 DEF LetIn
  <2> QED
    BY <1>1, <2>1, KeyStays
<1>2. NoPasswordOnlyIfFull'
  BY DEF NoPasswordOnlyIfFull
<1> QED
  BY <1>1, <1>2 DEF PasswordsInv

\* A step that touches no key at all.
LEMMA PasswordsStay ==
    ASSUME KeysInv, PasswordsInv, misuse = "none", UNCHANGED <<obj, app, wish>>,
           at' # "eckey", StoreKept, MethodKept,
           \A k \in Keys : LetIn(k)' => LetIn(k),
           misuse' = "none" => (StoreInv /\ MethodsInv /\ LoadPassword)',
           misuse' # "password" \/ NoPasswordOnlyIfFull'
    PROVE  PasswordsInv'
<1>1. ASSUME NEW k \in Keys PROVE KeyPassword(k)' /\ NotDerived(k)'
  BY KeyStays
<1>2. NoPasswordOnlyIfFull'
  BY DEF NoPasswordOnlyIfFull
<1> QED
  BY <1>1, <1>2 DEF PasswordsInv

LEMMA StoreStays ==
    ASSUME StoreInv, UNCHANGED storeVars
    PROVE  StoreKept /\ StoreInv'
BY DEF StoreInv, StoreKept, storeVars, Entries

\* The ENGINE's methods, when no binding comes or goes.
LEMMA MethodsStay ==
    ASSUME MethodsInv, LifecycleTypeOK, UNCHANGED <<binds, bound, engine_ec>>, MethodKept,
           funct_ref' > 0 \/ at' # "out" => bound,
           \A k \in Keys : /\ obj'[k].method \in {0, obj[k].method, eccx08_ec}
                           /\ obj'[k].eckey > 0 => obj'[k].method # 0,
           at' \in {"group", "method"} => ~Stale(obj[cur])'
    PROVE  MethodsInv'
<1>1. /\ IF bound' THEN engine_ec' # 0 ELSE eccx08_ec' = 0
      /\ eccx08_ec' <= binds' /\ binds \in Nat
  BY DEF MethodsInv, MethodKept, LifecycleTypeOK
<1>2. \A k \in Keys : obj'[k].method <= binds'
  BY <1>1 DEF MethodsInv
<1> QED
  BY <1>1, <1>2 DEF MethodsInv

(***************************************************************************)
(* The passwords: the steps of a load.                                     *)
(***************************************************************************)
LEMMA StorePasswordKeeps == ASSUME KeysInv, PasswordsInv, StorePassword PROVE PasswordsInv'
<1>1. /\ misuse = "none" /\ at = "password" /\ at' = "new" /\ passwd_id' = current_id
      /\ current_id' = IF current_id < MAX_PASSWORDS THEN current_id + 1 ELSE current_id
      /\ UNCHANGED <<obj, app, ctx, wish, op, cur, ok, lifeVars>>
      /\ IF current_id >= MAX_PASSWORDS
         THEN misuse' = "password" /\ passwords' = passwords
         ELSE /\ misuse' = "none"
              /\ passwords' = [passwords EXCEPT ![current_id] = wish[cur].password]
  BY StoreAssumption
  DEF StorePassword, At, Fine, keyVars, eccx08_make_password, eccx08_get_password, NullPointer,
      StoreTypeOK, KeysInv, TypeOK
<1>2. /\ PasswordsTypeOK /\ RefsInv /\ StoreInv /\ MethodsInv
  BY <1>1, BeforePasswords
<1>3. current_id \in 0..MAX_PASSWORDS /\ MAX_PASSWORDS \in Nat
  BY <1>2, StoreAssumption DEF PasswordsTypeOK, StoreTypeOK
<1>4. cur \in Keys /\ op # "reload" /\ wish[cur].password # "none"
  BY <1>1, <1>2 DEF RefsInv, KeyRefs, InReload
<1>5. wish[cur].password \in {"right", "wrong"}
  BY <1>2, <1>4, StoreAssumption DEF PasswordsTypeOK, KeysTypeOK, Wishes
<1>6. StoreKept
  BY <1>1, <1>2 DEF StoreKept, StoreInv, PasswordsTypeOK, StoreTypeOK
<1>7. MethodKept /\ MethodsInv'
  BY <1>1, <1>2 DEF MethodKept, MethodsInv, lifeVars, Stale
<1>8. \A k \in Keys : LetIn(k)' => LetIn(k)
  BY <1>1 DEF LetIn
<1>9. CASE current_id < MAX_PASSWORDS
  <2>1. /\ passwords' = [passwords EXCEPT ![current_id] = wish[cur].password]
        /\ current_id \in Entries /\ current_id' = current_id + 1 /\ misuse' = "none"
    BY <1>1, <1>3, <1>9 DEF Entries
  <2>2. passwords'[current_id] = wish[cur].password
    BY <1>2, <2>1 DEF PasswordsTypeOK, StoreTypeOK
  <2>3. StoreInv'
    BY <1>2, <1>3, <1>5, <2>1 DEF StoreInv, PasswordsTypeOK, StoreTypeOK, Entries
  <2>4. LoadPassword'
    BY <1>1, <1>4, <1>5, <2>1, <2>2 DEF LoadPassword, Identifies
  <2> QED
    BY <1>1, <1>6, <1>7, <1>8, <2>1, <2>3, <2>4, PasswordsStay
<1>10. CASE current_id = MAX_PASSWORDS
  <2>1. misuse' = "password" /\ passwords' = passwords
    BY <1>1, <1>3, <1>10
  <2>2. NoPasswordOnlyIfFull'
    BY <1>2, <1>3, <1>10, <2>1 DEF NoPasswordOnlyIfFull, StoreInv, Entries
  <2> QED
    BY <1>1, <1>6, <1>7, <1>8, <2>1, <2>2, PasswordsStay
<1> QED
  BY <1>3, <1>9, <1>10

LEMMA NewKeeps == ASSUME KeysInv, PasswordsInv, New PROVE PasswordsInv'
<1>1. /\ misuse = "none" /\ misuse' = "none" /\ at = "new"
      /\ UNCHANGED <<app, ctx, wish, op, cur, passwd_id, lifeVars, storeVars>>
      /\ \/ at' = "info" /\ obj' = [obj EXCEPT ![cur].pkey = 1]
         \/ at' = "return" /\ ok' = FALSE /\ obj' = obj
  BY DEF New, At
<1>2. PasswordsTypeOK /\ RefsInv /\ StoreInv /\ MethodsInv /\ LoadPassword
  BY <1>1, BeforePasswords
<1>3. cur \in Keys /\ op # "reload" /\ ~app[cur] /\ obj[cur] = Nothing
  BY <1>1, <1>2 DEF RefsInv, KeyRefs, InReload, InLoad
<1>4. /\ obj'[cur].eckey = 0 /\ obj'[cur].method = 0
      /\ \A k \in Keys : k # cur => obj'[k] = obj[k]
  BY <1>1, <1>2, <1>3 DEF PasswordsTypeOK, KeysTypeOK, Nothing
<1>5. StoreKept /\ StoreInv' /\ MethodKept
  BY <1>1, <1>2, StoreStays DEF MethodKept, lifeVars
<1>6. MethodsInv'
  BY <1>1, <1>2, <1>4, <1>5, MethodsStay DEF lifeVars, MethodsInv, PasswordsTypeOK
<1>7. LoadPassword'
  BY <1>1, <1>2, <1>3 DEF LoadPassword, Identifies, storeVars
<1>8. KeyPassword(cur)' /\ NotDerived(cur)'
  BY <1>1, <1>3, <1>4 DEF KeyPassword, NotDerived, LetIn
<1> QED
  BY <1>1, <1>3, <1>4, <1>5, <1>6, <1>7, <1>8, PasswordsTouch

LEMMA InfoKeeps == ASSUME KeysInv, PasswordsInv, Info PROVE PasswordsInv'
<1>1. /\ misuse = "none" /\ misuse' = "none" /\ at = "info" /\ at' = "eckey"
      /\ UNCHANGED <<app, ctx, op, cur, passwd_id, ok, lifeVars, storeVars>>
  BY DEF Info, At
<1>2. PasswordsTypeOK /\ RefsInv /\ StoreInv /\ MethodsInv /\ LoadPassword
  BY <1>1, BeforePasswords
<1>3. /\ cur \in Keys /\ op # "reload" /\ ~app[cur]
      /\ obj[cur] = [Nothing EXCEPT !.pkey = 1]
  BY <1>1, <1>2 DEF RefsInv, KeyRefs, InReload, InLoad
<1>4. /\ obj'[cur].eckey = 0 /\ obj'[cur].method = 0
      /\ wish[cur].id # "NULL" => obj'[cur].pid = passwd_id
      /\ wish'[cur].id = wish[cur].id /\ wish'[cur].password = wish[cur].password
      /\ \A k \in Keys : k # cur => obj'[k] = obj[k] /\ wish'[k] = wish[k]
  BY <1>2, <1>3 DEF Info, PasswordsTypeOK, KeysTypeOK, KeyObjects, Nothing, Wishes
<1>5. StoreKept /\ StoreInv' /\ MethodKept
  BY <1>1, <1>2, StoreStays DEF MethodKept, lifeVars
<1>6. MethodsInv'
  BY <1>1, <1>2, <1>4, <1>5, MethodsStay DEF lifeVars, MethodsInv, PasswordsTypeOK
<1>7. Identifies(passwd_id, wish[cur].password)
  BY <1>1, <1>2, <1>3 DEF LoadPassword
<1>8. LoadPassword'
  BY <1>1, <1>3, <1>4, <1>7 DEF LoadPassword, Identifies, storeVars
<1>9. KeyPassword(cur)' /\ NotDerived(cur)'
  BY <1>1, <1>3, <1>4, <1>7 DEF KeyPassword, NotDerived, LetIn, Identifies, storeVars
<1> QED
  BY <1>1, <1>3, <1>4, <1>5, <1>6, <1>8, <1>9, PasswordsTouch

LEMMA NewECKeyKeeps == ASSUME KeysInv, PasswordsInv, NewECKey PROVE PasswordsInv'
<1>1. /\ misuse = "none" /\ at = "eckey" /\ at' = "group"
      /\ misuse' = (IF engine_ec = eccx08_ec THEN "none" ELSE "method")
      /\ obj' = [obj EXCEPT ![cur].eckey = 1, ![cur].engine = TRUE, ![cur].method = engine_ec]
      /\ UNCHANGED <<app, ctx, wish, op, cur, passwd_id, ok, storeVars>>
      /\ UNCHANGED <<binds, bound, eccx08_ec, engine_ec>>
  BY DEF NewECKey, At, TakeReference
<1>2. PasswordsTypeOK /\ RefsInv /\ StoreInv /\ MethodsInv /\ LoadPassword
  BY <1>1, BeforePasswords
<1>3. cur \in Keys /\ op # "reload" /\ ~app[cur]
  BY <1>1, <1>2 DEF RefsInv, KeyRefs, InReload, InLoad
<1>4. /\ obj'[cur].pid = obj[cur].pid /\ obj'[cur].method = engine_ec
      /\ \A k \in Keys : k # cur => obj'[k] = obj[k]
  BY <1>1, <1>2, <1>3 DEF PasswordsTypeOK, KeysTypeOK, KeyObjects
<1>5. StoreKept /\ StoreInv' /\ MethodKept
  BY <1>1, <1>2, StoreStays DEF MethodKept
<1>6. misuse' = "none" => MethodsInv'
  <2>1. bound /\ engine_ec # 0
    BY <1>1, <1>2 DEF MethodsInv
  <2>2. misuse' = "none" => obj'[cur].method = eccx08_ec /\ ~Stale(obj[cur])'
    BY <1>1, <1>4 DEF Stale
  <2> QED
    BY <1>1, <1>2, <1>3, <1>4, <1>5, <2>1, <2>2, MethodsStay DEF MethodsInv, PasswordsTypeOK
<1>7. LoadPassword'
  BY <1>1, <1>2, <1>3 DEF LoadPassword, Identifies, storeVars
<1>8. KeyPassword(cur)' /\ NotDerived(cur)'
  BY <1>1, <1>2, <1>3, <1>4, BeforePasswords
  DEF KeyPassword, NotDerived, LetIn, Identifies, storeVars
<1>9. misuse' # "password"
  BY <1>1
<1> QED
  BY <1>1, <1>3, <1>4, <1>5, <1>6, <1>7, <1>8, <1>9, PasswordsTouch

LEMMA AssembleKeeps == ASSUME KeysInv, PasswordsInv, Assemble PROVE PasswordsInv'
<1>1. /\ misuse = "none" /\ misuse' = "none" /\ at = "group" /\ at' = "method"
      /\ UNCHANGED <<obj, app, ctx, wish, op, cur, passwd_id, ok, lifeVars, storeVars>>
  BY DEF Assemble, At, keyVars
<1>2. PasswordsTypeOK /\ StoreInv /\ MethodsInv /\ LoadPassword
  BY <1>1, BeforePasswords
<1>3. StoreKept /\ StoreInv' /\ MethodKept
  BY <1>1, <1>2, StoreStays DEF MethodKept, lifeVars
<1>4. MethodsInv'
  BY <1>1, <1>2 DEF MethodsInv, lifeVars, Stale
<1>5. LoadPassword' /\ \A k \in Keys : LetIn(k)' => LetIn(k)
  BY <1>1, <1>2 DEF LoadPassword, Identifies, LetIn, storeVars
<1> QED
  BY <1>1, <1>3, <1>4, <1>5, PasswordsStay

LEMMA NotBuiltKeeps == ASSUME KeysInv, PasswordsInv, NotBuilt PROVE PasswordsInv'
<1>1. /\ misuse = "none" /\ misuse' = "pkey" /\ at \in {"info", "eckey", "group"} /\ at' = "out"
      /\ obj' = [obj EXCEPT ![cur] = Nothing]
      /\ UNCHANGED <<app, ctx, wish, cur, lifeVars, storeVars>>
  BY DEF NotBuilt, At
<1>2. PasswordsTypeOK /\ RefsInv /\ StoreInv
  BY <1>1, BeforePasswords
<1>3. cur \in Keys /\ ~app[cur]
  BY <1>1, <1>2 DEF RefsInv, KeyRefs, InReload, InLoad
<1>4. obj'[cur].eckey = 0 /\ \A k \in Keys : k # cur => obj'[k] = obj[k]
  BY <1>1, <1>2, <1>3 DEF PasswordsTypeOK, KeysTypeOK, Nothing
<1>5. StoreKept /\ MethodKept
  BY <1>1, <1>2, StoreStays DEF MethodKept, lifeVars
<1>6. KeyPassword(cur)' /\ NotDerived(cur)'
  BY <1>1, <1>3, <1>4, KeyGone DEF LetIn
<1> QED
  BY <1>1, <1>3, <1>4, <1>5, <1>6, PasswordsTouch

LEMMA SetMethodKeeps == ASSUME KeysInv, PasswordsInv, SetMethod PROVE PasswordsInv'
<1>1. /\ misuse = "none" /\ at = "method" /\ at' = "get1"
      /\ misuse' = (IF eccx08_ec' = 0 THEN "method" ELSE "none")
      /\ obj' = [obj EXCEPT ![cur].method = eccx08_ec, ![cur].engine = FALSE]
      /\ UNCHANGED <<app, ctx, wish, op, cur, passwd_id, ok, storeVars>>
      /\ UNCHANGED <<binds, bound, engine_ec>> /\ MethodKept
  BY DEF SetMethod, At, DropReference, eccx08_finish, eccx08_ec_cleanup, MethodKept
<1>2. /\ PasswordsTypeOK /\ RefsInv /\ StoreInv /\ MethodsInv /\ LoadPassword
      /\ \A k \in Keys : KeyPassword(k) /\ NotDerived(k)
  BY <1>1, BeforePasswords
<1>3. cur \in Keys /\ op # "reload" /\ ~app[cur] /\ obj[cur].eckey = 1
  BY <1>1, <1>2 DEF RefsInv, KeyRefs, InReload, InLoad, Refs
<1>4. obj[cur].method = eccx08_ec /\ eccx08_ec # 0
  BY <1>1, <1>2, <1>3 DEF MethodsInv, Stale
<1>5. /\ obj'[cur].pid = obj[cur].pid /\ obj'[cur].derived = obj[cur].derived
      /\ obj'[cur].method = obj[cur].method /\ obj'[cur].eckey = obj[cur].eckey
      /\ \A k \in Keys : k # cur => obj'[k] = obj[k]
  BY <1>1, <1>2, <1>3, <1>4 DEF PasswordsTypeOK, KeysTypeOK, KeyObjects
<1>6. StoreKept /\ StoreInv'
  BY <1>1, <1>2, StoreStays
<1>7. MethodsInv'
  BY <1>1, <1>2, <1>3, <1>4, <1>5, MethodsStay DEF MethodsInv, PasswordsTypeOK
<1>8. LoadPassword'
  BY <1>1, <1>2, <1>3 DEF LoadPassword, Identifies, storeVars
<1>9. KeyPassword(cur)' /\ NotDerived(cur)'
  BY <1>1, <1>3, <1>5, <1>6, KeyStays DEF LetIn
<1> QED
  BY <1>1, <1>3, <1>5, <1>6, <1>7, <1>8, <1>9, PasswordsTouch

LEMMA Get1Keeps == ASSUME KeysInv, PasswordsInv, Get1 PROVE PasswordsInv'
<1>1. /\ misuse = "none" /\ misuse' = "none" /\ at = "get1" /\ at' = "session"
      /\ obj' = [obj EXCEPT ![cur].eckey = @ + 1]
      /\ UNCHANGED <<app, ctx, wish, op, cur, passwd_id, ok, lifeVars, storeVars>>
  BY DEF Get1, At
<1>2. /\ PasswordsTypeOK /\ RefsInv /\ StoreInv /\ MethodsInv /\ LoadPassword
  BY <1>1, BeforePasswords
<1>3. cur \in Keys /\ obj[cur].eckey = 1
  BY <1>1, <1>2 DEF RefsInv, KeyRefs, InReload, InLoad, Refs
<1>4. /\ obj'[cur].pid = obj[cur].pid /\ obj'[cur].derived = obj[cur].derived
      /\ obj'[cur].method = obj[cur].method
      /\ \A k \in Keys : k # cur => obj'[k] = obj[k]
  BY <1>1, <1>2, <1>3 DEF PasswordsTypeOK, KeysTypeOK, KeyObjects
<1>5. StoreKept /\ StoreInv' /\ MethodKept
  BY <1>1, <1>2, StoreStays DEF MethodKept, lifeVars
<1>6. MethodsInv'
  BY <1>1, <1>2, <1>3, <1>4, <1>5, MethodsStay DEF MethodsInv, PasswordsTypeOK, lifeVars
<1>7. LoadPassword'
  BY <1>1, <1>2, <1>4 DEF LoadPassword, Identifies, storeVars
<1>8. KeyPassword(cur)' /\ NotDerived(cur)'
  BY <1>1, <1>3, <1>4, <1>5, KeyStays DEF LetIn
<1> QED
  BY <1>1, <1>3, <1>4, <1>5, <1>6, <1>7, <1>8, PasswordsTouch

LEMMA SessionFailsKeeps == ASSUME KeysInv, PasswordsInv, SessionFails PROVE PasswordsInv'
<1>1. /\ misuse = "none" /\ misuse' = "none" /\ at = "session" /\ at' = "free" /\ ok' = FALSE
      /\ UNCHANGED <<obj, app, ctx, wish, op, cur, passwd_id, lifeVars, storeVars>>
  BY DEF SessionFails, At, keyVars
<1>2. PasswordsTypeOK /\ StoreInv /\ MethodsInv /\ LoadPassword
  BY <1>1, BeforePasswords
<1>3. StoreKept /\ StoreInv' /\ MethodKept
  BY <1>1, <1>2, StoreStays DEF MethodKept, lifeVars
<1>4. MethodsInv'
  BY <1>1, <1>2 DEF MethodsInv, lifeVars, Stale
<1>5. LoadPassword' /\ \A k \in Keys : LetIn(k)' => LetIn(k)
  BY <1>1, <1>2 DEF LoadPassword, Identifies, LetIn, storeVars
<1> QED
  BY <1>1, <1>3, <1>4, <1>5, PasswordsStay

\* A load's own identifier points into the store, and so does a reload's unless the key
\* was loaded without an identifier.
LEMMA LoadHasPassword ==
    ASSUME KeysInv, PasswordsInv, misuse = "none", at = "session", wish[cur].id # "NULL" \/ op # "reload"
    PROVE  passwd_id \in Entries \cup {NOPASSWD_ID}
<1>1. RefsInv /\ LoadPassword /\ \A k \in Keys : KeyPassword(k) /\ (app[k] => obj[k].eckey > 0)
  BY BeforePasswords
<1>2. CASE op = "reload"
  <2>1. cur \in Keys /\ app[cur] /\ passwd_id = obj[cur].pid
    BY <1>1, <1>2 DEF RefsInv, KeyRefs, InReload, LoadPassword
  <2> QED
    BY <1>1, <1>2, <2>1 DEF KeyPassword
<1>3. CASE op # "reload"
  BY <1>1, <1>3 DEF LoadPassword, Identifies
<1> QED
  BY <1>2, <1>3

LEMMA NoPasswordKeeps == ASSUME KeysInv, PasswordsInv, NoPassword PROVE PasswordsInv'
<1>1. /\ misuse = "none" /\ misuse' = "password" /\ at = "session" /\ at' = "out"
      /\ passwd_id # NOPASSWD_ID /\ eccx08_get_password(passwd_id) = NullPointer
      /\ UNCHANGED <<obj, app, ctx, wish, lifeVars, storeVars>>
  BY DEF NoPassword, At, keyVars
<1>2. PasswordsTypeOK /\ RefsInv /\ StoreInv
  BY <1>1, BeforePasswords
<1>3. cur \in Keys /\ passwd_id \in 0..NOPASSWD_ID
  BY <1>1, <1>2 DEF RefsInv, PasswordsTypeOK, LoadTypeOK
<1>4. passwd_id \notin Entries
  BY <1>1, <1>3, StoreAssumption DEF eccx08_get_password, NullPointer, NOPASSWD_ID, Entries
<1>5. NoPasswordOnlyIfFull'
  BY <1>1, <1>3, <1>4, LoadHasPassword DEF NoPasswordOnlyIfFull
<1>6. StoreKept /\ MethodKept /\ \A k \in Keys : LetIn(k)' => LetIn(k)
  BY <1>1, <1>2, StoreStays DEF MethodKept, lifeVars, LetIn
<1> QED
  BY <1>1, <1>5, <1>6, PasswordsStay

\* The chip has compared the key's own password.
LEMMA ReadPublicKeyKeeps == ASSUME KeysInv, PasswordsInv, ReadPublicKey PROVE PasswordsInv'
<1>1. /\ misuse = "none" /\ at = "session" /\ at' = "free"
      /\ UNCHANGED <<app, ctx, wish, op, cur, passwd_id, ok, lifeVars, storeVars>>
  BY DEF ReadPublicKey, At
<1>2. /\ PasswordsTypeOK /\ RefsInv /\ StoreInv /\ MethodsInv /\ LoadPassword
      /\ \A k \in Keys : /\ KeyPassword(k) /\ NotDerived(k)
                         /\ app[k] => obj[k].eckey > 0
  BY <1>1, BeforePasswords
<1>3. cur \in Keys /\ obj[cur].eckey = 2 /\ (op = "reload" => app[cur]) /\ (op # "reload" => ~app[cur])
  BY <1>1, <1>2 DEF RefsInv, KeyRefs, InReload, InLoad, Refs
<1>4. StoreKept /\ StoreInv' /\ MethodKept
  BY <1>1, <1>2, StoreStays DEF MethodKept, lifeVars
<1>5. PICK derived \in BOOLEAN : Authorizes(derived) /\ Convert(obj[cur].slot, derived)
  BY DEF ReadPublicKey
<1>6. CASE Stale(obj[cur])
  <2>1. misuse' = "method" /\ obj' = obj
    BY <1>5, <1>6 DEF Convert
  <2>2. \A k \in Keys : LetIn(k)' => LetIn(k)
    BY <1>1, <2>1 DEF LetIn
  <2> QED
    BY <1>1, <1>4, <2>1, <2>2, PasswordsStay
<1>7. CASE ~Stale(obj[cur])
  <2>1. PICK pub \in {obj[cur].slot, obj[cur].pub} :
             /\ misuse' = "none"
             /\ obj' = [obj EXCEPT ![cur].pub = pub, ![cur].derived = derived]
    BY <1>5, <1>7 DEF Convert, Fine
  <2>2. /\ obj'[cur].pid = obj[cur].pid /\ obj'[cur].derived = derived
        /\ obj'[cur].method = obj[cur].method /\ obj'[cur].eckey = obj[cur].eckey
        /\ \A k \in Keys : k # cur => obj'[k] = obj[k]
    BY <1>2, <1>3, <2>1 DEF PasswordsTypeOK, KeysTypeOK, KeyObjects
  <2>3. MethodsInv'
    BY <1>1, <1>2, <1>3, <1>4, <2>2, MethodsStay DEF MethodsInv, PasswordsTypeOK, lifeVars
  <2>4. LoadPassword'
    BY <1>1, <1>2, <2>2 DEF LoadPassword, Identifies, storeVars
  <2>5. wish[cur].id # "NULL" => Identifies(passwd_id, wish[cur].password)
    BY <1>1, <1>2, <1>3, <1>7 DEF LoadPassword, KeyPassword
  <2>6. wish[cur].id # "NULL" /\ wish[cur].password = "wrong" => ~derived
    <3>1. SUFFICES ASSUME Identifies(passwd_id, "wrong") PROVE ~derived
      BY <2>5
    <3>2. passwd_id \in Entries /\ passwords[passwd_id] = "wrong" /\ passwd_id # NOPASSWD_ID
          /\ eccx08_get_password(passwd_id) = passwd_id
      BY <3>1, StoreAssumption DEF Identifies, Entries, NOPASSWD_ID, eccx08_get_password
    <3> QED
      BY <1>5, <3>2 DEF Authorizes, eccx08_auth_password
  <2>7. NotDerived(cur)'
    BY <1>1, <2>2, <2>6 DEF NotDerived
  <2>8. KeyPassword(cur)'
    BY <1>1, <1>2, <1>3, <2>2 DEF KeyPassword, Identifies, Stale, lifeVars, storeVars
  <2> QED
    BY <1>1, <1>3, <1>4, <2>1, <2>2, <2>3, <2>4, <2>7, <2>8, PasswordsTouch
<1> QED
  BY <1>6, <1>7

LEMMA FreeKeeps == ASSUME KeysInv, PasswordsInv, Free PROVE PasswordsInv'
<1> DEFINE b == Balanced(obj[cur])
<1>1. /\ misuse = "none" /\ misuse' = "none" /\ at = "free" /\ at' = "return"
      /\ obj' = [obj EXCEPT ![cur] = IF ~ok /\ op # "reload" THEN AfterFree(b) ELSE b]
      /\ UNCHANGED <<app, ctx, wish, op, cur, passwd_id, ok, lifeVars, storeVars>>
  BY DEF Free, At, PkeyIsOurs
<1>2. PasswordsTypeOK /\ RefsInv /\ StoreInv /\ MethodsInv /\ LoadPassword
  BY <1>1, BeforePasswords
<1>3. /\ cur \in Keys /\ obj[cur].eckey = 2 /\ obj[cur] \in KeyObjects
      /\ op # "reload" => obj[cur].pkey = 1 /\ ~app[cur]
  BY <1>1, <1>2 DEF RefsInv, KeyRefs, InReload, InLoad, Refs, PasswordsTypeOK, KeysTypeOK
<1>4. /\ obj'[cur] = IF ~ok /\ op # "reload" THEN AfterFree(b) ELSE b
      /\ \A k \in Keys : k # cur => obj'[k] = obj[k]
  BY <1>1, <1>2, <1>3 DEF PasswordsTypeOK, KeysTypeOK
<1>5. /\ b.pkey = obj[cur].pkey /\ b.eckey = 1 /\ b.pid = obj[cur].pid
      /\ b.derived = obj[cur].derived /\ b.method = obj[cur].method
  BY <1>3 DEF Balanced, KeyObjects
<1>6. StoreKept /\ StoreInv' /\ MethodKept
  BY <1>1, <1>2, StoreStays DEF MethodKept, lifeVars
<1>7. CASE ~ok /\ op # "reload"
  <2>1. obj'[cur].eckey = 0 /\ obj'[cur].method = 0
    BY <1>3, <1>4, <1>5, <1>7 DEF AfterFree, Nothing
  <2>2. MethodsInv'
    BY <1>1, <1>2, <1>4, <1>6, <2>1, MethodsStay DEF MethodsInv, PasswordsTypeOK, lifeVars
  <2>3. LoadPassword'
    BY <1>1, <1>2, <1>7 DEF LoadPassword, Identifies, storeVars
  <2>4. KeyPassword(cur)' /\ NotDerived(cur)'
    BY <1>1, <1>3, <1>7, <2>1, KeyGone DEF LetIn
  <2> QED
    BY <1>1, <1>3, <1>4, <1>6, <2>2, <2>3, <2>4, PasswordsTouch
<1>8. CASE ok \/ op = "reload"
  <2>1. /\ obj'[cur].pid = obj[cur].pid /\ obj'[cur].derived = obj[cur].derived
        /\ obj'[cur].method = obj[cur].method /\ obj'[cur].eckey = 1
    BY <1>4, <1>5, <1>8
  <2>2. MethodsInv'
    BY <1>1, <1>2, <1>3, <1>4, <1>6, <2>1, MethodsStay DEF MethodsInv, PasswordsTypeOK, lifeVars
  <2>3. LoadPassword'
    BY <1>1, <1>2, <2>1 DEF LoadPassword, Identifies, storeVars
  <2>4. KeyPassword(cur)' /\ NotDerived(cur)'
    BY <1>1, <1>3, <1>6, <2>1, KeyStays DEF LetIn
  <2> QED
    BY <1>1, <1>3, <1>4, <1>6, <2>2, <2>3, <2>4, PasswordsTouch
<1> QED
  BY <1>7, <1>8

(***************************************************************************)
(* The passwords: the returns.                                             *)
(***************************************************************************)
\* EVP_PKEY_free of a key that is the application's as long as it is there.
LEMMA FreedPasswords ==
    ASSUME KeysInv, PasswordsInv, misuse = "none", NEW k \in Keys, EVP_PKEY_free(k),
           obj[k].pkey > 0, obj[k].eckey = 1, StoreKept, MethodKept,
           app'[k] => app[k] /\ obj[k].pkey # 1,
           wish'[k] = wish[k] \/ obj[k].pkey = 1,
           at' = "out"
    PROVE  /\ KeyPassword(k)' /\ NotDerived(k)'
           /\ \A l \in Keys : l # k => obj'[l] = obj[l]
           /\ obj'[k].method \in {0, obj[k].method}
           /\ obj'[k].eckey > 0 => obj'[k].method # 0
           /\ misuse' \in {"none", "method"}
<1>1. KeysTypeOK /\ MethodsInv /\ obj[k] \in KeyObjects
  BY BeforePasswords DEF PasswordsTypeOK, KeysTypeOK
<1>2. \A l \in Keys : l # k => obj'[l] = obj[l]
  BY <1>1, Freed
<1>3. misuse' \in {"none", "method"}
  BY <1>1, Freed
<1>4. CASE obj[k].pkey = 1
  <2>1. obj'[k].eckey = 0 /\ obj'[k].method = 0
    <3>1. obj'[k] = Nothing
      BY <1>1, <1>4, Freed
    <3> QED
      BY <3>1 DEF Nothing
  <2>2. KeyPassword(k)' /\ NotDerived(k)'
    BY <1>4, <2>1, KeyGone DEF LetIn
  <2> QED
    BY <1>2, <1>3, <2>1, <2>2
<1>5. CASE obj[k].pkey # 1
  <2>1. obj'[k] = [obj[k] EXCEPT !.pkey = obj[k].pkey - 1]
    BY <1>1, <1>5, Freed
  <2>2. /\ obj'[k].pid = obj[k].pid /\ obj'[k].derived = obj[k].derived
        /\ obj'[k].method = obj[k].method /\ obj'[k].eckey = 1
    BY <1>1, <2>1 DEF KeyObjects
  <2>3. obj[k].method # 0
    BY <1>1 DEF MethodsInv
  <2>4. KeyPassword(k)' /\ NotDerived(k)'
    BY <1>5, <2>2, KeyStays DEF LetIn
  <2> QED
    BY <1>2, <1>3, <2>2, <2>3, <2>4
<1> QED
  BY <1>4, <1>5

LEMMA ReturnKeyKeeps == ASSUME KeysInv, PasswordsInv, ReturnKey PROVE PasswordsInv'
<1>1. /\ misuse = "none" /\ misuse' = "none" /\ at = "return" /\ at' = "out" /\ op = "load"
      /\ app' = [app EXCEPT ![cur] = ok]
      /\ wish' = IF ok THEN wish ELSE [wish EXCEPT ![cur] = NoWish]
      /\ UNCHANGED <<obj, lifeVars, storeVars>>
  BY DEF ReturnKey, Done, At
<1>2. /\ PasswordsTypeOK /\ RefsInv /\ StoreInv /\ MethodsInv
      /\ \A k \in Keys : KeyPassword(k) /\ NotDerived(k)
  BY <1>1, BeforePasswords
<1>3. PICK c \in Keys : c = cur
  BY <1>1, <1>2 DEF RefsInv
<1>4. IF ok THEN Refs(c, 1, 1) ELSE obj[c] = Nothing
  BY <1>1, <1>2, <1>3 DEF RefsInv, KeyRefs, InLoad
<1>5. /\ app'[c] = ok /\ (ok => wish'[c] = wish[c])
      /\ \A k \in Keys : k # c => app'[k] = app[k] /\ wish'[k] = wish[k]
  BY <1>1, <1>2, <1>3 DEF PasswordsTypeOK, KeysTypeOK
<1>6. StoreKept /\ StoreInv' /\ MethodKept
  BY <1>1, <1>2, StoreStays DEF MethodKept, lifeVars
<1>7. MethodsInv' /\ LoadPassword'
  BY <1>1, <1>2 DEF MethodsInv, LoadPassword, lifeVars, Stale
<1>8. CASE ok
  <2>1. KeyPassword(c)'
    BY <1>1, <1>2, <1>3, <1>4, <1>5, <1>8
    DEF KeyPassword, Refs, Identifies, Stale, lifeVars, storeVars
  <2>2. NotDerived(c)'
    BY <1>1, <1>2, <1>3, <1>5, <1>8 DEF NotDerived, LetIn
  <2> QED
    BY <1>1, <1>3, <1>5, <1>6, <1>7, <2>1, <2>2, PasswordsTouch
<1>9. CASE ~ok
  <2>1. KeyPassword(c)' /\ NotDerived(c)'
    BY <1>1, <1>3, <1>4, <1>5, <1>9, KeyGone DEF LetIn, Nothing
  <2> QED
    BY <1>1, <1>3, <1>5, <1>6, <1>7, <2>1, PasswordsTouch
<1> QED
  BY <1>8, <1>9

LEMMA ReturnKeyFileKeeps == ASSUME KeysInv, PasswordsInv, ReturnKeyFile PROVE PasswordsInv'
<1>1. /\ misuse = "none" /\ at = "return" /\ at' = "out" /\ op = "get_key"
      /\ IF ok THEN EVP_PKEY_free(cur) ELSE obj' = obj /\ misuse' = misuse
      /\ wish' = [wish EXCEPT ![cur] = NoWish]
      /\ UNCHANGED <<app, lifeVars, storeVars>>
  BY DEF ReturnKeyFile, Done, At
<1>2. /\ PasswordsTypeOK /\ RefsInv /\ StoreInv /\ MethodsInv
  BY <1>1, BeforePasswords
<1>3. PICK c \in Keys : c = cur
  BY <1>1, <1>2 DEF RefsInv
<1>4. ~app[c] /\ IF ok THEN Refs(c, 1, 1) ELSE obj[c] = Nothing
  BY <1>1, <1>2, <1>3 DEF RefsInv, KeyRefs, InLoad
<1>5. \A k \in Keys : k # c => wish'[k] = wish[k]
  BY <1>1, <1>2, <1>3 DEF PasswordsTypeOK, KeysTypeOK
<1>6. StoreKept /\ StoreInv' /\ MethodKept
  BY <1>1, <1>2, StoreStays DEF MethodKept, lifeVars
<1>7. CASE ok
  <2>1. EVP_PKEY_free(c) /\ obj[c].pkey = 1 /\ obj[c].eckey = 1
    BY <1>1, <1>3, <1>4, <1>7 DEF Refs
  <2>2. /\ KeyPassword(c)' /\ NotDerived(c)'
        /\ \A l \in Keys : l # c => obj'[l] = obj[l]
        /\ obj'[c].method \in {0, obj[c].method}
        /\ obj'[c].eckey > 0 => obj'[c].method # 0
        /\ misuse' \in {"none", "method"}
    BY <1>1, <1>4, <1>6, <2>1, FreedPasswords
  <2>3. MethodsInv'
    BY <1>1, <1>2, <1>6, <2>2, MethodsStay DEF MethodsInv, PasswordsTypeOK, lifeVars
  <2>4. LoadPassword'
    BY <1>1 DEF LoadPassword
  <2> QED
    BY <1>1, <1>3, <1>5, <1>6, <2>2, <2>3, <2>4, PasswordsTouch
<1>8. CASE ~ok
  <2>1. KeyPassword(c)' /\ NotDerived(c)'
    BY <1>1, <1>4, <1>8, KeyGone DEF LetIn, Nothing
  <2>2. MethodsInv' /\ LoadPassword'
    BY <1>1, <1>2, <1>8 DEF MethodsInv, LoadPassword, lifeVars, Stale
  <2> QED
    BY <1>1, <1>3, <1>5, <1>6, <1>8, <2>1, <2>2, PasswordsTouch
<1> QED
  BY <1>7, <1>8

LEMMA ReturnContextKeeps == ASSUME KeysInv, PasswordsInv, ReturnContext PROVE PasswordsInv'
<1>1. PICK initialized \in BOOLEAN :
        IF initialized THEN UNCHANGED <<obj, misuse, lifeVars>>
                       ELSE EVP_PKEY_free(cur) /\ DropReference
  BY DEF ReturnContext, LoadTypeOK, KeysInv, TypeOK
<1>2. /\ misuse = "none" /\ at = "return" /\ at' = "out" /\ op = "reload"
      /\ UNCHANGED <<app, wish, storeVars>>
  BY DEF ReturnContext, Done, At
<1>3. PasswordsTypeOK /\ RefsInv /\ StoreInv /\ MethodsInv
  BY <1>2, BeforePasswords
<1>4. PICK c \in Keys : c = cur
  BY <1>2, <1>3 DEF RefsInv
<1>5. app[c] /\ obj[c].pkey = 2 /\ obj[c].eckey = 1
  BY <1>2, <1>3, <1>4 DEF RefsInv, KeyRefs, InReload, Refs
<1>6. StoreKept /\ StoreInv' /\ LoadPassword'
  BY <1>2, <1>3, StoreStays DEF LoadPassword
<1>7. CASE initialized
  <2>1. MethodKept /\ MethodsInv' /\ \A k \in Keys : LetIn(k)' => LetIn(k)
    BY <1>1, <1>2, <1>3, <1>7 DEF MethodKept, MethodsInv, lifeVars, Stale, LetIn
  <2> QED
    BY <1>1, <1>2, <1>6, <1>7, <2>1, PasswordsStay
<1>8. CASE ~initialized
  <2>1. EVP_PKEY_free(c) /\ DropReference
    BY <1>1, <1>4, <1>8
  <2>2. MethodKept /\ UNCHANGED <<binds, bound, engine_ec>>
    BY <2>1 DEF DropReference, eccx08_finish, eccx08_ec_cleanup, MethodKept
  <2>3. /\ KeyPassword(c)' /\ NotDerived(c)'
        /\ \A l \in Keys : l # c => obj'[l] = obj[l]
        /\ obj'[c].method \in {0, obj[c].method}
        /\ obj'[c].eckey > 0 => obj'[c].method # 0
        /\ misuse' \in {"none", "method"}
    BY <1>2, <1>5, <1>6, <2>1, <2>2, FreedPasswords
  <2>4. MethodsInv'
    BY <1>2, <1>3, <2>2, <2>3, MethodsStay DEF MethodsInv, PasswordsTypeOK
  <2> QED
    BY <1>2, <1>4, <1>6, <2>2, <2>3, <2>4, PasswordsTouch
<1> QED
  BY <1>7, <1>8

(***************************************************************************)
(* The passwords: the application's calls.                                 *)
(***************************************************************************)
LEMMA LoadKeeps == ASSUME KeysInv, PasswordsInv, NEW k \in Keys, Load(k) PROVE PasswordsInv'
<1>1. PICK id \in Slots \cup OtherIds, given \in Given :
        Start("load", k, NOPASSWD_ID, [id |-> id, slot |-> id, password |-> given],
              IF eccx08_cbdata_to_password(given) THEN "password" ELSE "new")
  BY DEF Load
<1>2. /\ misuse = "none" /\ misuse' = "none" /\ at = "out" /\ cur' = k /\ op' = "load"
      /\ at' = (IF given # "none" THEN "password" ELSE "new") /\ passwd_id' = NOPASSWD_ID
      /\ wish' = [wish EXCEPT ![k] = [id |-> id, slot |-> id, password |-> given]]
      /\ UNCHANGED <<obj, app, ctx, lifeVars, storeVars>>
      /\ funct_ref > 0 /\ obj[k] = Nothing /\ ~app[k]
  BY <1>1 DEF Load, Start, At, Vacant, eccx08_cbdata_to_password
<1>3. PasswordsTypeOK /\ StoreInv /\ MethodsInv
  BY <1>2, BeforePasswords
<1>4. /\ wish'[k].password = given
      /\ \A l \in Keys : l # k => wish'[l] = wish[l]
  BY <1>2, <1>3 DEF PasswordsTypeOK, KeysTypeOK
<1>5. StoreKept /\ StoreInv' /\ MethodKept
  BY <1>2, <1>3, StoreStays DEF MethodKept, lifeVars
<1>6. MethodsInv'
  BY <1>2, <1>3 DEF MethodsInv, lifeVars
<1>7. LoadPassword'
  BY <1>2, <1>4 DEF LoadPassword, Identifies
<1>8. KeyPassword(k)' /\ NotDerived(k)'
  BY <1>2, KeyGone DEF LetIn, Nothing
<1> QED
  BY <1>2, <1>4, <1>5, <1>6, <1>7, <1>8, PasswordsTouch

LEMMA get_keyKeeps == ASSUME KeysInv, PasswordsInv, NEW k \in Keys, get_key(k) PROVE PasswordsInv'
<1>1. /\ misuse = "none" /\ misuse' \in {"none", "config"} /\ at = "out" /\ at' = "new"
      /\ cur' = k /\ op' = "get_key" /\ passwd_id' = NOPASSWD_ID
      /\ wish' = [wish EXCEPT ![k] = [id |-> device_key_slot, slot |-> device_key_slot,
                                      password |-> "none"]]
      /\ UNCHANGED <<obj, app, ctx, lifeVars, storeVars>>
      /\ bound /\ obj[k] = Nothing /\ ~app[k]
  BY DEF get_key, Start, At, Vacant
<1>2. PasswordsTypeOK /\ StoreInv /\ MethodsInv
  BY <1>1, BeforePasswords
<1>3. /\ wish'[k].password = "none"
      /\ \A l \in Keys : l # k => wish'[l] = wish[l]
  BY <1>1, <1>2 DEF PasswordsTypeOK, KeysTypeOK
<1>4. StoreKept /\ StoreInv' /\ MethodKept
  BY <1>1, <1>2, StoreStays DEF MethodKept, lifeVars
<1>5. MethodsInv'
  BY <1>1, <1>2 DEF MethodsInv, lifeVars
<1>6. LoadPassword'
  BY <1>1, <1>3 DEF LoadPassword, Identifies
<1>7. KeyPassword(k)' /\ NotDerived(k)'
  BY <1>1, KeyGone DEF LetIn, Nothing
<1> QED
  BY <1>1, <1>3, <1>4, <1>5, <1>6, <1>7, PasswordsTouch

LEMMA eccx08_pkey_ec_initKeeps ==
    ASSUME KeysInv, PasswordsInv, NEW k \in Keys, eccx08_pkey_ec_init(k)
    PROVE  PasswordsInv'
<1>1. /\ misuse = "none" /\ misuse' = "none" /\ at = "out" /\ at' = "get1"
      /\ cur' = k /\ op' = "reload" /\ passwd_id' = obj[k].pid
      /\ obj' = [obj EXCEPT ![k].pkey = @ + 1]
      /\ UNCHANGED <<app, wish, storeVars, binds, bound, eccx08_ec, engine_ec>>
      /\ bound /\ app[k]
  BY DEF eccx08_pkey_ec_init, Start, At, TakeReference, eccx08_pmeth_selector, eccx08_pkey_isx08key
<1>2. PasswordsTypeOK /\ StoreInv /\ MethodsInv /\ obj[k].eckey > 0
  BY <1>1, BeforePasswords
<1>3. /\ obj'[k].pid = obj[k].pid /\ obj'[k].derived = obj[k].derived
      /\ obj'[k].method = obj[k].method /\ obj'[k].eckey = obj[k].eckey
      /\ \A l \in Keys : l # k => obj'[l] = obj[l]
  BY <1>1, <1>2 DEF PasswordsTypeOK, KeysTypeOK, KeyObjects
<1>4. StoreKept /\ StoreInv' /\ MethodKept
  BY <1>1, <1>2, StoreStays DEF MethodKept
<1>5. MethodsInv'
  BY <1>1, <1>2, <1>3, <1>4, MethodsStay DEF MethodsInv, PasswordsTypeOK
<1>6. LoadPassword'
  BY <1>1, <1>3 DEF LoadPassword
<1>7. KeyPassword(k)' /\ NotDerived(k)'
  BY <1>1, <1>2, <1>3, <1>4, KeyStays DEF LetIn
<1> QED
  BY <1>1, <1>3, <1>4, <1>5, <1>6, <1>7, PasswordsTouch

\* A step that changes no key and none of the engine's methods.
LEMMA PasswordsUntouched ==
    ASSUME KeysInv, PasswordsInv, misuse = "none", at = "out",
           UNCHANGED <<obj, app, wish, loadVars, storeVars>>,
           UNCHANGED <<binds, bound, engine_ec>>, MethodKept,
           funct_ref' > 0 => bound,
           misuse' # "password" \/ NoPasswordOnlyIfFull'
    PROVE  PasswordsInv'
<1>1. /\ PasswordsTypeOK /\ StoreInv /\ MethodsInv /\ at' = "out"
      /\ UNCHANGED <<at, op, cur, ok>>
  BY BeforePasswords DEF loadVars
<1>2. StoreKept /\ StoreInv'
  BY <1>1, StoreStays
<1>3. MethodsInv'
  BY <1>1, MethodsStay DEF MethodsInv, PasswordsTypeOK
<1>4. LoadPassword' /\ \A k \in Keys : LetIn(k)' => LetIn(k)
  BY <1>1 DEF LoadPassword, LetIn
<1> QED
  BY <1>1, <1>2, <1>3, <1>4, PasswordsStay

LEMMA SignKeeps == ASSUME KeysInv, PasswordsInv, NEW k \in Keys, Sign(k) PROVE PasswordsInv'
<1>1. /\ misuse = "none" /\ at = "out" /\ app[k]
      /\ UNCHANGED <<obj, app, wish, loadVars, storeVars, binds, bound, engine_ec, eccx08_ec, funct_ref>>
      /\ misuse' = "password" => /\ obj[k].pid # NOPASSWD_ID
                                 /\ eccx08_get_password(obj[k].pid) = NullPointer
  BY DEF Sign, Idle, keyVars, lifeVars, eccx08_pkey_isx08key
<1>2. PasswordsTypeOK /\ MethodsInv /\ KeyPassword(k)
  BY <1>1, BeforePasswords
<1>3. obj[k].pid \in 0..NOPASSWD_ID
  BY <1>2 DEF PasswordsTypeOK, KeysTypeOK, KeyObjects
<1>4. ASSUME misuse' = "password" PROVE wish[k].id = "NULL"
  <2>1. obj[k].pid \notin Entries \cup {NOPASSWD_ID}
    BY <1>1, <1>3, <1>4, StoreAssumption DEF eccx08_get_password, NullPointer, NOPASSWD_ID, Entries
  <2> QED
    BY <1>1, <1>2, <2>1 DEF KeyPassword
<1>5. NoPasswordOnlyIfFull'
  BY <1>1, <1>4 DEF NoPasswordOnlyIfFull
<1>6. MethodKept /\ (funct_ref' > 0 => bound)
  BY <1>1, <1>2 DEF MethodKept, MethodsInv
<1> QED
  BY <1>1, <1>5, <1>6, PasswordsUntouched

LEMMA CertCommandKeeps ==
    ASSUME KeysInv, PasswordsInv, NEW d \in Defs, CertCommand(d) PROVE PasswordsInv'
<1>1. /\ misuse = "none" /\ misuse' # "password" /\ at = "out"
      /\ UNCHANGED <<obj, app, wish, loadVars, storeVars, binds, bound, engine_ec, eccx08_ec, funct_ref>>
  BY DEF CertCommand, Idle, keyVars, lifeVars
<1>2. MethodKept /\ (funct_ref' > 0 => bound)
  BY <1>1, BeforePasswords DEF MethodKept, MethodsInv
<1> QED
  BY <1>1, <1>2, PasswordsUntouched

LEMMA ConfigureKeeps == ASSUME KeysInv, PasswordsInv, Configure PROVE PasswordsInv'
<1>1. /\ misuse = "none" /\ misuse' = "none" /\ at = "out"
      /\ UNCHANGED <<obj, app, wish, loadVars, storeVars, binds, bound, engine_ec, eccx08_ec, funct_ref>>
  BY DEF Configure, Idle, keyVars, set_device_key_slot
<1>2. MethodKept /\ (funct_ref' > 0 => bound)
  BY <1>1, BeforePasswords DEF MethodKept, MethodsInv
<1> QED
  BY <1>1, <1>2, PasswordsUntouched

LEMMA InitializeKeeps == ASSUME KeysInv, PasswordsInv, Initialize PROVE PasswordsInv'
<1>1. /\ misuse = "none" /\ misuse' = "none" /\ at = "out" /\ bound
      /\ UNCHANGED <<obj, app, wish, loadVars, storeVars, binds, bound, engine_ec, eccx08_ec>>
  BY DEF Initialize, Idle, keyVars, TakeReference
<1>2. MethodKept
  BY <1>1 DEF MethodKept
<1> QED
  BY <1>1, <1>2, PasswordsUntouched

LEMMA FinishKeeps == ASSUME KeysInv, PasswordsInv, Finish PROVE PasswordsInv'
<1>1. /\ misuse = "none" /\ misuse' = "none" /\ at = "out" /\ funct_ref' = funct_ref - 1
      /\ UNCHANGED <<obj, app, wish, loadVars, storeVars, binds, bound, engine_ec>>
      /\ MethodKept
  BY DEF Finish, Idle, keyVars, DropReference, eccx08_finish, eccx08_ec_cleanup, MethodKept
<1>2. MethodsInv /\ funct_ref \in Nat
  BY <1>1, BeforePasswords DEF PasswordsTypeOK, LifecycleTypeOK
<1>3. funct_ref' > 0 => bound
  BY <1>1, <1>2 DEF MethodsInv
<1> QED
  BY <1>1, <1>3, PasswordsUntouched

\* What FreeKey and FreeContext leave once the key is freed.
LEMMA HolderFrees ==
    ASSUME KeysInv, PasswordsInv, misuse = "none", at = "out", NEW k \in Keys,
           EVP_PKEY_free(k), obj[k].pkey > 0, obj[k].eckey = 1,
           app'[k] => app[k] /\ obj[k].pkey # 1,
           wish'[k] = wish[k] \/ obj[k].pkey = 1,
           \A l \in Keys : l # k => app'[l] = app[l] /\ wish'[l] = wish[l],
           UNCHANGED <<loadVars, storeVars, binds, bound, engine_ec>>, MethodKept,
           funct_ref' > 0 => bound
    PROVE  PasswordsInv'
<1>1. PasswordsTypeOK /\ StoreInv /\ MethodsInv /\ at' = "out"
  BY BeforePasswords DEF loadVars
<1>2. StoreKept /\ StoreInv'
  BY <1>1, StoreStays
<1>3. /\ KeyPassword(k)' /\ NotDerived(k)'
      /\ \A l \in Keys : l # k => obj'[l] = obj[l]
      /\ obj'[k].method \in {0, obj[k].method}
      /\ obj'[k].eckey > 0 => obj'[k].method # 0
      /\ misuse' \in {"none", "method"}
  BY <1>1, <1>2, FreedPasswords
<1>4. MethodsInv'
  BY <1>1, <1>3, MethodsStay DEF MethodsInv, PasswordsTypeOK
<1>5. LoadPassword'
  BY <1>1 DEF LoadPassword
<1> QED
  BY <1>1, <1>2, <1>3, <1>4, <1>5, PasswordsTouch

LEMMA FreeKeyKeeps == ASSUME KeysInv, PasswordsInv, NEW k \in Keys, FreeKey(k) PROVE PasswordsInv'
<1>1. /\ misuse = "none" /\ at = "out" /\ app[k] /\ EVP_PKEY_free(k)
      /\ app' = [app EXCEPT ![k] = FALSE]
      /\ wish' = IF ctx[k] THEN wish ELSE [wish EXCEPT ![k] = NoWish]
      /\ UNCHANGED <<loadVars, storeVars, binds, bound, engine_ec, eccx08_ec, funct_ref>>
  BY DEF FreeKey, Idle, lifeVars
<1>2. PasswordsTypeOK /\ RefsInv /\ MethodsInv
  BY <1>1, BeforePasswords
<1>3. obj[k].pkey = 1 + Count(ctx[k]) /\ obj[k].eckey = 1
  BY <1>1, <1>2 DEF RefsInv, KeyRefs, AtRest, Refs, Count
<1>4. obj[k].pkey > 0 /\ (~ctx[k] => obj[k].pkey = 1)
  BY <1>3 DEF Count
<1>5. /\ ~app'[k] /\ (wish'[k] = wish[k] \/ obj[k].pkey = 1)
      /\ \A l \in Keys : l # k => app'[l] = app[l] /\ wish'[l] = wish[l]
  BY <1>1, <1>2, <1>4 DEF PasswordsTypeOK, KeysTypeOK
<1>6. MethodKept /\ (funct_ref' > 0 => bound)
  BY <1>1, <1>2 DEF MethodKept, MethodsInv
<1> QED
  BY <1>1, <1>3, <1>4, <1>5, <1>6, HolderFrees

LEMMA FreeContextKeeps ==
    ASSUME KeysInv, PasswordsInv, NEW k \in Keys, FreeContext(k) PROVE PasswordsInv'
<1>1. /\ misuse = "none" /\ at = "out" /\ ctx[k] /\ EVP_PKEY_free(k)
      /\ wish' = IF app[k] THEN wish ELSE [wish EXCEPT ![k] = NoWish]
      /\ UNCHANGED <<app, loadVars, storeVars, binds, bound, engine_ec>>
      /\ funct_ref' = funct_ref - 1 /\ MethodKept
  BY DEF FreeContext, Idle, DropReference, eccx08_finish, eccx08_ec_cleanup, MethodKept
<1>2. PasswordsTypeOK /\ RefsInv /\ MethodsInv
  BY <1>1, BeforePasswords
<1>3. obj[k].pkey = Count(app[k]) + 1 /\ obj[k].eckey = 1
  BY <1>1, <1>2 DEF RefsInv, KeyRefs, AtRest, Refs, Count
<1>4. obj[k].pkey > 0 /\ (IF app[k] THEN obj[k].pkey # 1 ELSE obj[k].pkey = 1)
  BY <1>3 DEF Count
<1>5. /\ wish'[k] = wish[k] \/ obj[k].pkey = 1
      /\ \A l \in Keys : l # k => wish'[l] = wish[l]
  BY <1>1, <1>2, <1>4 DEF PasswordsTypeOK, KeysTypeOK
<1>6. funct_ref' > 0 => bound
  BY <1>1, <1>2 DEF MethodsInv, PasswordsTypeOK, LifecycleTypeOK
<1> QED
  BY <1>1, <1>3, <1>4, <1>5, <1>6, HolderFrees

(***************************************************************************)
(* The passwords: the ENGINE comes and goes.                               *)
(***************************************************************************)
\* Every key that is left has a method that is not the engine's any more.
LEMMA Orphaned ==
    ASSUME KeysInv, PasswordsInv, misuse = "none", at = "out",
           UNCHANGED <<obj, app, wish, loadVars>>, misuse' = "none",
           \A k \in Keys : obj[k].eckey > 0 => obj[k].method # eccx08_ec',
           (StoreInv /\ MethodsInv)'
    PROVE  PasswordsInv'
<1>1. /\ \A k \in Keys : /\ KeyPassword(k) /\ NotDerived(k)
                         /\ app[k] => obj[k].eckey > 0
      /\ UNCHANGED <<at, cur, op, ok>>
  BY BeforePasswords DEF loadVars
<1>2. ASSUME NEW k \in Keys PROVE KeyPassword(k)' /\ NotDerived(k)'
  <2>1. obj[k].eckey > 0 => Stale(obj[k])'
    BY DEF Stale
  <2>2. KeyPassword(k)'
    BY <1>1, <2>1 DEF KeyPassword
  <2>3. NotDerived(k)'
    BY <1>1 DEF NotDerived, LetIn
  <2> QED
    BY <2>2, <2>3
<1>3. LoadPassword' /\ NoPasswordOnlyIfFull'
  BY <1>1 DEF LoadPassword, NoPasswordOnlyIfFull
<1> QED
  BY <1>2, <1>3 DEF PasswordsInv

LEMMA BindKeeps == ASSUME KeysInv, PasswordsInv, Bind PROVE PasswordsInv'
<1>1. /\ misuse = "none" /\ misuse' = "none" /\ at = "out"
      /\ ~bound /\ bound' = TRUE /\ binds' = binds + 1
      /\ eccx08_ec' = (IF eccx08_ec = 0 THEN binds + 1 ELSE eccx08_ec) /\ engine_ec' = eccx08_ec'
      /\ UNCHANGED <<obj, app, wish, loadVars, storeVars>>
  BY DEF Bind, bind_helper, Idle, eccx08_ec_init, keyVars
<1>2. PasswordsTypeOK /\ StoreInv /\ MethodsInv
  BY <1>1, BeforePasswords
<1>3. binds \in Nat /\ \A k \in Keys : obj[k].method \in Nat
  BY <1>2 DEF PasswordsTypeOK, LifecycleTypeOK, KeysTypeOK, KeyObjects
<1>4. eccx08_ec' = binds + 1 /\ \A k \in Keys : obj[k].method <= binds
  BY <1>1, <1>2 DEF MethodsInv
<1>5. MethodsInv'
  BY <1>1, <1>2, <1>3, <1>4 DEF MethodsInv, loadVars
<1>6. StoreInv' /\ \A k \in Keys : obj[k].method # eccx08_ec'
  BY <1>1, <1>2, <1>3, <1>4, StoreStays
<1> QED
  BY <1>1, <1>5, <1>6, Orphaned

LEMMA UnloadKeeps == ASSUME KeysInv, PasswordsInv, Unload PROVE PasswordsInv'
<1>1. /\ misuse = "none" /\ misuse' = "none" /\ at = "out"
      /\ bound' = FALSE /\ eccx08_ec' = 0 /\ funct_ref = 0
      /\ UNCHANGED <<obj, app, wish, loadVars, binds, funct_ref>> /\ StoreUnloaded
  BY DEF Unload, eccx08_destroy, Idle, keyVars
<1>2. PasswordsTypeOK /\ MethodsInv
  BY <1>1, BeforePasswords
<1>3. binds \in Nat
  BY <1>2 DEF PasswordsTypeOK, LifecycleTypeOK
<1>4. MethodsInv'
  BY <1>1, <1>2, <1>3 DEF MethodsInv, loadVars
<1>5. StoreInv'
  BY <1>1 DEF StoreInv, StoreUnloaded, Entries
<1>6. \A k \in Keys : obj[k].eckey > 0 => obj[k].method # eccx08_ec'
  BY <1>1, <1>2 DEF MethodsInv
<1> QED
  BY <1>1, <1>4, <1>5, <1>6, Orphaned

LEMMA StutterKeeps == ASSUME PasswordsInv, UNCHANGED vars PROVE PasswordsInv'
<1>1. UNCHANGED <<obj, app, wish, at, op, cur, passwd_id, ok, misuse, binds, bound,
                  funct_ref, eccx08_ec, engine_ec, passwords, current_id>>
  BY DEF vars, keyVars, loadVars, lifeVars, storeVars
<1>2. misuse = "none" => (StoreInv /\ MethodsInv /\ LoadPassword)'
  BY <1>1 DEF PasswordsInv, StoreInv, MethodsInv, LoadPassword, Identifies, Stale
<1>3. ASSUME NEW k \in Keys PROVE KeyPassword(k)' /\ NotDerived(k)'
  BY <1>1 DEF PasswordsInv, KeyPassword, NotDerived, LetIn, Identifies, Stale
<1>4. NoPasswordOnlyIfFull'
  BY <1>1 DEF PasswordsInv, NoPasswordOnlyIfFull
<1> QED
  BY <1>1, <1>2, <1>3, <1>4 DEF PasswordsInv

LEMMA PasswordsInit == ASSUME Init PROVE PasswordsInv
<1>1. StoreInv
  BY DEF Init, StoreInit, StoreInv, Entries
<1>2. MethodsInv /\ LoadPassword
  BY DEF Init, LifecycleInit, MethodsInv, LoadPassword, Nothing
<1>3. \A k \in Keys : KeyPassword(k) /\ NotDerived(k)
  BY DEF Init, KeyPassword, NotDerived, LetIn, Nothing
<1>4. NoPasswordOnlyIfFull
  BY DEF Init, NoPasswordOnlyIfFull
<1> QED
  BY <1>1, <1>2, <1>3, <1>4 DEF PasswordsInv

LEMMA StepPasswords == ASSUME KeysInv, PasswordsInv, [Next]_vars PROVE PasswordsInv'
<1>1. CASE eccx08_load_pubkey_internal
  BY <1>1, StorePasswordKeeps, NewKeeps, InfoKeeps, NewECKeyKeeps, AssembleKeeps, NotBuiltKeeps,
     SetMethodKeeps, Get1Keeps, SessionFailsKeeps, NoPasswordKeeps, ReadPublicKeyKeeps, FreeKeeps,
     ReturnKeyKeeps, ReturnKeyFileKeeps, ReturnContextKeeps DEF eccx08_load_pubkey_internal
<1>2. ASSUME NEW k \in Keys,
             \/ Load(k) \/ get_key(k) \/ eccx08_pkey_ec_init(k)
             \/ Sign(k) \/ FreeKey(k) \/ FreeContext(k)
      PROVE  PasswordsInv'
  BY <1>2, LoadKeeps, get_keyKeeps, eccx08_pkey_ec_initKeeps, SignKeeps, FreeKeyKeeps, FreeContextKeeps
<1>3. ASSUME NEW d \in Defs, CertCommand(d) PROVE PasswordsInv'
  BY <1>3, CertCommandKeeps
<1>4. CASE Bind \/ Unload \/ Configure \/ Initialize \/ Finish
  BY <1>4, BindKeeps, UnloadKeeps, ConfigureKeeps, InitializeKeeps, FinishKeeps
<1>5. CASE Ended \/ UNCHANGED vars
  BY <1>5, StutterKeeps DEF Ended
<1> QED
  BY <1>1, <1>2, <1>3, <1>4, <1>5 DEF Next

\* The store is filled in order and the identifier in a private part is that of the
\* password given for the key, while the key's method is the engine's
\* (eccx08_auth.c:107-163, eccx08_eckey_meth.c:107-131, 229-277, 541-589).
THEOREM PasswordsInvariance == Spec => []PasswordsInv
<1>1. KeysInv /\ PasswordsInv /\ [Next]_vars => PasswordsInv'
  BY StepPasswords
<1> QED
  BY PasswordsInit, <1>1, KeysInvariance, PTL DEF Spec

\* A password is looked for outside the store only when the store is full or the key
\* was loaded without an identifier (eccx08_auth.c:136-158, eckey_meth.c:107-131).
THEOREM StoreCorrectness == Spec => []NoPasswordOnlyIfFull
<1>1. PasswordsInv => NoPasswordOnlyIfFull
  BY DEF PasswordsInv
<1> QED
  BY <1>1, PasswordsInvariance, PTL

\* While a key can be used, its private part names the entry with the password that
\* the application gave for it, whatever other loads, failures and frees did to the
\* store (eccx08_auth.c:136-158, eccx08_eckey_meth.c:513-522, 663-691).
THEOREM PasswordCorrectness == Spec => []PasswordsAreTheirKeys
<1>1. PasswordsInv => PasswordsAreTheirKeys
  BY DEF PasswordsInv, PasswordsAreTheirKeys, KeyPassword, Identifies
<1> QED
  BY <1>1, PasswordsInvariance, PTL

\* A wrong password gets a key past the chip only when no key could be derived from it,
\* the early return of do_atecc_auth (eccx08_auth.c:30-35).
THEOREM WrongPasswordCorrectness == Spec => []WrongPasswordOnlyIfNotDerived
<1>1. PasswordsInv => WrongPasswordOnlyIfNotDerived
  BY DEF PasswordsInv, WrongPasswordOnlyIfNotDerived, NotDerived, LetIn
<1> QED
  BY <1>1, PasswordsInvariance, PTL
================================================================================
