--------------------------------- MODULE Lifecycle ---------------------------------
(***************************************************************************)
(* The engine in a process: bound, initialized, configured, finished and   *)
(* destroyed (eccx08_engine.c:304-506), in the default configuration with  *)
(* OpenSSL 1.1 and certificates.  OpenSSL calls eccx08_init when the first *)
(* functional reference to the ENGINE is taken, eccx08_finish when the     *)
(* last is dropped and eccx08_destroy when the application frees it.       *)
(*                                                                         *)
(* An EC_KEY_METHOD is the number of the binding that allocated it, so     *)
(* that a pointer is valid while it equals the static eccx08_ec.           *)
(***************************************************************************)
EXTENDS Naturals

CONSTANTS Slots,        \* slots that KEY_SLOT accepts (0..15)
          DefaultSlot,  \* slot 0
          Defs,         \* the certificate definitions
          MaxBinds      \* bound: how often a process loads the engine

ASSUME LifecycleAssumption ==
    /\ DefaultSlot \in Slots
    /\ MaxBinds \in Nat \ {0}

VARIABLES binds,            \* bindings so far
          bound,            \* the application has the ENGINE
          funct_ref,        \* OpenSSL's count of functional references
          mutex,            \* what global_lock.handle points to
          eccx08_ec,        \* eccx08_ec, 0 for NULL
          engine_ec,        \* the method that bind_helper gave to the ENGINE
          eccx08_pkey_meth, \* eccx08_pkey_meth holds the engine's key methods
          pCfg,             \* pCfg points to a configuration
          device_key_slot,  \* eccx08_engine_config.device_key_slot
          defs              \* the g_cert_def_*_ptr

servingVars == <<mutex, pCfg, device_key_slot, defs>>
lifeVars == <<binds, bound, funct_ref, eccx08_ec, engine_ec, eccx08_pkey_meth, servingVars>>

Pointers == {"NULL", "live", "freed", "corrupt"}

LifecycleTypeOK ==
    /\ binds \in 0..MaxBinds
    /\ bound \in BOOLEAN
    /\ funct_ref \in Nat
    /\ mutex \in {"NULL", "created"}
    /\ eccx08_ec \in 0..MaxBinds
    /\ engine_ec \in 0..MaxBinds
    /\ eccx08_pkey_meth \in BOOLEAN
    /\ pCfg \in BOOLEAN
    /\ device_key_slot \in Slots
    /\ defs \in [Defs -> Pointers]

\* The statics of an engine that is not, or not any more, in memory.
LifecycleInit ==
    /\ binds = 0
    /\ bound = FALSE
    /\ funct_ref = 0
    /\ mutex = "NULL"
    /\ eccx08_ec = 0
    /\ engine_ec = 0
    /\ eccx08_pkey_meth = FALSE
    /\ pCfg = FALSE
    /\ device_key_slot = DefaultSlot
    /\ defs = [d \in Defs |-> "NULL"]

(***************************************************************************)
(* What initialization and finishing do                                    *)
(***************************************************************************)
eccx08_platform_init == pCfg' = TRUE /\ device_key_slot' = DefaultSlot

\* Variant: a definition that cannot be copied leaves its pointer as it was.
eccx08_cert_init_keeping ==
    \E copied \in SUBSET Defs : defs' = [d \in Defs |-> IF d \in copied THEN "live" ELSE defs[d]]

\* A definition that cannot be copied is NULL, and that is no failure.
eccx08_cert_init ==
    \E copied \in SUBSET Defs : defs' = [d \in Defs |-> IF d \in copied THEN "live" ELSE "NULL"]

\* eccx08_cert_free of each pointer, which stays; "corrupt" is a second free.
eccx08_cert_cleanup ==
    defs' = [d \in Defs |-> CASE defs[d] = "NULL" -> "NULL"
                              [] defs[d] = "live" -> "freed"
                              [] OTHER -> "corrupt"]

eccx08_ec_cleanup == eccx08_ec' = 0

\* Only the first use in a process creates the mutex; ok is the result.
eccx08_init(ok) ==
    \/ /\ ok
       /\ mutex' = IF mutex = "NULL" THEN "created" ELSE mutex
       /\ eccx08_platform_init
       /\ eccx08_cert_init
    \/ /\ ~ok /\ mutex = "NULL"
       /\ UNCHANGED servingVars

\* The method that the ENGINE was given goes; the pointer to it stays with the
\* ENGINE and with every key.
eccx08_finish ==
    /\ eccx08_cert_cleanup
    /\ eccx08_ec_cleanup
    /\ UNCHANGED <<mutex, pCfg, device_key_slot>>

(***************************************************************************)
(* OpenSSL's references to the ENGINE                                      *)
(***************************************************************************)
\* ENGINE_init, for any holder: ok is its result.
TakeReference(ok) ==
    /\ IF funct_ref = 0 THEN eccx08_init(ok) ELSE ok /\ UNCHANGED servingVars
    /\ funct_ref' = IF ok THEN funct_ref + 1 ELSE funct_ref
    /\ UNCHANGED <<binds, bound, eccx08_ec, engine_ec, eccx08_pkey_meth>>

\* ENGINE_finish, for any holder.
DropReference ==
    /\ IF funct_ref = 1 THEN eccx08_finish ELSE UNCHANGED <<eccx08_ec, servingVars>>
    /\ funct_ref' = funct_ref - 1
    /\ UNCHANGED <<binds, bound, engine_ec, eccx08_pkey_meth>>

(***************************************************************************)
(* The application's own calls                                             *)
(***************************************************************************)
\* The method is allocated when there is none; the ENGINE is given a pointer to it.
eccx08_ec_init ==
    /\ eccx08_ec' = IF eccx08_ec = 0 THEN binds + 1 ELSE eccx08_ec
    /\ engine_ec' = eccx08_ec'

\* The key methods of OpenSSL with four of them replaced.
eccx08_pkey_meth_init == eccx08_pkey_meth' = TRUE

\* What a context of an EC key gets.
eccx08_pmeth_selector == bound /\ eccx08_pkey_meth

\* A binding that fails leaves nothing: OpenSSL unloads the engine.
bind_helper ==
    /\ ~bound /\ binds < MaxBinds
    /\ bound' = TRUE
    /\ binds' = binds + 1
    /\ eccx08_ec_init
    /\ eccx08_pkey_meth_init
    /\ UNCHANGED <<funct_ref, servingVars>>

\* The last structural reference goes: the mutex is destroyed, and OpenSSL unloads
\* the engine with its statics.  The result is ignored.
eccx08_destroy ==
    /\ bound /\ funct_ref = 0
    /\ bound' = FALSE
    /\ mutex' = "NULL"
    /\ eccx08_ec' = 0
    /\ engine_ec' = 0
    /\ eccx08_pkey_meth' = FALSE
    /\ pCfg' = FALSE
    /\ device_key_slot' = DefaultSlot
    /\ defs' = [d \in Defs |-> "NULL"]
    /\ UNCHANGED <<binds, funct_ref>>

\* The command KEY_SLOT, for an argument in range; another changes nothing.
set_device_key_slot(i) ==
    /\ bound
    /\ device_key_slot' = i
    /\ UNCHANGED <<binds, bound, funct_ref, eccx08_ec, engine_ec, eccx08_pkey_meth, mutex, pCfg, defs>>
=================================================================================
