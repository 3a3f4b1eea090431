------------------------------- MODULE PasswordStore -------------------------------
(***************************************************************************)
(* The passwords of the keys that a process has loaded                     *)
(* (eccx08_auth.c:107-163).  A key keeps the identifier of its password in *)
(* its private part; a pointer to an entry is the entry's index.           *)
(***************************************************************************)
EXTENDS Naturals

CONSTANTS MAX_PASSWORDS,
          Given   \* what applications give: "none", the key's "right" password, a "wrong" one

ASSUME StoreAssumption ==
    /\ MAX_PASSWORDS \in 1..254
    /\ Given \subseteq {"none", "right", "wrong"}

VARIABLES passwords,  \* __passwords
          current_id

storeVars == <<passwords, current_id>>

Entries == 0..(MAX_PASSWORDS - 1)
NOPASSWD_ID == 255
NullPointer == 256

StoreTypeOK ==
    /\ passwords \in [Entries -> {"unset", "right", "wrong"}]
    /\ current_id \in 0..MAX_PASSWORDS

StoreInit ==
    /\ passwords = [i \in Entries |-> "unset"]
    /\ current_id = 0

\* The statics go with the engine.
StoreUnloaded ==
    /\ passwords' = [i \in Entries |-> "unset"]
    /\ current_id' = 0

eccx08_cbdata_to_password(given) == given # "none"

\* Variant: the last entry is kept free.
eccx08_get_password_short(id) == IF id >= MAX_PASSWORDS - 1 THEN NullPointer ELSE id

eccx08_get_password(id) == IF id >= MAX_PASSWORDS THEN NullPointer ELSE id

\* Variant: the count goes on when the store is full.
eccx08_make_password_uncapped(id) ==
    /\ id = current_id
    /\ current_id' = current_id + 1

\* Returns id.  A full store returns the first identifier outside it.
eccx08_make_password(id) ==
    /\ id = current_id
    /\ current_id' = IF current_id < MAX_PASSWORDS THEN current_id + 1 ELSE current_id

\* Nothing in the engine calls it.
eccx08_release_password ==
    current_id' = IF current_id > 0 THEN current_id - 1 ELSE current_id

\* do_atecc_auth: without a key there is nothing to prove to the chip, and its
\* early return 0 is ATCA_SUCCESS; otherwise the chip compares.
eccx08_auth_password(entry, derived) == derived => passwords[entry] = "right"
=================================================================================
