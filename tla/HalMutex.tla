------------------------------- MODULE HalMutex -------------------------------
(***************************************************************************)
(* The robust mutex in shared memory behind hal_os_create_mutex,           *)
(* hal_os_lock_mutex and hal_os_unlock_mutex (cryptoauthlib, not in the    *)
(* repository), as eccx08_global_lock and eccx08_global_unlock use it: one *)
(* per system, owned by a thread; a second lock by anyone, its owner       *)
(* included, blocks; only the owner's unlock succeeds; when the owner dies *)
(* the next lock succeeds and says so once (EOWNERDEAD, reported by the    *)
(* HAL as ATCA_FUNC_FAIL, eccx08_engine.c:92-103).                         *)
(***************************************************************************)
CONSTANTS Threads,   \* the threads of all processes that load the engine
          NoThread   \* nobody

ASSUME NoThreadAssumption == NoThread \notin Threads

VARIABLES owner,      \* the thread that holds the mutex
          ownerdead   \* the last owner died holding it

MutexTypeOK == owner \in Threads \cup {NoThread} /\ ownerdead \in BOOLEAN

MutexInit == owner = NoThread /\ ownerdead = FALSE

hal_os_lock_mutex(t) ==
    /\ owner = NoThread
    /\ owner' = t
    /\ ownerdead' = FALSE

hal_os_unlock_mutex(t) ==
    /\ owner = t
    /\ owner' = NoThread
    /\ UNCHANGED ownerdead

\* The kernel walks the robust list of the threads that just died.
OwnerDies(dead) ==
    IF owner \in dead
    THEN owner' = NoThread /\ ownerdead' = TRUE
    ELSE UNCHANGED <<owner, ownerdead>>
===============================================================================
