----------------------------- MODULE ExclusiveChip -----------------------------
(***************************************************************************)
(* What the session functions promise to the engine's operations: a chip   *)
(* that one session at a time may touch, that every session finds parked   *)
(* and that every closed session leaves parked.  The death of a process    *)
(* may cut a session short; the chip is then touched outside a session,    *)
(* but only to park it, and no session opens before that is done.          *)
(***************************************************************************)
CONSTANTS Threads, NoThread

VARIABLES user,      \* the thread whose session is open
          dirty,     \* the chip is not parked
          abandoned  \* a process died and the chip has yet to be parked for it

chipVars == <<user, dirty, abandoned>>

Init == user = NoThread /\ dirty = FALSE /\ abandoned = FALSE

OpenSession(t) ==
    /\ user = NoThread /\ ~dirty /\ ~abandoned
    /\ user' = t
    /\ UNCHANGED <<dirty, abandoned>>

Work(t) ==
    /\ user = t
    /\ dirty' \in BOOLEAN
    /\ UNCHANGED <<user, abandoned>>

CloseSession(t) ==
    /\ user = t
    /\ user' = NoThread /\ dirty' = FALSE
    /\ UNCHANGED abandoned

\* With a session open, or while it was about to open or had just closed.
Abandon ==
    /\ user' = NoThread /\ abandoned' = TRUE
    /\ UNCHANGED dirty

Resynchronize ==
    /\ user = NoThread /\ abandoned
    /\ dirty' \in BOOLEAN /\ abandoned' \in {TRUE, dirty'}
    /\ UNCHANGED user

Next ==
    \/ \E t \in Threads : OpenSession(t) \/ Work(t) \/ CloseSession(t)
    \/ Abandon \/ Resynchronize

Spec == Init /\ [][Next]_chipVars
================================================================================
