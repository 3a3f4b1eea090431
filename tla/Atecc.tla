-------------------------------- MODULE Atecc --------------------------------
(***************************************************************************)
(* The ATECCx08 secure element and the cryptoauthlib calls that move it,   *)
(* as src/ateccssl relies on them.  Chip and library are not in the        *)
(* repository (cryptoauthlib is an empty submodule): what they do is taken *)
(* from the calls the engine makes and from what it expects of them, above *)
(* all eccx08_engine.c:200-218 and eccx08_ecdsa_sign.c:92-106:             *)
(*   - a command ends with Idle, and Idle preserves a latched fault;       *)
(*   - Sleep wipes every fault, but the flag is accepted only by a chip    *)
(*     that is awake;                                                      *)
(*   - the wake of a "corrupted idle" chip reports failure, yet the Sleep  *)
(*     that follows it is accepted and cures the chip;                     *)
(*   - a chip with a latched health-test fault refuses every RNG command.  *)
(***************************************************************************)
CONSTANT Faults  \* what the environment of an instance may do wrong

(***************************************************************************)
(* "create", "lock"   the HAL cannot create / lock the shared mutex        *)
(* "malloc", "init"   no memory for ifacecfg / atcab_init fails            *)
(* "release"          atcab_release fails                                  *)
(* "bus"              an I2C transfer is lost                              *)
(* "health"           a command latches a health-test failure              *)
(* "unlocked"         a client that ignores the mutex corrupts the chip    *)
(* "die"              a process dies at any point                          *)
(***************************************************************************)
AllFaults == {"create", "lock", "malloc", "init", "release",
              "bus", "health", "unlocked", "die"}

ASSUME FaultsAssumption == Faults \subseteq AllFaults

VARIABLE chip

Chips == [power : {"asleep", "idle", "awake"},
          latch : {"none", "health", "corrupted"}]

Parked == [power |-> "asleep", latch |-> "none"]

ChipInit == chip = Parked

Statuses == {"SUCCESS", "FUNC_FAIL", "COMM_FAIL", "HEALTH_TEST_ERROR"}

\* A transfer that is lost reaches nobody and is reported as a failure.
Lost(c) == IF "bus" \in Faults THEN {<<"COMM_FAIL", c>>} ELSE {}

\* The status each call may return, with the chip it leaves behind.
WakeResults(c) ==
    {<<IF c.latch = "corrupted" THEN "COMM_FAIL" ELSE "SUCCESS",
       [c EXCEPT !.power = "awake"]>>} \cup Lost(c)

SleepResults(c) ==
    {IF c.power = "awake" THEN <<"SUCCESS", Parked>> ELSE <<"COMM_FAIL", c>>}
    \cup Lost(c)

CommandResults(c) ==
    CASE c.latch = "corrupted" -> {<<"COMM_FAIL", c>>}
      [] c.latch = "health" -> {<<"HEALTH_TEST_ERROR", [c EXCEPT !.power = "idle"]>>}
                               \cup Lost(c)
      [] OTHER -> {<<"SUCCESS", [c EXCEPT !.power = "idle"]>>} \cup Lost(c)
                  \cup IF "health" \in Faults
                       THEN {<<"HEALTH_TEST_ERROR",
                               [power |-> "idle", latch |-> "health"]>>}
                       ELSE {}

\* (void)atcab_wakeup() and (void)atcab_sleep(): the status is not looked at.
atcab_wakeup == \E r \in WakeResults(chip) : chip' = r[2]
atcab_sleep == \E r \in SleepResults(chip) : chip' = r[2]

\* Any cryptoauthlib command (atcab_sign, atcab_get_pubkey, ...).
atcab_command(status) == \E r \in CommandResults(chip) : status = r[1] /\ chip' = r[2]

\* A client that never takes the mutex talks over a chip that is not asleep.
UnlockedClient ==
    /\ "unlocked" \in Faults
    /\ chip.power # "asleep"
    /\ chip' = [power |-> "idle", latch |-> "corrupted"]
==============================================================================
