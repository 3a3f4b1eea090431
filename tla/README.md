# A verification of the cryptoauth OpenSSL engine

The engine (`src/ateccssl/`) lets OpenSSL applications use a private key that
lives in an ATECCx08 secure element on an I2C bus. The chip is shared by every
process of the system. This directory holds TLA+ models of the engine, TLC
configurations that check them on small instances and proofs, checked by TLAPS,
of the safety properties for instances of any size.

## 1. Inventory

| Component | Source | State it keeps | Operations |
|---|---|---|---|
| Session functions and global lock | `eccx08_engine.c:53-239` | `ifacecfg`, `global_lock.handle`, `global_lock.state`, `global_lock_recovered`: one copy per process | `eccx08_global_lock`, `eccx08_global_unlock`, `atcab_init_safe`, `atcab_release_safe` |
| Engine lifecycle | `eccx08_engine.c:297-506`, `eccx08_platform.c` | the mutex handle, `pCfg`, slot settings, method tables, certificate definitions | `bind_helper`, `eccx08_init`, `eccx08_finish`, `eccx08_destroy` |
| Device keys | `eccx08_eckey_meth.c` | `EVP_PKEY`s whose private part names bus, slot and password | load (`eccx08_load_privkey`, `eccx08_load_pubkey`), reload (`eccx08_pkey_ec_init`), `eccx08_pkey_ec_keygen` |
| Signatures | `eccx08_ecdsa_sign.c:75-249` | none | `eccx08_ecdsa_do_sign_sig` |
| Hardware verification | `eccx08_ecdsa_sign.c:266-370` | none | `eccx08_ecdsa_do_verify` |
| Passwords | `eccx08_auth.c` | `__passwords`, `current_id` | `eccx08_make_password`, `eccx08_get_password`, `eccx08_auth_password` |
| SHA256 digest | `eccx08_sha256.c` | a session that outlives the call | init, update, final |
| Random numbers | `eccx08_rand.c` | `total_num` | `RAND_eccx08_rand_bytes`, two variants |
| Certificates, commands | `eccx08_cert.c`, `eccx08_cmd_defns.c` | certificate definitions, `g_signer_1_ca_public_key`, slot settings | `eccx08_cert_load_client`, `get_cert`, `get_key`, `eccx08_cmd_ctrl` |
| ECDH | `eccx08_ecdh.c` | ephemeral key slots | not compiled by default |
| Ciphers, errors, certificate tables | `eccx08_cipher.c`, `eccx08_err.c`, `cert_def_*.c` | none that matters here | |
| Demonstrations, scripts, packaging | `client-server/`, `scripts/`, `debian/`, `certstore/` | | |
| cryptoauthlib, its HAL, the chip | not in the repository | the robust mutex; power state and latched faults of the chip | commands, wake, sleep, mutex calls |

**How they interact.** OpenSSL calls the engine through its method tables. Every
operation that needs the chip calls `atcab_init_safe` (the mutex, then a session
of cryptoauthlib), issues commands, and calls `atcab_release_safe` (the chip is
put to sleep, the session and the mutex go). Processes meet in two places only:
the mutex in shared memory, and the chip, which remembers what the previous
session left behind.

**What is hard.**
- *Deaths.* A process may die anywhere; the kernel marks the mutex, and the next
  owner is told so once. It has to repair the chip.
- *Latched faults.* A failed health test of the chip's random number generator,
  or a client that ignores the mutex, leaves a fault that only a real sleep
  clears, and that a sleeping or idle chip cannot be told to clear.
- *Partial failures.* Every step of opening, using and closing a session can
  fail, and the mutex has to be given back on all paths; a release may fail after
  the result has been produced.
- *Statics without a lock.* The lock's own flag is protected by nothing.
- *Nesting.* A digest returns with its session open.
- *Lifetimes.* Keys point to a method that the last functional reference frees,
  name passwords by their place in a store that never gets a place back, and are
  borrowed by contexts that load them again; OpenSSL counts the references and
  decides when the engine is initialized and finished.

**What makes each component correct.** Session functions: mutual exclusion
across processes; nothing held after an operation; the flag tells the truth;
the chip is parked between sessions and resynchronized after a death. Key
operations: results are whole, current, and not lost to a failed release; a
health-test failure is cured once. Digest: no wait for oneself, nothing left
after the last final. Random numbers: a success is a whole buffer, the session is
released on every path, reseeding happens when due. Certificates: each is built
with the key of its own issuer, a handshake gets one or a failure, success means a file.
Verification: the verdict is what the chip answered in this call, everything else an
error.
Keys and lifecycle: references balance on every path; nothing freed is used while
the application holds the engine; a key keeps its password and its slot.

## 2. Plan

1. *(done)* `Atecc`, `HalMutex`, `Session`, `SessionUser`: the core; the abstract
   `ExclusiveChip`; inductive invariant, proofs, refinement.
2. *(done)* `KeyOps` (sign, load, reload, keygen) and `Digest` over `Session`.
3. *(done)* `Rand` and `Certs` over `Session`: both builds of the random numbers,
   the certificate commands and the TLS client certificate.
4. *(done)* `Keys` over `PasswordStore` and `Lifecycle`: `eccx08_eckey_new_key`,
   the lifetimes of `EVP_PKEY`s, the bound of the store; bind, init, finish,
   destroy, the certificate definitions and the slot settings between them. One
   instance for all: what finish frees is what the keys still point to. Its
   inductive invariant and the proofs of the properties that follow from it.
5. *(done)* Hardware verification, as an operation of `KeyOps`.
6. The software fallback of `eccx08_ecdsa_sign_sig` and the methods that pass on to
   OpenSSL's defaults, if a property about them turns up.
7. *(done)* Proofs: what the session functions promise to any caller
   (`SessionCalls`), and with it the safety properties of `KeyOps`, `Digest`, `Rand` and
   `Certs`; the passwords of `Keys`; the step simulation of `SessionUser` by
   `KeyOps`, so that what is proved of the session carries over to the key
   operations.
8. `Keys` as an implementation of a store with one owner for each password, if that
   says more than `PasswordsAreTheirKeys`; the lemmas that `SessionProofs` and
   `SessionCallsProofs` could share.

## 3. The models

| Module | Models |
|---|---|
| `Atecc` | external: the chip (`power`, `latch`) and the cryptoauthlib calls that change it; `Faults`, everything the environment of an instance may do wrong |
| `HalMutex` | external: the robust mutex (`owner`, `ownerdead`) |
| `Session` | the session functions. One action per access to a static, HAL call or chip command; `pc[t]` is the place in the code |
| `SessionUser` | threads that open a session, issue commands and cures, and close it once: the shape of every caller but the digest; properties |
| `ExclusiveChip` | abstract: a chip that one user at a time has, parked when it gets it |
| `SessionInvariant` | the inductive invariant (`SessionInv`) and what it adds about the chip (`ChipInv`) |
| `SessionCalls`, `SessionCallsProofs` | what `atcab_init_safe` and `atcab_release_safe` promise to any caller, nested or not, and the lemmas that `Digest`, `Rand` and `Certs` share |
| `SessionProofs`, `ChipProofs` | the theorems about `SessionUser` |
| `PasswordStore` | the passwords and their identifiers (`eccx08_auth.c:107-163`) |
| `Lifecycle` | bind, init, finish and destroy, what they allocate and free, the configured slot; OpenSSL's count of functional references |
| `Keys` | the `EVP_PKEY`s of one process from load to free: references, private part, method, password; `get_key`; what the application and its contexts hold |
| `KeysInvariant`, `KeysProofs` | the inductive invariants of `Keys` (`KeysInv`, `PasswordsInv`) and the theorems |
| `KeyOps` | sign, load, reload, keygen and verify: the authorization, the commands, the cure and retry, the statuses and what the application is handed |
| `Digest` | `eccx08_sha256.c` next to an ordinary operation |
| `Rand` | `eccx08_rand.c`; `SeedOnly` names the processes with `ATCA_OPENSSL_ENGINE_RAND_SEED_ONLY` |
| `Certs` | `get_cert`, `load_device_cert` and the commands that lead to them, `eccx08_cert_load_client`, `eccx08_cert_load_pubkey` |
| `KeyOpsInvariant`, `DigestInvariant`, `RandInvariant`, `CertsInvariant` | their inductive invariants |
| `KeyOpsProofs`, `DigestProofs`, `RandProofs`, `CertsProofs` | their theorems |
| `MC*` | instances for TLC |

Correspondence for the core: `handle`, `state`, `recovered` and `ifacecfg` are the
statics of `eccx08_engine.c`, per process. `TestHandle` ... `MarkOurs` are
`eccx08_global_lock` in order; `UnlockMutex` and `MarkNotOurs`
`eccx08_global_unlock`; `ConfigFails` ... `ResyncSleep` the rest of
`atcab_init_safe`; `NoConfig` ... `atcab_release` that of `atcab_release_safe`. A
HAL call and the assignment that follows it are two actions (`LockMutex` and
`MarkOurs`), because other threads and deaths come between them. `Handles` says
where `eccx08_init` (`eccx08_engine.c:337-344`) has left the handle.
`KillProcess` resets the statics, marks the mutex if the process owned it and
leaves the chip as it was. `SessionUser` (`at[t]`) stands for the callers.

`KeyOps` writes a key as the generation of the key in the slot, and a signature
as the generation that made it: the properties ask which key a result belongs to
and whether a result is complete (`HalfBuilt`), nothing more. Key material,
digests, DER and the wording of errors are left out. In `Digest` the digest value
is left out too: the model is about the session and the mutex.

In `KeyOps` a signature to verify is genuine, forged, or `short`: genuine with an r
or s of fewer than 32 bytes, which `eccx08_ecdsa_do_verify` writes to the start of
its half of `raw_sig` (`eccx08_ecdsa_sign.c:302-306`), so that the chip is shown
another one. `verdict` is 1, 0 or -1 by name. The command gives a status and a flag,
`verified`; a command that failed may have left anything in the flag. `answer` is history:
what the chip has said in this call, "error" as long as it has said nothing. The verdict is
worked out of status and flag, as the code does it, and compared with `answer`.

`HostFaults` of `KeyOps` are the failures on the host that change what an operation does
next: an allocation, the r or s of a signature, the conversion of a public key
("convert") and its last call, `EC_KEY_set_public_key` ("set_public_key"), whose result the
code ignores; of the authorization, the derivation of the key ("derive"), which
`do_atecc_auth` takes for a success without asking the chip, so that the chip refuses the
command that follows, and the host's part of CheckMac ("atcah").

`Keys` is about the objects of one thread of one process, and takes from a session
only whether it gives a public key. A place in `Keys` stands for an `EVP_PKEY`
with its `EC_KEY`; `obj` has the reference counts that OpenSSL keeps and the fields
the engine sets, `app` and `ctx` say who holds a reference, `wish` what the
application asked for. `at` walks through `eccx08_eckey_new_key` and
`eccx08_load_pubkey_internal`, `op` says whether for a load, for a context
(`eccx08_pkey_ec_init`, on a borrowed key) or for `get_key`. An `EC_KEY_METHOD` is
the number of the binding that allocated it, so a pointer to it is `Stale` when
`eccx08_ec` is another number. `misuse` names the first use of something that is not
there: a freed key, a freed method or definition, a NULL password entry, a NULL
`pCfg`. A misuse is undefined behaviour, so it ends the model's process, and the
properties say when it can happen. The password of a load is "right" or "wrong" for
its key; `derived` says whether the last authorization could derive a key from it at
all. `hold` is the application's own functional reference: "held" from before its
first use of the engine, "again" if it was taken back after being dropped.

`Lifecycle` takes OpenSSL 1.1's rules as external: `ENGINE_init` calls `eccx08_init` for
the first functional reference, `ENGINE_finish` calls `eccx08_finish` for the last,
`EC_KEY_new_method` takes one and `EC_KEY_set_method` gives it back,
`EVP_PKEY_CTX_new` holds one until the context goes, and the last structural
reference destroys and unloads the engine, statics included.

`Rand` writes a buffer as the number of its bytes that the chip has written; in
the seed-only build `served` counts what the generator has produced since the
last session that drew a number for it, next to the code's own `total_num`,
which also counts requests that the generator could not serve; `added` says
whether `meth_rand->add` was called at all. What it is given is the caller's
buffer, so neither says anything of the chip's entropy. `Certs` writes a
certificate as whose it is and which public key was put into it as its issuer's;
the buffer `g_signer_1_ca_public_key` holds the name of the key last read into
it. `definitions` is what `eccx08_cert_init` could copy when the process
started, any subset if an allocation may fail. `saved`, `cert` and `pkey` are
what the last command has put out: the certificate that the named file holds
whole, `*ppCert`, and whether `*ppKey` is a key. Every call begins with nothing
there (`NothingPutOut`): a handshake passes pointers to NULL, which a refused
call leaves alone (`eccx08_cert.c:248-251`) and so leaves NULL. The three block
reads of `eccx08_cert_load_pubkey` are one command, and so are the reads within
`atcacert_read_cert`: what they leave in the chip is the same.

Random numbers, digests and certificates are off by default (`eccx08_engine.h`);
the models are of the builds that enable them, `Lifecycle` and `Keys` of those with
certificates. Hardware verification is off by default too. The seed-only build calls
`eccx08_debug` (`eccx08_rand.c:77`), which the repository does not define: the
model takes it to print.

Definitions marked *Variant* belong to no
specification. Each is a plausible mistake in the definition that follows it, and
each property of the runs below has been seen to fail with one of them in place.

**The chip.** cryptoauthlib is an empty submodule, so `Atecc` takes what the
comments of the engine state (`eccx08_engine.c:200-217`,
`eccx08_ecdsa_sign.c:139-143`): commands end with idle, idle preserves a latched
fault, sleep wipes it but is accepted only by a chip that is awake; a chip whose
idle state is corrupted fails the wake yet accepts the sleep. The chip's watchdog
is left out: "the watchdog does not run while the chip is idle-parked"
(`eccx08_engine.c:97-98`).

## 4. What the runs check

| Run | Instance | Shows |
|---|---|---|
| `session_safety` | 3 processes, all faults, with or without `eccx08_init`; symmetry | `MutualExclusion`, `NothingLeftBehind`, `StateIsOurs`, `ResyncBeforeUse`, and that `SessionInv`, on which the proofs rest, holds |
| `session_known_chip` | 3 processes, `KnownChip` faults, deaths included | the refinement of `ExclusiveChip`; the chip is parked between sessions |
| `session_live` | 2 processes, health faults, unlocked clients, failing init, malloc, release | faults do not outlive a session; the mutex comes back |
| `digest_nested` | 2 processes, 2 contexts each | no self-deadlock, nothing left after the last final |
| `keyops_safety` | 2 processes, all operations; lost commands and answers, failing releases and allocations; symmetry | key currency, whole results, no result lost, verdicts that are the chip's answer in that call |
| `keyops_users` | loads with and without a password and keygen, deaths, unlocked clients, failing authorization and conversion on the host; fairness | `KeyOps` implements `SessionUser`; an operation that has its session returns; a health-test failure that reaches the application was cured once, or was met by the authorization |
| `keys_lifetime` | 2 keys, 2 entries of the store, 2 slots, one binding, every identifier and every failing step; loads with a right and a wrong password, `get_key` without; symmetry | references balance; freed, missing or foreign things are used in the named cases only; slots and passwords stay with their keys |
| `rand_bytes` | one process with each build, blocks of 2, requests of 1, 2 and 5, a limit of 3 | whole buffers, no session kept by the hardware build, no byte served by a process that kept one, a session with an add when due |
| `certs_safety` | 2 processes, any definitions, failing releases, transfers and host calls, deaths | the issuer's key, but for a device certificate without the signer's definition; a certificate or a failure for a handshake; nothing put out within the session |

Bounds. Two processes give every interleaving of an owner and a waiter; the third
of the core runs lets two wait for what a dead one left behind. One thread per
process is an assumption (`SingleThreaded`), not a bound, see below. `MaxKeys` = 2
is the fewest for which a key is replaced, and then refused by a locked slot. Two
digest contexts are the fewest that nest. The requests for random bytes are less
than a block, a block, and two blocks and a rest; 5 passes the limit at once, and
1 after 1 and 2 does not. Two keys are the fewest that share the store, the method
and the configured slot; two entries fill up, and the third password is the first
outside; two slots are the default and another. One binding (`MaxBinds`) suffices
because unloading resets every static; two were checked once and hold as well, with
three times the states. The runs of `KeyOps` divide the faults
between them because the operations react to a fault through the status of a
call only, and the core runs have all faults at once.

### Disagreements with the documented behaviour

| Run | What it shows |
|---|---|
| `session_recovery_lost` | A process that learns of a dead owner and then fails in `atcab_init` (`eccx08_engine.c:159-168`) keeps the news to itself. The next process opens its session on the abandoned chip, against "must be resynchronized before use" (`:71-73`). |
| `session_threads_state` | With two threads in one process, `global_lock.state = 0` after one thread's unlock (`:121`) may come after the other's lock and its `state = 1`: the flag ("1 - Ours, 0 - Not Ours", `:65`) is wrong, and that thread's release will wait for a mutex it holds. |
| `certs_unwritten` | When only the release fails, `get_cert` returns the status of the reading: success, and no file (`eccx08_cmd_defns.c:153-156, 189`), against "saves them into temporary files" and "\return ATCA_SUCCESS for success" (`:94-101`). |

Further disagreements that modelling the code brought up; the models follow the
code, and the properties state what is left:

- A call nested in a digest unlocks the mutex that the digest is documented to
  hold until final (`eccx08_sha256.c:93-95`, `eccx08_engine.c:142-147`).
- `fclose` losing a certificate goes unnoticed too (`eccx08_cmd_defns.c:185-188`): `Save`
  may leave nothing in the file and report success.
- keygen overwrites the result of the conversion with success
  (`eccx08_eckey_meth.c:810-815`), against "\return 1 for success" (`:737`), and the
  conversion itself ignores that of `EC_KEY_set_public_key` (`:461-462`), against "EC_KEY
  with Public Key on success" (`:399`): a key that was generated, or loaded, may have no public
  key, and a reloaded one keep the one it had. `ResultsAreWhole` names these cases and
  allows no other.
- The cure for a latched health test does not cover the authorization of keys
  with a password (`eccx08_eckey_meth.c:533-543`, `debian/changelog:16-17`);
  `HealthFailureIsCured` names this as the only other case.
- In the seed-only build a failed `atcab_random` jumps over the release
  (`eccx08_rand.c:81`); `NothingLeftBehind` of `Rand` says that the process is served
  nothing more while it keeps its session.
- `eccx08_eckey_new_key` returns the `EVP_PKEY` that it has freed when a step of the
  construction fails, a malformed identifier being enough (`eccx08_eckey_meth.c:269-277`),
  and its caller goes on with it, against "EVP_PKEY for success, NULL otherwise"
  (`:486`); `FreedKeyOnlyIfNotBuilt` names the case.
- The password after the fourth gets an identifier outside the store, and the load
  writes through the NULL pointer that stands for it (`eccx08_auth.c:154`,
  `eccx08_eckey_meth.c:653-655`). Nothing calls `eccx08_release_password`, so the
  passwords of freed keys, and of loads that failed, count (`NoPasswordOnlyIfFull`).
- A key without an identifier has a `password_id` that nobody has set
  (`eccx08_eckey_meth.c:107-131, 184`).
- A password from which no key can be derived lets the operation go on as if the chip
  had accepted it: the 0 returned is `ATCA_SUCCESS` (`eccx08_auth.c:32-33`;
  `WrongPasswordOnlyIfNotDerived`).
- `eccx08_finish` frees the EC method that loaded keys and the ENGINE point to
  (`eccx08_engine.c:377`), and nothing allocates it again at the next
  `eccx08_init`. A key keeps no functional reference (`EC_KEY_set_method` drops the
  one of `EC_KEY_new_method`), so the application has to hold one for as long as it
  has keys (`SafeWhileHeld`).
- `GET_DEVICE_KEY` before the first `eccx08_init` reads a NULL `pCfg`
  (`eccx08_cmd_defns.c:282`).
- Hardware verification refuses a genuine signature whose r or s is short
  (`eccx08_ecdsa_sign.c:302-306`; `VerdictIsTheChips` names the case).
- `eccx08_ecdsa_sign` has no fallback for software keys, `eccx08_ecdsa_sign_sig` has
  ("Not a hardware key - compute normally", `eccx08_ecdsa_sign.c:235-249, 391`).
- That build adds the caller's buffer to the generator, and takes the chip's number for an
  estimate of its entropy (`eccx08_rand.c:84-85`), against "The ATECCX08 TRNG is used to
  seed" (`:54-55`). `ReseededInTime` says when it adds, not that it adds a seed.
- `LOAD_CERT_CTRL` passes no place for a key and so always fails
  (`eccx08_cmd_defns.c:228`, `eccx08_cert.c:248`).
- `eccx08_cert_init` reports success when the signer's definition could not be
  copied, and `get_cert` then builds the device certificate with the key of slot
  15, the CA's (`eccx08_cmd_defns.c:135-142`); `CertBuiltWithItsIssuer` names the case.
- A handshake is told success without a key when `X509_get_pubkey` fails
  (`eccx08_cert.c:319`).

### Fairness

`SessionUser!FairSpec` and `KeyOps!FairSpec` assume weak fairness of each thread's
own steps once it is in an operation: the code is straight-line and the
scheduler runs every thread. Nothing is assumed of starting operations, of deaths
or of unlocked clients. The mutex is not assumed fair: weak fairness of
`LockMutex` gets it only to a thread that finds it free for good, so no property
says that every waiter gets in.
`FaultsAreCured` excludes the case that an unlocked client hits the park between
its wake and its sleep; the code has no remedy for it. Runs with it exclude lost
transfers for the same reason: both calls of the park are best-effort
(`eccx08_engine.c:213`).

## 5. What is proved

Every safety property of the passing runs is a theorem, for every value of the
constants that the assumptions named here allow.

| Module | Theorems | Assuming |
|---|---|---|
| `SessionProofs` | `TypeCorrectness` | |
| | `SessionInvariance`, `Exclusion`, `NoPathLeaks`, `StateCorrectness`, `ResyncCorrectness` | `SingleThreaded` |
| `ChipProofs` | `ChipInvariance`, `ParkingCorrectness`, `Refinement` (of `ExclusiveChip` by `SessionUser`) | `SingleThreaded`, `ChipStaysKnown` |
| `KeyOpsProofs` | `TypeCorrectness`, `KeyOpsInvariance`, `WholeResults`, `NothingLost`, `HealthCure`, `VerdictCorrectness`, `Refinement` (of `SessionUser` by `KeyOps`) | |
| | `KeyStability` | `SingleThreaded` |
| | `ChipRefinement` (of `ExclusiveChip` by `KeyOps`) | `SingleThreaded`, `ChipStaysKnown` |
| `DigestProofs` | `TypeCorrectness` | |
| | `NoDeadlockWithItself`, `DigestInvariance`, `MutexGivenBack` | `SingleThreaded` |
| | `NothingLeft` | `SingleThreaded`, `LocksAreGranted` |
| `RandProofs` | `RandInvariance`, `TypeCorrectness`, `BufferFilled`, `NothingLeft`, `Reseeding` | `SingleThreaded` |
| `CertsProofs` | `TypeCorrectness` | |
| | `CertsInvariance`, `IssuerCorrectness`, `Release`, `Handshake` | `SingleThreaded` |
| `KeysProofs` | `KeysInvariance`, `TypeCorrectness`, `ReferencesCorrectness`, `HolderIsSafe`, `FreedOnce`, `FreedKeyCorrectness`, `SlotCorrectness`; `PasswordsInvariance`, `StoreCorrectness`, `PasswordCorrectness`, `WrongPasswordCorrectness` | |

The theorems hold for any number of processes, keys, passwords, slots and
bindings and for any set of faults, so they also cover the faults that a run leaves to
another one.

*The invariant of the session.* `MutualExclusion` is not inductive: it does not say who owns
the mutex. `SessionInv` says, for each thread, where its place in the code may be
(`PlaceInv`), that it owns the mutex exactly while it is `Holding`, and what that
place implies for its process's flag, configuration and recovery mark
(`StaticsInv`). Two threads that are `Holding` would both be the owner, so
exclusion follows; the other properties are parts of `StaticsInv` at the places
they are about. The induction has one lemma per group of actions, one for the
threads that an action leaves untouched, and one for deaths. `ChipInv` adds what
is known of the chip's power and latch at each place; the refinement maps every
step to a step of `ExclusiveChip` or to a stutter from both invariants.

*The promises of the session functions.* `SessionInv` is about callers that open a session and close
it once. `SessionCalls` states what a call is worth to any caller: `LockInv`, the mutex
and its flag at every place, whatever calls are nested; `InitInv` and `ReleaseInv`, the
two calls from any state; `OpeningInv` and `ClosingInv`, the same calls by a thread
that has nothing, or a session, when it calls. `SessionCallsProofs` proves that each step
of a call keeps its promise (`StepPromises`) and that a process is not disturbed by
others (`KeptPromises`, `OtherProcess`). `Digest`, `Rand` and `Certs` then have only
their own steps left to prove.

*The key operations.* `KeyOps` is more than `SessionUser` with names: its refinement maps the
places of an operation to those of a user (`PlaceOf`), action by action, without
any assumption. Through it the theorems of `SessionUser` hold of the key
operations: `ChipRefinement` takes over `Refinement`, and `KeyStability` the
ownership of the mutex from `SessionInv`: a key can be replaced only by a thread
that owns it, and who has a result owns it until it gives it back (`HasResult`). What the
application is handed follows from `KeyOpsInv`, which ties `raw`, `st`, `tried` and
verify's `answer` and flag to the place of the operation; it needs nothing of the
session, and so holds for several threads of a process too.

*Digests.* A thread with an open digest cannot know what a call of `atcab_init_safe`
finds: an earlier nested call may have closed the session. So `DigestInv` holds it to
`InitInv`, and only a thread without digests to `OpeningInv`. `NoSelfDeadlock` is `LockInv`:
who waits is not the owner. `NothingLeft` needs `LocksAreGranted`, that the HAL refuses
no lock. The release in `eccx08_sha256_final` locks again when a nested call has given
the mutex away; if that lock is refused, `atcab_release_safe` returns without
deleting `ifacecfg`. TLC shows the state on the instance of `digest_nested` with "lock"
added to its faults. What is left then is the configuration, never the mutex:
`MutexGivenBack` holds for any faults.

*Random numbers.* For the build that takes every byte from the chip `DrawInv` counts:
`filled` and `num` make up the request at every place. For the seed-only build
`SeedInv` has the argument about the session that a failed seeding leaves: it is
left only with `total_num` at 0, so every later call opens a session first, and serves
only once a release has gone well. `served` never passes `total_num`, which counts failed
requests as well.

*Certificates.* `raw` holds nothing or the certificate that the command builds
(`Built`), with the key that was read into the buffer; the buffer is one per
process, and between `issuer` and `read` it belongs to the command because its
thread is the only one. `Over` says what the last command has left to its
caller. Nothing is assumed of the definitions: with the signer's, or for the
signer, the certificate built has its own issuer's key; without it the device's
has that of slot 15, the exception that `CertBuiltWithItsIssuer` names.

*The invariant of the keys.* `ReferencesBalanced` speaks of the moments between calls
only. `KeyRefs` says what every place of a load, a reload or a `get_key` implies for the
references of the key it works on, and that all other keys are at rest; `RefsInv`
counts the functional references the same way, with those that the load in progress
has taken (`InFlight`) and those of the contexts (`Contexts`). `HeldInv` follows the
application's own reference: nothing is used before it (`Untouched`), and while it
lasts every key has the method that the ENGINE has (`InPlace`), because `eccx08_finish`
cannot run while the count is above zero; `DefsInv` says the same of the definitions.
`SlotsInv` ties the slot of the private part and that of the public key to what the
application asked for. A misuse is undefined behaviour: after it the invariant keeps
the types, the slots, the definitions and the properties, and nothing else. There is
one lemma per action.

*The passwords.* `PasswordsInv` is proved on top of `KeysInv`. `StoreInv`: the store is filled in
order, so the entry a load gets is free and no other key's. `LoadPassword` and
`KeyPassword` follow the identifier from the load into the private part and from there
into a reload. The store is emptied when the engine is unloaded while keys may survive:
`MethodsInv` says that such a key's method is that of an earlier binding, which no later
binding allocates again, so the key is `Stale` for ever and cannot be used. `NotDerived`
is about what the chip has compared, from the authorization on.

TLC checked each of these invariants on the instance of the component's run before it was
proved.

*Assumptions.* `SingleThreaded`: one thread of each process uses the engine;
`session_threads_state` shows that it cannot be dropped. `ChipStaysKnown`: no
lost transfer, no unlocked client and no failure between the lock and the
session: `session_recovery_lost` shows what happens otherwise. `LocksAreGranted`:
above. Of the constants: the set of keys is finite
(`KeysAssumption`), because the contexts are counted, and requests for random bytes have a largest
(`RandAssumption`), because `num` is an int. TLC evaluates the named assumptions on
constants in every run.

*Model-checked only.* Liveness (`FaultsAreCured`, `MutexIsReturned`,
`SessionsEnd`), which is out of this prover's reach, and the runs that show a
disagreement.

## 6. Not modelled

- **ECDH** (`eccx08_ecdh.c`): off by default, and it does not compile when turned
  on: it calls `eccx08_eckey_isx08key` with one argument where two are declared. Its
  commands (`eccx08_cmd_defns.c:321-351`) go with it.
- **Pass-through methods** (`eccx08_eckey_meth.c:718-726, 821-914`), which call OpenSSL's
  defaults and change nothing, and the branch for builds that register no ECDSA, which
  does not compile for the same reason.
- **OpenSSL 1.0** (`ATCA_OPENSSL_OLD_API`): the method tables of that version.
- **Threads in `Keys`**: the store, the reference counts of a load and the
  configuration are not locked; `Keys` has one thread, as `SingleThreaded` says.
- **Ciphers** (a disabled skeleton), error strings and diagnostics, the certificate
  tables, the demonstrations (callers of OpenSSL, which reach the engine through the
  operations above), scripts and packaging.
- The bus, the cryptography and OpenSSL are external. Whether the sleep of a cure also
  takes away an authorization granted before is not described in the repository, so
  `KeyOps` does not say.
