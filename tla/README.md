# TLA+ models of rust-concurrency

This directory holds TLA+ models of the stateful and concurrent parts of this
repository, and the TLC configurations that check them. Each module is
translated from the Rust source it names. `PROJECT.json` maps every modelled
definition to its source lines, and lists the runs, the mutants that show each
property can fail, the findings and the hazards.

## The system and its parts

The repository is a snapshot of a Lightning node library and its tooling. The
parts that hold state, or run concurrently, are these:

| Part | Source | Module |
|---|---|---|
| Signer enforcement wrapper | `lightning/src/util/enforcing_trait_impls.rs` | `EnforcingChannelKeys` |
| Stateless inbound payment secrets | `lightning/src/ln/inbound_payment.rs` | `InboundPayment` |
| Feature bit vectors | `lightning/src/ln/features.rs` | `Features` |
| Gossip test source | `lightning/src/util/test_utils.rs` (`TestRoutingMessageHandler`) | `RoutingHandler` |
| Monitor test double | `lightning/src/util/test_utils.rs` (`TestChannelMonitor`) | `TestMonitor` |
| Invoice construction and hint filtering | `lightning-invoice/src/utils.rs` | `InvoiceUtils` |
| Router seed | `lightning-invoice/src/utils.rs` (`DefaultRouter`) | `DefaultRouter`, refining `SeedSource` |
| Fuzz random source | `src/util/rng.rs` (`fuzzy_rng`) | `FuzzyRng` |
| Fuzz test-case runner | `fuzz/src/bin/msg_closing_signed_target.rs` (`run_test_cases`) | `FuzzRunner` |
| C bindings ownership protocol | `lightning-c-bindings/src/ln/chan_utils.rs` | `FfiOwnership` |

These parts interact through the values they pass, not through shared state.
For example, the signer wrapper signs transactions that channel code builds,
and invoices carry payment secrets that `InboundPayment` issues. So each part
is a module of its own.

Each checked module `M` has an `MCM.tla` that supplies the model values and
definitions TLC needs. It also has one `.cfg` per run. There are two
exceptions, each composing two parts that share no state:
- `MCTestUtils` composes the two concurrent test doubles of `test_utils.rs`;
- `MCRandomSeeds` composes the two shared random sources, `DefaultRouter` and
  `FuzzyRng`, and renames their `pc` variables apart.

Each part is taken with `INSTANCE`, and a step of the composition is a step of
one part while the other stands still.

## The modules

**EnforcingChannelKeys.** `sign_remote_commitment` is modelled for several
threads that share one wrapper.
- **State:** the state is `commitment_number_obscure_and_last` behind a
  `Mutex`, together with the mutex's poisoned flag.
- **Per-thread steps:** each thread goes through the call, the lock, the check,
  the release, and the inner signature.
- **Commitment number:** the number is recovered from `lock_time` and
  `sequence`, XOR the learned obscuring factor.
- **Failed assert:** it panics with the lock held and poisons the mutex.
- **Input:** the transaction builder lives outside this repository, so it is
  modelled from the spec and marked `spec_modelled`.
- **Crash and reload:** `Persist` is the write half of `impl_writeable!`
  (lines 64-67). It copies `(obscure, last)` under the lock at any time. No
  copy comes from a poisoned lock.
- **Restart:** a crash at any point, followed by a read of the latest copy.
  The read puts the pair in a fresh, unpoisoned Mutex and drops the calls in
  flight.
- **staleRestore:** a history flag. It records a reload from a copy older
  than the state it replaced.

**InboundPayment.** The module models `create`, `create_from_hash`, `verify`
and `get_payment_preimage`.
- **Abstractions:** HMAC and encryption are symbolic terms. The metadata is an
  amount field packed with a 3-bit method tag.
- **Attacker:** an attacker replays, or flips bits in, any secret it has seen.
- **Block time:** `NewBlock` advances `highest_seen_timestamp`. It stands for
  the channel manager, which lives outside this repository.

**Features.** The state is an `InitFeatures` byte vector of bounded length.
- **Actions:** every mutating operation is an action.
- **Queries and conversions:** `requires_unknown_bits`, `supports_unknown_bits`,
  the `supports_*` queries, `write` and `read`, `write_up_to_13`, `or`, and the
  projections to node and channel features are operators over the vector.
- **Reference:** each one is checked against a reference that reads the
  vector as a set of bit positions.
- **Constructors:** the three `supported()` constructors write out their
  vectors separately. `NodeProjection` also checks that the node and channel
  vectors are the projections of the init vector.

**RoutingHandler.** Several peers' sync tasks call
`get_next_channel_announcements` on one handler.
- **Non-atomic update:** the load of `chan_anns_sent` (line 257) and its
  `fetch_add` (line 266) are separate steps.
- **Underflow:** `TOTAL_UPDS - sent` can underflow. Both builds are kept:
  with overflow checks it panics, and without them it wraps to an unbounded
  end.
- **Counters:** `handle_channel_announcement` and `handle_channel_update`
  increment their counters.

**TestMonitor.** This is `TestChannelMonitor`, the monitor double that the
functional tests hand to the channel manager.
- **Entry points:** `AddMonitor` and `UpdateMonitor` record the latest update
  id (lines 82 and 100). `SimpleAdd` and `SimpleUpdate` are the calls into
  `simple_monitor` (lines 84 and 101). Each waits for the `monitors` lock,
  which `simple_monitor` takes and releases inside. The `assert!(..is_ok())`
  panics when `simple_monitor` already holds the outpoint (add), or does not
  hold it (update).
- **Monitors lock:** `LockMonitors` is line 104. From there `update_monitor`
  holds `simple_monitor.monitors` to its return, and `FinishReturn` drops it.
- **Return path:** each call then returns `update_ret` in two steps:
  - `StartReturn` reads `update_ret` under its own lock (line 86 or 113);
  - `FinishReturn` takes `next_update_ret` and, if it was armed, writes it
    into `update_ret` (lines 87-89 or 114-116).
- **Tests:** tests write `update_ret` and `next_update_ret` directly, at any
  time.
- **History:** `expectRet` is what the field comment says the next return
  gives.
- **Left out:** the write/read round trips and the `added_monitors` log.

**InvoiceUtils.**
- **filter_channels:** it is a `RECURSIVE` scan that follows the code exactly:
  - it skips a channel with no scid or no forwarding info;
  - it returns early on a public channel;
  - it keeps one entry per counterparty and replaces it unless the new
    capacity is lower;
  - it sets `min_capacity_channel_exists`;
  - it applies the final `filter`.
- **Invoice builders:**
  - `create_invoice_from_channelmanager_and_duration_since_epoch` applies the
    filter, then checks the amount (`InvalidAmount`), then builds and signs.
    Building and signing may each fail.
  - `create_phantom_invoice` returns `MissingRouteHints`, or gives one hint per
    routable channel.
- **Channels:** a channel is reduced to the fields these functions read.

**DefaultRouter.** The seed is modelled as the number of SHA-256 applications.
The model assumes SHA-256 has no collisions, so distinct counts are distinct
seeds. Concurrent `find_route` calls go through these steps: lock the seed,
hash it, store it, drop the guard, and route with the copy.

**SeedSource** is the abstract specification of what `find_route` promises
about randomisation. Its `Draw` is one atomic step that advances the seed and
takes the new value. Its `Route` uses a drawn value once. `DefaultRouter`
instantiates it with this refinement mapping:
- the abstract `seed` is the router's seed;
- `drawn` is the copies held by calls that have stored but not yet routed;
- `used` is the routed seeds.

`StoreSeed` is the step that refines `Draw`, `FindRoute` refines `Route`, and
every other step stutters.

**FuzzyRng.** Each draw does `RNG_ITER += 1; RNG_ITER - 1` on a `static mut`.
That is a data race, modelled as the outcomes the build can produce:
- a load step and a store step;
- then a result taken from the register, or from a reload of the global.

`reset_rng_state` stores 0.

**FuzzRunner.** This is `run_test_cases`.
- **Main thread:** for each case it does `fetch_add`, then spawns a worker,
  then loops on `park()` while more than the limit are running.
- **Workers:** each worker runs its case under `catch_unwind`, does
  `fetch_sub`, then `unpark`s the main thread.
- **Join loop:** the main thread joins the workers in order and panics on the
  first failed case.
- **Park semantics:** `park` uses Rust's token semantics, and it may also wake
  spuriously.

**FfiOwnership.** Each binding struct `{inner, is_owned}` is a record.
- **Heap:** each allocation is `unused`, `live` or `freed`.
- **Rust side:** these functions are translated from the code:
  - `Drop`;
  - `take_ptr`, which asserts ownership and nulls `inner`;
  - the by-value constructors `PreCalculatedTxCreationKeys_new` and
    `LocalCommitmentTransaction_new_missing_local_sig`;
  - the `HTLCOutputInCommitment` vectors that `set_per_htlc` and
    `new_missing_local_sig` consume, moving every HTLC out of its box with
    `take_ptr`;
  - `trust_key_derivation`, which returns a borrowed pointer into its parent;
  - `X_read`, which returns a null `inner` on failure;
  - the getters, setters, and free.
- **C side:** it is an arbitrary client that keeps the calling convention
  stated on the structs:
  - a struct passed by value is not used again;
  - a null `inner` is only ever freed;
  - a borrowed struct is used only while the struct it came from is held.
- **Faults:** a fault records undefined behaviour on the Rust side: a double
  free, a free of an interior pointer, a use after free, or a null
  dereference.
- **Abort:** a panic across `extern "C"` ends the process, and nothing happens
  after it.

## Runs

| Run | Config | Expect | What it shows |
|---|---|---|---|
| signer | `MCEnforcingChannelKeys.cfg` | pass | For a wrapper that learned its factor from commitment 0, the accepted numbers are contiguous, across a crash at any point and a reload from an up-to-date copy. A signature lost in the crash is asked for again at the same number. Dropping the up-to-date premise, TLC finds a reload of the copy written before the first call: the factor is learned again, and commitment 2 is accepted as 0. |
| signer_monotonic | `MCEnforcingChannelKeys_CommitmentMonotonic.cfg` | violation | The accepted number can move backwards, because the factor is learned from the first call (line 44): a first call at commitment 2 teaches a wrong factor. |
| signer_one_per_number | `MCEnforcingChannelKeys_OneCommitmentPerNumber.cfg` | violation | Without any crash, a second, different transaction is checked and signed at the number already signed, because the assert at line 48 admits `commitment_number == last`. |
| signer_order | `MCEnforcingChannelKeys_SignedInOrder.cfg` | violation | The guard is dropped before the inner signer runs, so signatures leave in a different order from the checks. |
| inbound | `MCInboundPayment.cfg` | pass | `verify` accepts exactly the issued secrets within amount and expiry. It authenticates before it checks limits. `get_payment_preimage` returns only issued preimages. |
| features | `MCFeatures.cfg` | pass | Round trip, `write_up_to_13`, projections, unknown-bit queries and `or` all agree with the bit-set reference. |
| runner | `MCFuzzRunner.cfg` | pass | The pool stays within the limit plus one. No wakeup is lost, so the runner ends. A panicked case makes the runner panic. |
| test_doubles | `MCTestUtils.cfg` | pass | Gossip: calls that do not overlap never serve more than `TOTAL_UPDS` and never underflow. Monitor: while calls do not overlap, each return gives what the `next_update_ret` comment says. With overlapping calls it does not: two calls both read the old `update_ret`, or a test writes it mid-call. The comment does not rule that out, so it is a hazard and not a finding. |
| invoice | `MCInvoiceUtils.cfg` | pass | There is one hint per counterparty, through a channel of highest capacity. The minimum capacity is applied exactly as the doc comment states. |
| invoice_public | `MCInvoiceUtils_PublicMeansNoHints.cfg` | violation | A public channel without forwarding info does not make the hints empty, contrary to the doc comment. |
| seeds | `MCRandomSeeds.cfg` | pass | No two `find_route` calls use one seed. The locked block implements the atomic `SeedSource` (`SeedRefinement`). Without overlapping draws, every reset of the fuzz rng replays 0, 1, 2, ... |
| ffi | `MCFfiOwnership.cfg` | pass | A conforming C client never triggers a memory fault. Each live object has exactly one owner, so nothing leaks and nothing is shared. |

Every property of a passing run has a mutant in `PROJECT.json`. The mutant is a
plausible bug in the mapped code, such as a dropped guard, a missing reset or a
swapped operation, and TLC finds the property violated under that mutant.

## Bounds

- **signer:** two threads, one body, 2-bit halves of the commitment number,
  four calls and one crash. Two threads are enough for every interleaving of
  check and sign. Four calls let a thread poison the lock and another panic on
  it. One crash can fall between any two steps. The pass run's properties do
  not depend on the transaction body. The three violation runs keep two bodies,
  since their properties compare them.
- **inbound:** two random IVs and two issued secrets. The attacker flips the
  lowest amount bit or a method bit, and the expiry bit. Amounts use 2 bits,
  and time has three values. Minimum amounts are none, 3, and 4, which is
  above the maximum. These bounds reach the amount limit, the create error
  path, the expiry edge, and tampering with each field.
- **features:** vectors of up to 2 bytes over bytes that set every single bit,
  0 and 255. `or` takes arguments up to 3 bytes long. Every byte of every
  known bit is covered, as are the unknown bits in bytes 0 and 1 and resizing.
- **runner:** three cases with a limit of 1. The main thread must park, and a
  worker can unpark it before it parks.
- **test_doubles:** the gossip double has two callers, `TOTAL_UPDS = 3`, start
  points 0..2, batches of 2, and three calls. That is enough for two
  overlapping calls to push `sent` past the total, so that a third call hits
  the underflow. The monitor double has two callers, one outpoint, one update
  id, `Ok` and one error, and four calls or test writes. That arms
  `next_update_ret` between two returns, and also makes an add wait on the
  `monitors` lock held by an update. The product is about 1.7 million states.
- **invoice:** two counterparties, capacities 1 and 2, and every channel list
  up to length 3. Each channel is public or private, routable or not. The
  amounts are none, 2 and 5, with a limit of 4.
- **seeds:** two threads, four `find_route` calls and four draws. That is
  enough for two calls to contend for the seed lock twice, and for an
  overlapped pair of draws after a reset. `reset_rng_state` stays callable,
  so this run also checks for deadlock.
- **ffi:** three allocations and four structs. That covers a parent, a
  borrowed child of it, a consumed argument, an HTLC vector and a failed
  read. The run uses
  symmetry over both sets, which is sound because every property is an
  invariant.

## Fairness

The only liveness property is `Terminates`, in the runner. Its threads are
OS threads that keep running once runnable. So the main thread has weak
fairness on its loop (spawn, check, park, join, finish), and it walks a fixed
list of cases. Each worker has weak fairness on running its case and on its
`unpark`.
- **Spurious wakeups:** a spurious wakeup has no fairness, because the code
  must not rely on it.
- **Symmetry:** the runner run does not use symmetry.

## Not modelled

- **Byte-level fuzz targets:** `msg_targets`, `chanmon_deser` and the main
  function of each target decode bytes and re-encode them. Their state is a
  byte string.
- **REST block source:** `lightning-block-sync/src/rest.rs` is async HTTP I/O.
- **Module declarations:** the `mod.rs` files. Base32 parsing of
  `PaymentSecret` is formatting.
- **Other C bindings:**
  - `Clone` is reachable from C only through the crate-private `_clone_void`;
  - the `derive_*` and script functions are pure.
- **Signer persistence policy:** `Persist` may write at any time, because
  the channel manager decides when copies are written and it is not in this
  repository. So the stale-copy case is a hazard, not a finding.
- **Signer refinement:** the check in `sign_remote_commitment` is one
  critical section, and `CheckCommitment` models it as one step. An abstract
  signer would repeat that step, so the refinement would show nothing.
  `AcceptedContiguous` and the three violation runs state the promise instead.
- **msg_update_fail_htlc_target:** `do_test` resets the rng and decodes one
  message, which draws nothing. The afl and honggfuzz mains call it from one
  thread, which is the case `ResetRngState` models: no draw in flight.
- **Other test doubles:** the fee estimator, broadcaster and logger doubles
  only return or record values.

## Plan for later sittings

1. Larger instances of the composed test doubles: three monitor callers and
   two update ids, if the run stays within its time budget.
2. An order property for `latest_monitor_update_id`, if the channel manager's
   per-channel serialisation of updates is ever part of the repository.
