# Formal model of the atomix transaction coordinator

This directory holds TLA+ models of the transaction coordinator in
`src/coordinator/src/transaction.rs`, together with the collaborators it
races against. It also has TLC configurations that model-check the models
on small instances and TLAPS proofs of the main safety properties for every
instance.

## 1. The system

A `Transaction` is owned by one client session, so its operations run one at
a time. It buffers writes and commits them with two-phase commit (2PC).

| Part | Code | What it does |
|------|------|--------------|
| C1 Keyspace Resolver | `resolve_keyspace` (65-95) | Maps a keyspace name to an id through the universe directory. Caches the id for the life of the transaction. |
| C2 Key Router | `resolve_full_record_key` (97-116) | Asks the assignment oracle for the range of a key, on every call (no cache). |
| C3 Participant Set | `participant_ranges`, `get_participant_range` (37-42, 126-136) | One readset, writeset, deleteset and pinned leader sequence number per range touched. |
| C4 State machine | `state`, `check_still_running` (30-35, 118-124) | Running, then Preparing, then Committed, or Aborted. |
| C5 2PC driver | `get`/`put`/`del`/`abort`/`commit`, `record_abort` (138-347) | Reads, buffered writes, the prepare fan-out, the state-store decision and the commit/abort hints. |
| C6 Error mapper | `error_from_rangeclient_error` (242-245) | A stub that panics. |

Collaborators. Only the range server's trait
(`src/rangeserver/src/range_manager.rs`) is in this repository; the others
are modelled from `spec.md`:
- **Transaction state store.** A decide-once register with `try_commit` and
  `try_abort`. A timeout daemon may abort behind the coordinator.
- **Range servers.** `get` reports the leader sequence number. `prepare`,
  `commit` and `abort` follow the `RangeManager` contract. Commit and abort
  RPCs are hints whose failures are ignored.
- **Universe directory, assignment oracle, epoch reader.** Keyspaces may be
  dropped and recreated, keys may move between ranges, and the epoch grows.

How they interact:
- **Reads.** `get` pins the first valid leader sequence number a range
  reports. A later read that sees another number aborts the transaction.
- **`commit`.** It sets Preparing and spawns one prepare task per
  participant into a `JoinSet`. It reads the epoch, then joins the tasks in
  completion order. It then asks the store to commit at that epoch and, if
  the store agrees, sends commit hints.
- **`record_abort`.** It sets Aborted, spawns the abort hints, asks the
  store to abort (a Committed answer is a panic) and waits for the hints.
  The hints can reach the range servers before the store hears of the
  abort.
- **Epoch lease.** Each prepare returns a `PrepareResult` with an epoch
  lease. The check that the commit epoch lies inside every lease is
  commented out (lines 295-310).

## 2. Modules

`Transaction.tla` models one transaction and its environment.

**State.**
- Coordinator:
  - `state`: `Transaction.state`.
  - `pc`: where the coordinator is. `idle` between calls, `prepare` or `join` inside `commit`, `aborting` inside `record_abort` (between spawning the hints and the store's answer), `panicked` after a panic.
  - `readset`, `writeset`, `deleteset`, `lsn`: the `ParticipantRange` fields, one function per field over `FullRangeIds`.
  - `touched`: the keys of `participant_ranges`.
  - `resolved`: `resolved_keyspaces`.
  - `prep`: the prepare task of each participant in the `JoinSet`, one of `pending`, `ok`, `failed` (JoinError), `rpcerr` (range-client error) or `joined`.
  - `lease`: the epoch lease each completed prepare returned, `<<epoch, epoch + LeaseSpan>>` at the server's epoch.
  - `readEpoch`: the epoch that `commit` read.
- Environment:
  - `decision`, `commitEpoch`: the state store.
  - `rs`: what each range server knows of the transaction.
  - `net`: the RPCs in flight.
  - `leader`, `epoch`, `universe`, `owner`.
  - `moves`: a bound on changes of the universe and the oracle.
- History: `ops`, `seen`, `intent`, `lastGet` are only read by properties.

**Actions.**
- One action per client operation: `Get`, `Put`, `Del`, `Abort`,
  `CommitStart`, plus `ResolveFails` and `Rejected` for the early returns and
  `GetRpcFails` for the `.unwrap()` panic.
- Each action takes the whole handler up to its next await. `record_abort`
  is split at its await on the store: `RecordAbort(S)` (state := Aborted,
  abort hints spawned, `pc = "aborting"`) is part of the calling action,
  and `StoreAbort` is `try_abort_transaction` (a Committed answer panics)
  followed by the join of the hints.
- `commit` is split at its suspension points, because the environment can
  act between them: `CommitStart` (spawn the prepares), `ReadEpoch`,
  `JoinPrepare(p)` (one `join_next` result, with its three outcomes) and
  `TryCommit` (the store call and the commit fan-out).
- Environment actions: `ServerPrepare`, `PrepareRejected`,
  `PrepareTaskFails`, `ServerCommit`, `ServerAbort`, `LoseHint`,
  `TimeoutAbort`, `LeaderChange`, `EpochTick`, `RecreateKeyspace`,
  `Reassign`. `EpochTick` fires while the prepares are in flight (`pc` is
  `prepare` or `join`), the only window in which the epoch matters.

**Data.**
- Keys, values, ranges and keyspace ids are model values.
- Formatting, `has_reads` and record vectors are left out; no property
  tells them apart.
- The sentinels keep their numeric values: `UNSET = 0`, `INVALID = -1`.

`MC_Transaction.tla` gives the model values and a symmetry set. Symmetry
over keys, ranges and keyspace ids is sound because the model treats every
member of these sets alike.

`AtomicCommit.tla` is the abstract specification: what the coordinator,
the store and the range servers together promise. An outcome is decided
once; a range prepares, then learns commit or abort; ranges are enlisted
while the outcome is not committed. Actions: `Enlist(P)`, `Prepare(r)`,
`DecideCommit`, `DecideAbort(P)`, `LearnCommit(r)`, `LearnAbort(r)`.
`Transaction` instantiates it with the refinement mapping:
- `outcome <- Outcome`: the store's decision, except that the coordinator
  setting Aborted already decides abort (`AbortDecided`). This is the
  claim of the comment at lines 198-199: nothing commits without the
  coordinator, so setting Aborted is the linearization point of the abort.
- `rmState <- RmState`: `rs`, with `idle` read as `working`.
- `parts <- touched`.

`TransactionProofs.tla` holds the TLAPS proofs.

PROJECT.json maps every modelled definition to the lines it translates.

## 3. Runs

| Run | cfg | Result | Shows |
|-----|-----|--------|-------|
| safety | `MC_Transaction.cfg` | pass, about 1.5M distinct states | `TypeOK`, `HintsAgreeWithDecision`, `CommitRequiresAllPrepared`, `CoordinatorAgreesWithStore`, `ReadsFromPinnedLeader` and `KeyspaceStable` hold; so does the action property `StoreAbortNeverPanics` (`record_abort`'s panic at line 225 is unreachable), and `ImplementsAtomicCommit` (the refinement as a temporal property). |
| commit_terminates | `MC_TransactionLive.cfg` | pass | `CommitTerminates`: every `commit` call returns or panics, given that range servers answer prepares. It cannot catch a server that never answers: `commit` has no timeout on the join (line 283). |
| lease_not_checked | `MC_TransactionLease.cfg` | violation | `LeaseCoversCommitEpoch`: the epoch ticks after `commit` read it, a prepare returns a lease starting at the new epoch, and the store commits at the old one (lines 280, 300). |
| preparing_at_rest | `MC_TransactionRest.cfg` | violation | `NoPreparingAtRest`: after a timeout abort, `commit` returns with the state still Preparing (line 320). |
| rangeclient_error_panics | `MC_TransactionPanic.cfg` | violation | `PrepareErrorNoPanic` (an action property: no step of `commit`'s join loop panics): a prepare rejected by a range server is joined and panics the coordinator (lines 293, 244). |
| read_your_writes_moved_range | `MC_TransactionRYW.cfg` | violation | `ReadYourWrites`: a range move between a buffered `put` or `del` and a `get` sends the get to the server (line 103); TLC's shortest trace uses a `put`. |

**Bounds.**
- One keyspace name, two keyspace ids, two keys, two ranges and one value.
  This gives up to four participants, two of which can coexist in one
  transaction. It allows a keyspace recreated under a new id and a key moved
  to a new range.
- `MaxLeaderSeq = 2`: one leader change per range.
- `MaxEpoch = 2`: one epoch tick while the prepares are in flight.
- `LeaseSpan = 1`: a lease covers its epoch and the next.
- `MaxMoves = 1`: one universe or oracle change.
- `MaxOps = 3` client calls: two operations on different ranges and a
  commit, or a write, a read and a commit.
- The liveness run uses `MaxLeaderSeq = 1`, `MaxMoves = 0` and one
  keyspace id: leader changes and moves do not touch `commit`'s steps, and
  they multiply the states the temporal check must search.

Each interesting case is reachable under these bounds:
- a timeout abort racing `try_commit`;
- one prepare failing while another succeeded;
- lost hints;
- a leader change between two reads;
- abort hints delivered before the store hears of the abort, racing the
  timeout daemon;
- an epoch tick between the epoch read and a prepare.

The mutants in PROJECT.json show that each property is violated when the
code it covers is broken in a plausible way (a dropped guard, a skipped
join, a skipped store call, a cache bypass, a `check_still_running`
that only rejects Aborted).

**Fairness.** Weak fairness is assumed only on:
- the coordinator's own steps inside `commit` and `record_abort`: `ReadEpoch`, `JoinPrepare(p)`, `TryCommit`, `StoreAbort`;
- range servers answering prepares (`ServerPrepare`).

Client calls and environment changes are not fair, because a client may
stop at any time. For the same reason, deadlock is not checked.

## 4. Proofs (`TransactionProofs.tla`, `AtomicCommit.tla`, TLAPS)

| Theorem | Statement |
|---------|-----------|
| `ACSafe` | `ACSpec => [](ACTypeOK /\ ACConsistent)`: the abstract protocol is atomic. |
| `TypeCorrect` | `Spec => []TypeOK`. |
| `TwoPhaseCommitSafe` | `Spec => [](HintsAgreeWithDecision /\ CommitRequiresAllPrepared /\ CoordinatorAgreesWithStore)`. |
| `KeyspaceCacheStable` | `Spec => []KeyspaceStable`. |
| `PinnedReads` | `Spec => []ReadsFromPinnedLeader`. |
| `CommitNeedsAllPrepared` | `Spec => []CommitRequiresAllPrepared`, a corollary of `TwoPhaseCommitSafe`. |
| `CoordinatorStoreAgreement` | `Spec => []CoordinatorAgreesWithStore`, a corollary of `TwoPhaseCommitSafe`. |
| `TransactionRefinement` | `Spec => AC!ACSpec`: the model implements `AtomicCommit`. |
| `RecordAbortNoPanic` | `Spec => StoreAbortNeverPanics`: `record_abort`'s panic is unreachable. |
| `RangesAtomic` | `Spec => []`(no range committed while another aborted, and a committed range implies the store committed): `ACSafe` carried through `TransactionRefinement`. |

**The inductive invariant `IInv`.** The 2PC properties are not inductive
on their own. `IInv` adds:
1. `decision = "committed" <=> state = "Committed"`: only `TryCommit` makes
   the store commit, and it sets Committed in the same step.
2. Committed implies `commitEpoch = readEpoch`.
3. Inside `commit` the state is Preparing; inside `record_abort` it is
   Aborted. With 1, this is why `StoreAbort` never panics: the store
   cannot have committed.
4. A participant whose prepare completed Ok (or was joined) is prepared or
   committed at its range server, unless the abort is decided or the
   coordinator panicked. This carries `CommitRequiresAllPrepared` through
   `TryCommit`.
5. Prepare and commit RPCs go only to participants. This makes
   `ServerPrepare` an abstract `Prepare` of an enlisted range.
6. Aborted at rest implies the store aborted.

TLC checked `IInv` on every reachable state of the safety instance before
the proof was written.

**Lemmas.**
- `TypeStep` and `IInvStep` have one step per action. `GetShape` splits
  `Get` into its three outcomes (buffered, leader check fails, read).
- `FrameStep` covers steps that leave the protocol variables alone.
  `RecordAbortStep` covers `record_abort`'s first half from Running or
  Preparing.
- `KeyspaceCacheStable` rests on `CacheKeeps`: caching a name's id
  overwrites only an empty entry.
- `PinnedReads` uses `IInv` with `AbortedStays` (no step leaves Aborted)
  and `OnlyGetReads`.
- `RecordAbortNoPanic` rests on `PanicSteps` (only `idle`, `join`, or
  `aborting` with a committed store can step to `panicked`) and on
  conjuncts 1 and 3 of `IInv`: while `record_abort` runs the state is
  Aborted, so the store has not committed.
- `PinnedCases` states what `Pinned` returns: the recorded sequence
  number, or the observed one when none was recorded and it is valid.
- `TransactionRefinement` uses `RefinementStep`, which maps each action:
  - `Get`/`Put`/`Del` to `Enlist`;
  - `record_abort`'s first half and `TimeoutAbort` to `DecideAbort` (or a
    stutter if the abort was already decided);
  - `TryCommit` to `DecideCommit` (every participant is prepared, and none
    committed, by `IInv`);
  - `ServerPrepare`, `ServerCommit`, `ServerAbort` to `Prepare`,
    `LearnCommit`, `LearnAbort`;
  - everything else, `StoreAbort` included, to a stutter.

Assumptions: `ConstantsAssumption` (the bounds are naturals, the model
values lie outside their sets). Nothing else.

**Left to TLC.**
- `CommitTerminates`: liveness needs fairness and ENABLED, which the
  prover does not handle.
- The violation runs, which are counterexamples rather than theorems.

## 5. Not modelled

- The transaction state store's own implementation and replication.
- Range-server internals: locking, storage, `load`/`unload`, `prefetch`.
- The range-client integration tests, which are a harness with no state of
  their own.
- Transport errors of the epoch read and of the store calls. Both are
  `.unwrap()` panics like the modelled one in `get`.
- `highest_known_epoch` returned by prepare: the code that would use it is
  commented out (lines 294-297), so it has no effect.
- Several concurrent transactions contending on ranges. The coordinator
  code handles one transaction per object.

## 6. Plan

1. A range-server module refining the `RangeManager` contract, with
   idempotent prepare and commit only after prepare or abort, composed
   with `Transaction`.
2. Transport errors of the epoch read and of the store calls, as panics.
3. Several transactions contending on a range, which needs the range
   server's locking.
