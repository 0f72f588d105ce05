# Livrarr in TLA+

Livrarr is one process: an axum server and a set of periodic jobs on the tokio
runtime, a SQLite database, a library on disk, and many remote hosts (indexers,
book providers, download clients). This directory models the parts in which tasks,
failures and restarts meet, checks the models with TLC and proves the central
properties with TLAPS. Every definition that models code has its source lines in
`PROJECT.json` under `map`.

Contents: 1 inventory, 2 modules, 3 runs, 4 fairness, 5 proofs, 6 disagreements
between the code and its text, 7 abstractions, 8 plan.

## 1. Inventory

| Part | State | Operations | What is hard |
|---|---|---|---|
| Keyed mutex (`livrarr-domain/keyed_mutex.rs`); the import, refresh and cover-slot locks are instances | map key → `Arc<Mutex>`, capacity semaphore | `lock`, guard drop, `sweep` | a key that is pruned and inserted again has a new mutex, so one wrong prune breaks exclusion; cancelled futures and the capacity permits; callers waiting at the cap |
| Circuit breaker (`livrarr-http/breaker.rs`) | state, failure times, opening, successes | `current`, `record_success`, `record_failure`, `trip_immediately` | lazy transitions, windows, a trip while already open |
| Pace lane (`livrarr-http/outbound_queue.rs`, reports in `fetcher.rs`) | heap, dispatcher flag, last dispatch, permits, breakers | `acquire`, dispatcher, probe, reports | the dispatcher waits twice between looking at the heap and popping it; it is spawned on demand and may die; callers vanish |
| Lane registry (same file) | map pace key → handle | lookup with eviction, re-assertion, report | lookup, push and re-assertion are three critical sections |
| File import (`livrarr-library/import_workflow.rs`, `import_intents`, `library_items`) | target, staging file, intent, row | `import_file_locked`, `recover_import_intents` | process death, power loss, failed calls and dropped requests between any two steps; two works at one path |
| Grab lifecycle (`sqlite_grab.rs`, `download_poller.rs`, `queue.rs`, `import_service.rs`, `release_service.rs`) | a `grabs` row, the client's downloads, import tasks | grab, poll, retry, import, remove, reset at startup | many writers, most of which do not look at what the row has become |
| Cover write gate (`livrarr-metadata/cover_write_gate.rs`, `cover_write_gate_recovery.rs`) | cover columns of a work, served file, candidate bytes and sidecar, slot lock | offer, user's choice, recovery, provenance backfill, first download, deletion | a crash between two file operations; three writers that do not take the slot lock; a dropped request whose call outlives its lock |
| Cover rank (`livrarr-enrichment/cover_rank.rs`, `cover_resolution.rs`) | none | compare two covers | ties, unknown sources |
| Author linking (`livrarr-metadata/author_linking.rs`, `livrarr-db/sqlite_author_link.rs`) | ledger row with lease, fingerprint and generation; routes; questions; key attempts; shown name | sweep pass, pick, attach, dismiss, remove, ask again, rename, fold of an author | each write of a pass is a transaction of its own; users and imports act between them; leases end under a pass; automation against tombstones and dismissals |
| Identity layer (`livrarr-db/identity_layer.rs`, `livrarr-metadata/identity_road.rs`) | works with a generation, routes, review cards, dismissals | settle, hand off captured routes, mint questions, add, edit, affirm, dismiss, tell apart, delete | everything is decided from reads of earlier transactions; the generation is the only guard |
| Enrichment queue and retry state (`livrarr-enrichment/provider_queue.rs`, `sqlite_retry_state.rs`) | terminal outcome per (work, provider), attempts per generation | dispatch, persist, invalidate, charge | late outcomes after the identity has changed |
| Work service, convergence | visits of works | add, refresh, converge | jobs against requests |
| Readarr and list imports (`livrarr-server/readarr_import_workflow.rs`, `livrarr-metadata/list_service.rs`) | `imports` rows, the slot of the process, tagged authors, works and files | start, run, confirm, complete, undo | a background task and requests of many transactions, kept apart only by the slot and the row's status |
| Merge engine, matching, release scoring | none | pure functions | order of sources, ties |
| Author monitor, series, RSS sync | rows per author, feed | sync | jobs against requests |
| Manual import and root scan | none of their own | scan, import | end in the file import above |
| Deletion of library items | rows, files | delete | no lock shared with an import |
| Upgrade backup and migrations | backup directory, schema version | stage, verify, rotate | crash during start-up |
| Tag writing | file tags | write, converge | shares the import semaphore |
| Sessions, playback progress, bookmarks | one row each | upsert, expire | concurrent upserts |
| Job runner | ticks | spawn, isolate panics | decides which fairness the jobs may assume |
| Handlers, frontend, CLI, provider clients | none of their own | parse, show | |

The parts meet as follows. An outgoing request goes through the lane registry to a
pace lane, whose dispatcher grants it a turn or turns it away on the word of two
breakers; the response goes back to the breakers. RSS sync and the user's requests
call `grab()`, which writes a grab row. The poller asks the download client about
active rows and spawns imports under a semaphore; a retry request runs one itself.
Each import takes the keyed mutex of its (user, work) and moves every file through
the intent protocol. Books enter by doors (search, author monitor, lists, Readarr), all
of which settle through the identity road; convergence and refresh send a pass to the
providers for a work and hand the ids it brings back to the same road. The works'
settled ids are the evidence from which the author road links authors; the covers a
pass brings back go through the cover gate. Library imports drive both roads and the
file import, and their undo takes rows away again.

What makes the modelled parts correct:

* keyed mutex: two guards of a key never coexist; the cap holds and no permit is
  lost; every call settles;
* breaker: it trips exactly at the threshold, keeps its cooldown and closes only on
  proven recovery;
* lane: the host sees the promised rate and concurrency, no start while a breaker
  is open, order by priority and arrival, every caller is answered;
* registry: an eviction never takes a lane with a request queued or in flight;
* import: nothing torn, nothing an import placed is unaccounted for, success means
  an owned row and an unshared file, recovery settles what it finds;
* grab: one import of a grab at a time, no row stuck in `importing`, a completed
  download is picked up and the import reads that download's files;
* cover gate: the row describes the served file or a candidate that recovery will put in
  place, automatic changes are upgrades, offers respect the user's choice, a startup pass leaves
  nothing undecided;
* author linking: an open question can be answered, a name recorded as an
  observation is taken into account, what the user removed or dismissed is not brought back, a pass that gives its
  verdict has asked everything it owed, a due retry is run;
* identity layer: two works are never one identity unless the user said so, a question
  is never about an id the work has, a machine never re-opens what was dismissed, never
  gives a work a second id of a provider and never charges a work for a book it no
  longer is;
* library imports: one Readarr import at a time, a running row has a task, the slot is
  freed, an undo takes only works that its own import created.

`PROJECT.json` has the full list of components and, under `hazards`, the places
where each of these can go wrong.

## 2. Modules

| Module | Models | Uses |
|---|---|---|
| `KeyedLock` | abstract: a call is granted only while nobody holds its key | |
| `KeyedMutex` | `keyed_mutex.rs` | instance of `KeyedLock` |
| `CircuitBreaker` | the transitions of `BreakerState`, as operators on a record | |
| `BreakerTrace` | one breaker next to the log of its reports | `CircuitBreaker` |
| `RateLimiter` | abstract: at most `Cap` in flight, starts `Interval` apart | |
| `PaceLane` | one lane, its dispatcher and its callers | `CircuitBreaker`, instance of `RateLimiter` |
| `LaneRegistry` | the registry over lanes of the kind `PaceLane` implements | `CircuitBreaker` |
| `ImportIntent` | the import of a file and its recovery | |
| `GrabLifecycle` | a grab row and all its writers | |
| `CoverRank` | the rank tables and the comparator of covers | |
| `CoverGate` | one cover slot of one work, all its writers, crashes and the startup passes | `CoverRank` |
| `AuthorLink` | one author in the author-linking ledger | |
| `IdentityRoad` | the identities of one user's works by one author, passes, doors and the user | |
| `ImportBatch` | Readarr and list imports, their slot and their undo | |
| `*_proofs` | theorems of the module they extend | |
| `MC*` | symmetry sets and constant functions for TLC | |

Definitions marked *Mutant* are variants with a plausible bug. No specification uses
them; each is paired in `PROJECT.json` with a property that notices it.

**KeyedMutex.** `pc` is a task's place in `lock()` or in the guard's `Drop`; `map`,
`owner`, `permits` and `mapLock` are the fields of `KeyedMutexMap`, and the Arc count
is derived from `map` and `ref`. An action is one critical section or one await:
`FastTake`/`FastLookup` the lookup, `AcquireCapacity` the semaphore,
`InsertTake`/`InsertLost`/`InsertNew` the double-checked insert, `Acquire` the key's
mutex, `Cancel` a dropped future at each await, `Release` the unlock in `Drop` and
`DropTryLock`/`DropPrune`/`DropSkip` its prune, `SweepTake`/`SweepRetain` the sweep.
`Phase` maps a caller to what `KeyedLock` knows of it: idle, asking or holding.

**CircuitBreaker, BreakerTrace.** A breaker record keeps ages in place of instants,
so that `Tick` is `Aged`. `BreakerTrace` logs every report and states the properties
from that log, without the breaker's own counters.

**PaceLane.** `heap` has the pending items, also those whose caller is gone; `dpc`
is a dispatcher's place: `Gate` (phase 1: reject what is blocked, leave if nothing is
left, compute the pacing wait), `Wake` and `AcquirePermit` (the two awaits of phase
2), `PopGrant`/`PopReject` (phase 3, which looks at the breakers again). `Enqueue`
and `Refuse` are `acquire()` with its admission check, `Probe` the waiter's timer that
revives a dead lane, `Die` a dispatcher torn down with its runtime. `SendEnds`,
`Report1` and `Report2` are `do_fetch()`, `ClientReport` a provider client that
reports after the permit is gone.

**LaneRegistry.** `Lookup`, `Push` and `Reassert` are the three critical sections of
`acquire()`, `Finish` is `report_outcome()`, which looks the handle up again;
`BucketHandle` contains the sweep. The lane is reduced to what `PaceLane` is shown to
implement. `quiet` and `split` are histories: when the host last got a request, and the
keys for which a handle was made while a caller had one in hand.

**ImportIntent.** One target path. `file`, `intent`, `row` are what the running
system sees; `disk` and `saved` what a power loss leaves of them. `Exists` to `Adopt`
are the branch for an existing target, `Claim` to `Clear` the branch that stages,
intends, writes, renames, fsyncs, marks, records and clears. `FailsAt`, `RollBack` and
the fault disjuncts are the error paths, `Abandon` a dropped request whose blocking
thread goes on (`LateRename`, or `LateSeparate` for the copy and rename of
`ensure_independent_target`). `Restart` to `Sweep` are the recovery. `Crash` ends the
process, `PowerLoss` the machine, `Writeback` and `Checkpoint` are kernel and SQLite
(WAL, `synchronous=NORMAL`).

**GrabLifecycle.** One row. `Dispatch` and `Upsert` are the two halves of `grab()`,
`PollFetch` to `PollRepass` one tick of the poller with the answer and the row it
works from (`view`, `snap`), `Permit` to `Error` an import in a spawned task or in a
retry request, `Drop` a request that goes away, `Remove` the user's removal, `Restart`
the end of the process and `reset_importing_grabs()`. The variables `lost` and
`disturbed` are histories for the properties: an import ended without writing a
status; the row was overwritten under a running import.

**CoverRank, CoverGate.** `row`, `final`, `tmp`, `meta` are the cover columns, the served
file and the two candidate files. An offer holds `lock` from `run_cover_write_gate` or
`run_user_cover_write` to its last delete: `WriteTmp` and `WriteMeta` are two steps each
(create truncates, so a crash leaves a torn file), `Decide` asks `CoverRank`,
`Commit`/`Rename`/`Cleanup` and `Discard` are the two ends, each with its failure.
`recover_one` to `RecoverHeal` are the startup recovery, `BackfillRead`/`BackfillWrite` the
provenance backfill, `AddFile`/`AddRow` the first download of the add path, `DeleteWork` the
deletion with `delete_cover_files`. `Dropped` is a request whose client goes away: the future
ends and gives up the lock, and the call it waited for has ended or runs on as `stray`
(`StrayStep`: a `spawn_blocking` write of the candidate files, a rename, a delete, or an
update in the database's worker). `lapse` is a history: the first interleaving that the
protocol does not cover (section 6 lists them); the properties speak of behaviours
without one.

**AuthorLink.** `prog` is the row of `author_link_progress` (state, tier, fingerprint,
evidence generation, name generation, due, lease), `route`, `cand`, `att` the other
tables, `pass` what the sweep carries between transactions. One action per transaction of
a pass, in the order of `Pass`; each has `Claimed`, the check of the lease. `User` has the
user's answers, `Others` the doors that bring evidence with or without a claim, changes of
the works' evidence and `fold_author_link_state`; `LeaseEnds` and `Crash` are the faults.
A key may credit several authors: each the name guard agrees with (`Guard`) is written as
it comes, the rejected ones in one transaction at the end. `settled` may hold works without
a key (`Bare`): the author is then not parked, and has only the name search. `search` is a
history of the generation's name search, `unheard` of names inserted without a new display
generation (with a route, a Readarr rejection, a pick, a merge).

**IdentityRoad.** `work`, `route`, `cards`, `dismissed`, `standing`, `attempts` are the
tables. `route` gives each work its active routes and which of them are confirmed; several
works may have the same one, since only `Affirm` looks for another owner (section 6). A
pass is `Dispatch` (what to ask whom, from the routes and the standing), `Gather` (the
answers; their outcomes are persisted), `Handoff` (the generation is compared),
`SettleRead` (the identity is read again, decided and reconciled with the works of the
same main title), `Commit` (the settlement transaction: `Suppressed`, then `Refused`, then
`Written`), `Mint` (one question per transaction) and `Burn` (the attempt). A door is
`OpenDoor`, `ReadTarget`, `CommitDoor`. `Edit`, `Affirm`, `DifferentFromAll`, `Dismiss`
and `DeleteWork` are the user. `PassDies` is a failed call or the end of the process at
any step.

**ImportBatch.** `imp` is the table, `slot` the `ReadarrImportProgress` of the process.
`StartClaim`/`StartCreate` are `start()`, the `Run*` actions the spawned task with its
rollback and its error path, `Confirm*` and `Complete` a list import, `ListUndo` to `UndoMark`
the two undos, one action per transaction. `OwnFile` and `TouchAuthor` are the user beside
them, `Restart` is the end of the process with `recover_import_intents`. `lost` and `held`
are histories: a task cut off before it wrote its end, a `start()` dropped with the slot;
`by` remembers which import created a work, whatever is tagged. The list endpoints take the
id of any import of the user, so `ConfirmMore`, `Complete` and `ListUndo` do not ask for its
source.

## 3. Runs

| Run | Bounds | Shows |
|---|---|---|
| `keyed_mutex` | 2 tasks, 3 keys, cap 2, 2 calls each, fair | `ImplementsLock`: under cancellation, prune and sweep the map is a lock per key; `CallSettles`: every call is granted or cancelled, also at the cap |
| `breaker_trace` | threshold 2, window 2, open 2 (overrides 1 and 3), 2 probes, ≤ 5 reports in 6 ticks | `TripsAtThreshold`, `CooldownKept`, `RecoveryProven` |
| `pace_lane_indexer` | 3 requests of 2 priorities, 2 indexers, 1 permit, interval 1, 1 death, also before the first poll | `QuietWhileOpen`, `NeighbourUnharmed`, `StartsInOrder` |
| `pace_lane_provider` | 2 requests, 1 permit, interval 2, 1 death, fair | `ImplementsLimiter`, `HeapReady`, `Answered` |
| `lane_registry` | 3 callers, 2 keys, 4 handles, room for 1 key | `OneLane`: with sweeps between lookup, push and re-assertion, a lane with a request queued or in flight stays the one its host is found by; hosts for which a second caller looked up in that window (`split`) are excepted |
| `import_intent` | 2 imports of 1 or 2 works, copy and adopt, 2 failed calls, 2 crashes | `NeverTorn`, `Accounted`, `CopyRowDurable`, `SuccessIsOwned`, `RecoverySettles` |
| `import_intent_race` | the same, copies only, nothing fails | violates `RowKeepsItsFile` (section 6) |
| `grab` | 1 download of either protocol, grabbed twice, 2 imports, 1 permit, 1 retry by the poller, 1 failure or restart, fair | `ImportingHasOwner`, `OneImporterUndisturbed`, `ImportingEnds`, `PickedUp` |
| `cover_gate` | 2 offers, 3 covers (small, of the add path; good, of a provider; uploaded), 2 crashes, 1 fault, symmetry | `RowDescribesDisk`, `UpgradesOnly`, `ManualKept`, `RecoverySettles` |
| `author_link` | 1 key, 1 work without one, 2 Goodreads pages, one agreed with and one rejected, and 1 of OpenLibrary, 1 legacy route or none, 2 events of others or faults, fair | `PendingIsCurrent`, `DisplayCurrent`, `TombstoneStands`, `NeverReasked`, `PassAnswers`, `RetryRuns` |
| `identity_road` | 2 works, 1 provider with 2 work ids, 1 ISBN, 3 titles of which 2 share the main title, 1 pass and 1 door at a time, 2 acts, 2 passes, symmetry | `QuestionsOpen`, `NoTwins`, `DismissalStands`, `PassNeverContradicts`, `ChargedToOwnIdentity` |
| `import_batch` | 2 users, 2 imports, 1 book, 2 works, 3 requests, 1 fault, fair | `RunnerAlone`, `RunningHasOwner`, `UndoTakesOwn`, `SlotFreed` |

Why the bounds are enough for the questions asked. *Keyed mutex*: with two permits
both tasks can race to insert one key, and idle keys that were not pruned keep a third
key waiting at the cap; two calls per task let a key be pruned and come back under a task
that still runs. More tasks and keys are covered by the proof. *Breaker*: five reports reach the threshold, the opening, the half-open phase
and a second opening. *Lane*: with one permit and more requests than permits a second
request always waits in each of the dispatcher's awaits while the first one reports; one
death makes a probe revive the lane. The sequence numbers are bounded by the number of
requests. *Registry*: room for one key makes each lookup of the other key sweep; the
initial states in which all callers have one key are the roomy ones. *Import*: two
imports meet at every step; two crashes let recovery itself be interrupted, two faults
let a rollback fail too. *Grab*: two imports of one row are what the compare-and-set must
prevent; the second grab is the re-grab of a removed row. *Cover gate*: two offers, one
crash to leave a candidate and one during its recovery; the three covers give an upgrade
by size, a user's choice and a source only the backfill knows. The constraint `Followed`
stops TLC some way into the behaviours whose lapse is `dropped`: a lapse is never taken
back and every property of the run is about behaviours without one. *Author linking*: the
number of passes is not bounded; two events suffice for a removal or a dismissal followed
by evidence that brings the question back, and for evidence that changes and returns. Two
pages of one provider can contradict each other and be credited by one key. *Identity*: two acts around two passes
give a change of identity between each pair of steps of a pass and a second pass that
meets what the first one left; two titles of one main title make a group, two ids of one
provider a contradiction. More works, providers, passes and acts are covered by the
proofs. *Library imports*: two imports of two users compete for the slot, two of one user
for the row; the third request is an undo or a file of the user's own.

With two TLC workers the longest run (`author_link`, 1.8 million distinct states) takes
about three minutes, the others between a few seconds and a minute and a half.

Deadlock is checked where the system has a clock (lanes, registry, breaker). The
keyed mutex, the imports, the grabs, the cover slot, the identities and the library
imports stop when all calls have been made.

## 4. Fairness

* `KeyedMutex`: strong fairness of the acquisitions (map mutex, semaphore, key
  mutex), because tokio's `Mutex` and `Semaphore` are FIFO queues; weak fairness of the
  other steps of a task; strong fairness of the sweep, because every instance is swept
  from a five-minute interval. A guard is assumed to be dropped in the end. Without
  the sweep `CallSettles` fails: a prune skipped by `try_lock` leaves its permit with
  an idle key.
* `PaceLane`: weak fairness of time, of a living dispatcher, of a waiter's probe timer
  and of a send and its reports, since every HTTP client has a timeout. Nobody has to
  call, cancel or die. `Answered` is claimed for one runtime (`Teardown = "started"`):
  a dispatcher dropped between `tokio::spawn` and its first poll has no guard yet and
  leaves the flag up. Only a process with several runtimes, as in tests, meets that;
  the safety properties are checked with it.
* `GrabLifecycle`: weak fairness of the poller (the job runner starts the next tick
  after a panic too) and strong fairness of each import (the semaphore and the work's
  lock are FIFO queues). The user, the download client and failures owe nothing.
* `AuthorLink`: weak fairness of the sweep's pass (the job runner ticks for ever) and of
  time, which makes the author due or ends a dead pass's lease. Nothing is owed by users, imports or providers;
  a lease may run out under a living pass as often as the bound allows.
* `ImportBatch`: weak fairness of `start()` between its two awaits and of the task of an
  import. A request that is dropped, a panic and a restart are faults that may happen at
  any step; `SlotFreed` names the one place where a dropped request keeps the slot.
* `CoverGate` and `IdentityRoad` have safety properties only.

## 5. Proofs

TLAPS proves these for all values of the constants, under the named assumptions of
the modules (finite sets of tasks, positive capacities, sentinels distinct from
values, libraries to start from that the doors can have made, covers on offer that name
their source, as `CandidateMeta.source` must). Fairness plays no part in any of them.

| Theorem | States | Rests on |
|---|---|---|
| `KeyedMutex_proofs!TypeCorrect` | □ `TypeOK` | `IInv` |
| `KeyedMutex_proofs!Excludes` | □ `MutualExclusion` | `IInv` |
| `KeyedMutex_proofs!MutexImplementsLock` | `Spec` implements `KeyedLock` | `IInv` |
| `KeyedMutex_proofs!PruneIsSafe` | □ `RefIsResident` | `IInv` |
| `KeyedMutex_proofs!CapacityHolds` | □ `CapacityBound` | `IInv`, `PermitConservation` |
| `PaceLane_proofs!TypeCorrect` | □ `TypeOK`, both breaker levels included | `IInv` |
| `PaceLane_proofs!LaneImplementsLimiter` | `Spec` implements `RateLimiter` | `LInv`, `PermitConservation` |
| `PaceLane_proofs!NeverPopsEmpty` | □ `HeapReady` | `LInv` |
| `PaceLane_proofs!PermitsConserved` | □ `PermitConservation` | `LInv` |
| `PaceLane_proofs!NoStartWhileOpen` | `QuietWhileOpen` (action property) | `IInv` |
| `PaceLane_proofs!OnlyOwnBreakerRejects` | `NeighbourUnharmed` (action property) | `IInv` |
| `PaceLane_proofs!OrderedStarts` | `StartsInOrder` (action property) | `IInv`, `Numbered` |
| `ImportIntent_proofs!FilesAreAccounted` | □ `Accounted` | `IInv` |
| `ImportIntent_proofs!TargetsAreWhole` | □ `NeverTorn` | `IInv` |
| `ImportIntent_proofs!CopiedRowsAreDurable` | □ `CopyRowDurable` | `IInv` |
| `ImportIntent_proofs!SuccessOwnsItsFile` | `SuccessIsOwned` (action property) | `IInv` |
| `ImportIntent_proofs!RecoverySettlesIntents` | `RecoverySettles` (action property) | `IInv` |
| `GrabLifecycle_proofs!TypesHold` | □ `TypeOK` | `IInv` |
| `GrabLifecycle_proofs!ImportingIsOwned` | □ `ImportingHasOwner` | `IInv` |
| `GrabLifecycle_proofs!ClaimExcludes` | □ `OneImporterUndisturbed` | `IInv` |
| `CoverGate_proofs!TypesHold` | □ `TypeOK` | `IInv` |
| `CoverGate_proofs!RowsDescribeTheDisk` | □ `RowDescribesDisk` | `IInv` |
| `CoverGate_proofs!ChangesAreUpgrades` | `UpgradesOnly` (action property) | `IInv` |
| `CoverGate_proofs!ChoicesAreKept` | `ManualKept` (action property) | `IInv` |
| `CoverGate_proofs!RecoverySettlesSlots` | `RecoverySettles` (action property) | `IInv` |
| `AuthorLink_proofs!TypesHold` | □ `TypeOK` | `IInv` |
| `AuthorLink_proofs!QuestionsAnswerable` | □ `PendingIsCurrent` | `IInv` |
| `AuthorLink_proofs!ObservationsHeard` | □ `DisplayCurrent` | `IInv` |
| `AuthorLink_proofs!TombstonesStand` | `TombstoneStands` (action property) | `IInv` |
| `AuthorLink_proofs!DismissalsBind` | `NeverReasked` (action property) | `IInv` |
| `AuthorLink_proofs!PassesAnswer` | `PassAnswers` (action property) | `IInv` |
| `IdentityRoad_proofs!TypesHold` | □ `TypeOK` | `IInv` |
| `IdentityRoad_proofs!StatusIsOfTheRoutes` | □ `StatusAgrees` | `IInv` |
| `IdentityRoad_proofs!QuestionsStayOpen` | □ `QuestionsOpen` | `IInv` |
| `IdentityRoad_proofs!OneIdentityOneWork` | □ `NoTwins` | `IInv` |
| `IdentityRoad_proofs!PassesNeverContradict` | `PassNeverContradicts` (action property) | `IInv` |
| `IdentityRoad_proofs!DismissalsStand` | `DismissalStands` (action property) | `IInv` |
| `IdentityRoad_proofs!ChargesOwnIdentity` | `ChargedToOwnIdentity` (action property) | `IInv` |
| `ImportBatch_proofs!TypesHold` | □ `TypeOK` | `IInv` |
| `ImportBatch_proofs!RunnerIsAlone` | □ `RunnerAlone` | `IInv` |
| `ImportBatch_proofs!RunningIsOwned` | □ `RunningHasOwner` | `IInv` |
| `ImportBatch_proofs!UndoTakesOwnWorks` | `UndoTakesOwn` (action property) | `IInv`, `Tags` |

Along which argument:

* *KeyedMutex.* Exclusion is not inductive: two guards of a key could lock two
  mutexes. `IInv` adds that whatever a task refers to is the mutex now resident under
  its key, and that the owner of a mutex is a task at a guard. Prune and sweep need a
  mutex nobody else refers to, hence keep it. The same invariant gives the refinement:
  `Acquire` finds unlocked the one mutex every holder of the key refers to, so it is a
  `Grant`; `Call`, `Cancel` and `Release` are `Ask` and `Leave`, all else stutters. The cap follows from counting: free
  permits + resident keys + tasks that carry a permit = `Capacity`.
* *PaceLane.* A start respects the pace only because the dispatcher slept for it, so
  the invariant (`LInv`, which is `IInv` without the breakers) relates the sleep to the clock (`Paced`), makes the dispatcher the only one
  (`SoleDispatcher`: the flag covers it, also across a death), and says that the heap is
  exactly the undecided requests (`HeapIsPending`), which only the dispatcher takes
  out. The in-flight cap is the permit count. Each step then maps to `Start`, `Finish`,
  `Pass` or a stutter of `RateLimiter`. That starts follow the order needs `Numbered`: the
  pending requests have distinct sequence numbers below the counter, so that the head of
  the heap is one request and a later push cannot come before it. The breakers are
  looked at in the step of the start itself, which is what makes `QuietWhileOpen` hold
  although both awaits let reports in.
* *ImportIntent.* `Serial`: one import per work runs, and one that has inserted its
  intent owns it. `Synced` and `Flushed`: data before rename, directory fsync before a
  copying import's row. `Fresh`, `Settled`, `Alone`, `Undecided`: what an import that has
  yet to place its file, one that has placed it, a separated target, and recovery
  before its sweep may rely on. `Accounted` is the conjunct all of them serve; the
  interesting case is a rename that happens after its request was dropped, which is
  safe because the intent stays until a restart.
* *GrabLifecycle.* `Rowed` (without a row there is no import and nothing for the poller),
  `Held` (while the row is undisturbed and an import runs, its status is `importing` or
  `imported`, neither of which `try_set_importing` accepts) and `ImportingHasOwner` together make the compare-and-set exclusive:
  an importable row with a live import must have been disturbed.
* *CoverGate.* Neither what the row says nor what recovery concludes is invariant without
  the meaning of the candidate files. `SidecarTold` gives it: a sidecar that agrees with the
  row stands beside the row's own bytes or beside none, and one that disagrees stands beside
  bytes. `OfferKept` and `RecoveryKept` say what `row`, `final`, `tmp` and `meta` are at each
  step of the offer or the verdict that has the lock (`LockHeld`); in particular the row
  that an offer read is the row it replaces, which turns the comparator's decision into
  `UpgradesOnly`. The unlocked writers are covered by `AddIsFirst`, `AddKept` and
  `StampedHost` (the backfill's row has a known host), and by `SidecarSourced`: a sidecar names a source and the row of a created
  work has none, so that the two are never taken for each other. All of it but the types and
  the lock is conditional on `lapse = "none"` and on the row being there. A crash keeps it
  because each of its clauses about the files alone holds between any two steps; the one
  pair of steps for which that is false is recovery's own toss, a value of `lapse`. The
  call of a dropped request runs only after a lapse (`StrayLapsed`).
* *AuthorLink.* A pass relies on what it read several transactions earlier. `PassGeneration`
  says in which steps its generation is still the row's, `PassDisplay` that a pass no
  observation overtook has chosen knowing all of them, `PassKeys` that a key is untried only
  while it is on the pass's list, and `PassSearch` why the generation owes no name search
  when the gate is passed. `TombstoneStands` and `NeverReasked` then look at the few steps
  that write routes or add questions.
* *IdentityRoad.* What a pass carries was read before its transactions, so nothing about it
  is invariant by itself. The inductive claim is conditional on the generation:
  `CaptureHonest` says that a work still at the generation of a capture has the title and
  the routes of the capture, `PlanHonest` that a work at the generation of a plan has no
  route the plan contradicts. They are kept because every step that moves a title or a
  route advances the generation of that work (lemma `Advances`), and deletion, which does
  not, leaves no live work. The compare-and-set in `Stale` then turns them into facts at
  the moment of the write. `Formed` adds that a card about a route names one work and one
  route and a plan asks only group questions, so that `Mint` and `Affirm` are the only
  steps `QuestionsOpen` has to fear; `NoTwins` rests on `Twin`, the unique index. The
  effect of a settlement is treated once (`WrittenHolds`) for passes, doors and edits.
* *ImportBatch.* `RunnerAlone` is not inductive: between the claim of the slot and the
  insert of the row there is no task yet. `Slotted` says who has the slot from the claim
  on and that the id is still unused; `Formed` ties tasks, confirms and undos to rows. The
  row's status plays no part in it, as the list endpoints may complete or undo the row of a
  task at work. `Tags` is for `UndoTakesOwn`: a confirm reaches its tag only with a work it
  created itself, and an undo lists only what carries its own tag, so neither a list read
  long ago nor two confirms of one book can make an undo take a work of another import.

Only model-checked: the liveness properties (`CallSettles`, `Answered`, `ImportingEnds`,
`PickedUp`, `RetryRuns`, `SlotFreed`), which need fairness and `ENABLED`; `OneLane`, whose proof is in the plan; and `BreakerTrace`, whose
statements fold over a log of any length and would need induction over data. Every other
property of a passing run is stated by a theorem above.

## 6. Disagreements between the code and its text

The run `import_intent_race` shows the first one. The others are further counterexamples,
each with a configuration beside the modules; `tlc -workers 2 -config <file> <MC module>` prints the counterexample.

* `import_intent_race` (`ImportIntent_race.cfg`, `MCImportIntent`). Imports are locked per
  work; the checks of a path and the INSERT of the intent are separate awaits. An import
  of a second work that has passed the checks waits while a first one claims, fills,
  records and releases the path, then renames over the recorded file. Its row is refused
  only afterwards. The comment at `import_workflow.rs:308` says no bytes ever reach the
  target then. `Accounted` holds all the same: the intent of the second import stays for
  every later recovery pass.
* `ImportIntent_durable.cfg` (`MCImportIntent`, `RowDurable`). Recovery takes an existing
  target for a durable rename (`import_workflow.rs:678`). After a process death between
  rename and directory fsync it is not; recovery records it without an fsync of its own,
  and a power loss leaves a row without a file. Rows of copying imports do not have this
  gap (`CopyRowDurable`).
* `LaneRegistry_split.cfg` (`MCLaneRegistry`, `NoSecondLane`). `bucket_handle` says that
  "eviction can never create a second live pace lane" (`outbound_queue.rs:491-492`). At a
  full registry a sweep between one caller's lookup and its push takes the lane out; a
  second caller of the host makes another one before the first re-asserts, and both are in
  use. 256 origins must be in use for it.
* `LaneRegistry_pace.cfg` (`MCLaneRegistry`, `HostPaced`). A lane that was swept while idle
  and is made again has a backdated `last_dispatch` (`outbound_queue.rs:192-194`), so the
  host gets its next request before the "interval since the last ACTUAL dispatch" (line
  582) is over. It, too, needs a full registry.
* `GrabLifecycle_regrab.cfg` (`MCGrabLifecycle`, `ImportsOwnDownload`). `upsert_grab` is
  documented to replace a failed or removed grab (`api/grab.rs:26-27`); it keeps
  `content_path` and the retry count (`sqlite_grab.rs:184`), so the import of the new
  download reads the files of the old one, or fails when they are gone.
* `CoverGate_heal.cfg` (`MCCoverGate`, `HealedRowDescribesFile`). Recovery tosses an
  undecided candidate bytes first (`cover_write_gate_recovery.rs:239`); a second death
  between the two deletes leaves the sidecar alone, which the next recovery takes for a
  finished rename, and the row follows a cover that was never served.
  `discard_candidate_files` deletes in the other order and says why
  (`cover_write_gate.rs:552-555`).
* `CoverGate_manual.cfg` (`MCCoverGate`, `BackfillSpares`). The provenance backfill says
  that "manually selected ebook rows are never touched"
  (`cover_provenance_backfill.rs:5-6`). It checks the flag on the row it has read and writes
  that row back without the slot lock and without a condition (lines 59-75), so a choice
  the user makes in between is overwritten with the old address, size and flag.
* `AuthorLink_search.cfg` (`MCAuthorLink`, `SearchAnswered`). A name search that fails for
  now is not repeated: the tier is written as 2 all the same (`author_linking.rs:407`), and
  the next pass over unchanged evidence skips it. The comment at
  `author_linking.rs:201-203` calls `retry_at` "the earliest time any failed key or tier may
  be tried again".
* `AuthorLink_names.cfg` (`MCAuthorLink`, `NamesHeard`). `choose_author_display_name` is to
  take "the highest-ranked source present" (`author_linking.rs:105`). Names that are
  inserted with a route, a Readarr rejection, a pick or a merge
  (`sqlite_author_link.rs:1677`, `1747`, `1976`, `2122-2141`, `2747-2802`) neither mark the
  author dirty nor advance the display generation, as `record_observed_names_tx` does, so
  the shown name is not chosen again until some other name is observed. `DisplayCurrent`
  is about recorded observations only.
* `IdentityRoad_standing.cfg` (`MCIdentityRoad`, `StandingIsCurrent`). The outcome of an
  anchored fetch is written without a look at the generation. A fetch that was out while
  the anchor changed records its answer after the standing was reset, and the new anchor
  is skipped until the routes change again; `livrarr-db/identity_layer.rs:55-58` speaks of
  "making every newly derived anchor fetchable on its next pass".
* `IdentityRoad_owner.cfg` (`MCIdentityRoad`, `OneActiveOwner`). The index
  `idx_identity_routes_one_active_owner` (migration `083`, lines 9-11) is not unique, and
  `insert_route` looks only at rows of its own work (`identity_layer.rs:3365-3377`) before it
  inserts, so its branch for `RouteOwnershipCollision` (3438-3443) is never taken: a
  settlement gives a second work a route that is active on another one. Only the answer to a
  pending route (674-695) and `commit_review_continuation` (2008-2024) look for the owner.
* `ImportBatch_undo.cfg` (`MCImportBatch`, `UndoTakesWorks`). The undo dialog says it will
  remove "authors, works, and files created by this import" (`ReadarrImportPage.tsx:962`).
  The works and authors are made by the identity road, which writes no `import_id` on
  works, so the undo finds none of the works to delete and, as they are not empty, none of
  their authors.
* `ImportBatch_atwork.cfg` (`MCImportBatch`, `NotUndoneAtWork`). `undo_import` refuses with
  "Cannot undo a running import" (`readarr_import_workflow.rs:1155`). The list endpoints do
  not look at the source of an import (`list_service.rs:754-785`,
  `sqlite_list_import.rs:185-209`): one of them completes the row of a Readarr import whose
  task is at work, and both undos then run beside the task. What the task records after
  their reads stays, and the task ends by writing `completed` over `undone`.

Limits of the cover protocol, seen as values of `lapse`: an offer that starts over a
committed candidate whose rename failed (`overtaken`); a death between the two deletes of
recovery's toss (`toss`); a row that cannot be read at startup (`skip`); the first download
of a new work, or its row, written beside an offer (`add`); the backfill writing back a row
that has changed (`stamp`); a request that is dropped inside a call, which then runs on
without the lock (`dropped`: the write at `cover_write_gate.rs:535`, the rename at 616). In each of them the row may describe another image than the
served one until the next change of the cover, and in `add`, `stamp`, `toss` and `dropped`
an automatic cover may replace one the user chose.

Seen while modelling, without a configuration:

* `maintenance.rs:42` says a reset puts grabs to `importFailed`, the code writes `confirmed`
  (the model follows the code; `PickedUp` shows that such a grab is resumed);
  `api/grab.rs:74` lists `importing` among the claimable statuses, the SQL does not.
* Nothing resets a `running` row of `imports` at startup. After a death, a panic or a failed
  write of the final status the user's other imports are refused and the row cannot be
  undone (`RunningHasOwner` names the exception, `lost`). A `start()` dropped between the
  claim and the spawn keeps the slot until the restart (`held`).
* A list undo does not keep a confirm request away: works created after its read stay in
  an undone import, and so does a work whose delete failed. A Readarr undo deletes files and then rows without the import lock,
  and an intent left by a failed row write lets the next recovery re-create a row of an
  undone import. A rollback of an author may meet a door that has just adopted it.
* The handoff compares the generation on a snapshot and `settle()` reads again, so a pass
  may settle into an identity newer than its capture (`PassNeverContradicts` still holds).
  A door judges a group and reads the winner later, without that protection.
  "Different from all" marks the first work of a card only. A machine's group card
  advances the generation and with it resets the attempts.
* Folding one author into another may re-open a question the user had dismissed;
  `NeverReasked` is about the sweep.

## 7. Abstractions and what is left out

* Time is in ticks and does not step back. The 24-hour limit and the import back-off
  are choices, so that either outcome is explored at any moment.
* `ImportIntent` has one path and one user; sizes stand for contents.
  `ensure_independent_target()` is one step with one failure point of its own, also
  after a dropped request; its temporary file is not observed by anyone else. The fsync of
  the target's directory makes the file's name durable. Ancestor directories that
  `create_dir_all` has just made (`import_workflow.rs:323`) are not fsynced by the code;
  that their names are as durable as their content is an assumption about the file system
  (journalling ones keep it), and the durability properties rest on it. `HardlinkFirst` has no caller outside
  tests. Chapter extraction follows the outcome.
* `GrabLifecycle` has one row and one client. A download stands for its id and its
  path. The match of a torrent by title, notifications and history events are left out;
  the files are `ImportIntent`'s.
* `PaceLane` has one breaker per indexer; the registry of these breakers and its
  eviction at 1024 entries are not modelled. `RateBucket::None` bypasses everything.
* `LaneRegistry` reduces a lane to its promise; 4 handles bound how many can be made.
* `CoverGate` has one slot of one work; an image is its address, source and size.
  Validation of bytes is the choice of `FetchFails`. Thumbnails are derived. At most one
  call of a dropped request runs at a time. The backfill of an audiobook slot reads the row
  and, in a second query, its manual flag; here they are one read.
* `AuthorLink` has one author, another one only as the owner of routes. A fetch and the
  transaction after it are one step, since a fetch touches no state. `next_attempt_at` is
  due or later; succeeded and skipped keys are one outcome; a revoked dismissal is
  dropped; a name inserted without an observation may be one the author has (`unheard` does
  not tell). What the name guard may say of a page is fixed, not derived from names. Users,
  imports, merges, deaths and lease ends share one budget.
* `IdentityRoad` has one user and one author. Titles are tuples with a main title; which
  tuples are alike is a constant, as matching is not modelled. The reads of a capture are
  one step, and so are the two reads of `settle()`, which the compare-and-set makes
  sound. `found` stands for every terminal outcome but `not_found`, permanent failures
  included. Left out: routes of editions other than ISBNs and their evidence cards, the
  minimum settlement of a manual import, the legacy door for pending anchors,
  `transfer_route`, certified edits, the cutover, and merging, which
  `WORK_MERGING_AVAILABLE` switches off.
* `ImportBatch` gives each book one author and one path. One confirm and one undo
  request per import at a time; the reads of an undo are one step. Progress, counters, edition
  fetches, covers and history are left out.
* Not modelled at all: see `components` in `PROJECT.json`. Parsing, scoring, tag formats
  and display, which are the larger part of the source, have no state that a model would
  add to.

## 8. Plan

1. `FileService::delete` as an action of `ImportIntent`: it removes file and row without
   the work's lock.
2. Proofs: `OneLane` of the registry. The invariant has to say that a key which was not
   split has at most one handle in its callers' hands, resident or about to be re-asserted.
3. `ImportIntent` and `GrabLifecycle` with an instance of `KeyedLock` in place of the guards
   of `Begin` and `Lock`, which say the same.
4. Merge engine as a function, against a reference definition over small sets of answers.
5. Upgrade backup (stage, verify, rotate, crash) and playback progress (high-water mark).
6. In `IdentityRoad`: edition routes and their evidence, the manual import's settlement,
   certified edits.

Runs that ask neighbouring questions are merged as modules are added, so that the whole
set stays quick enough to run at every change.
