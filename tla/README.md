# A TLA+ model of the repo syncer and its codeintel neighbours

This directory holds TLA+ specifications of three connected parts of the repository:

- the external-repository syncer of `src/internal/repos/syncer.go`, with its lazy
  single-repo path;
- the dependency sync scheduler of
  `src/enterprise/cmd/worker/internal/codeintel/indexing/dependency_sync_scheduler.go`;
- the dependency resolution of `src/internal/codeintel/dependencies.go`.

It also holds the TLC configurations that check them, and TLAPS proofs about them.
`PROJECT.json` maps every definition that models code to the lines it translates.

## The system

- **Scheduling loop** (`Syncer.Run`, `syncHandler.Handle`, `TriggerExternalServiceSync`).
  - `EnqueueSyncJobs` queues a job for every service whose `NextSyncAt` has passed.
  - Handler goroutines dequeue the jobs and run `SyncExternalService`.
  - On start, the loop sends every stored repo as one Unmodified Diff on `Synced`, unless
    listing them fails.
- **Reconciliation pass** (`SyncExternalService`).
  - `GetByID` reads the service row.
  - The source streams repos and errors.
  - Each repo goes through `sync()`, one transaction. It looks the repo up by name or spec,
    then creates (after the repo limits), updates, or resolves a naming conflict by deleting
    the loser. After the commit it sends the one-repo Diff on `Synced`.
  - At the end, `DeleteExternalServiceReposNotIn` removes the service from the repos the pass
    did not see. This happens only when there was no error, or after a fatal error of a
    user-owned service.
  - Then `calcSyncInterval` sets `NextSyncAt`, `LastSyncAt` becomes now, and the row is
    upserted. A failed upsert joins the pass's errors and leaves the stored row as it was.
- **Lazy sync** (`SyncRepo`, `syncRepo`, `notifyDeleted`).
  - It syncs one repo on demand from the cloud-default or package-host service of its host.
  - Calls are deduplicated by `syncGroup` (singleflight).
  - It uses the same `sync()` transaction.
  - A deferred call deletes a repo that the source says is gone and announces it as deleted.
- **Clone scheduler feed.** `watchSyncer` (`cmd/repo-updater/shared/main.go`) receives every
  Diff and applies it.
- **Dependency sync scheduler** (a dbworker with one handler).
  - For each upload it walks the package references.
  - It inserts a dependency repo for every reference of a known scheme.
  - It lists the package-host services of the kinds seen and upserts each one with
    `NextSyncAt = now`. This is what makes the syncer fetch the new repos soon.
  - For the indexers it supports, it inserts a dependency indexing job per kind.
  - It collects the errors of the inserts and upserts. The worker retries an errored job up
    to a limit.
- **Dependency resolution** (`DependenciesService.Dependencies`).
  - An errgroup starts one goroutine per root, and one per dependency the root's lockfiles
    name.
  - A weighted semaphore bounds them.
  - Each dependency goroutine upserts the dependency repo, lazily syncs it (the lazy path
    above), and records its entry under a mutex.

The parts share the repo table, which every transaction uses at READ COMMITTED, and the
`external_services` row of each service. The dependency scheduler writes that row whole,
as the syncer does.

## Modules

| module | models | state | actions |
|---|---|---|---|
| `SyncInterval` | `calcSyncInterval` and the schedule of one service | `now`, `lastSync`, `nextSync`, `queued`, `interval`, `outcome` | `Tick`, `EnqueueSyncJobs`, `TriggerExternalServiceSync`, `ScheduleDependencySync`, `SyncExternalService` |
| `Syncer` | passes of a handler pool over a shared store, and the `Synced` relay | `repos`; per handler `pc`, `job`, `seen`, `errs`, `items`, `plan`, `pending`; the scheduler's `view` | `InitialUnmodifiedDiffFromStore`, `StartPass`, `ReceiveError`, `ReceiveRepo`, `ApplyCommit`, `ApplyFail`, `CloseStream`, `Prune`, `ConsumeSynced` |
| `SyncerLazy` (extends `Syncer`) | `SyncRepo`/`syncRepo` with `syncGroup`, composed with the passes | per caller `lpc`, `lname`, `lstored`, `llead`, `lrepo`, `lplan`, `lpend`, `ldone`; `flight`; the history `racing` | `LazyLookup`, `LazyDo`, `LazyJoinReturn`, `LazyList`, `LazyFetchRepo`, `LazyFetchErr`, `LazyTx`, `LazyApply`, `LazyPublish(Cancelled)`, `LazyDelete`, `LazyNotify(Cancelled)`, `LazyCancel`, and every `Syncer` step |
| `DependencySync` (extends `SyncInterval`) | `dependencySyncSchedulerHandler.Handle` and its worker, composed with the passes of one package-host service | `jobState`, `attempts`, `hpc`, `cur`, the locals `pos`, `kinds`, `errs`, `at`, `snap`, `idxLeft`; `depRepos`, `indexJobs`, `running`, `passLast` | `Dequeue`, `Scan`, `List`, `Upsert`, `Should`, `Index`, `IndexDone`, `PassStart`, `PassEnd`, and the clock, enqueuer and trigger |
| `Dependencies` | `DependenciesService.Dependencies` | `opc`, `todo`, `tpc`, `free`, `failed`, `cancelled`, `result`, `mpc` | `RootAcquire(Fail)`, `ListDependencies`, `StartDependency(Fail)`, `RootReturn`, `Upsert`, `LazySync`, `Record`, `CallerCancel`, `WaitReturn` |
| `SyncIntervalProofs`, `SyncerProofs`, `SyncerLazyProofs`, `DependenciesProofs`, `DependencySyncProofs` | TLAPS proofs | | |
| `MC_*` | TLC instances | | |

How the modules relate to the code:

- **`SyncInterval` keeps the width of `time.Duration`.**
  - `Sub` saturates like `time.Time.Sub`.
  - The doubled interval wraps around in two's complement (`Wrap`).
  - The zero time lies far before every clock reading.
  - `SyncExternalService` takes the outcome of the pass and whether its closing `Upsert`
    succeeded as inputs; a failed upsert computes the interval but stores neither time.
- **`Syncer` splits each `sync()` transaction in two:** the lookup (`ReceiveRepo`) and the
  write and commit (`ApplyCommit`).
  - Another handler's commit can fall between them.
  - The unique constraints are checked at the write.
  - Deletion is soft. The row keeps its spec, so a lookup by spec revives it.
  - `InitialUnmodifiedDiffFromStore` sends nothing when its `List` fails.
- **`SyncerLazy` gives each step of `syncRepo` its own action.** An action covers a store
  read, a source fetch, a transaction, a send on `Synced`, or the deferred delete and notify.
  - `syncGroup.Do` is the `flight` of a name: `LazyDo` leads a flight when none is in the
    air for the name and joins it otherwise.
  - A joiner waits in `join` until the flight ends.
  - `SyncRepo`'s background mode runs the same `Do` from its own goroutine; the model does
    not tell it apart, since what the caller gets back is not state.
  - `PassStep` is a step of `Syncer`'s passes; it also clears the history `racing` of a
    handler whose new pass starts.
  - The sends select on `ctx.Done()`. With `CanCancel`, a context may end at any step.
- **`DependencySync` has one action per step of `Handle`.**
  - One reference of the scanner loop per step.
  - `List` with the `time.Now()` taken before it.
  - The `Upsert` of the listed row, then `shouldIndexDependencies`.
  - One `InsertDependencyIndexingJob` per kind, then the return.
  - Every store call may fail, in the code's order of early returns and collected errors.
  - The upsert writes the whole row it listed, so it also writes back the `LastSyncAt` it
    read. `TestExternalServicesStore_Upsert` shows that `Upsert` stores every field.
  - The pass of the service is split into its start (`GetByID`, `PassStart`) and its end
    (`PassEnd`, which is `SyncInterval`'s interval computation from the row the pass read).
    This lets `Handle`'s `List` and `Upsert` fall inside a pass.
- **`Dependencies` models the errgroup, the semaphore and the caller.**
  - The semaphore is `free` slots, and `sem.Acquire` blocks until a slot is free or the
    context is done.
  - The errgroup's first error cancels the context.

Store operations whose code lies outside `src/` are modelled from the spec and marked
`spec_modelled`:
- `Repo.Update`, the create, update and delete statements, and `UpdateFromDiff`;
- the dbworker store's `MarkErrored`: a job is retried until it has failed the store's
  maximum number of times.

## Runs

| run | checks | result |
|---|---|---|
| `dependency_sync` | `CompletedJobDidItsWork`, `PassBackoffNeverShrinks`, `PassFirstGetsMinimum` | pass, 689K states |
| `dependency_sync_stale` | `LastSyncNeverRegresses` | violation: `Handle`'s upsert writes back a stale `LastSyncAt` (`dependency_sync_scheduler.go:137`) |
| `sync_interval_changed` | `ChangedGetsMinimum` (spec §4.5, §8) | violation: a pass that changed repos and also failed is backed off (`syncer.go:791`) |
| `syncer` | `PruneSafety` | pass, 3.0M states |
| `syncer_view_sound` | `ViewSound` | violation: the conflict loser deleted at `syncer.go:689` is never announced |
| `syncer_quota_race` | `QuotaRespected` | violation: two passes of one user both count, then both insert (`syncer.go:710`) |
| `dependencies` | `PermitsAccounted`, `ResultComplete`, `Termination` | pass, 3.8K states |
| `dependencies_deadlock` | `Termination` | violation: with as many roots as slots, every root holds a slot and waits for another (`dependencies.go:129`) |
| `syncer_lazy` | `SingleFlight` | pass, 534K states |
| `syncer_lazy_cancel` | `LazyViewComplete` | violation: a cancelled context skips the send of a committed Diff (`syncer.go:658`) |
| `syncer_lazy_notify` | `NotifiedDeletedIsGone` | violation: a failed delete is still announced (`syncer.go:378`) |
| `syncer_lazy_race` | `LazyAddedSurvivesPass` | violation: a pass that started before a lazy add prunes it (`syncer.go:307`) |

### What the passing runs show

- **`dependency_sync`.**
  - `CompletedJobDidItsWork`: a job the worker marks completed has every dependency repo of
    a known scheme and, for an indexed upload, an indexing job for every kind. This holds
    over all retries, with every store call failing or not.
  - `PassBackoffNeverShrinks` and `PassFirstGetsMinimum` hold for the passes of the
    service, each computed from the row that pass read. This stays true while the
    scheduler's upserts fall inside the passes and when a pass's own upsert fails.
- **`syncer`.**
  - `PruneSafety`: a pass that met an error removes no repo from its service, except after
    a fatal error of a user-owned service. It holds while another handler renames, revives
    or conflict-deletes the same rows, and whatever the order of errors and repos on the
    stream.
- **`dependencies`.**
  - `PermitsAccounted`: no slot is leaked or released twice.
  - `ResultComplete`: a call without an error returns every dependency.
  - `Termination`: every call returns.
- **`syncer_lazy`.**
  - `SingleFlight`: two calls of one name never run `syncRepo` at once, and a caller that
    joined a flight waits on a flight of its own name. Two callers, each asking for either
    of two names, race each other and a full pass of the package host. It is the property
    that `SyncRepo`'s background goroutine relies on: the foreground call that arrives
    while it runs must join it.

### Bounds, and why they are enough

- **`MC_DependencySync`.**
  - One upload with an npm reference and a reference with no external service. This gives
    both arms of the scheme lookup, and the empty kind that still gets an indexing job.
  - A retry limit of 2, so a job can be retried and can fail for good.
  - A 7-bit Duration, minimum 1, ceiling 6, and a clock of 3 ticks. These are enough for
    the doubled interval to reach the ceiling, for the saturated product from the zero
    time, for three passes in a row (the backoff of the third depends on the second), and
    for a pass to start, end and start again around one `Handle` call.
  - The interval properties are in any case proved for every width and clock.
- **`MC_Syncer`.**
  - Two handlers.
  - A site service, and a user service that may not add private code.
  - Three names and three specs. This is enough for a rename matching two rows, a revival by
    spec, and a limit hit.
  - Up to 2 items per pass.
- **`MC_SyncerLazy`.**
  - A cloud-default service (never synced in full) and a package host (synced in full).
  - Two callers.
  - One handler.
  - One item per pass.
- **`MC_Dependencies`.** Two roots sharing a dependency, and three slots. The deadlock run
  uses two slots.
- **Coverage.** Together the passing runs fire every action and every disjunct of their
  next-state relations.
- **Mutants.** Every property of a passing run has a mutant in `PROJECT.json`, a plausible
  bug that TLC then catches:
  - the precedence slip `err == nil && zero || modified`;
  - a saturating product;
  - a dropped insert error;
  - a transient error not recorded;
  - a leaked slot;
  - `Wait` returning early or counted wrong;
  - `syncRepo` called without `syncGroup.Do`.

### Fairness

Only `Termination` is a liveness property, so only the `dependencies` run assumes
fairness (`FairSpec`); the other runs check safety under the plain specifications.

- **`Dependencies`.**
  - Weak fairness of every goroutine.
  - Strong fairness of `sem.Acquire`, whose waiters are served in FIFO order.
  - The caller's cancellation is not assumed.

## Proofs

Every theorem is checked by `tlapm` to the last leaf.

- **`SyncIntervalProofs`.**
  - `TypeCorrect`.
  - The lemma `IntervalBoundsHold`: every interval lies in `[minimum, 8h]` for every
    Duration width, clock and zero time. The backoff proof rests on it.
  - The other lemmas state that `Sub`, `Wrap` and the doubled difference are Durations, and that
    the clamp puts `CalcSyncInterval` in range. `IntervalBounds` together with `TypeOK` is
    inductive.
- **`SyncerProofs`.**
  - `TypeCorrect` is proved from the inductive invariant `TypeInv`:
    - plans name rows that exist;
    - a busy handler holds a service.
  - `PruneSafetyHolds` (`Spec => PruneSafety`) is an action property. Its step
    `PruneStepSafe` needs `ErrsInv`, which adds `ErrsRecorded` to the shapes of
    `pc`, `errs` and `streamErrs`. `ErrsRecorded` says the source errors among the errors
    a pass will return are exactly those its stream met. `PruneSafety` is not provable
    without it: the guard of the delete in `Prune` reads `errs`, but the property speaks
    of `streamErrs`. `LeavesPrune` says that the only step that takes a handler out of
    `prune` is `Prune`.
  - `SyncPlanType`, `WrittenType` and `NextIdsGrow` say what a plan and a write return.
- **`SyncerLazyProofs`** (the passes composed with `SyncRepo`).
  - `LazyTypeCorrect` is proved from `LazyInv`, which is `TypeInv` plus:
    - the lazy types;
    - `LazyInStore`: a lazy call's stored row and its plan name rows that exist;
    - `LazyNamed`: a live call holds a name, and one past the lookup holds a service.
  - There is one lemma per lazy action. `FinishCore` serves every return of a call.
  - `LazyPruneSafetyHolds` reuses the pass lemmas: the lazy steps do not touch the pass
    variables (`LazyKeepsPasses`).
- **`DependenciesProofs`.**
  - `PermitsAccountedHolds` and `ResultCompleteHolds`.
  - The inductive invariant `IInv` adds `NotStarted`, `TodoFresh`, `AllStarted`,
    `Recorded`, `Sound` and `Quiet`. It relates which goroutines were started to what they
    recorded, so that `WaitReturn` can conclude `result = Wanted`.
- **`DependencySyncProofs`.**
  - `CompletedJobDidItsWorkHolds`, for every set of uploads, references, schemes and kinds,
    and every retry limit.
  - `CompletedJobDidItsWork` is not inductive. A `Handle` call that returns nil completes
    the job, and what the call did is in its locals.
  - The strengthening `JInv` adds three things:
    - `Progress`. While no error was collected, every reference before the cursor that has
      a known scheme is a dependency repo, and the kinds seen are exactly those of the
      references before the cursor. Past the scan, the cursor is at the end. In the
      indexing loop, every kind no longer left has its job.
    - `Idle`. The locals are reset between calls.
    - The types.
  - TLC checked `JInv` as an invariant of the `dependency_sync` instance before the proof.
  - The proof has one lemma per action. `ReturnJInv` serves every return, and `DoneStable`
    says that what a completed job did is never undone.
  - The lemma `DepIntervalBoundsHold` proves `IntervalBounds` for the composed passes.
    - Its invariant `Clocks` says that every time the scheduler holds is a clock reading
      or the zero time: the `LastSyncAt` that `List` copied and `Upsert` writes back, and
      the one a running pass read.
    - With `Clocks`, a pass end computes from integers, and `CalcSyncIntervalRange`
      applies. TLC checked `Clocks /\ IntervalBounds` on the `dependency_sync` instance
      first.
  - `PassFirstGetsMinimumHolds` assumes `ZeroTime + MaxDuration < 0`. The zero
    `time.Time` is year 1, and a Duration spans 292 years, so `Sub` from it saturates.
    Its double then wraps to -2 (`WrapDoubleMax`), and the clamp gives the minimum.
  - `PassBackoffNeverShrinksHolds` assumes `MinSyncInterval <= MaxSyncInterval` and
    `2 * MaxTime <= MaxDuration`: clock readings are less than 146 years apart. Then the
    doubled difference does not wrap (`WrapId`), and it is at least the previous interval.
  - Both are action properties. Each is proved from a lemma about one `PassEnd` step
    (`FirstPassStep`, `BackoffStep`) under `Clocks`. The MC values (`ZeroTime = -100`,
    `MaxDuration = 63`, `MaxTime = 3`) satisfy both assumptions.

What stays with TLC:

- **Liveness.** `Termination`, and anything with `ENABLED`.
- **`SingleFlight`**, checked on the lazy instance only.
- **Modules that reach a RECURSIVE operator.**

## Observations that are not runs

- **A lost `scanner.Close` error.** `Handle` assigns the error of the deferred
  `scanner.Close` to a local variable that shadows nothing it returns, so a failing Close
  never reaches the worker (`dependency_sync_scheduler.go:70-74`). The model's `Return`
  leaves it out for that reason.
- **A stale upsert that also hides never-synced services.** The stale upsert of
  `dependency_sync_stale` can write back the zero `LastSyncAt` of a service that was never
  synced, after its first pass ended. The next pass then takes the first-pass branch of
  `calcSyncInterval` again. `PassFirstGetsMinimum` is stated about the row each pass read,
  and it holds.
- **A Deleted Diff overtaking a revival.** The Deleted Diff of one pass can reach the clone
  scheduler after the Modified Diff of another pass that revived the repo. The spec only
  promises eventual consistency, so this stays a hazard in `PROJECT.json`.

## Not modelled

- **The job queue's lease, heartbeat and resetter.** They live in the dbworker store, outside
  this repository. `StartPass` assumes one handler per service.
- **Best-effort deletion.** A partial delete by `DeleteExternalServiceReposNotIn` needs the
  store's SQL, which is not here.
- **Pure algorithms.** The bitmask n-gram index (`cmd/bitmask/repo_index.go`), the migration
  runner options and the symbols gitserver client are I/O and formatting, with no state
  machine that a property distinguishes.
- **Glue.** The web client, documentation, OAuth middleware, usage statistics and GraphQL
  resolvers have no state transitions of their own that are worth a model. `PROJECT.json`
  lists each of them with its reason.
