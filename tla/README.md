# TLA+ models of AFT's executor and of the work around it

AFT is an engine (`crates/aft`, Rust) that serves code search, edits, background
commands, language-server status and index maintenance for many project roots
from one process, and TypeScript packages (`packages/*`) that embed it in editors
and agents. Every request, and every piece of background work that touches a
root's state, runs as a *job* of the **executor**
(`crates/aft/src/executor`): it decides what may run next to what, what may be
cancelled, and who waits. The project starts there, and goes on with three protocols
around it whose races no test schedules: how many cold builds run at once
(`cold_build_limiter.rs`), how an edit reaches the view that queries read
(`executor/view_publication.rs` with the watcher drain), and which process may write
the artifacts that several checkouts share (`artifact_owner.rs`).

File names below are relative to `crates/aft/src/` unless they start with
`packages/`; "mod.rs" alone is `executor/mod.rs`.

## 1. Inventory

| component | state | operations | hard behaviour | correct when |
|---|---|---|---|---|
| Executor (`executor/mod.rs`) | per root: counters and flags of running work, two class queues, fatal flag, epoch gate; globally: idle workers, in-flight counts, heavy permits, running jobs, event channel, round-robin cursor | submit, cancel, cancel before execution, register, remove, retire, quiesce; scheduler turn; worker | one scheduler thread, a pool of workers, callers on other threads; cancellation races with start, seal and requeue; binds that hand their worker back; wake-ups and a retry timer | counters exact, lanes serial, writers alone, reserves kept, cancels honoured, nothing runnable forgotten, everything answered |
| ClassQueues (mod.rs 3035-3338) | a queue of lane names and one deque per lane | push, push front, pop by lane, remove from the middle, compact, clear | two structures that must stay paired | one list in arrival order |
| EffectiveConfig and deficit (mod.rs 170-250, 3925-3942) | caps, one deficit per root | clamp; earn and pay | zero, negative and over-large settings | caps leave room; the deficit refuses nobody |
| SingleFlight (`executor/single_flight.rs`) | per key: building or ready, with a generation | get_or_build, clear_building | builds run outside the lock, fail, panic, are overtaken | nobody gets an older value, no lost wake-up |
| Root lifecycle (`context.rs`, `subc/mod.rs`) | bound or unbound, configure generation | mark_bound, mark_unbound, quiesce, run_if_subc_bound_generation | two-step quiesce, stale generations | an unbound root does no root-scoped work |
| View publication (`executor/view_publication.rs`, `runtime_drain.rs`, `context.rs`) | the watcher's channel, the drain's slice, one job per root with a pending submission, retry deadline, content generation | drain, load, verify, schedule, merge, prepare, commit, fail, retry, advance, cancel, retire; queries name what they lack | detached worker, failures, lost events, unbind, configure and deletion between any two steps | no edit lost on its way, every edit published in the end, answers name what they lack |
| Views store (`views/`) | manifests, blobs, pins | assemble, pin, collect | SQLite, several processes | no pinned view collected |
| Standing roots (`standing_roots.rs`, `subc/standing.rs`) | registry of roots indexed without a route | reconcile, submit pass, retire | registry edits race with passes | at most one pass per root |
| Artifact ownership (`artifact_owner.rs`) | one manifest file per project key, registered leases | claim, repair, reclaim, heartbeat, release, sweep | crashes between any two steps, recycled pids, several hosts | a running owner's manifest is not removed, claims return, the record is restored |
| Root cache leases (`root_cache.rs`) | writer leases, reader markers on disk | acquire, verify, sweep | crashes, several processes | no live reader's generation removed |
| Cold build limiter (`cold_build_limiter.rs`) | slots, tickets, class turns, leases listed per root | acquire with and without a class, share, refuse, settle, release, upgrade | predicates outside the lock, atomics beside it, cancellation | slots conserved, one lease per root, classes take turns, waiters served |
| Build breaker (`build_breaker.rs`) | attempts and death counts in SQLite | admit, record death, burn | late attribution | a death is charged at most once |
| Daemon (`subc/`) | routes, roots, pending binds, drains | frames in, completions out, idle reaping | everything asynchronous | routes and roots agree |
| Tool-call pipeline (`run_tool_call.rs`, `response_finalize.rs`) | - | translate, run, finalize | cancellation checkpoints | one response per call |
| Indexes (`search_index.rs`, `semantic_index.rs`, `callgraph.rs`) | postings, embeddings, graphs | build, refresh, query | large data | results match contents |
| Edits (`edit.rs`, `fuzzy_match.rs`), backups (`backup.rs`, `checkpoint.rs`) | undo stacks, checkpoints | apply, undo, restore | partial failure | all or nothing |
| Bash (`subc/bash.rs`, `sandbox_spawn.rs`), watcher (`watcher_filter.rs`, `runtime_drain.rs`), LSP (`lsp/`), config (`config*.rs`), GitHub shim (`gh_shim*.rs`), storage (`storage_retention.rs`, `fs_lock.rs`), policy and consent, health, host packages | various | various | processes, files, network | listed in PROJECT.json with the reason they are left out or the plan |

How they meet: the daemon and the standalone loop submit jobs to the executor and
cancel them; jobs take the root's epoch gate; view publications take the same gate
from threads of their own; the daemon closes a root's lifecycle and then purges its
queues; standing roots submit coalesced passes and remove their roots; single flight
and the cold build limiter keep jobs from building the same thing twice or too many
things at once. A view publication waits for a slot of the limiter, builds, and then for
the epoch gate; its submissions come from the drain, which is itself a maintenance job.
A configure job claims the artifacts before it commits.

The hazards each of these is exposed to are in PROJECT.json under `hazards`, each at
its line, with the properties that watch it.

## 2. Plan

1. *(done)* SingleFlight; Executor with its abstract specification CommandService;
   EffectiveConfig; ClassQueues with its abstract specification ArrivalQueue; theorems
   on types, counters and reserves.
2. *(done)* ColdBuildLimiter with conservation of slots, turns of the classes and
   liveness of waiters; ViewPublication from the watcher to the commit; ArtifactOwner
   with crashing processes. Their main invariants are theorems.
3. Next: writer leases and reader markers of `root_cache.rs`; the standing-root registry
   and the daemon's drain on top of the Executor's interface; the view garbage collector
   with its pins; the background-task registry.
4. *(done)* Proofs of the executor's safety invariants and of the refinement of
   CommandService, of `MarkerHasBuilder` and `NoReadyDowngrade`, of `NeverPassedTwice`
   with the limiter's types, of `NamedUnlessOvertaken`, and of `NothingLeftBehind`.
5. *(done)* Proofs of `Paired`, `AdmitsOldest` and the refinement of ArrivalQueue in
   ClassQueues. With them every safety property that a run checks is a theorem.

The build breaker was dropped from the plan: `record_attributed_death*` and
`record_durable_burn_at`, which alone change its records, have no caller outside tests.

## 3. Modules

| module | models |
|---|---|
| `Executor` | mod.rs: submission, cancellation, registration, the scheduler's turn, workers, epoch gate, root lifecycle |
| `CommandService` | what the executor promises: the abstract specification |
| `MCExecutor`, `MCExecutorRemoval` + `Executor*.cfg` | instances |
| `ExecutorProofs`, `ExecutorSafetyProofs`, `ExecutorWakeProofs` | theorems about `Executor`: types, pool and reserves; everything about jobs, queues and lanes, and the refinement; that the scheduler never sleeps over work |
| `ClassQueues`, `ArrivalQueue`, `MCClassQueues` | the queue pair, and the list it implements |
| `Retain` | what is left of a deque when entries are taken from its middle |
| `EffectiveConfig` | caps and deficit; proved about, not run |
| `ExecutorPartsProofs` | theorems about `ClassQueues` and `EffectiveConfig` |
| `SingleFlight`, `MCSingleFlight`, `SingleFlightProofs` | the single-flight cache |
| `ColdBuildLimiter`, `MCColdBuildLimiter`, `ColdBuildLimiterProofs` | cold_build_limiter.rs |
| `ViewPublication`, `MCViewPublication`, `ViewPublicationProofs` | executor/view_publication.rs, the drain's slice in runtime_drain.rs, the Watcher and ViewLoad stages of the configure tail, and prepare, commit, retire, verification and query in context.rs |
| `ArtifactOwner`, `MCArtifactOwner`, `ArtifactOwnerProofs` | artifact_owner.rs |

### Executor

State and code:

| variable | code |
|---|---|
| `act[a]` | `ActorState`: in-flight counters and flags, `fatal`, `waiting_writers` (`demand`) |
| `pool` | `SchedulerState`: `idle_workers`, `interactive_inflight`, `maintenance_inflight`, `provider_inflight`, `binds_inflight`; free permits of `HeavySemaphore` |
| `job[j]` | `QueuedJob` / `RunJob` / `RunningJob`, its `JobCancellation` state, the epoch guard on the worker's stack, its answer, and what a canceller was told |
| `ahead`, `older` | the order of a class queue; the order of submission of binds (`queued_at`) |
| `sched` | where the scheduler thread is in its turn, the events in its channel (a Wake flag; completions are the jobs in phase `returned`), the armed timer, `actor_order`, `cursor` |
| `root[a]` | `SubcLifecycleAdmission`, `configure_generation`, the directory, the detached publication at the epoch gate; history: whether the registration began beside running jobs of a removed one (`torn`) |

Granularity. What the code does under the scheduler lock is one action; the
scheduler's turn (events, then passes for binds, providers, ledger, interactive and
maintenance jobs, repeated while something was admitted) is a run of actions during
which `sched.pc` is not `idle` and nobody else moves, because all of it happens under
one lock and reads nothing that is written without it. The worker is split at every
atomic step on a token, every lifecycle check and every operation on the gate;
`cancel_job` at the point between its signal and its look at the queues;
`requeue_as_exclusive` between `return_to_pending`, its probe and its event; a quiesce
between closing the lifecycle and purging the queues.

| actions | code |
|---|---|
| `SubmitRefused`, `SubmitBackpressure`, `SubmitQueued` | `submit_labeled` |
| `SignalCancel`, `ResolveCancel`; `CancelBeforeExecution` | `cancel_job`; `cancel_job_before_execution` |
| `Register`, `RemoveActor`, `RetireIdleActor` | `register_actor`, `remove_actor`, `retire_idle_actor_in_background` |
| `MarkUnbound`, `Quiesce`, `MarkBound` | `mark_unbound`, `cancel_queued_root_maintenance` / `cancel_root_maintenance` as `quiesce_unbound_root` calls them, `mark_bound` |
| `EnterGate`, `GiveUpGate`, `MissGate`, `ProbePasses`, `ProbeStops`, `Start`, `StartRefused`, `Seal`, `Finish`, `Panic`, `RequestRerun`, `ReturnToPending`, `HandOff` | `run_lane_job`, `worker_loop`, `requeue_as_exclusive`, the token's operations |
| `PublisherParks`, `PublisherEnters`, `PublisherLeaves` | `write_epoch_as_detached_writer` and its guard |
| `WakeTurn`, `TimerTurn`, `Complete`, `CompleteRequeue`, `BeginDispatch`, `BindPass`, `RingPass` | `scheduler_loop`, `complete_job`, `dispatch_runnable` and its passes, `try_admit_actor`, `launch_run_job` |
| `Age`, `Stick`, `RetryDue` | the passing of the promotion ages, of `READER_STUCK_CENSUS_AGE`, of a retry time |
| `DeleteRoot`, `Recycle` | the environment: the checkout is removed; a caller comes again |

Abstractions. Time is the three actions above. Commands are their effects on the
executor: they start, may seal their token, may ask for an exclusive rerun (only a
shared bind before it changes anything, as `request_exclusive_rerun` demands), end or
panic. The epoch gate (`parking_lot::RwLock`, external) lets a parked writer keep new
readers out. The deficit is left out because section 6 proves that it refuses nobody.
The branch of a pass that meets a fatal root with queued jobs is left out because
`FatalDrained` shows that there is none. A class queue is its order of jobs; that the
code's pair of structures is such an order is the subject of `ClassQueues`. The
daemon's loop is sequential, so one root's quiesce, retirement and binding do not
overlap. `remove_actor` takes a root whatever it does: its queued jobs are dropped, its
running ones run on in the removed context, with its gate and lifecycle, while a new
registration of the root is charged for their completions (`Orphan`). In which state the
old lifecycle was left is not kept, so their probes may answer either way.

Not modelled: shutdown and the `Abandoned` outcome of jobs dropped with a closed
worker channel; snapshots, liveness probes and diagnostics; shortened disk probes
(`Observes` allows either result).

### CommandService

One record per request: idle, accepted, running, over; how it uses its root (free,
shared, exclusive); open, revoked or sealed; its answer. A revoked request never
begins, sealing and revoking exclude each other, a request is taken back only before
it is sealed, an exclusive use is alone among the uses of its session of the root (a
registration with its gate), and the one answer agrees with what happened. `Executor` maps to it by `View` and `KeepsPromises` is the refinement.

### ClassQueues

The k-th occurrence of a lane in `order` is the k-th job of that lane's deque. The
actions are the methods of `ClassQueues` with the lane that the callers choose
(`front_lane` for maintenance, `next_interactive_lane` for interactive work, whose
promoted writer is a choice here). `Merged` reads the pair as one list, and
`ArrivalQueue` says what may happen to it. The structure is taken by itself, so it may
hold two drains of one key, which submission never allows (`NoDuplicateDrains`).
`Retain` says what `VecDeque::remove` and `retain` leave: `Kept(s, D)` has the entries of
`s` outside `D`, each at its rank among them. It is stated by counting rather than by
recursion, and so are `Occurrence` and `PlaceOf`, as in the code's closures, which count;
that is what makes them provable.

### EffectiveConfig and SingleFlight

`EffectiveConfig` computes the caps from an arbitrary `ExecutorConfig` and follows one
root's deficit. `SingleFlight` has one action per critical section of `get_or_build`,
for one key: keys share only the condition variable, and a foreign wake-up only makes
a waiter look again.

### ColdBuildLimiter

| variable | code |
|---|---|
| `available`, `waiting` | the atomics `available` and `waiting_by_class` |
| `queued`, `byRoot`, `turns` | `AdmissionState`: tickets in order, `holders_by_root`, `pending_turns` with `settled_turn` |
| `ref` | the `Arc<ColdBuildPermitLease>` a request holds or is dropping; a lease is named by the request that installed it |
| `pc`, `seen` | where the request's thread is; the value of `available` its attempt loaded |
| `before`, `passed` | history: whom an admission goes before, how often a waiter was passed |

A step is one hold of `admission_state` or one access to an atomic. So a waiter counts
itself before it is queued (`RegisterCount`, `RegisterQueue`) and leaves in the same two
steps; a lease's Drop takes the listing under the lock and returns the slot after it
(`RemoveListing`, `ReturnSlot`); an attempt under the lock loads `available`, makes its
checks on that value and swaps it later (`BeginTry`, `EndTry`), when the slot may be gone
or another one back; the predicate runs between the install and `Settle` or `Refuse`.
The unclassified `try_acquire`, which the import of a legacy view calls
(`import_legacy_view_once`, commands/configure.rs:8570, on the process-wide limiter), takes
its slot without the lock, without a rank and without a turn (`TakeUnclassified`) and gets
its lease once it has the lock (`InstallUnclassified`). Tickets and turn numbers grow and are
only compared, so they are the order of sequences: a request that leaves takes its entry out
of the middle (`RemoveAt`), a turn withdrawn does so with the entry of its lease (`TurnOf`).
The census, the events and the progress registry only report and are left out.

### ViewPublication

| variable | code |
|---|---|
| `job` | the root's `Running` entry of `JOBS`: generation, paths, rescan, token, pending submission |
| `current`, `prepared`, `unread`, `pc` | the worker: its submission, the content generation `prepare_view_paths` took, the members it has yet to read |
| `drain` | `WatcherDrainSliceState`: content generation, `pending_paths`, `rescan_required`, the Apply phase, `view_publication_paths`, `_full` and `_due` |
| `drainer` | whether a drain runs, and with it the slice out of its slot; `stale` once its route was unbound |
| `watching`, `reported`, `overflow` | the watcher; its channel; a `RescanRequired` in the channel |
| `retry` | the due time of `PublicationRetry` |
| `present`, `binding`, `generation`, `tail`, `runtime`, `published` | the directory, `SubcLifecycleAdmission` with the abandonment grace, `configure_content_generation`, the stage of the configure tail, `view_runtime`, its `snapshot.generation` |
| `query` | the stage `pending_changes_for_query` reads next |
| `dirty`, `moved`, `forgiven`, `missed`, `overtaken` | history: which members' last edits the view lacks, were made after the build read them, or were given up (not watched, or lost with the watcher, the view, the binding or the configuration); what a query has not named; whether it looked at the slot of a running drain |

The model follows one root with one context. Contents are not kept: an edited member is
`dirty` until a commit installs what was read after its last edit, which is why a build
reads its members one by one (`ReadMember`). A step is one hold of `JOBS`; the worker
holds nothing in between. `Retire` may be met wherever the code calls
`retire_deleted_view_root`, and a poll of the token (`Signal`) may or may not notice an
abandoned or deleted root, because the lifecycle lock may be taken and the disk probe is
throttled. A writer that waits for the epoch gate keeps new queries and drains out, as in
`Executor`.

A drain is several steps. `TakeSlice` takes the slice out of its slot, drops one of another
content and receives from the channel; `ParkRescan`, `FinishRescan`, `ApplyPaths` and
`ResumeApply` work on it, under the lifecycle generation the drain began in; `PutBack` ends
it with `publish_view_if_quiet`. Queries and the worker move in between. A watcher that
fails (`WatcherFails`), is replaced by a configure (`WatcherStage`) or loses its root
(`CleanupDeletedRoot`) takes channel and slice with it (`DropEvents`).

`FinishViewLoad` opens the view and publishes only if the legacy import is ready
(`import_ready`: not kept waiting by the limiter, not failed; a published view needs none)
and something is pending; the working tree is compared only with the call graph on. The
verification asks for an open view with a generation. So a first load may schedule nothing
and no verification comes until the next configure or watched edit publishes; the edits it
leaves are `forgiven`, because nobody reported them.

Left out: views that are disabled, routed v3 roots and inline publication; a worker
thread that cannot be spawned; the schedulers that call `schedule` with the whole
checkout for other reasons, which is what the verification does here; ignore rules, whose
change rebuilds the matcher and retires paths; the updates of the other indexes; how many
drains an interrupted Apply phase takes; the lengths of the delays.

### ArtifactOwner

| variable | code |
|---|---|
| `dir`, `file` | the key's directory; `owner.json`: none, partial, or a manifest with its writer and the age of its heartbeat |
| `holder` | the mutation lock between the two steps of `create_owner_manifest` (every other use is one step) |
| `unchanged` | who would find in the file what it read before: manifests carry their time, so `reclaim_manifest_if_unchanged` compares exactly this |
| `pc`, `lease`, `beat` | a context's claim; its registered lease; the heartbeat thread's copy of it |
| `sweep`, `running`, `hostOf`, `gone`, `faults` | sweeps, processes, hosts, deleted checkouts, the bound on faults |

A crash may come between any two steps and frees the lock. Whether the pid of an ended
process has been taken by another one is a choice (`recycled`). On the owner's host a
manifest is dead when its process is, on another host when its heartbeat is 75 s old
(`GoStale`, which may befall a slow owner); after a day without a registered lease it is
`old`, and the sweep of a checkout that is gone may take it. Left out: manifests of a newer
schema, which a claim and a sweep leave alone and a heartbeat copied before replaces like
any other (`heartbeat_manifest`); linked worktrees, which only read; a heartbeat torn by a
crash; the sweep's throttle; file systems on which the lock does not work.

## 4. Runs

Passing:

| run | checks | shows |
|---|---|---|
| `exec_gate` | `CountersExact`, `WriterAlone`, `WriterDemandIsLive`, `NothingLeftBehind`, `CancelHonoured`, `FatalDrained`, `KeepsPromises` | one root; repeatable bind (cancelled by `cancel_job`), edit, read, drain, publication; either writer may panic: the shared bind, its way back to the queue, the retry timer, and cancels and a panic that meet it there |
| `exec_pool` | `TypeOK`, `ReservesHeld` | two roots on three workers, one heavy permit, bind and provider reserves of one |
| `exec_removal` | `CountersExact`, `SerialLanes`, `NoDuplicateDrains`, `NothingLeftBehind` | a standing root removed while busy and registered again: two passes of one key, an edit that grows old and whose route may go, a language-server request that hangs |
| `exec_lifecycle` | `QuietWhenUnbound`, `SettledAnswered`, `KeepsPromises` | unbind, quiesce, rebind, deletion, retirement and re-registration of a root with a provider job, a drain and an inspect on the language-server lane; tokens signalled by the root's own end |
| `exec_live` | `EveryJobAnswered` | every request is answered: readers that keep coming, and a bind that a publication sends back to wait out its retry time |
| `class_queues` | `Paired`, `KeepsArrivalOrder`, `AdmitsOldest` | ten jobs of one root's two queues |
| `single_flight` | `TypeOK`, `NeverStale`, `MarkerHasBuilder`, `NoReadyDowngrade`, `EveryCallReturns` | three callers, three generations, failing builds |
| `limiter` | `TypeOK`, `SlotsConserved`, `OneLeasePerRoot`, `NeverPassedTwice` | two slots; two inspections that share a root's permit, a maintenance waiter, a maintenance request without a ticket, an unclassified caller |
| `limiter_live` | `NeverPassedTwice`, `EveryWaiterServed` | one slot; an inspection, a maintenance and a Standing request that come again and again, an unclassified caller |
| `view_publication` | `TypeOK`, `NoEditForgotten`, `NamedUnlessOvertaken`, `EveryEditPublished`, `VerificationRepairs` | a member and another path; two of: edits, lost events, a failing watcher, attempt or load, unbind, abandonment, configure, deletion |
| `artifact_owner` | `TypeOK`, `LivingNeverRemoved`, `EveryClaimReturns`, `RecordRestored` | a checkout and an unrelated clone in two processes, on one host or two; two crashes or lapses |

Violation: `view_query` checks `QueryNamesUnpublished`, what the comment of
`pending_changes_for_query` says of it (context.rs:7475-7477: "Reading the stages in the
direction a file travels therefore never misses it: if it moves between two reads, the later
read finds it downstream."). An edit waits out the quiet window in the drain's slice; a query
finds the watcher at rest; a drain starts and takes the slice out of its slot
(runtime_drain.rs:3786); the query finds the slot empty (context.rs:7554) and nothing in the
job table, and nobody looks at the drains in flight again: the edit goes unnamed.
`NamedUnlessOvertaken` says that this is the only way.

Where the code does something else than a comment or a reader might expect. These were
found with instances like the ones above and are stated here rather than checked:

* `remove_actor` takes a root whose standing pass is running
  (`StandingRoots::retire_removed_actors`, subc/standing.rs:627-640); registered again, the
  root runs a second pass beside it. mod.rs:77 says the lane is serialized per actor,
  mod.rs:1332 that there is no in-flight work to quiesce. The new registration has fresh
  counters and is charged for the old jobs' completions, so it may count less than runs and
  admit what its lanes and caps should keep out, writers beside old readers included (they
  hold different gates). `torn` marks such a registration; `SerialLanes`, `WriterAlone` and
  the exactness of its own counters leave it out. What holds of it, too: its counters never
  say more than runs, so nothing leaks, the pool stays exact, and the promises to callers
  are kept. Callers whose jobs a removal finds queued see a closed channel (`removed`).
* A bind whose retry time has passed but which is not admissible keeps the scheduler's
  timer expired, so the scheduler takes turn after turn until it is (mod.rs:2491; the
  comment at mod.rs:3579 has the loop wake once).
* In the single flight, when a newer build fails while an older one is running, the older
  generation can be built twice at the same time (single_flight.rs:7 says that calls for
  one generation share one build).
* In the limiter, between `RemoveListing` and `ReturnSlot` a root may take a second slot
  while its first has not been returned, although the comment in
  `install_classified_permit` refuses an attempt "rather than briefly double-owning
  capacity"; `OneLeasePerRoot` is therefore about leases that are still listed. A
  Standing turn that is withdrawn lets the other class be admitted twice in a row, which
  `NeverPassedTwice` leaves out. Requests without a ticket skip the rank check and can
  keep a waiter of their own class out, unclassified callers can pass any waiter as often as
  they come, sharers that overlap for ever keep a slot for ever, and Standing requests may
  starve by design.
* A content-changing configure that comes while the worker waits for its limiter slot is
  not noticed by the commit: `prepare_view_paths` takes the new generation
  (context.rs:10565), so a batch of the replaced submission is committed, where
  view_publication.rs:869 says such a configure is rejected. The batch was read after the
  configure, and `NoEditForgotten` holds. The comment in `cancel_for_context` names such a
  configure among its callers; none calls it.
* A root that stays unbound for more than 120 s loses its running batch, and an equivalent
  bind does not start it again: the edits wait for the next publication or for the
  ten-minute verification. After that, or after a content-changing configure, there is a
  window in which the batch is dropped and nothing is scheduled yet; a query in it does not
  name those edits. `forgiven` marks them, until they are edited again or published.
* A first load of a view whose import finds the limiter full, or fails, installs a runtime
  without a generation and schedules nothing (configure.rs:9914); the verification passes it
  over (context.rs:7416-7421). The view stays empty until a watched edit or a configure.
* Two living sibling checkouts of one host can both come to own a key: a restarted owner
  reads its own dead manifest and is about to write, a sibling reclaims it and claims, and
  the first one's `write_owner_manifest` replaces the claim without a second look. The test
  `sibling_checkout_opens_read_only_while_owner_is_alive` (artifact_owner.rs:1727) covers
  the sequential case. A heartbeat, too, replaces a newer claim.

Age and events. Time alone starts no turn. A reader becomes "stuck" by the clock, the writer
behind it loses its promotion, and reads that were held back for that writer could run, but
they wait with idle workers for the next event (mod.rs:3104-3123). The promotion itself can
do it, too: when an interactive job of the heavy lane (`search`, the call-graph commands:
subc/manifest.rs:159-162) waits at the head of its root for a permit and an edit behind it
passes the promotion age, the edit could be admitted at once, but it waits for the next event.
`NothingLeftBehind` is stated so that it holds there and says what the code does ensure: a
root with a queued writer grown old has two choices of its next interactive job, with the
promotion and without, and the one the scheduler asked for was refused; every other root, and
every other pass, has nothing admissible. `exec_removal` has the ageing edit and the hanging
reader, and the theorem holds for every instance (`NothingForgotten`, section 6).

Bounds. Each instance has the three to six jobs whose interplay it is about, because
jobs interact only through the counters of their root and of the pool, in which the
caps of 1 and 2 make every limit reachable; two roots are needed only where roots
compete. The caps of the one-root instances are those of a pool of two or three general
workers as `effective` computes them, with the bind and provider reserves (two each in
the code) scaled down to one, or to none where no job uses them; `exec_pool` has a single
general worker, below the code's least pool, so that five jobs exhaust it. The theorems
about the counters hold for all values. A `teardown`, which the lifecycle lets pass when
the root is unbound, is in the model but in none of the instances. In `exec_removal` the
two passes are interchangeable and symmetry is used; of the serial lanes it fills the commit
lane, by standing passes, and the language server's, by one job. That no lane, and no cap of
reads, is exceeded by any jobs is the theorem `LanesSerial`. `BatchCap` = 2 makes turns end with events left. `QueueCap` = 2
makes the maintenance queue full. `MaxGen`, `MaxInc` and `MaxPub` bound how often a root is
unbound, registered and published to: 1 or 2 is enough for a stale generation, an old
registration's job and a publication that meets a bind. The `May...` constants say
which jobs and roots the environment may cancel, panic, age, unbind and so on; each of
these is possible in some run. `CHECK_DEADLOCK FALSE` is set for the executor and the
queues because they may come to rest when all requests are answered; that they do not
rest too early is `NothingLeftBehind` and `EveryJobAnswered`.

The limiter's two slots are the least with which a look at `available` can be outdated in
both directions, and two classes with two requests each give every order of settling;
requests may always be made again, so the limiter never rests (`limiter` checks for
deadlock). A publication needs one member and one path outside the view (`Member`, `Path`).
`MaxDisturbances` = 2 allows, for example, an edit and a failure of the attempt, the watcher
or the load, or an edit and an unbind or configure at any point of the drain that carries it.
A loss of events is not counted, since it needs an edit first: two edits and a loss between
them put a rescan beside a newer path. But two edits around a failing batch are beyond it
and are left to the theorems, which hold for all sizes, as are the limiter's. `view_query` needs one disturbance, the edit.
`MaxFaults` = 2 allows a crash of each process, or a crash and a lapse; three contexts on
one host (5.7 million states) and on two (2.4 million) were run once. These two systems may
rest, when everything is published or everybody is gone, so `CHECK_DEADLOCK FALSE` is set
and liveness says what must have happened by then.

## 5. Fairness

`FairSpec` is used by `exec_live`. The scheduler is a thread that
always runs: weak fairness; its channel is first in first out, so no completion is
passed over for good. Workers are threads that wait for a gate, which hands
itself on in order (parking_lot's fair unlocking), and polls with timeouts; a
scheduler's turn disables their steps in the model, which it does not do in the code,
so their weak fairness is written as strong fairness, of the union `Due(j)` of the
steps due to a job: they exclude one another or happen once per stay in the queue, so
none can be put off for good by the others. Commands return, except readers
that an instance says may hang. Time passes (`Age`, `RetryDue`); a canceller that
signalled goes on to the queues; a publication leaves the gate. No caller is assumed to
submit, cancel or come again. In `SingleFlight` every caller that can move does: builds
terminate and the mutex is free of starvation.

In `limiter_live` a request that has begun goes on (`Progress`, weak fairness): it polls
every 100 ms, its predicate returns, its build ends and its permit is dropped. Whoever blocks
on the mutex gets it in the end, although others take it again and again (`Locks`, strong
fairness: std's mutex puts its waiters to sleep and wakes them in turn, and nobody holds it
for long). Weak fairness lets every poll come just after somebody took the slot, and with one
slot the classes' turns are enough against that; with two slots a waiter would need a lucky
poll, which is why the instance has one. The property assumes that cancellations, Standing
requests and unclassified callers stop disturbing (of the last there is one per configure of a
view without a generation, until its import is recorded), and that no root's permit is passed
on for ever.

In `view_publication` the worker thread runs, the retry deadline and the quiet window pass,
the configure tail runs while the root is bound, the pump runs drains that have work and a
started drain ends, queries end, and the host binds the root again: weak fairness of each.
Disturbances are bounded and nothing is assumed of them. `EveryEditPublished` does not need
the verification. `VerificationRepairs` assumes of it what it is about (strong fairness of
`PutBack(TRUE)`): the full read of a published, open view falls due every ten minutes and stays
due until a drain that finds no publication running makes it, and the pump starts drains for it.
In `artifact_owner` a claim goes on and the heartbeat and sweep threads run; nobody is assumed
to claim, release or restart.

## 6. Theorems

All for every value of the constants that the named assumptions allow; the assumptions
are evaluated by TLC in the runs.

* `ExecutorProofs!TypeCorrect`: `Spec => []TypeOK`. `TypeOK` is not inductive: that
  `idle` and the heavy permits stay natural numbers when a job is launched rests on
  `CanDispatch` and `PermitFree` of the pass that launches it, and the round-robin steps
  need `sched.order` to be a non-empty sequence of roots while a pass is under way. The
  invariant `TypeInv` adds the shape of `sched` and that last fact. One lemma per group
  of actions.
* `ExecutorProofs!PoolCountersExact` and `ReservesAlwaysHeld`: `Spec => []PoolExact`
  (the pool's half of `CountersExact`) and `Spec => []ReservesHeld`. Every step is quiet
  (no job enters or leaves `Running`, `pool` unchanged), a launch or a completion; for
  the last two the cardinalities move by one with the counters. The invariant `PoolInv`
  needs exactness (a reserve is only given back because the counter that falls counted
  a running job, and saturating subtraction never cuts anything off) and that running
  jobs of the special lanes have the class admission demands (`LanesOK`).
* `ExecutorSafetyProofs`: `FatalRootsDrained`, `DemandAlwaysLive`, `CancelsHonoured`,
  `DrainsCoalesced`, `UnboundRootsQuiet`, `EveryoneAnswered`, `CountersAlwaysExact`,
  `WritersAlone`, `LanesSerial` and the refinement `PromisesKept`, for every instance and
  through removals of busy roots. The inductive invariant `SafetyInv` is `PoolInv` with four
  layers. `JobOK(j, r)` relates the fields of one job: which token, answer and guard go with
  which phase, that only a repeatable bind is on its way back to the queue and then nobody was
  answered and nothing is sealed, and that what a canceller saw is still so. It is
  inductive job by job, and with it every step is, for every job, a step of
  CommandService's job or leaves it alone (`Legal`). `GateInv` is about the gate of one
  registration: who holds it for writing is its only holder. It is what the refinement needs,
  and does not rest on admission, so it holds for the jobs of a removed registration as well.
  `QueueInv` relates the queued jobs
  to their root: only a registered root has any, a fatal one none, the demand is their
  number, no key twice, and after a quiesce nothing root-scoped (a submit between the two
  steps of the quiesce finds the lifecycle closed). It needs `JobOK`, because a bind that
  comes back to the queue must not be a cancelled one. `LaneInv` relates a root's running
  jobs to its counters and flags (`Books`): equal for a registration that began with none
  running (`RootExact`), never more for any (`NoMore`), since an old job's completion takes
  away at most what is counted. `WriterAlone` is not inductive without it: admission
  goes by the flags, so they must be exact, and `OneEach` says that a flag that falls at a
  completion counted one job only. `InspectAssumption` (an inspect is no writer,
  subc/manifest.rs:151-157) is needed because the quiesce that signals queued inspects
  does not count writers again.
* `ExecutorWakeProofs!NothingForgotten`: `Spec => []NothingLeftBehind`, on top of
  `SafetyInv` and without further hypotheses. A step either leaves the scheduler's view alone
  (`Unseen`), or leaves an event
  behind (`Alerting`), or belongs to a turn; what is to be shown is that the last round of
  a turn was conclusive. `WakeInv` says why. `RoundInv`: as long as a round has admitted
  nobody, every pass before the present one is spent (`Spent`: every root rests, `Rests`), and
  this one has a whole lap to go. `CoverInv`: the order the lap walks lists every registered
  root, through registrations and removals. `LineInv`: `ahead` orders each queue, so a queue
  with jobs has a first one (a minimal element of finitely many sets, `FirstExists`) and a pass
  that finds no candidate met an empty queue; `QueuesHaveHeads` states this by itself.
  `TimerInv`: a bind that waits for its retry
  time has the timer set. A clock step adds a choice to a root that rested and takes none away
  (`SamePreferences`, `ClockUnseen`), so the choice that was refused still is one.
* `ExecutorPartsProofs!EntriesPaired`, `ArrivalOrderKept`, `OldestAdmitted`: `Spec =>
  []Paired`, `Spec => KeepsArrivalOrder` (the refinement of `ArrivalQueue`) and `Spec =>
  AdmitsOldest`, for any finite set of jobs, any lanes and keys they have, and any length of
  the queues. `Paired` is not inductive: that a removal takes one entry and one job of the
  same lane needs the job to be in its lane's deque, and that a job withdrawn from the middle
  is the one asked for needs it to be queued once. `QueuesInv` (`Pairing`) adds both.
  The proof is about counting. Every rank up to the size of a finite set is taken, because
  the ranks are an injection into a set of the same size (`NthExists`); and a map that keeps
  the order keeps the ranks (`RankMapped`). The entries that stay when some leave the line
  are renumbered by such a map, and so are the jobs that stay in their lane, so an entry still
  has its job's rank (`LaneKept`). Every operation but the pushes is such a removal
  (`Dropped`), and a push shifts ranks by one or by none (`PushedBack`, `PushedFront`). That a
  job taken is the oldest one allowed follows because entries of one lane are in the order of
  its jobs (`LaneOrder`), and for a bind because binds are all in one lane
  (`ClassQueuesAssumption`; `remove_first_bind_job` looks in the Mutating lane only).
* `ExecutorPartsProofs!CapsAlwaysLeaveRoom`, `DeficitAlwaysAdmits`: for every
  configuration, with the deficit between 0 and its cap as the invariant.
* `SingleFlightProofs!TypeCorrect`, `ReturnsFresh`, `MarkersBuilt`, `ReadyOnlyGrows`: for
  any number of callers and any set of generations; `NeverStale` is inductive with typing.
  For `MarkerHasBuilder` the builder is named: the marker of a generation has a caller of
  that generation that builds and was not overtaken, and there is one such caller only
  (`MarkerInv`), so that no failing build clears the marker of another one. The action
  property follows from typing and the guard of the install.
* `ColdBuildLimiterProofs!SlotsAreConserved`, `RootsShareOneLease`: for any finite set of
  requests, any roots and any limit. The invariant adds to `SlotsConserved` that a request
  refers to a lease exactly while it has a permit (`PermitInv`), that a lease without a
  root is not shared (`PrivateInv`), that a lease in use is the one listed for its root and
  a root lists its own leases only (`ListedInv`, `ListingInv`), that a lease's Drop runs
  once and nobody takes the lease meanwhile (`DropInv`), and that what an attempt checked
  still holds when it installs, because it has the lock (`AttemptInv`), and that only unclassified
  callers have a slot without a permit (`TakenInv`). Without `ListedInv`
  an install could make a second lease of a root.
* `ColdBuildLimiterProofs!TypeCorrect`: that `waiting` stays a number is not a matter of
  types. A class counts exactly its requests between their two steps in and their two
  steps out of the queue (`CountInv`), and the queue holds each of them once (`QueueInv`).
* `ColdBuildLimiterProofs!PassedAtMostOnce`: `Spec => []NeverPassedTwice`. A waiter that
  was passed has a settled turn of the other class to point at, after which there are only
  turns that do not take its turn away (`Debt`): those of the other class still undecided,
  and Standing ones whose second look will refuse them (`Benign`). An admission that is
  about to pass it has its own pending turn with the same property (`Mark`), and there is
  one such admission only (`PassInv`). This needs that pending turns belong to undecided
  requests, one each, with one settled turn kept (`TurnInv`), that only those who still
  wait are passed (`WaitInv`), and that what an attempt without a ticket saw of the turns
  holds until it ends (`SeenInv`).
* `ViewPublicationProofs!TypeCorrect`, `EditsOnTheirWay`: for any paths and any number of
  disturbances. The invariant ties the job table to the worker (`JobInv`), says that a
  pending submission of another content is for the whole checkout (`PendingInv`), what
  `moved` may hold (`MovedInv`), and splits `NoEditForgotten` (`CarriedInv`) so that nothing
  depends on a batch that is cancelled or replaced (`DroppedInv`) and, while the root is
  abandoned or its view not open, on nothing but the watcher and the drain (`GivenUpInv`): the
  first poll of the token, or the missing runtime, drops the batch.
* `ViewPublicationProofs!AnswersNameEdits`: `Spec => []NamedUnlessOvertaken`. On top of the
  invariant above, what a query has not named is unpublished and in a stage that it has yet
  to read (`AskInv`), unless it read the slot of a running drain, because edits only move
  downstream, from the watcher to the drain to the job table, while the query holds the read
  gate and reads in the same direction. A rescan marks the whole slice before it is due
  (`FullInv`), but then the watcher stage has named it.
* `ArtifactOwnerProofs!TypeCorrect`, `OwnersSpared`: for any contexts, processes and hosts.
  The action property rests on what a reader decided: while the file is what it read, a
  claim or a sweep about to reclaim it was right about it, since time and crashes only make
  a manifest easier to take (`JudgedInv`, `SweptInv`); and a context that creates the file
  has the lock and finds what it created (`LockInv`).

Only model-checked: the liveness properties `EveryJobAnswered`, `EveryCallReturns`,
`EveryWaiterServed`, `EveryEditPublished`, `VerificationRepairs`, `EveryClaimReturns` and `RecordRestored`, because
fairness is out of the prover's reach. Every safety property that a passing run checks is
also a theorem, from the named assumptions on the constants alone.

## 7. What is not modelled

PROJECT.json lists every component with its status. Of the executor: shutdown,
snapshots and diagnostics. Of the modelled components around it: what their sections name.
Of the rest of the system: what section 2 plans, and for
good the contents of indexes, text algorithms, wire formats, processes and network.
