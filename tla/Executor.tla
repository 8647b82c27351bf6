------------------------------ MODULE Executor ------------------------------
(***************************************************************************)
(* The command executor of crates/aft/src/executor/mod.rs: one scheduler   *)
(* thread admits queued jobs of many project roots ("actors") to a fixed   *)
(* pool of workers.                                                        *)
(*                                                                         *)
(* Everything the code does under the scheduler lock is one action, or,    *)
(* for the scheduler's own turn, a run of actions during which `sched.pc'  *)
(* is not "idle" and nobody else moves: dispatch reads nothing that a      *)
(* worker or a canceller writes without the lock, so their steps commute   *)
(* with the turn and no behaviour is lost.  What workers do without the    *)
(* lock is split at every atomic operation on a token, at every check of   *)
(* the root's lifecycle and at every operation on the root's epoch gate.   *)
(*                                                                         *)
(* Time is abstracted: a queued writer becomes old enough to be promoted   *)
(* (Age), a running reader old enough to be called stuck (Stick) and a     *)
(* backed-off bind due again (RetryDue) at any moment.  The deficit of the *)
(* round robin is left out: a visit adds at least one unit and a job costs *)
(* one, so it never refuses a job (mod.rs:3938-3941).                      *)
(***************************************************************************)
EXTENDS Integers, Sequences, FiniteSets

CONSTANTS
  Actors,             \* project roots
  Jobs,               \* requests; a job is one call of a submit function
  Info,               \* [Jobs -> what the submitter said about the job]
  InitOrder,          \* the roots registered at the start, in actor_order
  TotalWorkers,       \* pool_size + bind_reserve + provider_reserve
  ReadCap, ActorCap, HeavyPermits, InteractiveReserve, MaintenanceCap,
  BindReserve, ProviderReserve,
  QueueCap,           \* MAINTENANCE_QUEUE_CAP
  BatchCap            \* SCHEDULER_EVENT_BATCH_CAP

CONSTANTS             \* what the environment may do in an instance
  MayCancel,          \* jobs whose caller may call cancel_job
  MayDetach,          \* jobs whose route may go: cancel_job_before_execution
  MayPanic, MayAge, MayStick, MayRecycle,  \* jobs
  MayPublish, MayUnbind, MayDelete, MayRemove, \* roots
  MaxGen,             \* bound on a root's configure generation
  MaxInc,             \* bound on how often a root is registered
  MaxPub              \* bound on detached publications per root

Lanes == {"PureRead", "SerialLspStatus", "HeavyInit", "Mutating",
          "MaintenanceCommit", "ProviderMetadata", "CallLedger"}
Classes == {"Interactive", "Maintenance"}

(* "bind": request id subc-bind-*; "rebind": such a bind with a rerun        *)
(* closure; "acquire": the callgraph acquisition; "inspect" and "teardown":  *)
(* the commands of those names.                                              *)
Kinds == {"plain", "bind", "rebind", "inspect", "teardown", "acquire"}
NoKey == "none"
Keys  == {"WatcherDrain", "LspDrain", "StandingPass", "ConfigReload", NoKey}

JobInfo == [root : Actors, class : Classes, lane : Lanes, kind : Kinds,
            token : BOOLEAN, key : Keys]

Root(j)  == Info[j].root
Class(j) == Info[j].class
Lane(j)  == Info[j].lane

ReadLanes  == {"PureRead", "SerialLspStatus"}
EpochLanes == ReadLanes \cup {"MaintenanceCommit"}      \* hold the gate for reading
GatedLanes == EpochLanes \cup {"Mutating"}

(* is_bind_job, and RunJob.rerun.is_some() *)
IsBind(j) == Class(j) = "Interactive" /\ Lane(j) = "Mutating" /\ Info[j].kind \in {"bind", "rebind"}
Repeatable(j) == IsBind(j) /\ Info[j].kind = "rebind"
IsAcquisition(j) == Class(j) = "Maintenance" /\ Lane(j) = "HeavyInit" /\ Info[j].kind = "acquire"

(* The work that a root without a bound route, or without a directory, must  *)
(* not do.                                                                   *)
RootScoped(j) == Class(j) = "Maintenance" \/ Info[j].kind = "inspect" \/ Lane(j) = "ProviderMetadata"

(* submit_labeled gives every root-scoped job a token; others bring one.     *)
HasToken(j) == Info[j].token \/ RootScoped(j)

ASSUME ExecutorAssumption ==
  /\ IsFiniteSet(Jobs) /\ Info \in [Jobs -> JobInfo]
  /\ InitOrder \in Seq(Actors)
  /\ \A i, k \in 1..Len(InitOrder) : InitOrder[i] = InitOrder[k] => i = k
  /\ \A n \in {TotalWorkers, ReadCap, ActorCap, HeavyPermits, InteractiveReserve, MaintenanceCap,
               BindReserve, ProviderReserve, QueueCap, BatchCap, MaxGen, MaxInc, MaxPub} : n \in Nat
  /\ TotalWorkers >= BindReserve + ProviderReserve + 1
  /\ BatchCap >= 1 /\ MaxInc >= 1
  /\ MayStick \cap MayRecycle = {}      \* `readers' knows a reader by its name

(* The inspect command is no writer: command_lane_explicit gives it the LSP  *)
(* lane (subc/manifest.rs:151-157), and what signals queued inspect jobs     *)
(* does not count writers again.                                             *)
ASSUME InspectAssumption == \A j \in Jobs : Info[j].kind = "inspect" => Lane(j) # "Mutating"

VARIABLES
  act,    \* per root: the counters and flags of ActorState
  pool,   \* the global counters of SchedulerState, and the heavy permits left
  job,    \* per job: where it is, its token, what it holds, how it was answered
  ahead,  \* per queued job: the jobs queued in front of it (actor and class)
  older,  \* per unsettled bind: the unsettled binds submitted before it
  sched,  \* the scheduler thread, its event channel and the actor order
  root    \* per root: lifecycle, directory, epoch gate's detached writer

vars == <<act, pool, job, ahead, older, sched, root>>

-----------------------------------------------------------------------------
(* Job phases.  A job is in running_jobs from "dispatched" to "returned":    *)
(* dispatched (handed to a worker), gated (holds the epoch gate if its lane  *)
(* needs one), probed (cancel and lifecycle checks passed), executing,       *)
(* handback and handed (a bind on its way back to the queue), returned (its  *)
(* completion event is in the channel).                                      *)
RunPhases == {"dispatched", "gated", "probed", "executing", "handback", "handed", "returned"}
Phases    == {"idle", "queued", "settled"} \cup RunPhases

Tokens   == {"none", "pending", "running", "committed", "cancelled"}
(* "removed" and "lost": no response, the caller sees its channel closed by  *)
(* remove_actor or by a retirement.                                          *)
Answers  == {"none", "ok", "panic", "cancelled", "rejected", "fatal", "removed", "lost"}
Outcomes == {"QueuedRemoved", "RunningSignalled", "RunningCommitted", "NotFound",
             "DispatchedCancelled", "AlreadyStarted"}

JobState ==
  [phase   : Phases,
   token   : Tokens,
   hold    : {"none", "read", "write"},       \* epoch guard on the worker's stack
   shared  : BOOLEAN,                         \* shared_bind_gate
   forced  : BOOLEAN,                         \* force_exclusive
   backoff : {"none", "waiting", "due", "offered"},   \* not_before
   end     : {"done", "panic", "rerun", "retry"},     \* CompletionEvent
   gen     : Nat,                             \* provider_generation
   inc     : Nat,                             \* which registration's epoch gate
   aged    : BOOLEAN,                         \* older than its promotion age
   stuck   : BOOLEAN,                         \* a reader running for a minute
   readers : SUBSET Jobs,                     \* readers running when it was queued
   answer  : Answers,
   cancel  : Tokens \cup Outcomes]            \* cancel_job: state seen, then outcome

ActorCounters ==
  [registered : BOOLEAN, inc : Nat, fatal : BOOLEAN, total : Nat, read : Nat, lsp : BOOLEAN,
   writer : BOOLEAN, shared : BOOLEAN, commit : BOOLEAN, acquire : BOOLEAN,
   provider : BOOLEAN, ledger : BOOLEAN, demand : Nat]

PoolCounters ==
  [idle : Nat, interactive : Nat, maintenance : Nat, provider : Nat, binds : Nat, heavy : Nat]

Passes == {"bind", "provider", "ledger", "interactive", "maintenance"}

RootState ==
  [bound : BOOLEAN, gen : Nat, dir : BOOLEAN, quiescing : BOOLEAN,
   publisher : {"none", "parked", "holding"}, pubs : Nat,
   torn : BOOLEAN]       \* history: registered beside running jobs of an earlier registration

TypeOK ==
  /\ act \in [Actors -> ActorCounters]
  /\ pool \in PoolCounters
  /\ job \in [Jobs -> JobState]
  /\ ahead \in [Jobs -> SUBSET Jobs]
  /\ older \in [Jobs -> SUBSET Jobs]
  /\ root \in [Actors -> RootState]
  /\ sched.pc \in {"idle", "drain"} \cup Passes
  /\ sched.left \in Nat /\ sched.cursor \in Nat
  /\ sched.progress \in BOOLEAN /\ sched.wake \in BOOLEAN /\ sched.timer \in BOOLEAN

FreshActor(i) ==
  [registered |-> TRUE, inc |-> i, fatal |-> FALSE, total |-> 0, read |-> 0, lsp |-> FALSE,
   writer |-> FALSE, shared |-> FALSE, commit |-> FALSE, acquire |-> FALSE,
   provider |-> FALSE, ledger |-> FALSE, demand |-> 0]

FreshJob ==
  [phase |-> "idle", token |-> "none", hold |-> "none", shared |-> FALSE, forced |-> FALSE,
   backoff |-> "none", end |-> "done", gen |-> 0, inc |-> 0, aged |-> FALSE, stuck |-> FALSE,
   readers |-> {}, answer |-> "none", cancel |-> "none"]

FreshRoot ==
  [bound |-> TRUE, gen |-> 0, dir |-> TRUE, quiescing |-> FALSE, publisher |-> "none", pubs |-> 0,
   torn |-> FALSE]

Init ==
  /\ act = [a \in Actors |->
             IF \E i \in 1..Len(InitOrder) : InitOrder[i] = a
             THEN FreshActor(1) ELSE [FreshActor(0) EXCEPT !.registered = FALSE]]
  /\ pool = [idle |-> TotalWorkers, interactive |-> 0, maintenance |-> 0, provider |-> 0,
             binds |-> 0, heavy |-> HeavyPermits]
  /\ job = [j \in Jobs |-> FreshJob]
  /\ ahead = [j \in Jobs |-> {}]
  /\ older = [j \in Jobs |-> {}]
  /\ sched = [pc |-> "idle", left |-> 0, progress |-> FALSE, wake |-> FALSE, timer |-> FALSE,
              cursor |-> 0, order |-> InitOrder]
  /\ root = [a \in Actors |-> FreshRoot]

-----------------------------------------------------------------------------
(* The queues.  ahead orders each actor's class queue; a lane's queue is the *)
(* part of it with that lane.  (ClassQueues keeps the jobs in one deque per   *)
(* lane and the lanes' turns in `order'; the two are not told apart here.)   *)
Queued(a, c) == {j \in Jobs : job[j].phase = "queued" /\ Root(j) = a /\ Class(j) = c}
LaneQueue(a, c, l) == {j \in Queued(a, c) : Lane(j) = l}
First(S) == {j \in S : ahead[j] \cap S = {}}

Writers(a)   == LaneQueue(a, "Interactive", "Mutating")
QueuedBinds(a) == {j \in Writers(a) : IsBind(j)}

Running == {j \in Jobs : job[j].phase \in RunPhases}
RunningReaders(a) == {j \in Running : Root(j) = a /\ Lane(j) \in ReadLanes}

On(a) == {j \in Running : Root(j) = a}
RunningIn(a, l) == {j \in On(a) : Lane(j) = l}

(* A running job whose registration is gone and whose root is registered     *)
(* anew: its context, lifecycle and epoch gate are the old ones.             *)
Orphan(j) == job[j].inc # act[Root(j)].inc

Free == sched.pc = "idle"    \* nobody holds the scheduler lock

(* wake_scheduler: a Wake event in the channel. *)
Wake == sched' = [sched EXCEPT !.wake = TRUE]

(* What is left of a job once it is answered and out of the executor. *)
Settled(k, ans) ==
  [FreshJob EXCEPT !.phase = "settled", !.token = job[k].token,
                   !.answer = ans, !.cancel = job[k].cancel]

SettleAll(S, ans) == [k \in Jobs |-> IF k \in S THEN Settled(k, ans) ELSE job[k]]

Without(rel, S) == [k \in Jobs |-> IF k \in S THEN {} ELSE rel[k] \ S]

(* sync_waiting_writers after jobs `gone' left the queues. *)
SyncDemand(a, gone) ==
  act' = [act EXCEPT ![a].demand = Cardinality(Writers(a) \ gone)]

-----------------------------------------------------------------------------
(* submit_labeled *)

(* The work is not for a root that is unbound or gone.  For maintenance the  *)
(* directory was probed before the lock was taken: `seen' may be stale.      *)
LifecycleForgetsProvider(j, seen) ==    \* mutation: only maintenance is checked
  Class(j) = "Maintenance" /\ (~seen \/ (~root[Root(j)].bound /\ Info[j].kind # "teardown"))

LifecycleRefuses(j, seen) ==
  \/ Lane(j) = "ProviderMetadata" /\ ~(root[Root(j)].bound /\ root[Root(j)].dir)
  \/ Class(j) = "Maintenance" /\ (~seen \/ (~root[Root(j)].bound /\ Info[j].kind # "teardown"))

(* A drain whose key is queued already. *)
CoalescedNever(j) == FALSE        \* mutation: every drain is queued

Coalesced(j) ==
  /\ Class(j) = "Maintenance" /\ Info[j].key # NoKey
  /\ \E k \in Queued(Root(j), "Maintenance") : Info[k].key = Info[j].key

(* Admission refuses outright: unknown or fatal actor, a lane that needs     *)
(* interactive admission, the root's lifecycle, or a coalesced drain.        *)
Refused(j, seen) ==
  \/ ~act[Root(j)].registered
  \/ act[Root(j)].fatal
  \/ Lane(j) \in {"CallLedger", "ProviderMetadata"} /\ Class(j) # "Interactive"
  \/ LifecycleRefuses(j, seen)
  \/ Coalesced(j)

(* remove_duplicate_maintenance_jobs, called only when the queue is full:    *)
(* of the queued drains with one key all but the first go.                   *)
Duplicates(j) ==
  LET q == Queued(Root(j), "Maintenance") IN
  IF Class(j) = "Maintenance" /\ Cardinality(q) >= QueueCap
  THEN {k \in q : Info[k].key # NoKey /\ \E i \in q \cap ahead[k] : Info[i].key = Info[k].key}
  ELSE {}

Full(j) ==
  /\ Class(j) = "Maintenance"
  /\ Cardinality(Queued(Root(j), "Maintenance") \ Duplicates(j)) >= QueueCap

SubmitRefused(j, seen) ==
  /\ Free /\ job[j].phase = "idle"
  /\ Refused(j, seen)
  /\ job' = SettleAll({j}, IF act[Root(j)].registered /\ act[Root(j)].fatal
                           THEN "fatal" ELSE "rejected")
  /\ UNCHANGED <<act, pool, ahead, older, sched, root>>

(* maintenance_backpressure_response; duplicates found on the way are gone   *)
(* all the same.                                                             *)
SubmitBackpressure(j, seen) ==
  /\ Free /\ job[j].phase = "idle"
  /\ ~Refused(j, seen) /\ Full(j)
  /\ job' = SettleAll({j} \cup Duplicates(j), "rejected")
  /\ ahead' = Without(ahead, Duplicates(j))
  /\ UNCHANGED <<act, pool, older, sched, root>>

Interrupts(j) == Class(j) = "Interactive" /\ Lane(j) = "Mutating"

Fresh(j) ==
  [FreshJob EXCEPT
     !.phase   = "queued",
     !.token   = IF HasToken(j) THEN "pending" ELSE "none",
     !.gen     = IF Lane(j) = "ProviderMetadata" THEN root[Root(j)].gen ELSE 0,
     !.readers = IF j \in MayAge THEN RunningReaders(Root(j)) \cap MayStick ELSE {}]

SubmitQueued(j, seen) ==
  LET a == Root(j) IN
  /\ Free /\ job[j].phase = "idle"
  /\ ~Refused(j, seen) /\ ~Full(j)
  /\ job' = [SettleAll(Duplicates(j), "rejected") EXCEPT ![j] = Fresh(j)]
  /\ ahead' = [Without(ahead, Duplicates(j)) EXCEPT ![j] = Queued(a, Class(j)) \ Duplicates(j)]
  /\ older' = IF IsBind(j)
              THEN [older EXCEPT ![j] = {k \in Jobs : IsBind(k) /\ job[k].phase \notin {"idle", "settled"}}]
              ELSE older
  /\ act' = [act EXCEPT ![a].demand = Cardinality(Writers(a) \cup (IF Interrupts(j) THEN {j} ELSE {}))]
  /\ Wake
  /\ UNCHANGED <<pool, root>>

-----------------------------------------------------------------------------
(* cancel_job signals the token first, without the lock, and only then looks *)
(* for the job in the queues.                                                *)
Signalled(t) == IF t = "committed" THEN t ELSE "cancelled"

SignalCancel(j) ==
  /\ Free /\ j \in MayCancel
  /\ job[j].phase \notin {"idle", "settled"} /\ job[j].token # "none" /\ job[j].cancel = "none"
  /\ job' = [job EXCEPT ![j] = [@ EXCEPT
               !.cancel = job[j].token,
               !.token = Signalled(job[j].token)]]
  /\ UNCHANGED <<act, pool, ahead, older, sched, root>>

(* remove_queued_cancellable, then the answer, then a wake-up. *)
RemoveQueuedSilently(j, outcome) ==    \* mutation: nobody wakes the scheduler
  /\ job' = [job EXCEPT ![j] = [Settled(j, "cancelled") EXCEPT
               !.token = "cancelled", !.cancel = outcome]]
  /\ ahead' = Without(ahead, {j})
  /\ older' = Without(older, {j})
  /\ SyncDemand(Root(j), {j})
  /\ UNCHANGED <<pool, sched, root>>

RemoveQueued(j, outcome) ==
  /\ job' = [job EXCEPT ![j] = [Settled(j, "cancelled") EXCEPT
               !.token = "cancelled", !.cancel = outcome]]
  /\ ahead' = Without(ahead, {j})
  /\ older' = Without(older, {j})
  /\ SyncDemand(Root(j), {j})
  /\ Wake
  /\ UNCHANGED <<pool, root>>

(* cancel_job's answer for a job it did not find queued. *)
Outcome(t) ==
  IF t = "committed" THEN "RunningCommitted"
  ELSE IF t = "cancelled" THEN "NotFound" ELSE "RunningSignalled"

ResolveCancel(j) ==
  /\ Free /\ job[j].cancel \in Tokens \ {"none"}
  /\ IF job[j].phase = "queued"
     THEN RemoveQueued(j, "QueuedRemoved")
     ELSE /\ job' = [job EXCEPT ![j].cancel = Outcome(job[j].cancel)]
          /\ UNCHANGED <<act, pool, ahead, older, sched, root>>

(* cancel_job_before_execution: a detached route gives up work that has not  *)
(* started; all of it under the lock.                                        *)
CancelBeforeExecution(j) ==
  /\ Free /\ j \in MayDetach
  /\ job[j].phase \notin {"idle", "settled"} /\ job[j].token # "none" /\ job[j].cancel = "none"
  /\ IF job[j].token = "pending" /\ job[j].phase = "queued"
     THEN RemoveQueued(j, "QueuedRemoved")
     ELSE /\ job' = [job EXCEPT ![j] = [@ EXCEPT
                       !.cancel = IF job[j].token = "pending"
                                  THEN "DispatchedCancelled" ELSE "AlreadyStarted",
                       !.token = IF job[j].token = "pending" THEN "cancelled" ELSE job[j].token]]
          /\ UNCHANGED <<act, pool, ahead, older, sched, root>>

-----------------------------------------------------------------------------
(* register_actor: a new root gets fresh state, a fresh epoch gate and the   *)
(* fresh, bound lifecycle of a new AppContext, at the end of the order; a    *)
(* known one keeps everything.  The binder has just resolved the root, so    *)
(* its directory is there again.                                             *)
Register(a) ==
  /\ Free /\ ~act[a].registered /\ act[a].inc < MaxInc
  /\ act' = [act EXCEPT ![a] = FreshActor(act[a].inc + 1)]
  /\ sched' = [sched EXCEPT !.order = Append(@, a), !.wake = TRUE]
  /\ root' = [root EXCEPT ![a] = [FreshRoot EXCEPT !.pubs = root[a].pubs, !.torn = On(a) # {},
                                                   !.quiescing = root[a].quiescing]]
  /\ UNCHANGED <<pool, job, ahead, older>>

(* Take a root out of actors and actor_order.  Jobs that were still queued   *)
(* go with it, and their callers see a closed channel; running ones run on.  *)
Drop(a, ans) ==
  LET gone == Queued(a, "Interactive") \cup Queued(a, "Maintenance") IN
  /\ act' = [act EXCEPT ![a] = [FreshActor(act[a].inc) EXCEPT !.registered = FALSE]]
  /\ \E i \in 1..Len(sched.order) :
       /\ sched.order[i] = a
       /\ sched' = [sched EXCEPT !.wake = TRUE,
                     !.order = SubSeq(@, 1, i - 1) \o SubSeq(@, i + 1, Len(@))]
  /\ job' = SettleAll(gone, ans)
  /\ ahead' = Without(ahead, gone)
  /\ older' = Without(older, gone)
  /\ UNCHANGED <<pool, root>>

IdleActorWithQueue(a) ==          \* mutation: only running work counts
  act[a].total = 0 /\ root[a].publisher = "none"

IdleActor(a) ==
  /\ act[a].total = 0
  /\ Queued(a, "Interactive") \cup Queued(a, "Maintenance") = {}
  /\ root[a].publisher = "none"

(* remove_actor looks at nothing: a standing root that left the configured   *)
(* set is removed while its pass may be running (subc/standing.rs:627-640).  *)
RemoveActor(a) ==
  /\ Free /\ a \in MayRemove /\ act[a].registered
  /\ Drop(a, "removed")

(* retire_idle_actor_in_background, for roots whose directory is gone. *)
RetireIdleActor(a) ==
  /\ Free /\ act[a].registered /\ ~root[a].dir /\ ~root[a].quiescing
  /\ IdleActor(a)
  /\ Drop(a, "lost")

-----------------------------------------------------------------------------
(* The daemon's view of a root.  quiesce_unbound_root closes the lifecycle   *)
(* first and cancels queued work in a second step.                           *)
MarkUnbound(a) ==
  /\ Free /\ a \in MayUnbind /\ act[a].registered
  /\ root[a].bound /\ ~root[a].quiescing /\ root[a].gen < MaxGen
  /\ root' = [root EXCEPT ![a] = [@ EXCEPT !.bound = FALSE, !.gen = root[a].gen + 1,
                                         !.quiescing = TRUE]]
  /\ UNCHANGED <<act, pool, job, ahead, older, sched>>

(* cancel_queued_root_work takes the maintenance queue and queued provider   *)
(* jobs.  For a deleted root cancel_root_maintenance also signals inspect    *)
(* jobs, queued or running, and running maintenance.                         *)
Quiesce(a) ==
  LET gone == IF act[a].registered
              THEN Queued(a, "Maintenance") \cup LaneQueue(a, "Interactive", "ProviderMetadata")
              ELSE {}
      signalled == {k \in Jobs \ gone :
                      /\ Root(k) = a /\ ~root[a].dir
                      /\ \/ job[k].phase = "queued" /\ Info[k].kind = "inspect" /\ act[a].registered
                         \/ k \in Running /\ (Class(k) = "Maintenance" \/ Info[k].kind = "inspect")}
  IN
  /\ Free /\ root[a].quiescing
  /\ root' = [root EXCEPT ![a].quiescing = FALSE]
  /\ job' = [k \in Jobs |->
               IF k \in gone
               THEN [Settled(k, "cancelled") EXCEPT !.token =
                       IF Lane(k) = "ProviderMetadata" THEN "cancelled" ELSE @]
               ELSE IF k \in signalled
               THEN [job[k] EXCEPT !.token = Signalled(job[k].token)] ELSE job[k]]
  /\ ahead' = Without(ahead, gone)
  /\ Wake
  /\ UNCHANGED <<act, pool, older>>

MarkBound(a) ==
  /\ Free /\ act[a].registered /\ ~root[a].bound /\ ~root[a].quiescing
  /\ root' = [root EXCEPT ![a].bound = TRUE]
  /\ UNCHANGED <<act, pool, job, ahead, older, sched>>

(* Somebody removes the checkout. *)
DeleteRoot(a) ==
  /\ Free /\ a \in MayDelete /\ root[a].dir
  /\ root' = [root EXCEPT ![a].dir = FALSE]
  /\ UNCHANGED <<act, pool, job, ahead, older, sched>>

-----------------------------------------------------------------------------
(* The epoch gate: a task-fair readers-writer lock per registration.  Its    *)
(* holders are jobs and the detached view publication of the root, whose     *)
(* thread no scheduler counter knows.  A parked writer keeps new readers out *)
(* (external: parking_lot RwLock).                                           *)
Holders(a, i) == {j \in Jobs : Root(j) = a /\ job[j].inc = i /\ job[j].hold # "none"}

Publisher(j) == IF job[j].inc = act[Root(j)].inc THEN root[Root(j)].publisher ELSE "none"

CanRead(j)  == /\ \A k \in Holders(Root(j), job[j].inc) : job[k].hold # "write"
               /\ Publisher(j) = "none"
CanWrite(j) == /\ Holders(Root(j), job[j].inc) = {}
               /\ Publisher(j) # "holding"

(* write_epoch_as_detached_writer: park, acquire, and leave. *)
PublisherParks(a) ==
  /\ Free /\ a \in MayPublish /\ act[a].registered
  /\ root[a].publisher = "none" /\ root[a].pubs < MaxPub
  /\ root' = [root EXCEPT ![a] = [@ EXCEPT !.publisher = "parked", !.pubs = root[a].pubs + 1]]
  /\ UNCHANGED <<act, pool, job, ahead, older, sched>>

PublisherEnters(a) ==
  /\ Free /\ root[a].publisher = "parked" /\ Holders(a, act[a].inc) = {}
  /\ root' = [root EXCEPT ![a].publisher = "holding"]
  /\ UNCHANGED <<act, pool, job, ahead, older, sched>>

PublisherLeaves(a) ==
  /\ Free /\ root[a].publisher = "holding"
  /\ root' = [root EXCEPT ![a].publisher = "none"]
  /\ UNCHANGED <<act, pool, job, ahead, older, sched>>

-----------------------------------------------------------------------------
(* The worker: run_lane_job and worker_loop. *)

(* cancel_requested_before_commit: what it may answer.  A job whose root was *)
(* deleted, or stayed unbound beyond the grace, cancels itself; the disk     *)
(* probe is throttled and the grace is a matter of time, so both are chances.*)
(* What state an orphan's lifecycle was left in is not kept.                 *)
Observes(j) ==
  LET a == Root(j)
      t == job[j].token
  IN IF t = "cancelled" THEN {TRUE}
     ELSE IF t \in {"none", "committed"} THEN {FALSE}
     ELSE IF \/ Orphan(j) \/ ~root[a].dir
             \/ ~root[a].bound /\ RootScoped(j) /\ Info[j].kind # "teardown"
     THEN {TRUE, FALSE}
     ELSE {FALSE}

(* The worker is done: the epoch guard is dropped, the response sent, and    *)
(* the completion guard puts the event into the channel.                     *)
Return(j, ans, how, tok) ==
  job' = [job EXCEPT ![j] = [@ EXCEPT !.phase = "returned", !.hold = "none", !.answer = ans,
                                     !.end = how, !.token = tok]]

ReturnCancelled(j) ==
  Return(j, "cancelled", "done", IF job[j].token = "none" THEN "none" ELSE "cancelled")

WorkerOnly == UNCHANGED <<act, pool, ahead, older, sched, root>>

(* A bind that holds the gate shared, or a repeatable bind that wants it     *)
(* exclusively, only tries; every other gated lane waits.                    *)
TriesGate(j) == Lane(j) = "Mutating" /\ (job[j].shared \/ Repeatable(j))

NeedsWrite(j) == Lane(j) = "Mutating" /\ ~job[j].shared

EnterGate(j) ==
  /\ Free /\ job[j].phase = "dispatched" /\ Lane(j) \in GatedLanes
  /\ IF NeedsWrite(j) THEN CanWrite(j) ELSE CanRead(j)
  /\ TriesGate(j) => FALSE \in Observes(j)
  /\ job' = [job EXCEPT ![j] = [@ EXCEPT !.phase = "gated",
                                         !.hold = IF NeedsWrite(j) THEN "write" ELSE "read"]]
  /\ WorkerOnly

(* A job with a token polls it while it waits for the gate, and a bind       *)
(* checks it before it tries.                                                *)
GiveUpGate(j) ==
  /\ Free /\ job[j].phase = "dispatched" /\ Lane(j) \in GatedLanes
  /\ TRUE \in Observes(j)
  /\ ReturnCancelled(j)
  /\ WorkerOnly

(* try_read or try_write failed: run again as an exclusive writer, at once   *)
(* or after a pause.  The gate of an orphan is that of its old registration, *)
(* which a publication of that registration may still hold.                  *)
MissGate(j) ==
  /\ Free /\ job[j].phase = "dispatched" /\ TriesGate(j)
  /\ FALSE \in Observes(j)
  /\ Orphan(j) \/ ~(IF NeedsWrite(j) THEN CanWrite(j) ELSE CanRead(j))
  /\ job' = [job EXCEPT ![j] = [@ EXCEPT !.phase = "handback",
                                         !.end = IF job[j].shared THEN "rerun" ELSE "retry"]]
  /\ WorkerOnly

(* The checks at the head of `run', made with the gate held. *)
AtRun(j) == job[j].phase = "gated" \/ (job[j].phase = "dispatched" /\ Lane(j) \notin GatedLanes)

RootQuiet(j) ==
  /\ RootScoped(j)
  /\ \/ ~Orphan(j) /\ ~root[Root(j)].bound /\ Info[j].kind # "teardown"
     \/ ~root[Root(j)].dir

ProbePasses(j) ==
  /\ Free /\ AtRun(j)
  /\ FALSE \in Observes(j) /\ ~RootQuiet(j)
  /\ job' = [job EXCEPT ![j].phase = "probed"]
  /\ WorkerOnly

ProbeStops(j) ==
  /\ Free /\ AtRun(j)
  /\ TRUE \in Observes(j) \/ RootQuiet(j)
  /\ Return(j, "cancelled", "done", IF TRUE \in Observes(j) THEN "cancelled" ELSE job[j].token)
  /\ WorkerOnly

(* mark_running, for provider jobs together with the seal and under the      *)
(* root's lifecycle lock at the generation sampled when it was queued.       *)
CanStartUnsignalled(j) ==         \* mutation: mark_running is a plain store
  Lane(j) = "ProviderMetadata" =>
    LET a == Root(j) IN root[a].dir /\ (Orphan(j) \/ (root[a].bound /\ root[a].gen = job[j].gen))

CanStart(j) ==
  /\ job[j].token # "cancelled"
  /\ Lane(j) = "ProviderMetadata" =>
       LET a == Root(j) IN root[a].dir /\ (Orphan(j) \/ (root[a].bound /\ root[a].gen = job[j].gen))

Start(j) ==
  /\ Free /\ job[j].phase = "probed" /\ CanStart(j)
  /\ job' = [job EXCEPT ![j] = [@ EXCEPT
               !.phase = "executing",
               !.token = IF Lane(j) = "ProviderMetadata" THEN "committed"
                         ELSE IF job[j].token = "pending" THEN "running" ELSE job[j].token]]
  /\ WorkerOnly

StartRefused(j) ==
  /\ Free /\ job[j].phase = "probed"
  /\ ~CanStart(j) \/ (Orphan(j) /\ Lane(j) = "ProviderMetadata")
  /\ Return(j, "cancelled", "done", job[j].token)
  /\ WorkerOnly

(* The command closure.  A cancellable one seals its token before it         *)
(* changes anything; an exclusive bind moves the configure generation.       *)
Seal(j) ==
  /\ Free /\ job[j].phase = "executing" /\ job[j].token = "running"
  /\ Lane(j) = "Mutating"
  /\ job' = [job EXCEPT ![j].token = "committed"]
  /\ root' = IF IsBind(j) /\ ~job[j].shared /\ ~Orphan(j) /\ root[Root(j)].gen < MaxGen
             THEN [root EXCEPT ![Root(j)].gen = @ + 1] ELSE root
  /\ UNCHANGED <<act, pool, ahead, older, sched>>

Finish(j) ==
  /\ Free /\ job[j].phase = "executing"
  /\ Return(j, "ok", "done", job[j].token)
  /\ WorkerOnly

Panic(j) ==
  /\ Free /\ job[j].phase = "executing" /\ j \in MayPanic
  /\ Return(j, "panic", "panic", job[j].token)
  /\ WorkerOnly

(* A shared bind found that it must change the root: request_exclusive_rerun,*)
(* which its contract allows only before the first change.                   *)
RequestRerun(j) ==
  /\ Free /\ job[j].phase = "executing" /\ job[j].shared /\ job[j].token # "committed"
  /\ job' = [job EXCEPT ![j] = [@ EXCEPT !.phase = "handback", !.hold = "none", !.end = "rerun"]]
  /\ WorkerOnly

(* requeue_as_exclusive: return_to_pending, then a full cancellation probe,  *)
(* then the event; cancels can land in between.                              *)
ReturnToPendingBlindly(j) ==      \* mutation: return_to_pending is a plain store
  /\ Free /\ job[j].phase = "handback"
  /\ job' = [job EXCEPT ![j] = [@ EXCEPT !.phase = "handed",
                                         !.token = IF @ = "none" THEN @ ELSE "pending"]]
  /\ WorkerOnly

ReturnToPending(j) ==
  /\ Free /\ job[j].phase = "handback"
  /\ IF job[j].token = "cancelled"
     THEN ReturnCancelled(j)
     ELSE job' = [job EXCEPT ![j] = [@ EXCEPT !.phase = "handed",
                                            !.token = IF job[j].token = "running"
                                                      THEN "pending" ELSE job[j].token]]
  /\ WorkerOnly

HandOff(j) ==
  /\ Free /\ job[j].phase = "handed"
  /\ \/ TRUE \in Observes(j) /\ ReturnCancelled(j)
     \/ FALSE \in Observes(j) /\ job' = [job EXCEPT ![j].phase = "returned"]
  /\ WorkerOnly

-----------------------------------------------------------------------------
(* Time. *)
Age(j) ==
  /\ Free /\ j \in MayAge /\ job[j].phase = "queued" /\ Lane(j) = "Mutating" /\ ~job[j].aged
  /\ job' = [job EXCEPT ![j].aged = TRUE]
  /\ WorkerOnly

Stick(j) ==
  /\ Free /\ j \in MayStick /\ j \in Running /\ Lane(j) \in ReadLanes /\ ~job[j].stuck
  /\ job' = [job EXCEPT ![j].stuck = TRUE]
  /\ WorkerOnly

RetryDue(j) ==
  /\ Free /\ job[j].phase = "queued" /\ job[j].backoff = "waiting"
  /\ job' = [job EXCEPT ![j].backoff = "due"]
  /\ WorkerOnly

(* The caller comes back with the same kind of request. *)
Recycle(j) ==
  /\ Free /\ j \in MayRecycle /\ job[j].phase = "settled"
  /\ job' = [job EXCEPT ![j] = FreshJob]
  /\ WorkerOnly

-----------------------------------------------------------------------------
(* The scheduler's turn.  It starts with one event, a Wake, a completion or  *)
(* the expiry of its own timer, and takes up to BatchCap events in all.      *)
BeginTurn(fields) == sched' = [fields EXCEPT !.pc = "drain", !.left = BatchCap - 1]

WakeTurn ==
  /\ Free /\ sched.wake
  /\ BeginTurn([sched EXCEPT !.wake = FALSE])
  /\ UNCHANGED <<act, pool, job, ahead, older, root>>

(* A bind waiting out a retry time has no event of its own: the wait on the  *)
(* channel has the earliest retry time as its deadline.                      *)
TimerTurn ==
  /\ Free /\ sched.timer
  /\ \E j \in Jobs : job[j].phase = "queued" /\ job[j].backoff \in {"due", "offered"}
  /\ BeginTurn(sched)
  /\ UNCHANGED <<act, pool, job, ahead, older, root>>

Less(n) == IF n = 0 THEN 0 ELSE n - 1      \* saturating_sub(1)

(* complete_job's counters.  The actor is looked up by root: whichever       *)
(* registration is there now pays.                                           *)
FreedKeepsLsp(r, j) ==            \* mutation: the LSP flag is not given back
  [r EXCEPT
     !.total    = Less(@),
     !.read     = IF Lane(j) = "PureRead" THEN Less(@) ELSE @,
     !.acquire  = @ /\ ~IsAcquisition(j),
     !.writer   = @ /\ Lane(j) # "Mutating",
     !.shared   = @ /\ Lane(j) # "Mutating",
     !.commit   = @ /\ Lane(j) # "MaintenanceCommit",
     !.provider = @ /\ Lane(j) # "ProviderMetadata",
     !.ledger   = @ /\ Lane(j) # "CallLedger"]

Freed(r, j) ==
  [r EXCEPT
     !.total    = Less(@),
     !.read     = IF Lane(j) = "PureRead" THEN Less(@) ELSE @,
     !.lsp      = @ /\ Lane(j) # "SerialLspStatus",
     !.acquire  = @ /\ ~IsAcquisition(j),
     !.writer   = @ /\ Lane(j) # "Mutating",
     !.shared   = @ /\ Lane(j) # "Mutating",
     !.commit   = @ /\ Lane(j) # "MaintenanceCommit",
     !.provider = @ /\ Lane(j) # "ProviderMetadata",
     !.ledger   = @ /\ Lane(j) # "CallLedger"]

FreedPoolKeepsBind(j) ==          \* mutation: the bind count is not given back
  [pool EXCEPT
     !.idle        = @ + 1,
     !.interactive = IF Class(j) = "Interactive" THEN Less(@) ELSE @,
     !.maintenance = IF Class(j) = "Maintenance" THEN Less(@) ELSE @,
     !.heavy       = IF Lane(j) = "HeavyInit" THEN @ + 1 ELSE @]

FreedPool(j) ==
  [pool EXCEPT
     !.idle        = @ + 1,
     !.interactive = IF Class(j) = "Interactive" THEN Less(@) ELSE @,
     !.maintenance = IF Class(j) = "Maintenance" THEN Less(@) ELSE @,
     !.provider    = IF Lane(j) = "ProviderMetadata" THEN Less(@) ELSE @,
     !.binds       = IF IsBind(j) THEN Less(@) ELSE @,
     !.heavy       = IF Lane(j) = "HeavyInit" THEN @ + 1 ELSE @]

(* Where the scheduler takes its next completion event from. *)
TakeEvent(j) ==
  /\ job[j].phase = "returned"
  /\ \/ Free /\ BeginTurn(sched)
     \/ sched.pc = "drain" /\ sched.left > 0 /\ sched' = [sched EXCEPT !.left = @ - 1]

(* fail_queued_jobs *)
FailedInteractive(a) == Queued(a, "Interactive")    \* mutation: one class only

Failed(a) == Queued(a, "Interactive") \cup Queued(a, "Maintenance")

(* A finished job.  A writer that panicked makes the actor fatal and fails   *)
(* everything queued on it.                                                  *)
Complete(j) ==
  LET a == Root(j)
      dies == act[a].registered /\ job[j].end = "panic" /\ Lane(j) = "Mutating"
      failed == IF dies THEN Failed(a) ELSE {}
  IN
  /\ job[j].end \in {"done", "panic"}
  /\ TakeEvent(j)
  /\ pool' = FreedPool(j)
  /\ act' = IF act[a].registered
            THEN [act EXCEPT ![a] = [Freed(act[a], j) EXCEPT
                    !.fatal = @ \/ dies, !.demand = IF dies THEN 0 ELSE @]]
            ELSE act
  /\ job' = [SettleAll(failed, "fatal") EXCEPT ![j] = Settled(j, job[j].answer)]
  /\ ahead' = Without(ahead, failed)
  /\ older' = Without(older, failed \cup {j})
  /\ UNCHANGED root

(* A bind that comes back to run again.  A cancel that landed after the      *)
(* worker's probe is settled here; otherwise the bind goes to the front.     *)
RequeuesCancelled(j) ==           \* mutation: the token is not looked at again
  act[Root(j)].registered /\ ~act[Root(j)].fatal

Requeues(j) == job[j].token # "cancelled" /\ act[Root(j)].registered /\ ~act[Root(j)].fatal

CompleteRequeue(j) ==
  LET a == Root(j)
      stays == Requeues(j)
  IN
  /\ job[j].end \in {"rerun", "retry"}
  /\ TakeEvent(j)
  /\ pool' = FreedPool(j)
  /\ act' = IF act[a].registered
            THEN [act EXCEPT ![a] = [Freed(act[a], j) EXCEPT
                    !.demand = IF stays THEN Cardinality(Writers(a) \cup {j}) ELSE @]]
            ELSE act
  /\ job' = [job EXCEPT ![j] =
       IF stays
       THEN [job[j] EXCEPT !.phase = "queued", !.shared = FALSE, !.forced = TRUE, !.inc = 0,
                           !.end = "done",
                           !.backoff = IF job[j].end = "retry" THEN "waiting" ELSE "none"]
       ELSE Settled(j, IF job[j].token = "cancelled" THEN "cancelled"
                       ELSE IF act[a].registered THEN "fatal" ELSE "rejected")]
  /\ ahead' = [k \in Jobs |-> IF stays /\ k \in Queued(a, "Interactive") THEN ahead[k] \cup {j}
                              ELSE ahead[k]]
  /\ older' = IF stays THEN older ELSE Without(older, {j})
  /\ UNCHANGED root

-----------------------------------------------------------------------------
(* dispatch_runnable *)
Monus(m, n) == IF m > n THEN m - n ELSE 0  \* saturating_sub

ProviderIdleIgnored == 0          \* mutation: the provider reserve is forgotten

ProviderIdle == Monus(ProviderReserve, pool.provider)

GeneralIdle  == Monus(pool.idle, Monus(BindReserve, pool.binds) + ProviderIdle)

(* can_dispatch_class, and the conditions of the other passes' loops. *)
CanDispatchAlways(pass) == TRUE   \* mutation: jobs are admitted without a worker

CanDispatch(pass) ==
  /\ pass = "bind"        => pool.idle > ProviderIdle
  /\ pass = "provider"    => pool.idle > 0 /\ pool.provider < ProviderReserve
  /\ pass \in {"ledger", "interactive", "maintenance"} => GeneralIdle > 0
  /\ pass = "maintenance" => pool.maintenance < MaintenanceCap /\ GeneralIdle > InteractiveReserve

(* next_interactive_lane: a starved writer goes first, unless all it waits   *)
(* for are readers that were there before it and have been stuck for long.   *)
WaitsOnlyOnStuck(a, j) ==
  /\ RunningReaders(a) # {}
  /\ RunningReaders(a) \subseteq job[j].readers
  /\ \A k \in RunningReaders(a) : job[k].stuck

StarvedNever(a) == FALSE          \* mutation: age promotes nobody

StarvedWriter(a) == \E j \in Writers(a) : job[j].aged /\ ~WaitsOnlyOnStuck(a, j)

InteractiveChoice(a, starved) ==
  IF starved THEN First(Writers(a))
  ELSE IF LaneQueue(a, "Interactive", "PureRead") # {}
  THEN First(LaneQueue(a, "Interactive", "PureRead"))
  ELSE First({j \in Queued(a, "Interactive") : Lane(j) \notin {"ProviderMetadata", "CallLedger"}})

NextInteractive(a) == InteractiveChoice(a, StarvedWriter(a))

(* The one job of an actor that a pass looks at. *)
Candidate(a, pass) ==
  IF pass = "bind" THEN First(QueuedBinds(a))
  ELSE IF pass = "provider" THEN First(LaneQueue(a, "Interactive", "ProviderMetadata"))
  ELSE IF pass = "ledger" THEN First(LaneQueue(a, "Interactive", "CallLedger"))
  ELSE IF pass = "interactive" THEN NextInteractive(a)
  ELSE First(Queued(a, "Maintenance"))

EpochReaderButCommits(a) == act[a].read > 0 \/ act[a].lsp    \* mutation: drains forgotten

EpochReader(a) == act[a].read > 0 \/ act[a].lsp \/ act[a].commit

MayShare(j, pass) == pass = "bind" /\ Repeatable(j) /\ ~job[j].forced

One(b) == IF b THEN 1 ELSE 0

HasCapacity(a) ==
  LET r == act[a] IN
  Monus(r.total, One(r.commit) + One(r.acquire) + One(r.provider) + One(r.ledger)) < ActorCap

(* The writer barrier: a running writer keeps everybody out, except that     *)
(* readers and builders may join a bind that holds the gate shared, and a    *)
(* waiting interactive writer keeps maintenance out.                         *)
Barred(j) ==
  LET a == Root(j) IN
  /\ Lane(j) \notin {"ProviderMetadata", "CallLedger"}
  /\ \/ act[a].writer /\ ~(act[a].shared /\ Lane(j) \in ReadLanes \cup {"HeavyInit"})
     \/ Class(j) = "Maintenance" /\ Writers(a) # {}

(* HeavySemaphore.try_acquire would succeed. *)
PermitFree == pool.heavy > 0

(* The lanes that run one job at a time are free. *)
LaneFreeOverlapping(j) ==         \* mutation: commits overlap
  LET r == act[Root(j)] IN
  /\ Lane(j) = "SerialLspStatus"   => ~r.lsp
  /\ Lane(j) = "ProviderMetadata"  => ~r.provider
  /\ Lane(j) = "CallLedger"        => ~r.ledger
  /\ IsAcquisition(j)              => ~r.acquire

LaneFree(j) ==
  LET r == act[Root(j)] IN
  /\ Lane(j) = "SerialLspStatus"   => ~r.lsp
  /\ Lane(j) = "MaintenanceCommit" => ~r.commit
  /\ Lane(j) = "ProviderMetadata"  => ~r.provider
  /\ Lane(j) = "CallLedger"        => ~r.ledger
  /\ IsAcquisition(j)              => ~r.acquire

LaneAdmits(j, pass) ==
  LET a == Root(j) IN
  /\ LaneFree(j)
  /\ Lane(j) \in ReadLanes => HasCapacity(a)
  /\ Lane(j) = "PureRead"  => act[a].read < ReadCap
  /\ Lane(j) = "HeavyInit" => (IsAcquisition(j) \/ HasCapacity(a)) /\ PermitFree
  /\ Lane(j) = "Mutating"  => \/ MayShare(j, pass)
                              \/ ~EpochReader(a) /\ (pass = "bind" \/ HasCapacity(a))

Admits(j, pass) ==
  /\ act[Root(j)].registered /\ ~act[Root(j)].fatal
  /\ ~Barred(j)
  /\ Lane(j) = "Mutating" => job[j].backoff # "waiting"
  /\ LaneAdmits(j, pass)

Offer(a, pass) == {j \in Candidate(a, pass) : Admits(j, pass)}

(* try_admit_actor's counters. *)
Occupied(r, j, sharing) ==
  [r EXCEPT
     !.total    = @ + 1,
     !.read     = IF Lane(j) = "PureRead" THEN @ + 1 ELSE @,
     !.lsp      = @ \/ Lane(j) = "SerialLspStatus",
     !.acquire  = @ \/ IsAcquisition(j),
     !.writer   = @ \/ Lane(j) = "Mutating",
     !.shared   = IF Lane(j) = "Mutating" THEN sharing ELSE @,
     !.commit   = @ \/ Lane(j) = "MaintenanceCommit",
     !.provider = @ \/ Lane(j) = "ProviderMetadata",
     !.ledger   = @ \/ Lane(j) = "CallLedger"]

OccupiedPool(j) ==
  [pool EXCEPT
     !.idle        = @ - 1,
     !.interactive = IF Class(j) = "Interactive" THEN @ + 1 ELSE @,
     !.maintenance = IF Class(j) = "Maintenance" THEN @ + 1 ELSE @,
     !.provider    = IF Lane(j) = "ProviderMetadata" THEN @ + 1 ELSE @,
     !.binds       = IF IsBind(j) THEN @ + 1 ELSE @,
     !.heavy       = IF Lane(j) = "HeavyInit" THEN @ - 1 ELSE @]

(* Admission pops the job and launch_run_job hands it to a worker. *)
Launch(j, pass) ==
  LET a == Root(j)
      sharing == MayShare(j, pass) /\ EpochReader(a)
  IN
  /\ act' = [act EXCEPT ![a] = [Occupied(act[a], j, sharing) EXCEPT
                !.demand = Cardinality(Writers(a) \ {j})]]
  /\ pool' = OccupiedPool(j)
  /\ job' = [job EXCEPT ![j] = [@ EXCEPT !.phase = "dispatched", !.shared = sharing,
                                         !.inc = act[a].inc, !.backoff = "none"]]
  /\ ahead' = Without(ahead, {j})
  /\ UNCHANGED <<older, root>>

(* The end of a turn: next_bind_retry_at arms the timer.                     *)
HasRetryTime(j) == job[j].phase = "queued" /\ job[j].backoff # "none"

RetryForgotten == FALSE           \* mutation: no bind ever arms the timer

RetryPending == \E j \in Jobs : HasRetryTime(j)

EndTurn(c) ==
  /\ sched' = [sched EXCEPT !.pc = "idle", !.left = 0, !.progress = FALSE, !.cursor = c,
                           !.timer = RetryPending]
  /\ job' = [j \in Jobs |-> IF HasRetryTime(j) /\ job[j].backoff = "due"
                            THEN [job[j] EXCEPT !.backoff = "offered"] ELSE job[j]]
  /\ UNCHANGED <<act, pool, ahead, older, root>>

(* On to a pass, with the cursor at c. *)
GoTo(pass, c) ==
  /\ sched' = [sched EXCEPT !.pc = pass, !.cursor = c, !.left = Len(sched.order),
                           !.progress = @ /\ pass # "bind"]
  /\ UNCHANGED <<act, pool, job, ahead, older, root>>

(* Another round of dispatch_runnable's loop, or the end of the turn. *)
NextRound(c) ==
  IF pool.idle > 0 /\ sched.order # <<>> THEN GoTo("bind", c) ELSE EndTurn(c)

BeginDispatch ==
  /\ sched.pc = "drain"
  /\ sched.left = 0 \/ \A j \in Jobs : job[j].phase # "returned"
  /\ NextRound(sched.cursor)

Following ==
  [bind |-> "provider", provider |-> "ledger", ledger |-> "interactive", interactive |-> "maintenance"]

LeavePass(c) ==
  IF sched.pc # "maintenance"
  THEN IF pool.idle > 0 THEN GoTo(Following[sched.pc], c) ELSE EndTurn(c)
  ELSE IF sched.progress THEN NextRound(c) ELSE EndTurn(c)

(* dispatch_queued_binds: roots in the order of their oldest queued bind.    *)
OldestBind(a) == {j \in QueuedBinds(a) : older[j] \cap QueuedBinds(a) = {}}

BindRoots == {a \in Actors : Offer(a, "bind") # {}}

BindPass ==
  /\ sched.pc = "bind"
  /\ IF CanDispatch("bind") /\ BindRoots # {}
     THEN \E a \in BindRoots :
            /\ \A b \in BindRoots \ {a} :
                 \A i \in OldestBind(a), k \in OldestBind(b) : i \in older[k]
            /\ \E j \in Offer(a, "bind") : Launch(j, "bind")
            /\ sched' = [sched EXCEPT !.progress = TRUE]
     ELSE LeavePass(sched.cursor)

(* The other passes walk actor_order from the cursor, one lap at most.       *)
Cursor ==
  LET n == Len(sched.order) IN
  IF sched.pc \in {"provider", "ledger"} THEN sched.cursor % n
  ELSE IF sched.cursor >= n THEN 0 ELSE sched.cursor

After(k) == (Cursor + k) % Len(sched.order)
ActorAt(k) == sched.order[After(k) + 1]

RingPass ==
  LET pass == sched.pc
      offers == {k \in 0 .. sched.left - 1 : Offer(ActorAt(k), pass) # {}}
  IN
  /\ pass \in Passes \ {"bind"}
  /\ IF ~CanDispatch(pass) \/ sched.left = 0 THEN LeavePass(sched.cursor)
     ELSE IF offers = {} THEN LeavePass(After(sched.left))
     ELSE \E k \in offers :
            /\ \A i \in offers : k <= i
            /\ \E j \in Offer(ActorAt(k), pass) : Launch(j, pass)
            /\ sched' = [sched EXCEPT !.cursor = After(k + 1), !.left = @ - (k + 1),
                                     !.progress = TRUE]

Scheduler ==
  \/ WakeTurn \/ TimerTurn \/ BeginDispatch \/ BindPass \/ RingPass
  \/ \E j \in Jobs : Complete(j) \/ CompleteRequeue(j)

Worker(j) ==
  \/ EnterGate(j) \/ GiveUpGate(j) \/ MissGate(j) \/ ProbePasses(j) \/ ProbeStops(j)
  \/ Start(j) \/ StartRefused(j) \/ Finish(j)
  \/ RequestRerun(j) \/ ReturnToPending(j) \/ HandOff(j)

Caller(j) ==
  \/ \E seen \in {TRUE, root[Root(j)].dir} :
       SubmitRefused(j, seen) \/ SubmitBackpressure(j, seen) \/ SubmitQueued(j, seen)
  \/ SignalCancel(j) \/ ResolveCancel(j) \/ CancelBeforeExecution(j) \/ Recycle(j)

Next ==
  \/ Scheduler
  \/ \E j \in Jobs : Worker(j) \/ Seal(j) \/ Panic(j) \/ Caller(j)
                      \/ Age(j) \/ Stick(j) \/ RetryDue(j)
  \/ \E a \in Actors : \/ Register(a) \/ RemoveActor(a) \/ RetireIdleActor(a)
                        \/ MarkUnbound(a) \/ Quiesce(a) \/ MarkBound(a) \/ DeleteRoot(a)
                        \/ PublisherParks(a) \/ PublisherEnters(a) \/ PublisherLeaves(a)

Spec == Init /\ [][Next]_vars

-----------------------------------------------------------------------------
(* Fairness.  The scheduler and the workers are threads that always run; the *)
(* event channel is first in first out, so no completion is passed over; the *)
(* epoch gate hands itself to a waiting thread; commands return, unless they *)
(* are the readers that hang; time passes.  A scheduler's turn, which always *)
(* ends, disables the others' steps in the model and not in the code: their  *)
(* weak fairness reads as strong fairness here.  The steps due to a job are  *)
(* one at a time, or once per stay in the queue, so fairness of their union  *)
(* lets none of them be put off for good.                                    *)
Due(j) ==
  \/ EnterGate(j) \/ GiveUpGate(j) \/ MissGate(j) \/ ProbePasses(j) \/ ProbeStops(j)
  \/ Start(j) \/ StartRefused(j) \/ ReturnToPending(j) \/ HandOff(j)
  \/ j \notin MayStick /\ Finish(j)
  \/ Complete(j) \/ CompleteRequeue(j)
  \/ Age(j) \/ RetryDue(j) \/ ResolveCancel(j)

Fairness ==
  /\ WF_vars(Scheduler)
  /\ \A j \in Jobs : SF_vars(Due(j))
  /\ \A a \in MayPublish : SF_vars(PublisherEnters(a) \/ PublisherLeaves(a))
  /\ \A a \in MayUnbind : SF_vars(Quiesce(a))

FairSpec == Spec /\ Fairness

-----------------------------------------------------------------------------
(* Properties. *)

(* The counters that admission goes by are what running_jobs holds: a slot   *)
(* that leaks, or is freed twice, by a bind on its way back to the queue, a  *)
(* panic or a cancel is a worker lost for good or one job too many           *)
(* (assert_running_invariants, which only debug builds check and which says  *)
(* nothing about the per-root counters and flags).  A registration beside    *)
(* jobs that outlived a removed one is charged for jobs it never counted:    *)
(* its counters may say less than runs, and never more, so even there no     *)
(* slot leaks.                                                               *)
PoolExact ==
  /\ pool.idle + Cardinality(Running) = TotalWorkers
  /\ pool.interactive = Cardinality({j \in Running : Class(j) = "Interactive"})
  /\ pool.maintenance = Cardinality({j \in Running : Class(j) = "Maintenance"})
  /\ pool.provider = Cardinality({j \in Running : Lane(j) = "ProviderMetadata"})
  /\ pool.binds = Cardinality({j \in Running : IsBind(j)})
  /\ pool.heavy + Cardinality({j \in Running : Lane(j) = "HeavyInit"}) = HeavyPermits

NeverMore ==
  \A a \in Actors : act[a].registered =>
    /\ act[a].total <= Cardinality(On(a))
    /\ act[a].read <= Cardinality(RunningIn(a, "PureRead"))
    /\ act[a].lsp => RunningIn(a, "SerialLspStatus") # {}
    /\ act[a].commit => RunningIn(a, "MaintenanceCommit") # {}
    /\ act[a].provider => RunningIn(a, "ProviderMetadata") # {}
    /\ act[a].ledger => RunningIn(a, "CallLedger") # {}
    /\ act[a].acquire => \E j \in On(a) : IsAcquisition(j)
    /\ act[a].writer => RunningIn(a, "Mutating") # {}

ActorExact ==
  \A a \in Actors : act[a].registered /\ ~root[a].torn =>
    /\ act[a].total = Cardinality(On(a))
    /\ act[a].read = Cardinality(RunningIn(a, "PureRead"))
    /\ act[a].lsp = (RunningIn(a, "SerialLspStatus") # {})
    /\ act[a].commit = (RunningIn(a, "MaintenanceCommit") # {})
    /\ act[a].provider = (RunningIn(a, "ProviderMetadata") # {})
    /\ act[a].ledger = (RunningIn(a, "CallLedger") # {})
    /\ act[a].acquire = (\E j \in On(a) : IsAcquisition(j))
    /\ act[a].writer = (RunningIn(a, "Mutating") # {})
    /\ act[a].shared = (\E j \in RunningIn(a, "Mutating") : job[j].shared)

CountersExact == PoolExact /\ ActorExact /\ NeverMore

(* However jobs come and go, the idle workers always cover the binds and     *)
(* provider jobs that their reserves still owe a worker, provider jobs stay  *)
(* within theirs, and maintenance never takes the workers kept for           *)
(* interactive work: not only when a job is admitted, but through every      *)
(* later completion and admission of the other kinds.                        *)
ReservesHeld ==
  /\ pool.idle >= Monus(BindReserve, pool.binds) + Monus(ProviderReserve, pool.provider)
  /\ pool.provider <= ProviderReserve
  /\ pool.maintenance <= MaintenanceCap
  /\ pool.maintenance <=
       Monus(TotalWorkers - BindReserve - ProviderReserve, InteractiveReserve)

(* One writer per root, and nobody who needs the root's gate beside an       *)
(* exclusive one.  So an admitted exclusive writer never waits for a job:    *)
(* "a held gate here means a detached view publication" (mod.rs:4758-4760).  *)
(* After a removal this holds for the jobs that run on, and for the next     *)
(* registration unless it began beside them.                                 *)
WriterAlone ==
  \A j, k \in Running :
    /\ j # k /\ Root(j) = Root(k) /\ ~root[Root(j)].torn
    /\ Lane(j) = "Mutating" /\ Lane(k) \in GatedLanes
    => job[j].shared /\ Lane(k) # "Mutating"

(* "SerialLspStatus", "MaintenanceCommit", provider and ledger jobs and the  *)
(* callgraph acquisition run one at a time per root (mod.rs:57-102), and no  *)
(* more reads than the cap, also among the jobs that outlive a removal; only *)
(* a registration that began beside such jobs does not know of them.         *)
SerialLanes ==
  \A a \in Actors : ~root[a].torn =>
    /\ \A l \in {"SerialLspStatus", "MaintenanceCommit", "ProviderMetadata", "CallLedger"} :
         Cardinality(RunningIn(a, l)) <= 1
    /\ Cardinality({j \in On(a) : IsAcquisition(j)}) <= 1
    /\ Cardinality(RunningIn(a, "PureRead")) <= ReadCap

(* The writer demand that makes long reads and builds yield is the number of *)
(* queued writers, and a cancelled writer is never part of it beyond the     *)
(* instant between cancel_job's signal and its removal: a cancel in a bind's *)
(* handoff window "cannot leave queued writer demand behind"                 *)
(* (mod.rs:4519-4521), which nothing would ever clear.                       *)
WriterDemandIsLive ==
  \A a \in Actors :
    /\ act[a].demand = Cardinality(Writers(a))
    /\ \A j \in Writers(a) : job[j].token = "cancelled" => job[j].cancel = "pending"

(* What a canceller is told is true, then and later: a job it withdrew never *)
(* runs, one it signalled never commits, one that had committed is not       *)
(* answered as cancelled.                                                    *)
CancelHonoured ==
  \A j \in Jobs :
    /\ job[j].cancel = "QueuedRemoved" => job[j].phase = "settled" /\ job[j].answer = "cancelled"
    /\ job[j].cancel = "DispatchedCancelled" =>
         job[j].phase # "executing" /\ job[j].answer \in {"none", "cancelled"}
    /\ job[j].cancel = "RunningSignalled" => job[j].token = "cancelled"
    /\ job[j].cancel = "RunningCommitted" =>
         job[j].token = "committed" /\ job[j].answer \in {"none", "ok", "panic"}

(* A fatal root has nothing queued: whatever was there when its writer       *)
(* panicked was failed, and neither a submit nor a bind handed back later    *)
(* queues behind it.                                                         *)
FatalDrained ==
  \A a \in Actors : act[a].fatal => Queued(a, "Interactive") \cup Queued(a, "Maintenance") = {}

(* Nobody is left with a closed channel by a retirement: a root is only      *)
(* retired when nothing of it is queued or running, whatever raced with the  *)
(* decision, and every other job is answered.  remove_actor does close the   *)
(* channels of what is queued ("removed").                                   *)
SettledAnswered ==
  \A j \in Jobs : job[j].phase = "settled" => job[j].answer \notin {"none", "lost"}

(* Once an unbound root has been quiesced its queues hold no maintenance     *)
(* (but a teardown) and no provider job, whatever was submitted while the    *)
(* lifecycle closed.                                                         *)
QuietWhenUnbound ==
  \A a \in Actors : ~root[a].bound /\ ~root[a].quiescing =>
    \A j \in Jobs :
      job[j].phase = "queued" /\ Root(j) = a
      => /\ Class(j) = "Maintenance" => Info[j].kind = "teardown"
         /\ Lane(j) # "ProviderMetadata"

(* A root's queue never holds two drains with one key: so the compaction     *)
(* that a full queue triggers (mod.rs:2079-2087) finds nothing to remove.    *)
NoDuplicateDrains ==
  \A j, k \in Jobs :
    /\ j # k /\ job[j].phase = "queued" /\ job[k].phase = "queued"
    /\ Root(j) = Root(k) /\ Class(j) = "Maintenance" /\ Class(k) = "Maintenance"
    => Info[j].key = NoKey \/ Info[j].key # Info[k].key

(* When the scheduler sleeps with no event on its way, no queued job could   *)
(* be given a worker: every change that makes a job runnable is followed by  *)
(* an event, and a turn ends only when nothing more can be admitted.  Time   *)
(* alone raises no event.  A writer grown old is preferred, unless readers   *)
(* have hung long enough, so while one is queued the root has two choices of *)
(* its next interactive job, and the scheduler found the one it looked at    *)
(* inadmissible.                                                             *)
Asleep == Free /\ ~sched.wake /\ \A j \in Jobs : job[j].phase # "returned"

Overdue == sched.timer /\ \E j \in Jobs : job[j].phase = "queued" /\ job[j].backoff = "due"

Preferences(a) == {FALSE} \cup {job[j].aged : j \in Writers(a)}

Rests(a, pass) ==
  IF pass = "interactive"
  THEN \E starved \in Preferences(a) :
         \A j \in InteractiveChoice(a, starved) : ~Admits(j, pass)
  ELSE Offer(a, pass) = {}

NothingLeftBehind ==
  Asleep /\ ~Overdue =>
    \A a \in Actors, pass \in Passes : CanDispatch(pass) => Rests(a, pass)

(* Every request gets its answer, although readers keep coming, a detached   *)
(* publication holds the gate and a bind goes back to the queue: a bind that *)
(* waits for a retry time or behind fresh readers is run in the end.         *)
EveryJobAnswered ==
  \A j \in Jobs : job[j].phase \notin {"idle", "settled"} ~> job[j].phase \in {"idle", "settled"}

(* The abstract service; the mapping forgets queues, workers and gates. *)
Stage(j) ==
  LET p == job[j].phase IN
  IF p = "idle" THEN "idle"
  ELSE IF p = "executing" THEN "running"
  ELSE IF p = "settled" \/ (p = "returned" /\ job[j].end \in {"done", "panic"}) THEN "over"
  ELSE "accepted"

Use(j) ==
  IF job[j].phase # "executing" THEN "none"
  ELSE [none |-> "free", read |-> "shared", write |-> "exclusive"][job[j].hold]

Verdict(j) ==
  IF job[j].token = "cancelled" THEN "revoked" ELSE IF job[j].token = "committed" THEN "sealed" ELSE "open"

Session(j) == IF job[j].phase = "executing" THEN job[j].inc ELSE 0

View == [j \in Jobs |-> [stage |-> Stage(j), use |-> Use(j), session |-> Session(j),
                         verdict |-> Verdict(j), answer |-> job[j].answer]]

Service == INSTANCE CommandService WITH Jobs <- Jobs, RootOf <- Root, svc <- View

(* The executor keeps the promises of CommandService. *)
KeepsPromises == Service!Spec
=============================================================================
