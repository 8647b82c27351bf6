--------------------------- MODULE ViewPublication ---------------------------
(***************************************************************************)
(* How an edit of one checkout reaches the view its queries read:          *)
(* the watcher drain collects changed paths and hands them over when the   *)
(* checkout is quiet (runtime_drain.rs), a detached worker builds and      *)
(* commits one batch at a time, keeps what arrives meanwhile as one pending*)
(* submission and retries what failed (executor/view_publication.rs), and a*)
(* query names the edits its answer may lack (context.rs).                 *)
(*                                                                         *)
(* A step is what the code does under one hold of the job table `JOBS'.    *)
(* The worker holds nothing between its steps, so configure, unbind,       *)
(* deletion of the root and new submissions fall between any two of them.  *)
(* A drain takes its slice of work out of the slot, works on it and puts it*)
(* back; queries and the worker go on meanwhile.                           *)
(* The root has one context, and file contents are not kept: an edited file*)
(* is in `dirty' until a commit installs what was read after its last edit.*)
(***************************************************************************)
EXTENDS Naturals, Sequences, FiniteSets

CONSTANTS
  Path,            \* paths the watcher reports
  Member,          \* those of the view's manifest; edits of others change nothing
  NoJob,
  NoSubmission,
  MaxDisturbances  \* bound on edits, failures, unbinds and configures

ASSUME PublicationAssumption ==
  /\ IsFiniteSet(Path)
  /\ Member \subseteq Path
  /\ Member # {}
  /\ MaxDisturbances \in Nat

VARIABLES
  present,     \* the root is a directory
  binding,     \* bound, unbound, or unbound past the abandonment grace
  generation,  \* configure_content_generation
  tail,        \* stage of the configure tail: watcher, view, none
  runtime,     \* view_runtime is installed
  published,   \* the view has a generation
  retry,       \* the root's retry deadline: none, in the future, or passed
  watching,    \* the watcher runs
  reported,    \* paths in the watcher's channel
  overflow,    \* the channel lost events and holds a RescanRequired
  drain,       \* watcher_drain_slice, in its slot or with the running drain
  drainer,     \* the running drain; it is stale once its route was unbound
  job,         \* the root's entry of JOBS
  current,     \* the submission the worker holds
  prepared,    \* content generation at the start of prepare_view_paths
  unread,      \* members the running build has yet to read
  pc,          \* the worker
  query,       \* the stage a query reads next, 0 if there is no query
  disturbances,
  dirty,       \* ghost: members whose last edit is not in the installed view
  moved,       \* ghost: members edited since the running build read them
  forgiven,    \* ghost: dirty members that nobody has to publish: their edit
               \* was not watched, or given up with the watcher, the view,
               \* the binding or the configuration, and there was none since
  missed,      \* ghost: members dirty when the query began that it has not named
  overtaken    \* ghost: the query found the slot empty while a drain ran

world == <<present, binding, generation, tail, runtime, published>>
watcher == <<watching, reported, overflow>>
draining == <<drain, drainer>>
worker == <<current, prepared, unread, pc>>
asking == <<query, missed, overtaken>>
vars == <<present, binding, generation, tail, runtime, published, retry,
          watching, reported, overflow, drain, drainer, job, current, prepared,
          unread, pc, query, disturbances, dirty, moved, forgiven, missed,
          overtaken>>

------------------------------------------------------------------------------
(* Submissions.  An empty set of paths stands for the whole checkout.        *)

Submission == [generation : Nat, paths : SUBSET Path, rescan : BOOLEAN]

Job == [generation : Nat, paths : SUBSET Path, rescan : BOOLEAN,
        token : {"running", "cancelled", "committed"},
        pending : Submission \cup {NoSubmission}]

ASSUME NamesAssumption == NoSubmission \notin Submission /\ NoJob \notin Job

Covers(paths, p) == paths = {} \/ p \in paths

union_paths(paths, other) ==
  IF paths = {} \/ other = {} THEN {} ELSE paths \cup other

merge(sub, other) ==
  [sub EXCEPT !.paths = union_paths(@, other.paths),
              !.rescan = @ \/ other.rescan]

same_content(sub, other) == sub.generation = other.generation

WholeCheckout(sub) == [sub EXCEPT !.paths = {}, !.rescan = TRUE]

(* What a submission becomes when the root already has a job.                *)
Following(sub) ==
  IF job.generation # sub.generation THEN WholeCheckout(sub)
  ELSE IF job.rescan THEN [sub EXCEPT !.paths = {}]
  ELSE sub

NextPending(sub) ==
  IF job.pending = NoSubmission THEN sub
  ELSE IF same_content(job.pending, sub) THEN merge(job.pending, sub)
  ELSE WholeCheckout(sub)

NewJob(sub, pending) ==
  [generation |-> sub.generation, paths |-> sub.paths, rescan |-> sub.rescan,
   token |-> "running", pending |-> pending]

(* schedule_with_reason past its early returns: queue behind the root's job, *)
(* or insert one and spawn its worker.                                       *)
Schedule(paths) ==
  LET sub == [generation |-> generation, paths |-> paths, rescan |-> paths = {}]
  IN  IF job # NoJob
      THEN /\ job' = [job EXCEPT !.pending = NextPending(Following(sub))]
           /\ UNCHANGED <<current, pc>>
      ELSE /\ job' = NewJob(sub, NoSubmission)
           /\ current' = sub
           /\ pc' = "top"

------------------------------------------------------------------------------
(* Cancellation                                                              *)

Cancelled(j) == [j EXCEPT !.token = IF @ = "running" THEN "cancelled" ELSE @]

(* cancel_for_context, for the one context of the root                       *)
CancelForContext ==
  job' = IF job = NoJob THEN job
         ELSE [Cancelled(job) EXCEPT !.pending = NoSubmission]

(* retire_deleted_view_root where it finds the root gone; the first call     *)
(* cancels, removes the runtime and the retry deadline.                      *)
Retire ==
  /\ ~present
  /\ CancelForContext
  /\ runtime' = FALSE
  /\ retry' = "none"

(* cancel_requested_before_commit may signal on its own: the abandonment     *)
(* check gives up when the lifecycle lock is taken, and the probe of the     *)
(* root's directory is throttled, so either may pass unnoticed.              *)
MayCancel == job.token = "running" /\ (binding = "abandoned" \/ ~present)

------------------------------------------------------------------------------
(* The drain's slice of work.  Its generation is the content generation it   *)
(* was collected under.                                                      *)

NewSlice(g) ==
  [generation |-> g, pending |-> {}, rescan |-> FALSE, applying |-> FALSE,
   paths |-> {}, full |-> FALSE, due |-> "none"]

Slice == [generation : Nat, pending : SUBSET Path, rescan : BOOLEAN,
          applying : BOOLEAN, paths : SUBSET Path, full : BOOLEAN,
          due : {"none", "future", "passed"}]

(* A slice of another content is dropped by the next drain.                  *)
InSlice(p) ==
  /\ drain.generation = generation
  /\ p \in drain.pending \cup drain.paths \/ drain.rescan \/ drain.full

Upstream(p) == p \in reported \/ overflow \/ InSlice(p)

(* Ghost: the members of S need not be published, and not be named.          *)
Forgive(S) ==
  /\ forgiven' = forgiven \cup S
  /\ missed' = missed \ S

(* The watcher's channel and the drain's slice are lost.                     *)
DropEvents ==
  /\ reported' = {}
  /\ overflow' = FALSE
  /\ drain' = NewSlice(generation)
  /\ Forgive({p \in dirty : Upstream(p)})

------------------------------------------------------------------------------
(* The checkout, its watcher and its bindings.  The disturbances are counted;*)
(* a loss of events needs an edit first.                                     *)

Disturb ==
  /\ disturbances < MaxDisturbances
  /\ disturbances' = disturbances + 1

Edit(p) ==
  /\ present
  /\ Disturb
  /\ dirty' = dirty \cup ({p} \cap Member)
  /\ moved' = IF pc \in {"reading", "gate"}
              THEN moved \cup (({p} \cap Member) \ unread) ELSE moved
  /\ IF watching
     THEN /\ reported' = reported \cup {p}
          /\ forgiven' = forgiven \ {p}
          /\ UNCHANGED missed
     ELSE /\ Forgive({p} \cap Member)
          /\ UNCHANGED reported
  /\ UNCHANGED <<world, retry, watching, overflow, draining, job, worker, query,
                 overtaken>>

LoseEvents ==
  /\ reported # {}
  /\ reported' = {}
  /\ overflow' = TRUE
  /\ UNCHANGED <<world, retry, watching, draining, job, worker, asking,
                 disturbances, dirty, moved, forgiven>>

DeleteRoot ==
  /\ present
  /\ Disturb
  /\ present' = FALSE
  /\ UNCHANGED <<binding, generation, tail, runtime, published, retry, watcher,
                 draining, job, worker, asking, dirty, moved, forgiven>>

(* A drain that runs keeps the lifecycle generation it started with.         *)
Unbind ==
  /\ binding = "bound"
  /\ Disturb
  /\ binding' = "unbound"
  /\ drainer' = IF drainer = "receiving" THEN "stale" ELSE drainer
  /\ IF present THEN UNCHANGED job ELSE CancelForContext
  /\ UNCHANGED <<present, generation, tail, runtime, published, retry, watcher,
                 drain, worker, asking, dirty, moved, forgiven>>

GraceEnds ==
  /\ binding = "unbound"
  /\ Disturb
  /\ binding' = "abandoned"
  /\ forgiven' = forgiven \cup {p \in dirty : ~Upstream(p)}
  /\ missed' = {}
  /\ UNCHANGED <<present, generation, tail, runtime, published, retry, watcher,
                 draining, job, worker, query, overtaken, dirty, moved>>

(* A bind with an equivalent configuration does nothing to the view.         *)
Rebind ==
  /\ binding # "bound"
  /\ binding' = "bound"
  /\ UNCHANGED <<present, generation, tail, runtime, published, retry, watcher,
                 draining, job, worker, asking, disturbances, dirty, moved,
                 forgiven>>

(* A configure that changes the content holds the root's write gate, which   *)
(* queries and drains hold for reading.  The slice in the slot is of the old *)
(* content now; the tail opens the view later.                               *)
Configure ==
  /\ binding = "bound"
  /\ query = 0
  /\ drainer = "idle"
  /\ Disturb
  /\ generation' = generation + 1
  /\ tail' = "watcher"
  /\ forgiven' = forgiven \cup {p \in dirty : p \notin reported /\ ~overflow}
  /\ UNCHANGED <<present, binding, runtime, published, retry, watcher, draining,
                 job, worker, asking, dirty, moved>>

(* The tail's Watcher stage keeps a watcher that matches, or replaces it; the*)
(* new one may fail to start.                                                *)
WatcherStage ==
  /\ tail = "watcher"
  /\ binding = "bound"
  /\ drainer = "idle"
  /\ tail' = "view"
  /\ \/ /\ watching
        /\ UNCHANGED <<watching, reported, overflow, drain, forgiven, missed,
                       disturbances>>
     \/ /\ watching' = TRUE
        /\ DropEvents
        /\ UNCHANGED disturbances
     \/ /\ Disturb
        /\ watching' = FALSE
        /\ DropEvents
  /\ UNCHANGED <<present, binding, generation, runtime, published, retry,
                 drainer, job, worker, query, overtaken, dirty, moved>>

(* The tail's ViewLoad stage opens the view.  The first load imports an older*)
(* index, which may publish a generation, wait for a slot of the cold build  *)
(* limiter, or fail; the two last leave the view without a publication.      *)
(* Without a generation every path is pending.  With one, the working tree is*)
(* compared with it if the call graph is on, and a missing payload or another*)
(* HEAD is noticed in any case.                                              *)
FinishViewLoad ==
  /\ tail = "view"
  /\ binding = "bound"
  /\ present
  /\ drainer = "idle"
  /\ tail' = "none"
  /\ runtime' = TRUE
  /\ \E ready \in {TRUE, published}, imported, callgraph, other \in BOOLEAN :
       /\ imported => ready
       /\ published' = (published \/ imported)
       /\ LET pending == \/ ~published'
                         \/ callgraph /\ dirty # {}
                         \/ other
          IN  IF ready /\ pending
              THEN Schedule({}) /\ forgiven' = {}
              ELSE UNCHANGED <<job, current, pc, forgiven>>
  /\ UNCHANGED <<present, binding, generation, retry, watcher, draining, prepared,
                 unread, asking, disturbances, dirty, moved>>

(* The view cannot be opened, or no index of the new configuration needs it. *)
ViewLoadFails ==
  /\ tail = "view"
  /\ binding = "bound"
  /\ present
  /\ drainer = "idle"
  /\ Disturb
  /\ tail' = "none"
  /\ runtime' = FALSE
  /\ retry' = "none"
  /\ forgiven' = forgiven \cup {p \in dirty : ~Upstream(p)}
  /\ missed' = {}
  /\ UNCHANGED <<present, binding, generation, published, watcher, draining, job,
                 worker, query, overtaken, dirty, moved>>

------------------------------------------------------------------------------
(* The watcher drain                                                         *)

HasPendingWork == drain.pending # {} \/ drain.rescan \/ drain.applying

WatcherDrainHasWork ==
  reported # {} \/ overflow \/ HasPendingWork \/ drain.due = "passed"

(* Paths are collected unless a rescan is to come, which covers them.        *)
Received(slice, paths, rescan) ==
  IF slice.rescan \/ rescan
  THEN [slice EXCEPT !.pending = {}, !.rescan = TRUE, !.full = @ \/ rescan,
                     !.applying = @ /\ ~rescan]
  ELSE [slice EXCEPT !.pending = @ \cup paths]

(* A drain takes the slice of its content and what the channel holds.  It    *)
(* holds the root's read gate, which a waiting commit closes to newcomers.   *)
(* The pump also starts one when the view's verification may be due.         *)
TakeSlice(paths, rescan) ==
  /\ drainer = "idle"
  /\ present
  /\ binding = "bound"
  /\ pc # "gate"
  /\ WatcherDrainHasWork \/ (runtime /\ published)
  /\ paths \subseteq reported
  /\ rescan => overflow
  /\ paths = {} /\ ~rescan => reported = {} /\ ~overflow
  /\ reported' = reported \ paths
  /\ overflow' = (overflow /\ ~rescan)
  /\ drain' = Received(IF drain.generation = generation THEN drain
                       ELSE NewSlice(generation), paths, rescan)
  /\ drainer' = "receiving"
  /\ UNCHANGED <<world, retry, watching, job, worker, asking, disturbances, dirty,
                 moved, forgiven>>

(* The channel delivers an error: the watcher is stopped, the slice dropped. *)
WatcherFails ==
  /\ drainer \in {"receiving", "stale"}
  /\ watching
  /\ Disturb
  /\ watching' = FALSE
  /\ DropEvents
  /\ drainer' = "idle"
  /\ UNCHANGED <<world, retry, job, worker, query, overtaken, dirty, moved>>

(* A drain that finds the root gone stops the watcher, whatever it holds.    *)
CleanupDeletedRoot ==
  /\ ~present
  /\ watching
  /\ drainer \in {"idle", "receiving"}
  /\ watching' = FALSE
  /\ DropEvents
  /\ drainer' = "idle"
  /\ UNCHANGED <<world, retry, job, worker, query, overtaken, disturbances, dirty,
                 moved>>

(* A rescan waits until the channel is empty.                                *)
ParkRescan ==
  /\ drainer \in {"receiving", "stale"}
  /\ drain.rescan
  /\ reported # {} \/ overflow
  /\ drainer' = "idle"
  /\ UNCHANGED <<world, retry, watcher, drain, job, worker, asking, disturbances,
                 dirty, moved, forgiven>>

(* It is acknowledged only under the lifecycle generation the drain began in.*)
FinishRescan ==
  /\ drainer \in {"receiving", "stale"}
  /\ drain.rescan
  /\ IF drainer = "receiving"
     THEN /\ drain' = [drain EXCEPT !.rescan = FALSE, !.paths = {},
                                    !.full = TRUE, !.due = "future"]
          /\ retry' = "none"
     ELSE UNCHANGED <<drain, retry>>
  /\ drainer' = "publishing"
  /\ UNCHANGED <<world, watcher, job, worker, asking, disturbances, dirty, moved,
                 forgiven>>

(* Collected paths become the view's in batches, and are applied to the other*)
(* indexes; the time budget or an unbind cuts that short.                    *)
ApplyPaths(batch, cut) ==
  /\ drainer \in {"receiving", "stale"}
  /\ ~drain.rescan
  /\ ~drain.applying
  /\ batch \subseteq drain.pending
  /\ batch = {} => drain.pending = {}
  /\ IF batch = {}
     THEN UNCHANGED <<drain, retry>>
     ELSE /\ drain' = [drain EXCEPT !.pending = @ \ batch, !.paths = @ \cup batch,
                                    !.due = "future",
                                    !.applying = cut \/ drainer = "stale"]
          /\ retry' = "none"
  /\ drainer' = "publishing"
  /\ UNCHANGED <<world, watcher, job, worker, asking, disturbances, dirty, moved,
                 forgiven>>

(* The next drains go on with it, each for at least one path; the last of    *)
(* them stands for all.                                                      *)
ResumeApply ==
  /\ drainer \in {"receiving", "stale"}
  /\ ~drain.rescan
  /\ drain.applying
  /\ drain' = [drain EXCEPT !.applying = drainer = "stale"]
  /\ drainer' = "publishing"
  /\ UNCHANGED <<world, retry, watcher, job, worker, asking, disturbances, dirty,
                 moved, forgiven>>

(* Mutant: the full read is requested and never made due.                    *)
VerifiedNotDue(slice) == [slice EXCEPT !.full = TRUE]

(* A view whose last full read is ten minutes old is verified in full.       *)
Verified(slice) == [slice EXCEPT !.full = TRUE, !.due = "passed"]

Cleared(slice) == [slice EXCEPT !.paths = {}, !.full = FALSE, !.due = "none"]

(* Mutant: what was not submitted is not kept.                               *)
RefusedCleared(slice) == Cleared(slice)

Refused(slice) == [slice EXCEPT !.due = "future"]

(* publish_view_if_quiet with the slice of the drain, whose route may have   *)
(* been unbound: the submission is then refused and the paths kept.          *)
PublishIfQuiet(slice) ==
  \/ /\ slice.applying \/ slice.due # "passed"
     /\ drain' = slice
     /\ UNCHANGED <<runtime, retry, job, current, pc, forgiven, missed>>
  \/ /\ ~slice.applying /\ slice.due = "passed"
     /\ \/ /\ Retire
           /\ drain' = Cleared(slice)
           /\ UNCHANGED <<current, pc, forgiven, missed>>
        \/ /\ present /\ ~runtime
           /\ drain' = Cleared(slice)
           /\ Forgive({p \in dirty : p \in slice.paths \/ slice.full})
           /\ UNCHANGED <<runtime, retry, job, current, pc>>
        \/ /\ present /\ runtime
           /\ IF retry # "future" /\ binding = "bound"
              THEN /\ Schedule(IF slice.full THEN {} ELSE slice.paths)
                   /\ drain' = Cleared(slice)
              ELSE /\ drain' = Refused(slice)
                   /\ UNCHANGED <<job, current, pc>>
           /\ UNCHANGED <<runtime, retry, forgiven, missed>>

(* The end of a drain.  The verification needs an open view that has a       *)
(* generation, no running publication and no retry to wait for.              *)
PutBack(verify) ==
  /\ drainer = "publishing"
  /\ verify => runtime /\ published /\ job = NoJob /\ retry # "future"
  /\ PublishIfQuiet(IF verify THEN Verified(drain) ELSE drain)
  /\ drainer' = "idle"
  /\ UNCHANGED <<present, binding, generation, tail, published, watcher, prepared,
                 unread, query, overtaken, disturbances, dirty, moved>>

(* The quiet window, or the delay of a refused submission, ends.             *)
QuietEnds ==
  /\ drain.due = "future"
  /\ drain' = [drain EXCEPT !.due = "passed"]
  /\ UNCHANGED <<world, retry, watcher, drainer, job, worker, asking,
                 disturbances, dirty, moved, forgiven>>

------------------------------------------------------------------------------
(* The worker                                                                *)

(* A poll of the token that signals.                                         *)
Signal ==
  /\ MayCancel
  /\ job' = Cancelled(job)
  /\ UNCHANGED <<runtime, retry>>

(* The reasons to stop that the top of the loop and a failure share.         *)
Stops ==
  \/ Retire
  \/ Signal
  \/ /\ present
     /\ job.token = "cancelled" \/ generation # current.generation
     /\ UNCHANGED <<job, runtime, retry>>

Proceeds == present /\ job.token # "cancelled" /\ generation = current.generation

WorkerFrame == <<present, binding, generation, tail, published, watcher, draining,
                 asking, dirty, forgiven>>

StopAtTop ==
  /\ pc = "top"
  /\ Stops
  /\ pc' = "stop"
  /\ UNCHANGED <<WorkerFrame, current, prepared, unread, moved, disturbances>>

(* Past the checks and the retry deadline.  Paths outside the manifest of a  *)
(* published view need no build; the others wait for a slot of the cold      *)
(* build limiter.                                                            *)
StartAttempt ==
  /\ pc = "top"
  /\ Proceeds
  /\ retry # "future"
  /\ pc' = IF /\ runtime /\ published
              /\ current.paths # {} /\ current.paths \cap Member = {}
           THEN "installed"
           ELSE "slot"
  /\ UNCHANGED <<WorkerFrame, job, runtime, retry, current, prepared, unread,
                 moved, disturbances>>

(* Mutant: the build walks the reported paths, members or not.               *)
BeginPrepareReported ==
  /\ pc = "slot"
  /\ present /\ runtime
  /\ job.token # "cancelled"
  /\ prepared' = generation
  /\ unread' = IF current.paths = {} THEN Member ELSE current.paths
  /\ pc' = "reading"
  /\ UNCHANGED <<WorkerFrame, job, runtime, retry, current, moved, disturbances>>

(* prepare_view_paths notes the content generation it starts from.           *)
BeginPrepare ==
  /\ pc = "slot"
  /\ present /\ runtime
  /\ job.token # "cancelled"
  /\ prepared' = generation
  /\ unread' = {p \in Member : Covers(current.paths, p)}
  /\ pc' = "reading"
  /\ UNCHANGED <<WorkerFrame, job, runtime, retry, current, moved, disturbances>>

ReadMember(p) ==
  /\ pc = "reading"
  /\ p \in unread
  /\ unread' = unread \ {p}
  /\ UNCHANGED <<WorkerFrame, job, runtime, retry, current, prepared, pc,
                 moved, disturbances>>

(* The root must still be there once its members are read; the build then    *)
(* waits for the root's write gate.                                          *)
EndPrepare ==
  /\ pc = "reading"
  /\ unread = {}
  /\ present
  /\ pc' = "gate"
  /\ UNCHANGED <<WorkerFrame, job, runtime, retry, current, prepared, unread,
                 moved, disturbances>>

(* The prepared update is dropped with the attempt.                          *)
EndAttempt(next) ==
  /\ pc' = next
  /\ prepared' = 0
  /\ unread' = {}
  /\ moved' = {}

(* Any phase of the build polls the token, and prepare_view_paths returns an *)
(* error when it finds the root gone or the runtime removed.                 *)
GiveUp ==
  /\ pc \in {"slot", "reading", "gate"}
  /\ \/ Signal
     \/ pc # "gate" /\ Retire
     \/ /\ job.token = "cancelled" \/ (pc = "slot" /\ ~runtime)
        /\ UNCHANGED <<job, runtime, retry>>
  /\ EndAttempt("failed")
  /\ UNCHANGED <<WorkerFrame, current, disturbances>>

(* A storage or build error, or the loss of the compare-and-swap.            *)
AttemptFails ==
  /\ pc \in {"reading", "gate"}
  /\ Disturb
  /\ EndAttempt("failed")
  /\ UNCHANGED <<WorkerFrame, job, runtime, retry, current>>

(* Under the write gate and the job table: a last look at the token, then    *)
(* commit_view_update, which refuses a replaced configuration.               *)
Commit ==
  /\ pc = "gate"
  /\ query = 0
  /\ drainer = "idle"
  /\ job.token # "cancelled"
  /\ IF generation = prepared
     THEN LET read == {p \in Member : Covers(current.paths, p)}
          IN  /\ dirty' = (dirty \ read) \cup (moved \cap read)
              /\ forgiven' = forgiven \cap dirty'
              /\ runtime' = TRUE
              /\ published' = TRUE
              /\ job' = [job EXCEPT !.token = "committed"]
              /\ EndAttempt("installed")
     ELSE /\ EndAttempt("failed")
          /\ UNCHANGED <<dirty, forgiven, runtime, published, job>>
  /\ UNCHANGED <<present, binding, generation, tail, retry, watcher, draining,
                 asking, current, disturbances>>

(* Success resets the retry deadline.                                        *)
Installed ==
  /\ pc = "installed"
  /\ retry' = "none"
  /\ pc' = "stop"
  /\ UNCHANGED <<WorkerFrame, job, runtime, current, prepared, unread, moved,
                 disturbances>>

StopAfterFailure ==
  /\ pc = "failed"
  /\ \/ Stops
     \/ present /\ ~runtime /\ UNCHANGED <<job, runtime, retry>>
  /\ pc' = "stop"
  /\ UNCHANGED <<WorkerFrame, current, prepared, unread, moved, disturbances>>

Failed ==
  /\ pc = "failed"
  /\ Proceeds
  /\ runtime
  /\ retry' = "future"
  /\ pc' = "retry"
  /\ UNCHANGED <<WorkerFrame, job, runtime, current, prepared, unread, moved,
                 disturbances>>

(* advance: take the pending submission, repeat a failed batch (merged with  *)
(* a pending one of the same content), or retire under the same lock.        *)
Advanced(retrying) ==
  IF job.pending = NoSubmission THEN current
  ELSE IF retrying /\ same_content(job.pending, current)
       THEN merge(job.pending, current)
       ELSE job.pending

(* Mutant: the worker ends and leaves its entry in the table.                *)
AdvanceLeavingEntry ==
  /\ pc \in {"stop", "retry"}
  /\ LET retrying == pc = "retry" /\ job.token # "cancelled"
         next == Advanced(retrying)
     IN  IF job.pending = NoSubmission /\ ~retrying
         THEN /\ pc' = "idle"
              /\ current' = NoSubmission
              /\ UNCHANGED job
         ELSE /\ job' = NewJob(next, NoSubmission)
              /\ pc' = "top"
              /\ current' = next
  /\ UNCHANGED <<WorkerFrame, runtime, retry, prepared, unread, moved,
                 disturbances>>

Advance ==
  /\ pc \in {"stop", "retry"}
  /\ \E signal \in {FALSE, MayCancel} :
       LET retrying == pc = "retry" /\ job.token # "cancelled" /\ ~signal
           next == Advanced(retrying)
       IN  IF job.pending = NoSubmission /\ ~retrying
           THEN /\ job' = NoJob
                /\ pc' = "idle"
                /\ current' = NoSubmission
           ELSE /\ job' = NewJob(next, NoSubmission)
                /\ pc' = "top"
                /\ current' = next
  /\ UNCHANGED <<WorkerFrame, runtime, retry, prepared, unread, moved,
                 disturbances>>

RetryDue ==
  /\ retry = "future"
  /\ retry' = "passed"
  /\ UNCHANGED <<world, watcher, draining, job, worker, asking, disturbances,
                 dirty, moved, forgiven>>

------------------------------------------------------------------------------
(* A query that names what its answer may lack (pending_changes_for_query).  *)
(* It holds the root's read gate, which a waiting writer closes to newcomers,*)
(* and reads the stages one after the other.                                 *)

(* Mutant: the job table is read before the drain that fills it.             *)
QueryStagesJobsFirst == <<"watcher", "jobs", "drain">>

QueryStages == <<"watcher", "drain", "jobs">>

Answered == Len(QueryStages) + 1

(* What one stage says is on its way: members of the view.  A drain that runs*)
(* counts for the watcher stage and has left the slot of the drain stage     *)
(* empty.                                                                    *)
NamedBy(stage) ==
  {p \in Member :
     CASE stage = "watcher" -> WatcherDrainHasWork \/ drainer # "idle"
       [] stage = "drain" ->
            /\ drainer = "idle"
            /\ \/ drain.due # "none" /\ (drain.full \/ drain.paths = {})
               \/ p \in drain.paths
       [] stage = "jobs" ->
            /\ job # NoJob
            /\ \/ Covers(job.paths, p)
               \/ job.pending # NoSubmission /\ Covers(job.pending.paths, p)}

QueryFrame == <<world, retry, watcher, draining, job, worker, disturbances, dirty,
                moved, forgiven>>

BeginQuery ==
  /\ query = 0
  /\ pc # "gate"
  /\ runtime
  /\ binding = "bound"
  /\ query' = 1
  /\ missed' = dirty \ forgiven
  /\ UNCHANGED <<QueryFrame, overtaken>>

ReadStage ==
  /\ query \in 1..Len(QueryStages)
  /\ missed' = missed \ NamedBy(QueryStages[query])
  /\ overtaken' = (overtaken \/ (QueryStages[query] = "drain" /\ drainer # "idle"))
  /\ query' = query + 1
  /\ UNCHANGED QueryFrame

EndQuery ==
  /\ query = Answered
  /\ query' = 0
  /\ missed' = {}
  /\ overtaken' = FALSE
  /\ UNCHANGED QueryFrame

------------------------------------------------------------------------------
(* The daemon has just bound the root: nobody watches it, the view is not    *)
(* open and may have been published before.                                  *)
Init ==
  /\ present = TRUE
  /\ binding = "bound"
  /\ generation = 0
  /\ tail = "watcher"
  /\ runtime = FALSE
  /\ published \in BOOLEAN
  /\ retry = "none"
  /\ watching = FALSE
  /\ reported = {}
  /\ overflow = FALSE
  /\ drain = NewSlice(0)
  /\ drainer = "idle"
  /\ job = NoJob
  /\ current = NoSubmission
  /\ prepared = 0
  /\ unread = {}
  /\ pc = "idle"
  /\ query = 0
  /\ disturbances = 0
  /\ dirty \in SUBSET Member
  /\ ~published => dirty = Member
  /\ moved = {}
  /\ forgiven = dirty
  /\ missed = {}
  /\ overtaken = FALSE

Worker ==
  \/ StopAtTop \/ StartAttempt \/ BeginPrepare
  \/ \E p \in Path : ReadMember(p)
  \/ EndPrepare \/ GiveUp \/ AttemptFails \/ Commit
  \/ Installed \/ StopAfterFailure \/ Failed \/ Advance

WorkOnSlice ==
  \/ ParkRescan
  \/ FinishRescan
  \/ \E batch \in SUBSET Path, cut \in BOOLEAN : ApplyPaths(batch, cut)
  \/ ResumeApply

Drain ==
  \/ \E paths \in SUBSET Path, rescan \in BOOLEAN : TakeSlice(paths, rescan)
  \/ WorkOnSlice
  \/ \E verify \in BOOLEAN : PutBack(verify)

ConfigureTail == WatcherStage \/ FinishViewLoad \/ ViewLoadFails

Query == BeginQuery \/ ReadStage \/ EndQuery

Next ==
  \/ \E p \in Path : Edit(p)
  \/ LoseEvents \/ DeleteRoot \/ Unbind \/ GraceEnds \/ Rebind
  \/ Configure \/ ConfigureTail
  \/ Drain \/ WatcherFails \/ CleanupDeletedRoot
  \/ QuietEnds \/ RetryDue
  \/ Worker
  \/ Query

Spec == Init /\ [][Next]_vars

(* Threads run, timers fire, the pump starts drains that have work, a started*)
(* drain ends, queries end, and the host binds the root again.  Nothing is   *)
(* assumed of the disturbances, nor of the verification.                     *)
Fairness ==
  /\ WF_vars(Worker)
  /\ WF_vars(RetryDue)
  /\ WF_vars(QuietEnds)
  /\ WF_vars(ConfigureTail)
  /\ WF_vars(Rebind)
  /\ WF_vars(Drain)
  /\ WF_vars(ReadStage \/ EndQuery)

LiveSpec == Spec /\ Fairness

------------------------------------------------------------------------------
TypeOK ==
  /\ present \in BOOLEAN
  /\ binding \in {"bound", "unbound", "abandoned"}
  /\ generation \in Nat
  /\ tail \in {"watcher", "view", "none"}
  /\ runtime \in BOOLEAN
  /\ published \in BOOLEAN
  /\ retry \in {"none", "future", "passed"}
  /\ watching \in BOOLEAN
  /\ reported \subseteq Path
  /\ overflow \in BOOLEAN
  /\ drain \in Slice
  /\ drainer \in {"idle", "receiving", "stale", "publishing"}
  /\ job \in Job \cup {NoJob}
  /\ current \in Submission \cup {NoSubmission}
  /\ prepared \in Nat
  /\ unread \subseteq Member
  /\ pc \in {"idle", "top", "slot", "reading", "gate", "installed", "failed",
             "retry", "stop"}
  /\ query \in 0..Answered
  /\ disturbances \in 0..MaxDisturbances
  /\ dirty \subseteq Member
  /\ moved \subseteq Member
  /\ forgiven \subseteq dirty
  /\ missed \subseteq Member
  /\ overtaken \in BOOLEAN

(* The running batch will carry the last edit of p: it has yet to read p, or *)
(* p did not change since, or the batch is repeated.                         *)
CarriedByBatch(p) ==
  /\ Covers(current.paths, p)
  /\ \/ pc \in {"top", "slot", "failed", "retry"}
     \/ pc \in {"reading", "gate"} /\ (p \in unread \/ p \notin moved)

(* The last edit of p is somewhere between the watcher and an install.       *)
OnItsWay(p) ==
  \/ Upstream(p)
  \/ /\ job # NoJob
     /\ \/ CarriedByBatch(p)
        \/ job.pending # NoSubmission /\ Covers(job.pending.paths, p)

(* No watched edit is lost between the channel, the drain's slice, the       *)
(* running batch and the pending submission: not when a batch fails and is   *)
(* merged with what came meanwhile, not when a submission arrives as the     *)
(* worker retires, not when an unbind cuts a drain short, not when a file    *)
(* changes after the build read it or its event was lost.  Given up is only  *)
(* what goes down with the watcher, the view, the binding or the             *)
(* configuration, and a load of the view that publishes takes that up again. *)
NoEditForgotten == present => \A p \in dirty \ forgiven : OnItsWay(p)

(* An answer names every edit it may lack: an edit that was unpublished when *)
(* the query began moves from stage to stage while the query reads them one  *)
(* by one, and is in one of them.                                            *)
QueryNamesUnpublished ==
  query = Answered /\ present => missed = {}

(* The same of a query that finds the slot of the drain filled: a drain that *)
(* ran when the query looked at its slot (watcher_drain_slice, context.rs)   *)
(* is the only one an edit can hide in.                                      *)
NamedUnlessOvertaken ==
  query = Answered /\ present /\ ~overtaken => missed = {}

(* Every watched edit is in the installed view in the end, or given up with  *)
(* the watcher, the view, the binding or the configuration: through failed   *)
(* attempts, lost events, drains cut short and unbinds, once these stop.     *)
EveryEditPublished ==
  \A p \in Member :
    p \in dirty \ forgiven ~> p \notin dirty \/ p \in forgiven \/ ~present

(* An open view that was published once catches up with every edit, watched  *)
(* or not: what the watcher, a dropped batch or a load without a comparison  *)
(* left behind is found by the verification of publish_view_if_quiet, which  *)
(* stays due until a drain that meets no running publication makes it.       *)
VerificationRepairs ==
  SF_vars(PutBack(TRUE)) =>
    \A p \in Member :
      runtime /\ published /\ p \in dirty
        ~> p \notin dirty \/ ~runtime \/ ~present
==============================================================================
