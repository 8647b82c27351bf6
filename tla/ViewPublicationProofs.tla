------------------------ MODULE ViewPublicationProofs ------------------------
(* No edit is forgotten, and no query fails to name one that its view lacks  *)
(* unless a drain overtook it, whatever the paths and the disturbances.      *)
EXTENDS ViewPublication, TLAPS

Unpublished == dirty \ forgiven

(* The last edit of p is on its way outside the running batch.  A pending    *)
(* submission of an older content does not count: the worker will drop it.   *)
Elsewhere(p) ==
  \/ Upstream(p)
  \/ /\ job # NoJob
     /\ job.pending # NoSubmission
     /\ job.pending.generation = generation
     /\ Covers(job.pending.paths, p)

(* The job table and the worker agree.                                       *)
JobInv ==
  /\ job = NoJob <=> pc = "idle"
  /\ pc # "idle" => /\ current \in Submission
                    /\ job.generation = current.generation
                    /\ job.paths = current.paths
                    /\ current.generation <= generation

(* Pending submissions are no older than the batch, and those of another     *)
(* content are for the whole checkout.                                       *)
PendingInv ==
  job # NoJob /\ job.pending # NoSubmission =>
    /\ current.generation <= job.pending.generation
    /\ job.pending.generation <= generation
    /\ job.pending.generation # current.generation => job.pending.paths = {}

MovedInv ==
  /\ moved \subseteq dirty
  /\ moved \cap unread = {}
  /\ pc \notin {"reading", "gate"} => moved = {}

CarriedInv ==
  present => \A p \in Unpublished : Elsewhere(p) \/ (job # NoJob /\ CarriedByBatch(p))

(* Nothing depends on a batch the worker is going to drop ...                *)
DroppedInv ==
  /\ present
  /\ job # NoJob
  /\ job.token = "cancelled" \/ generation # current.generation
  => \A p \in Unpublished : Elsewhere(p)

(* ... and while the root is abandoned or its view is not open, on nothing   *)
(* but the watcher and the drain.                                            *)
GivenUpInv ==
  present /\ (binding = "abandoned" \/ ~runtime) => \A p \in Unpublished : Upstream(p)

IInv ==
  /\ TypeOK /\ JobInv /\ PendingInv /\ MovedInv
  /\ CarriedInv /\ DroppedInv /\ GivenUpInv

Disturbance ==
  \/ \E p \in Path : Edit(p)
  \/ LoseEvents \/ DeleteRoot \/ Unbind \/ GraceEnds \/ Configure

(* Steps of the drain that hand nothing over.                                *)
DrainRead ==
  \/ \E paths \in SUBSET Path, rescan \in BOOLEAN : TakeSlice(paths, rescan)
  \/ WorkOnSlice
  \/ QuietEnds

(* Steps that lose the channel and the slice.                                *)
Drop ==
  \/ WatcherStage /\ DropEvents
  \/ WatcherFails
  \/ CleanupDeletedRoot

Load == FinishViewLoad \/ ViewLoadFails

Aside ==
  \/ Rebind \/ RetryDue \/ Query
  \/ WatcherStage /\ ~DropEvents
  \/ UNCHANGED vars

LEMMA NextCases ==
  ASSUME [Next]_vars
  PROVE  \/ Disturbance \/ DrainRead \/ Drop \/ Load \/ Worker \/ Aside
         \/ \E verify \in BOOLEAN : PutBack(verify)
  BY DEF Next, Drain, ConfigureTail, Disturbance, DrainRead, Drop, Load, Aside

LEMMA StagesTyped == Answered = 4 /\ Len(QueryStages) = 3
  BY DEF Answered, QueryStages

-----------------------------------------------------------------------------
(* Scheduling                                                                *)

LEMMA NewJobTyped ==
  ASSUME NEW sub \in Submission
  PROVE  /\ NewJob(sub, NoSubmission) \in Job
         /\ NewJob(sub, NoSubmission) # NoJob
         /\ NewJob(sub, NoSubmission).generation = sub.generation
         /\ NewJob(sub, NoSubmission).paths = sub.paths
         /\ NewJob(sub, NoSubmission).token = "running"
         /\ NewJob(sub, NoSubmission).pending = NoSubmission
  <1>1. NewJob(sub, NoSubmission) \in Job
    BY DEF NewJob, Job, Submission
  <1> QED BY <1>1, NamesAssumption DEF NewJob

LEMMA MergeTyped ==
  ASSUME NEW sub \in Submission, NEW other \in Submission
  PROVE  /\ merge(sub, other) \in Submission
         /\ merge(sub, other).generation = sub.generation
         /\ \A p : Covers(sub.paths, p) \/ Covers(other.paths, p) => Covers(merge(sub, other).paths, p)
  <1>1. union_paths(sub.paths, other.paths) \subseteq Path
    BY DEF union_paths, Submission
  <1>2. merge(sub, other) \in Submission /\ merge(sub, other).generation = sub.generation
        /\ merge(sub, other).paths = union_paths(sub.paths, other.paths)
    BY <1>1 DEF merge, Submission
  <1> QED BY <1>2 DEF union_paths, Covers

LEMMA WholeTyped ==
  ASSUME NEW sub \in Submission
  PROVE  /\ WholeCheckout(sub) \in Submission
         /\ WholeCheckout(sub).generation = sub.generation
         /\ WholeCheckout(sub).paths = {}
  BY DEF WholeCheckout, Submission

LEMMA FollowingTyped ==
  ASSUME NEW sub \in Submission
  PROVE  /\ Following(sub) \in Submission
         /\ Following(sub).generation = sub.generation
         /\ job.generation # sub.generation => Following(sub).paths = {}
         /\ \A p : Covers(sub.paths, p) => Covers(Following(sub).paths, p)
  <1>1. CASE job.generation # sub.generation
    BY <1>1, WholeTyped DEF Following, Covers
  <1>2. CASE job.generation = sub.generation /\ job.rescan
    BY <1>2 DEF Following, Covers, Submission
  <1>3. CASE job.generation = sub.generation /\ ~job.rescan
    BY <1>3 DEF Following
  <1> QED BY <1>1, <1>2, <1>3

(* A pending submission only grows, and takes the newest content.            *)
LEMMA NextPendingTyped ==
  ASSUME NEW sub \in Submission, job \in Job
  PROVE  /\ NextPending(sub) \in Submission
         /\ NextPending(sub).generation = sub.generation
         /\ \A p : Covers(sub.paths, p) => Covers(NextPending(sub).paths, p)
         /\ job.pending # NoSubmission =>
              \A p : Covers(job.pending.paths, p) => Covers(NextPending(sub).paths, p)
  <1>1. CASE job.pending = NoSubmission
    BY <1>1 DEF NextPending
  <1>2. CASE job.pending # NoSubmission /\ same_content(job.pending, sub)
    <2>1. job.pending \in Submission
      BY <1>2 DEF Job
    <2> QED BY <1>2, <2>1, MergeTyped DEF NextPending, same_content
  <1>3. CASE job.pending # NoSubmission /\ ~same_content(job.pending, sub)
    BY <1>3, WholeTyped DEF NextPending, Covers
  <1> QED BY <1>1, <1>2, <1>3

(* What a call of schedule leaves: the paths are with the new worker or with *)
(* the pending submission, and so is whatever was pending before.            *)
LEMMA Scheduled ==
  ASSUME TypeOK, JobInv, PendingInv, NEW paths \in SUBSET Path, Schedule(paths)
  PROVE  /\ job' \in Job /\ current' \in Submission
         /\ job # NoJob =>
              /\ current' = current /\ pc' = pc
              /\ job'.generation = job.generation /\ job'.token = job.token
              /\ job'.paths = job.paths
              /\ job'.pending \in Submission
              /\ job'.pending.generation = generation
              /\ job.generation # generation => job'.pending.paths = {}
              /\ \A p : Covers(paths, p) => Covers(job'.pending.paths, p)
              /\ job.pending # NoSubmission =>
                   \A p : Covers(job.pending.paths, p) => Covers(job'.pending.paths, p)
         /\ job = NoJob =>
              /\ pc' = "top"
              /\ current'.generation = generation
              /\ current'.paths = paths
              /\ job'.generation = generation /\ job'.token = "running"
              /\ job'.paths = paths
              /\ job'.pending = NoSubmission
  <1> DEFINE sub == [generation |-> generation, paths |-> paths, rescan |-> paths = {}]
  <1>1. sub \in Submission /\ sub.generation = generation /\ sub.paths = paths
    BY DEF Submission, TypeOK
  <1>2. CASE job = NoJob
    <2>1. job' = NewJob(sub, NoSubmission) /\ current' = sub /\ pc' = "top"
      BY <1>2 DEF Schedule
    <2> QED BY <1>1, <1>2, <2>1, NewJobTyped
  <1>3. CASE job # NoJob
    <2> DEFINE next == NextPending(Following(sub))
    <2>1. job \in Job
      BY <1>3 DEF TypeOK
    <2>2. /\ Following(sub) \in Submission
          /\ Following(sub).generation = generation
          /\ job.generation # generation => Following(sub).paths = {}
          /\ \A p : Covers(paths, p) => Covers(Following(sub).paths, p)
      BY <1>1, FollowingTyped
    <2>3. /\ next \in Submission
          /\ next.generation = generation
          /\ \A p : Covers(paths, p) => Covers(next.paths, p)
          /\ job.pending # NoSubmission =>
               \A p : Covers(job.pending.paths, p) => Covers(next.paths, p)
      BY <2>1, <2>2, NextPendingTyped
    <2>4. job.generation # generation => next.paths = {}
      <3> SUFFICES ASSUME job.generation # generation PROVE next.paths = {}
        OBVIOUS
      <3>1. Following(sub).paths = {}
        BY <2>2
      <3>2. CASE job.pending = NoSubmission
        BY <3>1, <3>2 DEF NextPending
      <3>3. CASE job.pending # NoSubmission /\ ~same_content(job.pending, Following(sub))
        BY <2>2, <3>3, WholeTyped DEF NextPending
      <3>4. CASE job.pending # NoSubmission /\ same_content(job.pending, Following(sub))
        <4>1. job.pending \in Submission
          BY <2>1, <3>4 DEF Job
        <4>2. next = merge(job.pending, Following(sub))
          BY <3>4 DEF NextPending
        <4> QED BY <3>1, <4>1, <4>2 DEF merge, union_paths, Submission
      <3> QED BY <3>2, <3>3, <3>4
    <2>5. job' = [job EXCEPT !.pending = next] /\ current' = current /\ pc' = pc
      BY <1>3 DEF Schedule
    <2>6. /\ job' \in Job /\ job'.pending = next
          /\ job'.generation = job.generation /\ job'.token = job.token
          /\ job'.paths = job.paths
      BY <2>1, <2>3, <2>5 DEF Job
    <2>7. current \in Submission
      BY <1>3 DEF JobInv
    <2> HIDE DEF next, sub
    <2> QED BY <1>3, <2>3, <2>4, <2>5, <2>6, <2>7
  <1> QED BY <1>2, <1>3

-----------------------------------------------------------------------------
(* Cancellation                                                              *)

LEMMA CancelledTyped ==
  ASSUME job \in Job
  PROVE  /\ Cancelled(job) \in Job
         /\ Cancelled(job) # NoJob
         /\ Cancelled(job).generation = job.generation
         /\ Cancelled(job).paths = job.paths
         /\ Cancelled(job).pending = job.pending
  <1>1. Cancelled(job) \in Job
    BY DEF Cancelled, Job
  <1> QED BY <1>1, NamesAssumption DEF Cancelled, Job

LEMMA CancelForContextTyped ==
  ASSUME job \in Job \cup {NoJob}, CancelForContext
  PROVE  /\ job' \in Job \cup {NoJob}
         /\ job = NoJob <=> job' = NoJob
         /\ job # NoJob => /\ job'.generation = job.generation /\ job'.pending = NoSubmission
                           /\ job'.paths = job.paths
  <1>1. CASE job = NoJob
    BY <1>1 DEF CancelForContext
  <1>2. CASE job # NoJob
    <2>1. Cancelled(job) \in Job /\ Cancelled(job).generation = job.generation
          /\ Cancelled(job).paths = job.paths
      BY <1>2, CancelledTyped
    <2>2. job' = [Cancelled(job) EXCEPT !.pending = NoSubmission]
      BY <1>2 DEF CancelForContext
    <2>3. job' \in Job /\ job'.generation = job.generation /\ job'.pending = NoSubmission
          /\ job'.paths = job.paths
      BY <2>1, <2>2 DEF Job
    <2> QED BY <1>2, <2>3, NamesAssumption
  <1> QED BY <1>1, <1>2

(* What a poll that stops the worker does to the job: nothing while the root *)
(* is there, except that an abandoned batch is cancelled.                    *)
Polled ==
  /\ job' \in Job /\ job' # NoJob
  /\ job'.generation = job.generation /\ job'.paths = job.paths
  /\ job'.pending \in {job.pending, NoSubmission}
  /\ runtime' \in BOOLEAN /\ retry' \in {"none", "future", "passed"}
  /\ present => /\ job'.pending = job.pending /\ runtime' = runtime
                /\ job' = job \/ binding = "abandoned"

LEMMA SignalPolls ==
  ASSUME TypeOK, job # NoJob, Signal
  PROVE  Polled /\ (present => binding = "abandoned")
  <1>1. job \in Job
    BY DEF TypeOK
  <1> QED BY <1>1, CancelledTyped DEF Signal, Polled, TypeOK, MayCancel

LEMMA RetirePolls ==
  ASSUME TypeOK, job # NoJob, Retire
  PROVE  Polled /\ ~present
  <1>1. job \in Job
    BY DEF TypeOK
  <1> QED BY <1>1, CancelForContextTyped DEF Retire, Polled, TypeOK

LEMMA StopsPolls ==
  ASSUME TypeOK, job # NoJob, Stops
  PROVE  /\ Polled
         /\ present => \/ binding = "abandoned"
                       \/ job.token = "cancelled" \/ generation # current.generation
  <1>1. CASE Retire
    BY <1>1, RetirePolls
  <1>2. CASE Signal
    BY <1>2, SignalPolls
  <1>3. CASE UNCHANGED <<job, runtime, retry>>
            /\ (job.token = "cancelled" \/ generation # current.generation)
    BY <1>3 DEF Polled, TypeOK
  <1> QED BY <1>1, <1>2, <1>3 DEF Stops

-----------------------------------------------------------------------------
(* Where an edit is on its way                                               *)

(* A step that leaves the stages and the pending submission alone.           *)
StagesKept ==
  /\ reported' = reported /\ overflow' = overflow /\ drain' = drain
  /\ generation' = generation
  /\ job # NoJob => job' # NoJob /\ job'.pending = job.pending

LEMMA UpstreamKept ==
  ASSUME reported' = reported, overflow' = overflow, drain' = drain,
         generation' = generation, NEW p, Upstream(p)
  PROVE  Upstream(p)'
  BY DEF Upstream, InSlice

LEMMA ElsewhereKept ==
  ASSUME StagesKept, NEW p, Elsewhere(p)
  PROVE  Elsewhere(p)'
  BY UpstreamKept DEF StagesKept, Elsewhere

(* A step that keeps the root's binding, its view and what is unpublished,   *)
(* and moves nothing out of the watcher and the drain.                       *)
LEMMA GivenUpKept ==
  ASSUME GivenUpInv, present' = present, binding' = binding,
         present /\ runtime => runtime',
         Unpublished' \subseteq Unpublished,
         \A p \in Unpublished : Upstream(p) => Upstream(p)'
  PROVE  GivenUpInv'
  BY DEF GivenUpInv

LEMMA Gone ==
  ASSUME ~present'
  PROVE  CarriedInv' /\ DroppedInv' /\ GivenUpInv'
  BY DEF CarriedInv, DroppedInv, GivenUpInv

-----------------------------------------------------------------------------
(* The worker                                                                *)

LEMMA InitInv == ASSUME Init PROVE IInv
  <1>1. TypeOK
    <2>1. drain \in Slice
      BY DEF Init, NewSlice, Slice
    <2>2. query \in 0..Answered /\ disturbances \in 0..MaxDisturbances
      BY PublicationAssumption, StagesTyped DEF Init
    <2> QED BY PublicationAssumption, <2>1, <2>2 DEF Init, TypeOK
  <1>2. JobInv /\ PendingInv /\ MovedInv
    BY DEF Init, JobInv, PendingInv, MovedInv
  <1>3. Unpublished = {}
    BY DEF Init, Unpublished
  <1>4. CarriedInv /\ DroppedInv /\ GivenUpInv
    BY <1>3 DEF CarriedInv, DroppedInv, GivenUpInv
  <1> QED BY <1>1, <1>2, <1>4 DEF IInv

(* The worker drops its batch: nothing depended on it.                       *)
LEMMA StopStep ==
  ASSUME IInv, pc \in {"top", "failed"}, pc' = "stop", Polled,
         present => \/ binding = "abandoned"
                    \/ job.token = "cancelled" \/ generation # current.generation
                    \/ ~runtime,
         UNCHANGED <<WorkerFrame, current, prepared, unread, moved, disturbances>>
  PROVE  IInv'
  <1> USE DEF WorkerFrame, watcher, draining, asking
  <1>0. job # NoJob
    BY DEF IInv, JobInv
  <1>1. TypeOK'
    BY StagesTyped DEF IInv, TypeOK, Polled
  <1>2. JobInv' /\ PendingInv'
    BY <1>0 DEF IInv, JobInv, PendingInv, Polled
  <1>3. MovedInv'
    BY DEF IInv, MovedInv, Polled
  <1>4. CASE ~present
    <2>1. ~present'
      BY <1>4
    <2> QED BY <1>1, <1>2, <1>3, <2>1, Gone DEF IInv
  <1>5. CASE present
    <2>1. StagesKept
      BY <1>0, <1>5 DEF StagesKept, Polled
    <2>2. \A p \in Unpublished : Elsewhere(p)
      <3>1. CASE binding = "abandoned" \/ ~runtime
        BY <1>5, <3>1 DEF IInv, GivenUpInv, Elsewhere
      <3>2. CASE job.token = "cancelled" \/ generation # current.generation
        BY <1>0, <1>5, <3>2 DEF IInv, DroppedInv
      <3> QED BY <1>5, <3>1, <3>2
    <2>3. \A p \in Unpublished' : Elsewhere(p)'
      BY <2>1, <2>2, ElsewhereKept DEF Unpublished
    <2>4. CarriedInv' /\ DroppedInv'
      BY <2>3 DEF CarriedInv, DroppedInv
    <2>5. GivenUpInv'
      BY <1>5, GivenUpKept, UpstreamKept DEF IInv, Unpublished, Polled
    <2> QED BY <1>1, <1>2, <1>3, <2>4, <2>5 DEF IInv
  <1> QED BY <1>4, <1>5

(* An attempt ends and its batch is kept, to be repeated.                    *)
LEMMA FailStep ==
  ASSUME IInv, pc \in {"slot", "reading", "gate"}, EndAttempt("failed"), Polled,
         disturbances' \in 0..MaxDisturbances,
         UNCHANGED <<WorkerFrame, current>>
  PROVE  IInv'
  <1> USE DEF WorkerFrame, watcher, draining, asking
  <1>0. job # NoJob
    BY DEF IInv, JobInv
  <1>1. TypeOK'
    BY StagesTyped DEF IInv, TypeOK, Polled, EndAttempt
  <1>2. JobInv' /\ PendingInv'
    BY <1>0 DEF IInv, JobInv, PendingInv, Polled, EndAttempt
  <1>3. MovedInv'
    BY DEF IInv, MovedInv, Polled, EndAttempt
  <1>4. CASE ~present
    <2>1. ~present'
      BY <1>4
    <2> QED BY <1>1, <1>2, <1>3, <2>1, Gone DEF IInv
  <1>5. CASE present
    <2>1. StagesKept
      BY <1>0, <1>5 DEF StagesKept, Polled
    <2>2. \A p : CarriedByBatch(p) => CarriedByBatch(p)'
      BY DEF CarriedByBatch, EndAttempt
    <2>3. \A p : Elsewhere(p) => Elsewhere(p)'
      BY <2>1, ElsewhereKept
    <2>4. CarriedInv'
      BY <1>0, <1>5, <2>2, <2>3 DEF IInv, CarriedInv, Unpublished, Polled
    <2>5. DroppedInv'
      <3>1. CASE binding = "abandoned"
        <4>1. \A p \in Unpublished : Elsewhere(p)
          BY <1>5, <3>1 DEF IInv, GivenUpInv, Elsewhere
        <4> QED BY <2>3, <4>1 DEF DroppedInv, Unpublished
      <3>2. CASE job' = job
        BY <1>0, <1>5, <2>3, <3>2 DEF IInv, DroppedInv, Unpublished
      <3> QED BY <1>5, <3>1, <3>2 DEF Polled
    <2>6. GivenUpInv'
      BY <1>5, GivenUpKept, UpstreamKept DEF IInv, Unpublished, Polled
    <2> QED BY <1>1, <1>2, <1>3, <2>4, <2>5, <2>6 DEF IInv
  <1> QED BY <1>4, <1>5

(* The worker moves on with its batch; the job is as it was.                 *)
LEMMA ProceedStep ==
  ASSUME IInv, job # NoJob, job' = job, runtime' = runtime,
         retry' \in {"none", "future", "passed"}, prepared' \in Nat,
         unread' \subseteq Member, moved' = moved, moved \cap unread' = {},
         pc' \in {"slot", "reading", "gate", "installed", "retry", "stop"},
         pc' \notin {"reading", "gate"} => moved = {},
         \A p \in Member : CarriedByBatch(p) => CarriedByBatch(p)',
         UNCHANGED <<WorkerFrame, current, disturbances>>
  PROVE  IInv'
  <1> USE DEF WorkerFrame, watcher, draining, asking
  <1>1. TypeOK'
    BY StagesTyped DEF IInv, TypeOK
  <1>2. JobInv' /\ PendingInv'
    BY DEF IInv, JobInv, PendingInv
  <1>3. MovedInv'
    BY DEF IInv, MovedInv
  <1>4. StagesKept
    BY DEF StagesKept
  <1>5. \A p : Elsewhere(p) => Elsewhere(p)'
    BY <1>4, ElsewhereKept
  <1>6. Unpublished' = Unpublished /\ Unpublished \subseteq Member
    BY DEF Unpublished, IInv, TypeOK
  <1>7. CarriedInv'
    BY <1>5, <1>6 DEF IInv, CarriedInv
  <1>8. DroppedInv'
    BY <1>5, <1>6 DEF IInv, DroppedInv
  <1>9. GivenUpInv'
    BY <1>6, GivenUpKept, UpstreamKept DEF IInv
  <1> QED BY <1>1, <1>2, <1>3, <1>7, <1>8, <1>9 DEF IInv

(* An installed batch leaves out only what it did not cover and what changed *)
(* behind it.                                                                *)
LEMMA InstallStep ==
  ASSUME IInv, Commit, generation = prepared
  PROVE  IInv'
  <1> DEFINE read == {p \in Member : Covers(current.paths, p)}
  <1>0. /\ pc = "gate" /\ job # NoJob /\ job \in Job
        /\ dirty' = (dirty \ read) \cup (moved \cap read)
        /\ forgiven' = forgiven \cap dirty'
        /\ runtime' = TRUE /\ published' = TRUE
        /\ job' = [job EXCEPT !.token = "committed"]
        /\ EndAttempt("installed")
        /\ UNCHANGED <<present, binding, generation, tail, retry, watcher,
                       draining, asking, current, disturbances>>
    BY DEF Commit, IInv, JobInv, TypeOK
  <1>1. /\ job' \in Job /\ job' # NoJob
        /\ job'.generation = job.generation /\ job'.pending = job.pending
        /\ job'.paths = job.paths
    <2>1. /\ job' \in Job
          /\ job'.generation = job.generation /\ job'.pending = job.pending
          /\ job'.paths = job.paths
      BY <1>0 DEF Job
    <2> QED BY <2>1, NamesAssumption
  <1>2. dirty' \subseteq dirty /\ Unpublished' \subseteq Unpublished
    BY <1>0 DEF Unpublished, IInv, MovedInv
  <1>3. TypeOK'
    BY <1>0, <1>1, <1>2, StagesTyped DEF IInv, TypeOK, EndAttempt, watcher, draining, asking
  <1>4. JobInv' /\ PendingInv'
    BY <1>0, <1>1 DEF IInv, JobInv, PendingInv, EndAttempt
  <1>5. MovedInv'
    BY <1>0 DEF MovedInv, EndAttempt
  <1>6. StagesKept
    BY <1>0, <1>1 DEF StagesKept, watcher, draining
  <1>7. ASSUME present, NEW p \in Unpublished' PROVE Elsewhere(p)'
    <2>1. p \in Member /\ (p \notin read \/ p \in moved)
      BY <1>0, <1>2 DEF Unpublished, IInv, TypeOK
    <2>2. ~ CarriedByBatch(p)
      BY <1>0, <2>1 DEF CarriedByBatch, IInv, MovedInv
    <2>3. Elsewhere(p)
      BY <1>2, <1>7, <2>2 DEF IInv, CarriedInv
    <2> QED BY <1>6, <1>7, <2>3, ElsewhereKept
  <1>8. CarriedInv' /\ DroppedInv'
    BY <1>0, <1>7 DEF CarriedInv, DroppedInv
  <1>9. GivenUpInv'
    BY <1>0, <1>2, <1>6, GivenUpKept, UpstreamKept DEF IInv, StagesKept
  <1> QED BY <1>3, <1>4, <1>5, <1>8, <1>9 DEF IInv

(* The batch the worker goes on with has the pending submission and, if it   *)
(* repeats a failed one, that one as well.                                   *)
LEMMA AdvancedTyped ==
  ASSUME IInv, job # NoJob, NEW retrying \in BOOLEAN,
         job.pending # NoSubmission \/ retrying
  PROVE  /\ Advanced(retrying) \in Submission
         /\ Advanced(retrying).generation <= generation
         /\ job.pending = NoSubmission => Advanced(retrying) = current
         /\ job.pending # NoSubmission =>
              /\ Advanced(retrying).generation = job.pending.generation
              /\ \A p : Covers(job.pending.paths, p) => Covers(Advanced(retrying).paths, p)
         /\ retrying =>
              \A p : Covers(current.paths, p) => Covers(Advanced(retrying).paths, p)
  <1>0. job \in Job /\ current \in Submission /\ current.generation <= generation
    BY DEF IInv, TypeOK, JobInv
  <1>1. CASE job.pending = NoSubmission
    BY <1>0, <1>1 DEF Advanced
  <1>2. CASE job.pending # NoSubmission
    <2>1. /\ job.pending \in Submission /\ job.pending.generation <= generation
          /\ job.pending.generation # current.generation => job.pending.paths = {}
      BY <1>0, <1>2 DEF Job, IInv, PendingInv
    <2>2. CASE retrying /\ same_content(job.pending, current)
      <3>1. Advanced(retrying) = merge(job.pending, current)
        BY <1>2, <2>2 DEF Advanced
      <3> QED BY <1>0, <1>2, <2>1, <3>1, MergeTyped
    <2>3. CASE ~ (retrying /\ same_content(job.pending, current))
      <3>1. Advanced(retrying) = job.pending
        BY <1>2, <2>3 DEF Advanced
      <3> QED BY <1>2, <2>1, <2>3, <3>1 DEF same_content, Covers
    <2> QED BY <2>2, <2>3
  <1> QED BY <1>1, <1>2

LEMMA AdvanceStep ==
  ASSUME IInv, Advance
  PROVE  IInv'
  <1> USE DEF WorkerFrame, watcher, draining, asking
  <1>0. /\ pc \in {"stop", "retry"} /\ job # NoJob /\ job \in Job
        /\ UNCHANGED <<WorkerFrame, runtime, retry, prepared, unread, moved, disturbances>>
    BY DEF Advance, IInv, JobInv, TypeOK
  <1>1. PICK signal \in {FALSE, MayCancel} :
          LET retrying == pc = "retry" /\ job.token # "cancelled" /\ ~signal
              next == Advanced(retrying)
          IN  IF job.pending = NoSubmission /\ ~retrying
              THEN /\ job' = NoJob
                   /\ pc' = "idle"
                   /\ current' = NoSubmission
              ELSE /\ job' = NewJob(next, NoSubmission)
                   /\ pc' = "top"
                   /\ current' = next
    BY DEF Advance
  <1> DEFINE retrying == pc = "retry" /\ job.token # "cancelled" /\ ~signal
  <1>2. Unpublished' = Unpublished /\ (\A p : Upstream(p) => Upstream(p)')
    BY <1>0, UpstreamKept DEF Unpublished
  <1>3. ASSUME present, ~retrying, NEW p \in Unpublished PROVE Elsewhere(p)
    <2>1. CASE pc = "stop"
      BY <1>3, <2>1 DEF IInv, CarriedInv, CarriedByBatch
    <2>2. CASE job.token = "cancelled"
      BY <1>0, <1>3, <2>2 DEF IInv, DroppedInv
    <2>3. CASE signal
      BY <1>1, <1>3, <2>3 DEF MayCancel, IInv, GivenUpInv, Elsewhere
    <2> QED BY <1>0, <1>3, <2>1, <2>2, <2>3
  <1>4. GivenUpInv'
    BY <1>0, <1>2, GivenUpKept DEF IInv
  <1>5. MovedInv'
    <2>1. pc' \notin {"reading", "gate"} /\ moved' = {}
      BY <1>0, <1>1 DEF IInv, MovedInv
    <2> QED BY <1>0, <2>1 DEF IInv, MovedInv
  <1>6. CASE job.pending = NoSubmission /\ ~retrying
    <2>1. job' = NoJob /\ pc' = "idle" /\ current' = NoSubmission
      BY <1>1, <1>6
    <2>2. TypeOK'
      BY <1>0, <2>1, StagesTyped DEF IInv, TypeOK
    <2>3. JobInv' /\ PendingInv' /\ DroppedInv'
      BY <2>1 DEF JobInv, PendingInv, DroppedInv
    <2>4. CarriedInv'
      BY <1>0, <1>2, <1>3, <1>6 DEF CarriedInv, Elsewhere
    <2> QED BY <1>4, <1>5, <2>2, <2>3, <2>4 DEF IInv
  <1>7. CASE ~ (job.pending = NoSubmission /\ ~retrying)
    <2> DEFINE next == Advanced(retrying)
    <2>1. job' = NewJob(next, NoSubmission) /\ pc' = "top" /\ current' = next
      BY <1>1, <1>7
    <2>2. /\ next \in Submission
          /\ next.generation <= generation
          /\ job.pending = NoSubmission => next = current
          /\ job.pending # NoSubmission =>
               /\ next.generation = job.pending.generation
               /\ \A p : Covers(job.pending.paths, p) => Covers(next.paths, p)
          /\ retrying => \A p : Covers(current.paths, p) => Covers(next.paths, p)
      BY <1>0, <1>7, AdvancedTyped
    <2> HIDE DEF next
    <2>3. /\ job' \in Job /\ job' # NoJob /\ job'.token = "running"
          /\ job'.generation = next.generation /\ job'.pending = NoSubmission
          /\ job'.paths = next.paths
      BY <2>1, <2>2, NewJobTyped
    <2>4. TypeOK'
      BY <1>0, <2>1, <2>2, <2>3, StagesTyped DEF IInv, TypeOK
    <2>5. JobInv' /\ PendingInv'
      BY <1>0, <2>1, <2>2, <2>3 DEF JobInv, PendingInv
    <2>6. CarriedInv'
      <3> SUFFICES ASSUME present, NEW p \in Unpublished
                   PROVE  Elsewhere(p)' \/ CarriedByBatch(p)'
        BY <1>0, <1>2, <2>3 DEF CarriedInv
      <3>1. CASE Upstream(p)
        BY <1>2, <3>1 DEF Elsewhere
      <3>2. CASE Elsewhere(p) /\ ~Upstream(p)
        BY <2>1, <2>2, <3>2 DEF Elsewhere, CarriedByBatch
      <3>3. CASE ~Elsewhere(p)
        <4>1. retrying /\ CarriedByBatch(p)
          BY <1>3, <3>3 DEF IInv, CarriedInv
        <4> QED BY <2>1, <2>2, <4>1 DEF CarriedByBatch
      <3> QED BY <3>1, <3>2, <3>3
    <2>7. DroppedInv'
      <3> SUFFICES ASSUME present, generation # next.generation, NEW p \in Unpublished
                   PROVE  Elsewhere(p)'
        BY <1>0, <1>2, <2>1, <2>3 DEF DroppedInv
      <3>1. generation # current.generation
        BY <1>0, <2>2 DEF IInv, PendingInv, JobInv, TypeOK, Submission, Job
      <3>2. Elsewhere(p)
        BY <1>0, <3>1 DEF IInv, DroppedInv
      <3>3. Upstream(p)
        BY <2>2, <3>2 DEF Elsewhere
      <3> QED BY <1>2, <3>3 DEF Elsewhere
    <2> QED BY <1>4, <1>5, <2>4, <2>5, <2>6, <2>7 DEF IInv
  <1> QED BY <1>6, <1>7

LEMMA WorkerStep ==
  ASSUME IInv, Worker
  PROVE  IInv'
  <1>0. pc # "idle" => job # NoJob
    BY DEF IInv, JobInv
  <1>t. TypeOK /\ MovedInv
    BY DEF IInv
  <1>1. CASE StopAtTop
    BY <1>0, <1>1, <1>t, StopsPolls, StopStep DEF StopAtTop
  <1>2. CASE StopAfterFailure
    <2>1. CASE Stops
      BY <1>0, <1>2, <1>t, <2>1, StopsPolls, StopStep DEF StopAfterFailure
    <2>2. CASE ~runtime /\ UNCHANGED <<job, runtime, retry>>
      <3>1. Polled
        BY <1>0, <1>2, <1>t, <2>2 DEF StopAfterFailure, Polled, TypeOK
      <3> QED BY <1>2, <2>2, <3>1, StopStep DEF StopAfterFailure
    <2> QED BY <1>2, <2>1, <2>2 DEF StopAfterFailure
  <1>3. CASE GiveUp
    <2>1. job # NoJob /\ pc \in {"slot", "reading", "gate"} /\ disturbances' \in 0..MaxDisturbances
      BY <1>0, <1>3, <1>t DEF GiveUp, TypeOK
    <2>2. Polled
      <3>1. CASE Signal
        BY <1>t, <2>1, <3>1, SignalPolls
      <3>2. CASE Retire
        BY <1>t, <2>1, <3>2, RetirePolls
      <3>3. CASE UNCHANGED <<job, runtime, retry>>
        BY <1>t, <2>1, <3>3 DEF Polled, TypeOK
      <3> QED BY <1>3, <3>1, <3>2, <3>3 DEF GiveUp
    <2> QED BY <1>3, <2>1, <2>2, FailStep DEF GiveUp
  <1>4. CASE AttemptFails
    <2>1. Polled
      BY <1>0, <1>4, <1>t DEF AttemptFails, Polled, TypeOK
    <2>2. disturbances' \in 0..MaxDisturbances
      BY <1>4, <1>t, PublicationAssumption DEF AttemptFails, Disturb, TypeOK
    <2> QED BY <1>4, <2>1, <2>2, FailStep DEF AttemptFails
  <1>5. CASE Commit
    <2>1. CASE generation = prepared
      BY <1>5, <2>1, InstallStep
    <2>2. CASE generation # prepared
      <3>1. /\ pc = "gate" /\ EndAttempt("failed")
            /\ UNCHANGED <<dirty, forgiven, runtime, published, job>>
            /\ UNCHANGED <<present, binding, generation, tail, retry, watcher,
                           draining, asking, current, disturbances>>
        BY <1>5, <2>2 DEF Commit
      <3>2. Polled /\ disturbances' \in 0..MaxDisturbances
        BY <1>0, <1>t, <3>1 DEF Polled, TypeOK
      <3>3. UNCHANGED <<WorkerFrame, current>>
        BY <3>1 DEF WorkerFrame
      <3> QED BY <3>1, <3>2, <3>3, FailStep
    <2> QED BY <2>1, <2>2
  <1>6. CASE Advance
    BY <1>6, AdvanceStep
  <1>7. CASE StartAttempt
    <2>1. \A p \in Member : CarriedByBatch(p) => CarriedByBatch(p)'
      BY <1>7 DEF StartAttempt, CarriedByBatch, Covers
    <2> QED BY <1>0, <1>7, <1>t, <2>1, ProceedStep DEF StartAttempt, MovedInv, TypeOK
  <1>8. CASE BeginPrepare
    <2>1. \A p \in Member : CarriedByBatch(p) => CarriedByBatch(p)'
      BY <1>8 DEF BeginPrepare, CarriedByBatch
    <2>2. moved = {}
      BY <1>8, <1>t DEF BeginPrepare, MovedInv
    <2> QED BY <1>0, <1>8, <1>t, <2>1, <2>2, ProceedStep DEF BeginPrepare, TypeOK
  <1>9. CASE \E p \in Path : ReadMember(p)
    <2>1. PICK p \in Path : ReadMember(p)
      BY <1>9
    <2>2. \A q \in Member : CarriedByBatch(q) => CarriedByBatch(q)'
      BY <2>1, <1>t DEF ReadMember, CarriedByBatch, MovedInv
    <2> QED BY <1>0, <1>t, <2>1, <2>2, ProceedStep DEF ReadMember, MovedInv, TypeOK
  <1>10. CASE EndPrepare
    <2>1. \A p \in Member : CarriedByBatch(p) => CarriedByBatch(p)'
      BY <1>10 DEF EndPrepare, CarriedByBatch
    <2> QED BY <1>0, <1>10, <1>t, <2>1, ProceedStep DEF EndPrepare, MovedInv, TypeOK
  <1>11. CASE Installed
    <2>1. \A p \in Member : CarriedByBatch(p) => CarriedByBatch(p)'
      BY <1>11 DEF Installed, CarriedByBatch
    <2> QED BY <1>0, <1>11, <1>t, <2>1, ProceedStep DEF Installed, MovedInv, TypeOK
  <1>12. CASE Failed
    <2>1. \A p \in Member : CarriedByBatch(p) => CarriedByBatch(p)'
      BY <1>12 DEF Failed, CarriedByBatch
    <2> QED BY <1>0, <1>12, <1>t, <2>1, ProceedStep DEF Failed, MovedInv, TypeOK
  <1> QED BY <1>1, <1>2, <1>3, <1>4, <1>5, <1>6, <1>7, <1>8, <1>9, <1>10, <1>11, <1>12
          DEF Worker
-----------------------------------------------------------------------------
(* The checkout, its bindings, the drain and the queries                     *)

(* A step past which every edit is with the watcher or the drain.            *)
LEMMA AllUpstream ==
  ASSUME \A p \in Unpublished' : Upstream(p)'
  PROVE  CarriedInv' /\ DroppedInv' /\ GivenUpInv'
  BY DEF CarriedInv, DroppedInv, GivenUpInv, Elsewhere

LEMMA TableKept ==
  ASSUME IInv, UNCHANGED <<generation, job, current, unread, pc, dirty, moved>>
  PROVE  JobInv' /\ PendingInv' /\ MovedInv'
  BY DEF IInv, JobInv, PendingInv, MovedInv

(* A step that leaves the job table and the worker alone, and moves edits    *)
(* only from the channel to the slice.                                       *)
LEMMA EditsKept ==
  ASSUME IInv, UNCHANGED <<generation, job, current, unread, pc, moved>>,
         present' => present,
         binding' = "abandoned" \/ ~runtime' => binding = "abandoned" \/ ~runtime,
         Unpublished' \subseteq Unpublished,
         \A p \in Unpublished' : Upstream(p) => Upstream(p)'
  PROVE  CarriedInv' /\ DroppedInv' /\ GivenUpInv'
  <1>1. \A p \in Unpublished' : Elsewhere(p) => Elsewhere(p)'
    BY DEF Elsewhere
  <1>2. \A p : CarriedByBatch(p) => CarriedByBatch(p)'
    BY DEF CarriedByBatch
  <1>3. CarriedInv'
    BY <1>1, <1>2 DEF IInv, CarriedInv
  <1>4. DroppedInv'
    BY <1>1 DEF IInv, DroppedInv
  <1>5. GivenUpInv'
    BY DEF IInv, GivenUpInv
  <1> QED BY <1>3, <1>4, <1>5

LEMMA SliceTyped == \A g \in Nat : NewSlice(g) \in Slice
  BY DEF NewSlice, Slice

LEMMA EditStep ==
  ASSUME IInv, NEW p \in Path, Edit(p)
  PROVE  IInv'
  <1> USE DEF world, watcher, draining, worker, asking
  <1>0. TypeOK /\ MovedInv /\ JobInv
    BY DEF IInv
  <1>1. disturbances' \in 0..MaxDisturbances
    BY <1>0, PublicationAssumption DEF Edit, Disturb, TypeOK
  <1>2. JobInv' /\ PendingInv'
    BY DEF Edit, IInv, JobInv, PendingInv
  <1>3. MovedInv'
    BY <1>0 DEF Edit, MovedInv
  <1>4. CASE watching
    <2>0. reported' = reported \cup {p} /\ forgiven' = forgiven \ {p} /\ missed' = missed
      BY <1>4 DEF Edit
    <2>1. TypeOK'
      BY <1>0, <1>1, <2>0, StagesTyped DEF Edit, TypeOK
    <2>2. Unpublished' \subseteq Unpublished \cup {p} /\ p \in reported'
      BY <2>0 DEF Edit, Unpublished
    <2>3. \A q : Upstream(q) => Upstream(q)'
      BY <2>0 DEF Edit, Upstream, InSlice
    <2>4. \A q : Elsewhere(q) => Elsewhere(q)'
      BY <2>3 DEF Edit, Elsewhere
    <2>5. Upstream(p)' /\ Elsewhere(p)'
      BY <2>2 DEF Elsewhere, Upstream
    <2>6. \A q : q # p /\ CarriedByBatch(q) => CarriedByBatch(q)'
      BY DEF Edit, CarriedByBatch
    <2>7. CarriedInv'
      BY <2>2, <2>4, <2>5, <2>6 DEF IInv, CarriedInv, Edit
    <2>8. DroppedInv'
      BY <2>2, <2>4, <2>5 DEF IInv, DroppedInv, Edit
    <2>9. GivenUpInv'
      BY <2>2, <2>3, <2>5 DEF IInv, GivenUpInv, Edit
    <2> QED BY <1>2, <1>3, <2>1, <2>7, <2>8, <2>9 DEF IInv
  <1>5. CASE ~watching
    <2>0. /\ reported' = reported /\ forgiven' = forgiven \cup ({p} \cap Member)
          /\ missed' = missed \ ({p} \cap Member)
      BY <1>5 DEF Edit, Forgive
    <2>1. TypeOK'
      BY <1>0, <1>1, <2>0, StagesTyped DEF Edit, TypeOK
    <2>2. Unpublished' \subseteq Unpublished /\ p \notin Unpublished'
      BY <1>0, <2>0, PublicationAssumption DEF Edit, Unpublished, TypeOK
    <2>3. \A q : Upstream(q) => Upstream(q)'
      BY <2>0 DEF Edit, Upstream, InSlice
    <2>4. \A q : Elsewhere(q) => Elsewhere(q)'
      BY <2>3 DEF Edit, Elsewhere
    <2>6. \A q : q # p /\ CarriedByBatch(q) => CarriedByBatch(q)'
      BY DEF Edit, CarriedByBatch
    <2>7. CarriedInv'
      BY <2>2, <2>4, <2>6 DEF IInv, CarriedInv, Edit
    <2>8. DroppedInv'
      BY <2>2, <2>4 DEF IInv, DroppedInv, Edit
    <2>9. GivenUpInv'
      BY <2>2, <2>3 DEF IInv, GivenUpInv, Edit
    <2> QED BY <1>2, <1>3, <2>1, <2>7, <2>8, <2>9 DEF IInv
  <1> QED BY <1>4, <1>5

LEMMA DisturbanceStep ==
  ASSUME IInv, Disturbance
  PROVE  IInv'
  <1> USE DEF world, watcher, draining, worker, asking
  <1>0. TypeOK /\ MovedInv /\ JobInv
    BY DEF IInv
  <1>1. CASE \E p \in Path : Edit(p)
    BY <1>1, EditStep
  <1>2. CASE LoseEvents
    <2>1. disturbances' \in 0..MaxDisturbances
      BY <1>0, <1>2 DEF LoseEvents, TypeOK
    <2>2. TypeOK'
      <3>1. overflow' \in BOOLEAN /\ reported' \subseteq Path
        BY <1>2 DEF LoseEvents
      <3> QED BY <1>0, <1>2, <2>1, <3>1, StagesTyped DEF LoseEvents, TypeOK
    <2>3. JobInv' /\ PendingInv' /\ MovedInv'
      BY <1>2, TableKept DEF LoseEvents
    <2>4. \A p : Upstream(p)'
      BY <1>2 DEF LoseEvents, Upstream
    <2> QED BY <2>2, <2>3, <2>4, AllUpstream DEF IInv
  <1>3. CASE DeleteRoot
    <2>1. disturbances' \in 0..MaxDisturbances
      BY <1>0, <1>3, PublicationAssumption DEF DeleteRoot, Disturb, TypeOK
    <2>2. TypeOK'
      <3>1. present' \in BOOLEAN
        BY <1>3 DEF DeleteRoot
      <3> QED BY <1>0, <1>3, <2>1, <3>1, StagesTyped DEF DeleteRoot, TypeOK
    <2>3. JobInv' /\ PendingInv' /\ MovedInv'
      BY <1>3, TableKept DEF DeleteRoot
    <2>4. ~present'
      BY <1>3 DEF DeleteRoot
    <2> QED BY <2>2, <2>3, <2>4, Gone DEF IInv
  <1>4. CASE Unbind
    <2>1. /\ disturbances' \in 0..MaxDisturbances
          /\ drainer' \in {"idle", "receiving", "stale", "publishing"}
      BY <1>0, <1>4, PublicationAssumption DEF Unbind, Disturb, TypeOK
    <2>2. CASE present
      <3>1. job' = job
        BY <1>4, <2>2 DEF Unbind
      <3>2. TypeOK'
        BY <1>0, <1>4, <2>1, <3>1, StagesTyped DEF Unbind, TypeOK
      <3>3. JobInv' /\ PendingInv' /\ MovedInv'
        BY <1>4, <3>1, TableKept DEF Unbind
      <3>4. CarriedInv' /\ DroppedInv' /\ GivenUpInv'
        <4>1. Unpublished' = Unpublished
          BY <1>4 DEF Unbind, Unpublished
        <4>2. \A p : Upstream(p) => Upstream(p)'
          BY <1>4, UpstreamKept DEF Unbind
        <4>3. /\ UNCHANGED <<generation, job, current, unread, pc, moved>>
              /\ present' => present
              /\ binding' = "abandoned" \/ ~runtime' => binding = "abandoned" \/ ~runtime
          BY <1>4, <3>1 DEF Unbind
        <4> QED BY <4>1, <4>2, <4>3, EditsKept
      <3> QED BY <3>2, <3>3, <3>4 DEF IInv
    <2>3. CASE ~present
      <3>1. CancelForContext /\ job \in Job \cup {NoJob}
        BY <1>0, <1>4, <2>3 DEF Unbind, TypeOK
      <3>2. /\ job' \in Job \cup {NoJob}
            /\ job = NoJob <=> job' = NoJob
            /\ job # NoJob => /\ job'.generation = job.generation /\ job'.pending = NoSubmission
                              /\ job'.paths = job.paths
        BY <3>1, CancelForContextTyped
      <3>3. TypeOK'
        BY <1>0, <1>4, <2>1, <3>2, StagesTyped DEF Unbind, TypeOK
      <3>4. JobInv' /\ PendingInv' /\ MovedInv'
        BY <1>4, <3>2 DEF Unbind, IInv, JobInv, PendingInv, MovedInv
      <3>5. ~present'
        BY <1>4, <2>3 DEF Unbind
      <3> QED BY <3>3, <3>4, <3>5, Gone DEF IInv
    <2> QED BY <2>2, <2>3
  <1>5. CASE GraceEnds
    <2>1. disturbances' \in 0..MaxDisturbances
      BY <1>0, <1>5, PublicationAssumption DEF GraceEnds, Disturb, TypeOK
    <2>2. TypeOK'
      BY <1>0, <1>5, <2>1, StagesTyped DEF GraceEnds, TypeOK
    <2>3. JobInv' /\ PendingInv' /\ MovedInv'
      BY <1>5, TableKept DEF GraceEnds
    <2>4. \A p \in Unpublished' : Upstream(p)
      BY <1>5 DEF GraceEnds, Unpublished
    <2>5. \A p \in Unpublished' : Upstream(p)'
      BY <1>5, <2>4, UpstreamKept DEF GraceEnds
    <2> QED BY <2>2, <2>3, <2>5, AllUpstream DEF IInv
  <1>6. CASE Configure
    <2>1. /\ disturbances' \in 0..MaxDisturbances
          /\ generation' \in Nat
          /\ tail' \in {"watcher", "view", "none"}
      BY <1>0, <1>6, PublicationAssumption DEF Configure, Disturb, TypeOK
    <2>2. TypeOK'
      BY <1>0, <1>6, <2>1, StagesTyped DEF Configure, TypeOK
    <2>3. JobInv'
      BY <1>0, <1>6 DEF Configure, JobInv, TypeOK, Submission
    <2>4. PendingInv'
      BY <1>0, <1>6 DEF Configure, IInv, PendingInv, TypeOK, Submission, Job
    <2>5. MovedInv'
      BY <1>6 DEF Configure, IInv, MovedInv
    <2>6. \A p \in Unpublished' : Upstream(p)'
      BY <1>6 DEF Configure, Unpublished, Upstream
    <2> QED BY <2>2, <2>3, <2>4, <2>5, <2>6, AllUpstream DEF IInv
  <1> QED BY <1>1, <1>2, <1>3, <1>4, <1>5, <1>6 DEF Disturbance

(* The slice only grows as the drain fills it and works on it.               *)
SliceGrows ==
  /\ drain' \in Slice
  /\ drain'.generation = generation \/ drain'.generation = drain.generation
  /\ \A p : Upstream(p) => Upstream(p)'

LEMMA TakeSliceGrows ==
  ASSUME TypeOK, NEW paths \in SUBSET Path, NEW rescan \in BOOLEAN, TakeSlice(paths, rescan)
  PROVE  SliceGrows
  <1> DEFINE slice == IF drain.generation = generation THEN drain ELSE NewSlice(generation)
  <1>1. /\ slice \in Slice /\ slice.generation = generation
        /\ drain.generation = generation => slice = drain
    BY SliceTyped DEF TypeOK, NewSlice
  <1>2. /\ reported' = reported \ paths /\ overflow' = (overflow /\ ~rescan)
        /\ drain' = Received(slice, paths, rescan) /\ generation' = generation
    BY DEF TakeSlice, world
  <1> HIDE DEF slice
  <1>3. CASE slice.rescan \/ rescan
    <2>1. drain' = [slice EXCEPT !.pending = {}, !.rescan = TRUE, !.full = @ \/ rescan,
                                 !.applying = @ /\ ~rescan]
      BY <1>2, <1>3 DEF Received
    <2>2. drain' \in Slice /\ drain'.generation = generation /\ drain'.rescan
      BY <1>1, <2>1 DEF Slice
    <2> QED BY <1>2, <2>2 DEF SliceGrows, Upstream, InSlice
  <1>4. CASE ~slice.rescan /\ ~rescan
    <2>1. drain' = [slice EXCEPT !.pending = @ \cup paths]
      BY <1>2, <1>4 DEF Received
    <2>2. /\ drain' \in Slice /\ drain'.generation = generation
          /\ drain'.pending = slice.pending \cup paths /\ drain'.paths = slice.paths
          /\ drain'.full = slice.full /\ drain'.rescan = slice.rescan
      BY <1>1, <2>1 DEF Slice
    <2>3. overflow' = overflow
      BY <1>2, <1>4 DEF TypeOK
    <2> QED BY <1>1, <1>2, <2>2, <2>3 DEF SliceGrows, Upstream, InSlice
  <1> QED BY <1>3, <1>4

LEMMA WorkGrows ==
  ASSUME TypeOK, WorkOnSlice \/ QuietEnds
  PROVE  SliceGrows
  <1> USE DEF world, watcher, draining
  <1>1. reported' = reported /\ overflow' = overflow /\ generation' = generation
    BY DEF WorkOnSlice, ParkRescan, FinishRescan, ApplyPaths, ResumeApply, QuietEnds
  <1>2. ASSUME drain' = drain PROVE SliceGrows
    BY <1>1, <1>2 DEF SliceGrows, Upstream, InSlice, TypeOK
  <1>3. CASE FinishRescan /\ drainer = "receiving"
    <2>1. drain' = [drain EXCEPT !.rescan = FALSE, !.paths = {}, !.full = TRUE, !.due = "future"]
      BY <1>3 DEF FinishRescan
    <2>2. drain' \in Slice /\ drain'.generation = drain.generation /\ drain'.full
      BY <2>1 DEF TypeOK, Slice
    <2> QED BY <1>1, <2>2 DEF SliceGrows, Upstream, InSlice
  <1>4. ASSUME NEW batch \in SUBSET Path, NEW cut \in BOOLEAN, ApplyPaths(batch, cut), batch # {}
        PROVE  SliceGrows
    <2>1. drain' = [drain EXCEPT !.pending = @ \ batch, !.paths = @ \cup batch,
                                 !.due = "future",
                                 !.applying = cut \/ drainer = "stale"]
      BY <1>4 DEF ApplyPaths
    <2>2. /\ drain' \in Slice /\ drain'.generation = drain.generation
          /\ drain'.pending = drain.pending \ batch /\ drain'.paths = drain.paths \cup batch
          /\ drain'.full = drain.full /\ drain'.rescan = drain.rescan
      BY <2>1 DEF TypeOK, Slice
    <2> QED BY <1>1, <2>2 DEF SliceGrows, Upstream, InSlice
  <1>5. CASE ResumeApply
    <2>1. drain' = [drain EXCEPT !.applying = drainer = "stale"]
      BY <1>5 DEF ResumeApply
    <2>2. /\ drain' \in Slice /\ drain'.generation = drain.generation
          /\ drain'.pending = drain.pending /\ drain'.paths = drain.paths
          /\ drain'.full = drain.full /\ drain'.rescan = drain.rescan
      BY <2>1 DEF TypeOK, Slice
    <2> QED BY <1>1, <2>2 DEF SliceGrows, Upstream, InSlice
  <1>6. CASE QuietEnds
    <2>1. drain' = [drain EXCEPT !.due = "passed"]
      BY <1>6 DEF QuietEnds
    <2>2. /\ drain' \in Slice /\ drain'.generation = drain.generation
          /\ drain'.pending = drain.pending /\ drain'.paths = drain.paths
          /\ drain'.full = drain.full /\ drain'.rescan = drain.rescan
      BY <2>1 DEF TypeOK, Slice
    <2> QED BY <1>1, <2>2 DEF SliceGrows, Upstream, InSlice
  <1>7. CASE ParkRescan
    BY <1>2, <1>7 DEF ParkRescan
  <1>8. CASE FinishRescan /\ drainer # "receiving"
    BY <1>2, <1>8 DEF FinishRescan
  <1>9. ASSUME NEW batch \in SUBSET Path, NEW cut \in BOOLEAN, ApplyPaths(batch, cut), batch = {}
        PROVE  SliceGrows
    BY <1>2, <1>9 DEF ApplyPaths
  <1> QED BY <1>3, <1>4, <1>5, <1>6, <1>7, <1>8, <1>9 DEF WorkOnSlice

(* A step of the drain that hands nothing over.                              *)
LEMMA DrainReadStep ==
  ASSUME IInv, DrainRead
  PROVE  IInv'
  <1> USE DEF world, watcher, draining, worker, asking
  <1>0. TypeOK
    BY DEF IInv
  <1>1. SliceGrows
    BY <1>0, TakeSliceGrows, WorkGrows DEF DrainRead
  <1>2. UNCHANGED <<world, watching, job, worker, asking, disturbances, dirty, moved, forgiven>>
    BY DEF DrainRead, TakeSlice, WorkOnSlice, ParkRescan, FinishRescan, ApplyPaths,
           ResumeApply, QuietEnds
  <1>3. /\ retry' \in {"none", "future", "passed"}
        /\ drainer' \in {"idle", "receiving", "stale", "publishing"}
        /\ reported' \subseteq Path
    BY <1>0 DEF DrainRead, TakeSlice, WorkOnSlice, ParkRescan, FinishRescan, ApplyPaths,
                ResumeApply, QuietEnds, TypeOK
  <1>4. overflow' \in BOOLEAN
    BY <1>0 DEF DrainRead, TakeSlice, WorkOnSlice, ParkRescan, FinishRescan, ApplyPaths,
                ResumeApply, QuietEnds, TypeOK
  <1>5. TypeOK'
    BY <1>0, <1>1, <1>2, <1>3, <1>4, StagesTyped DEF TypeOK, SliceGrows
  <1>6. JobInv' /\ PendingInv' /\ MovedInv'
    BY <1>2, TableKept
  <1>7. CarriedInv' /\ DroppedInv' /\ GivenUpInv'
    <2>1. Unpublished' = Unpublished
      BY <1>2 DEF Unpublished
    <2> QED BY <1>1, <1>2, <2>1, EditsKept DEF SliceGrows
  <1> QED BY <1>5, <1>6, <1>7 DEF IInv

(* What is lost with the channel and the slice is given up.                  *)
LEMMA DropStep ==
  ASSUME IInv, Drop
  PROVE  IInv'
  <1> USE DEF world, watcher, draining, worker, asking
  <1>0. TypeOK
    BY DEF IInv
  <1>1. /\ DropEvents
        /\ UNCHANGED <<present, binding, generation, runtime, published, retry, job, worker,
                       query, overtaken, dirty, moved>>
        /\ watching' \in BOOLEAN
    BY <1>0 DEF Drop, WatcherStage, WatcherFails, CleanupDeletedRoot, TypeOK
  <1>2. /\ tail' \in {"watcher", "view", "none"}
        /\ drainer' \in {"idle", "receiving", "stale", "publishing"}
    BY <1>0 DEF Drop, WatcherStage, WatcherFails, CleanupDeletedRoot, TypeOK
  <1>3. disturbances' \in 0..MaxDisturbances
    BY <1>0, PublicationAssumption
       DEF Drop, WatcherStage, WatcherFails, CleanupDeletedRoot, Disturb, TypeOK
  <1>4. /\ reported' = {} /\ overflow' = FALSE /\ drain' \in Slice
        /\ forgiven' = forgiven \cup {p \in dirty : Upstream(p)}
        /\ missed' = missed \ {p \in dirty : Upstream(p)}
    BY <1>0, <1>1, SliceTyped DEF DropEvents, Forgive, TypeOK
  <1>5. TypeOK'
    <2>1. overflow' \in BOOLEAN
      BY <1>4
    <2> QED BY <1>0, <1>1, <1>2, <1>3, <1>4, <2>1, StagesTyped DEF TypeOK
  <1>6. JobInv' /\ PendingInv' /\ MovedInv'
    BY <1>1, TableKept
  <1>7. Unpublished' \subseteq Unpublished /\ \A p \in Unpublished' : ~Upstream(p)
    BY <1>1, <1>4 DEF Unpublished
  <1>8. CarriedInv' /\ DroppedInv' /\ GivenUpInv'
    BY <1>1, <1>7, EditsKept
  <1> QED BY <1>5, <1>6, <1>8 DEF IInv

(* The job table after a submission.                                         *)
LEMMA ScheduledTable ==
  ASSUME IInv, NEW paths \in SUBSET Path, Schedule(paths),
         UNCHANGED <<generation, moved, unread, dirty>>
  PROVE  /\ job' \in Job /\ job' # NoJob /\ current' \in Submission
         /\ pc' \in {"idle", "top", "slot", "reading", "gate", "installed", "failed",
                     "retry", "stop"}
         /\ JobInv' /\ PendingInv' /\ MovedInv'
  <1>0. TypeOK /\ JobInv /\ PendingInv
    BY DEF IInv
  <1>1. job' \in Job /\ current' \in Submission
    BY <1>0, Scheduled
  <1>2. CASE job = NoJob
    <2>1. /\ pc' = "top"
          /\ current'.generation = generation /\ current'.paths = paths
          /\ job'.generation = generation /\ job'.paths = paths
          /\ job'.pending = NoSubmission
      BY <1>0, <1>2, Scheduled
    <2>2. moved' = {}
      BY <1>2 DEF IInv, MovedInv, JobInv
    <2> QED BY <1>0, <1>1, <2>1, <2>2, NamesAssumption DEF JobInv, PendingInv, MovedInv, TypeOK
  <1>3. CASE job # NoJob
    <2>1. /\ current' = current /\ pc' = pc
          /\ job'.generation = job.generation /\ job'.paths = job.paths
          /\ job'.pending \in Submission
          /\ job'.pending.generation = generation
          /\ job.generation # generation => job'.pending.paths = {}
      BY <1>0, <1>3, Scheduled
    <2>2. JobInv' /\ PendingInv'
      BY <1>0, <1>1, <1>3, <2>1, NamesAssumption DEF JobInv, PendingInv, TypeOK
    <2>3. MovedInv'
      BY <2>1 DEF IInv, MovedInv
    <2> QED BY <1>0, <1>1, <2>1, <2>2, <2>3, NamesAssumption DEF TypeOK
  <1> QED BY <1>2, <1>3

(* A submission, with the slice that is submitted taken from the drain.      *)
LEMMA SubmitStep ==
  ASSUME IInv, NEW paths \in SUBSET Path, Schedule(paths), present', runtime',
         binding' = "bound", present,
         UNCHANGED <<generation, unread, moved, dirty>>,
         Unpublished' \subseteq Unpublished \/ paths = {},
         \A p \in Unpublished' : Upstream(p) => Upstream(p)' \/ Covers(paths, p)
  PROVE  CarriedInv' /\ DroppedInv' /\ GivenUpInv'
  <1>0. /\ TypeOK /\ JobInv /\ PendingInv
        /\ job' \in Job /\ job' # NoJob
    BY ScheduledTable DEF IInv
  <1>1. GivenUpInv'
    BY DEF GivenUpInv
  <1>2. CASE job = NoJob
    <2>1. /\ pc' = "top" /\ current'.generation = generation /\ current'.paths = paths
          /\ job'.token = "running"
      BY <1>0, <1>2, Scheduled
    <2>2. DroppedInv'
      BY <2>1 DEF DroppedInv
    <2>3. \A p : Covers(paths, p) => CarriedByBatch(p)'
      BY <2>1 DEF CarriedByBatch
    <2>4. ASSUME NEW p \in Unpublished' PROVE Elsewhere(p)' \/ CarriedByBatch(p)'
      <3>1. CASE paths = {}
        BY <2>3, <3>1 DEF Covers
      <3>2. CASE Unpublished' \subseteq Unpublished
        <4>1. Upstream(p)
          BY <1>2, <2>4, <3>2 DEF IInv, CarriedInv, Elsewhere
        <4> QED BY <2>3, <2>4, <4>1 DEF Elsewhere
      <3> QED BY <3>1, <3>2
    <2>5. CarriedInv'
      BY <1>0, <2>4 DEF CarriedInv
    <2> QED BY <1>1, <2>2, <2>5
  <1>3. CASE job # NoJob
    <2>1. /\ current' = current /\ pc' = pc /\ job'.token = job.token
          /\ job'.pending \in Submission
          /\ job'.pending.generation = generation
          /\ \A p : Covers(paths, p) => Covers(job'.pending.paths, p)
          /\ job.pending # NoSubmission =>
               \A p : Covers(job.pending.paths, p) => Covers(job'.pending.paths, p)
      BY <1>0, <1>3, Scheduled
    <2>2. \A p : Covers(paths, p) => Elsewhere(p)'
      BY <1>0, <2>1, NamesAssumption DEF Elsewhere
    <2>3. ASSUME NEW p \in Unpublished', Elsewhere(p) PROVE Elsewhere(p)'
      <3>1. CASE Upstream(p)
        BY <2>2, <2>3, <3>1 DEF Elsewhere
      <3>2. CASE job.pending # NoSubmission /\ Covers(job.pending.paths, p)
        BY <1>0, <2>1, <3>2, NamesAssumption DEF Elsewhere
      <3> QED BY <2>3, <3>1, <3>2 DEF Elsewhere
    <2>4. \A p : CarriedByBatch(p) => CarriedByBatch(p)'
      BY <2>1 DEF CarriedByBatch
    <2>5. CASE paths = {}
      <3>1. \A p : Elsewhere(p)'
        BY <2>2, <2>5 DEF Covers
      <3> QED BY <1>1, <3>1 DEF CarriedInv, DroppedInv
    <2>6. CASE Unpublished' \subseteq Unpublished
      <3>1. CarriedInv'
        BY <1>0, <1>3, <2>3, <2>4, <2>6 DEF IInv, CarriedInv
      <3>2. DroppedInv'
        BY <1>3, <2>1, <2>3, <2>6 DEF IInv, DroppedInv
      <3> QED BY <1>1, <3>1, <3>2
    <2> QED BY <2>5, <2>6
  <1> QED BY <1>2, <1>3

LEMMA LoadStep ==
  ASSUME IInv, Load
  PROVE  IInv'
  <1> USE DEF watcher, draining, worker, asking
  <1>0. TypeOK /\ binding = "bound" /\ present
    BY DEF IInv, Load, FinishViewLoad, ViewLoadFails
  <1>1. CASE FinishViewLoad
    <2>1. PICK ready \in {TRUE, published}, imported \in BOOLEAN, callgraph \in BOOLEAN,
               other \in BOOLEAN :
            /\ published' = (published \/ imported)
            /\ LET pending == \/ ~published'
                              \/ callgraph /\ dirty # {}
                              \/ other
               IN  IF ready /\ pending
                   THEN Schedule({}) /\ forgiven' = {}
                   ELSE UNCHANGED <<job, current, pc, forgiven>>
      BY <1>1 DEF FinishViewLoad
    <2>2. /\ tail' = "none" /\ runtime' = TRUE
          /\ UNCHANGED <<present, binding, generation, retry, watcher, draining, prepared,
                         unread, asking, disturbances, dirty, moved>>
      BY <1>1 DEF FinishViewLoad
    <2>3. published' \in BOOLEAN
      BY <1>0, <2>1 DEF TypeOK
    <2>4. \A p : Upstream(p) => Upstream(p)'
      BY <2>2, UpstreamKept
    <2>5. CASE UNCHANGED <<job, current, pc, forgiven>>
      <3>1. TypeOK'
        <4>1. runtime' \in BOOLEAN /\ tail' \in {"watcher", "view", "none"}
          BY <2>2
        <4> QED BY <1>0, <2>2, <2>3, <2>5, <4>1, StagesTyped DEF TypeOK
      <3>2. JobInv' /\ PendingInv' /\ MovedInv'
        BY <2>2, <2>5, TableKept
      <3>3. Unpublished' = Unpublished
        BY <2>2, <2>5 DEF Unpublished
      <3>4. CarriedInv' /\ DroppedInv' /\ GivenUpInv'
        BY <1>0, <2>2, <2>4, <2>5, <3>3, EditsKept
      <3> QED BY <3>1, <3>2, <3>4 DEF IInv
    <2>6. CASE Schedule({}) /\ forgiven' = {}
      <3>1. {} \in SUBSET Path
        OBVIOUS
      <3>2. /\ job' \in Job /\ job' # NoJob /\ current' \in Submission
            /\ pc' \in {"idle", "top", "slot", "reading", "gate", "installed", "failed",
                        "retry", "stop"}
            /\ JobInv' /\ PendingInv' /\ MovedInv'
        BY <2>2, <2>6, <3>1, ScheduledTable
      <3>3. TypeOK'
        <4>1. runtime' \in BOOLEAN /\ tail' \in {"watcher", "view", "none"}
          BY <2>2
        <4> QED BY <1>0, <2>2, <2>3, <2>6, <3>2, <4>1, StagesTyped DEF TypeOK
      <3>4. CarriedInv' /\ DroppedInv' /\ GivenUpInv'
        BY <1>0, <2>2, <2>4, <2>6, <3>1, SubmitStep
      <3> QED BY <3>2, <3>3, <3>4 DEF IInv
    <2> QED BY <2>1, <2>5, <2>6
  <1>2. CASE ViewLoadFails
    <2>1. disturbances' \in 0..MaxDisturbances
      BY <1>0, <1>2, PublicationAssumption DEF ViewLoadFails, Disturb, TypeOK
    <2>2. TypeOK'
      <3>1. /\ runtime' \in BOOLEAN /\ tail' \in {"watcher", "view", "none"}
            /\ retry' \in {"none", "future", "passed"}
        BY <1>2 DEF ViewLoadFails
      <3> QED BY <1>0, <1>2, <2>1, <3>1, StagesTyped DEF ViewLoadFails, TypeOK
    <2>3. JobInv' /\ PendingInv' /\ MovedInv'
      BY <1>2, TableKept DEF ViewLoadFails
    <2>4. \A p \in Unpublished' : Upstream(p)
      BY <1>2 DEF ViewLoadFails, Unpublished
    <2>5. \A p \in Unpublished' : Upstream(p)'
      BY <1>2, <2>4, UpstreamKept DEF ViewLoadFails
    <2> QED BY <2>2, <2>3, <2>5, AllUpstream DEF IInv
  <1> QED BY <1>1, <1>2 DEF Load

(* The slice with which publish_view_if_quiet ends: the drain's, or the      *)
(* drain's made whole by the verification.                                   *)
LEMMA SliceOf ==
  ASSUME TypeOK, NEW verify \in BOOLEAN, NEW slice,
         slice = IF verify THEN Verified(drain) ELSE drain
  PROVE  /\ slice \in Slice
         /\ slice.generation = drain.generation
         /\ slice.pending = drain.pending
         /\ slice.paths = drain.paths
         /\ slice.rescan = drain.rescan
         /\ drain.full => slice.full
  <1>1. drain \in Slice
    BY DEF TypeOK
  <1>2. CASE verify
    <2>1. slice = [drain EXCEPT !.full = TRUE, !.due = "passed"]
      BY <1>2 DEF Verified
    <2> QED BY <1>1, <2>1 DEF Slice
  <1>3. CASE ~verify
    BY <1>1, <1>3
  <1> QED BY <1>2, <1>3

LEMMA ClearedSlice ==
  ASSUME NEW slice \in Slice
  PROVE  /\ Cleared(slice) \in Slice
         /\ Cleared(slice).generation = slice.generation
         /\ Cleared(slice).pending = slice.pending
         /\ Cleared(slice).rescan = slice.rescan
         /\ ~Cleared(slice).full /\ Cleared(slice).paths = {}
  BY DEF Cleared, Slice

LEMMA RefusedSlice ==
  ASSUME NEW slice \in Slice
  PROVE  /\ Refused(slice) \in Slice
         /\ Refused(slice).generation = slice.generation
         /\ Refused(slice).pending = slice.pending
         /\ Refused(slice).rescan = slice.rescan
         /\ Refused(slice).full = slice.full
         /\ Refused(slice).paths = slice.paths
         /\ Refused(slice).due = "future"
  BY DEF Refused, Slice

LEMMA PutBackStep ==
  ASSUME IInv, NEW verify \in BOOLEAN, PutBack(verify)
  PROVE  IInv'
  <1> USE DEF watcher
  <1>0. TypeOK
    BY DEF IInv
  <1> DEFINE sl == IF verify THEN Verified(drain) ELSE drain
  <1>1. PICK slice : slice = sl
    OBVIOUS
  <1>2. /\ slice \in Slice
        /\ slice.generation = drain.generation
        /\ slice.pending = drain.pending
        /\ slice.paths = drain.paths
        /\ slice.rescan = drain.rescan
        /\ drain.full => slice.full
    BY <1>0, <1>1, SliceOf
  <1>3. /\ PublishIfQuiet(slice) /\ drainer' = "idle"
        /\ UNCHANGED <<present, binding, generation, tail, published, watcher, prepared,
                       unread, query, overtaken, disturbances, dirty, moved>>
    BY <1>1 DEF PutBack
  <1> HIDE DEF sl
  <1>4. CASE /\ drain' = slice \/ drain' = Refused(slice)
             /\ UNCHANGED <<runtime, retry, job, current, pc, forgiven, missed>>
    <2>1. /\ drain' \in Slice /\ drain'.generation = drain.generation
          /\ drain'.pending = drain.pending /\ drain'.paths = drain.paths
          /\ drain'.rescan = drain.rescan /\ (drain.full => drain'.full)
      BY <1>2, <1>4, RefusedSlice
    <2>2. TypeOK'
      BY <1>0, <1>3, <1>4, <2>1, StagesTyped DEF TypeOK
    <2>3. JobInv' /\ PendingInv' /\ MovedInv'
      BY <1>3, <1>4, TableKept
    <2>4. \A p : Upstream(p) => Upstream(p)'
      BY <1>3, <2>1 DEF Upstream, InSlice
    <2>5. Unpublished' = Unpublished
      BY <1>3, <1>4 DEF Unpublished
    <2>6. CarriedInv' /\ DroppedInv' /\ GivenUpInv'
      BY <1>3, <1>4, <2>4, <2>5, EditsKept
    <2> QED BY <2>2, <2>3, <2>6 DEF IInv
  <1>5. CASE /\ Retire /\ drain' = Cleared(slice)
             /\ UNCHANGED <<current, pc, forgiven, missed>>
    <2>1. job \in Job \cup {NoJob} /\ CancelForContext /\ ~present'
      BY <1>0, <1>3, <1>5 DEF Retire, TypeOK
    <2>2. /\ job' \in Job \cup {NoJob}
          /\ job = NoJob <=> job' = NoJob
          /\ job # NoJob => /\ job'.generation = job.generation /\ job'.pending = NoSubmission
                            /\ job'.paths = job.paths
      BY <2>1, CancelForContextTyped
    <2>3. runtime' \in BOOLEAN /\ retry' \in {"none", "future", "passed"} /\ drain' \in Slice
      BY <1>2, <1>5, ClearedSlice DEF Retire
    <2>4. TypeOK'
      BY <1>0, <1>3, <1>5, <2>2, <2>3, StagesTyped DEF TypeOK
    <2>5. JobInv' /\ PendingInv' /\ MovedInv'
      BY <1>0, <1>3, <1>5, <2>2 DEF IInv, JobInv, PendingInv, MovedInv
    <2> QED BY <2>1, <2>4, <2>5, Gone DEF IInv
  <1>6. CASE /\ present /\ ~runtime /\ drain' = Cleared(slice)
             /\ Forgive({p \in dirty : p \in slice.paths \/ slice.full})
             /\ UNCHANGED <<runtime, retry, job, current, pc>>
    <2>1. /\ drain' \in Slice /\ drain'.generation = drain.generation
          /\ drain'.pending = drain.pending /\ drain'.rescan = drain.rescan
      BY <1>2, <1>6, ClearedSlice
    <2>2. /\ forgiven' = forgiven \cup {p \in dirty : p \in slice.paths \/ slice.full}
          /\ missed' = missed \ {p \in dirty : p \in slice.paths \/ slice.full}
      BY <1>6 DEF Forgive
    <2>3. TypeOK'
      BY <1>0, <1>3, <1>6, <2>1, <2>2, StagesTyped DEF TypeOK
    <2>4. JobInv' /\ PendingInv' /\ MovedInv'
      BY <1>3, <1>6, TableKept
    <2>5. /\ Unpublished' \subseteq Unpublished
          /\ \A p \in Unpublished' : p \notin slice.paths /\ ~slice.full
      BY <1>3, <2>2 DEF Unpublished
    <2>6. \A p \in Unpublished' : Upstream(p) => Upstream(p)'
      BY <1>2, <1>3, <2>1, <2>5 DEF Upstream, InSlice
    <2>7. CarriedInv' /\ DroppedInv' /\ GivenUpInv'
      BY <1>3, <1>6, <2>5, <2>6, EditsKept
    <2> QED BY <2>3, <2>4, <2>7 DEF IInv
  <1>7. CASE /\ present /\ runtime /\ binding = "bound"
             /\ Schedule(IF slice.full THEN {} ELSE slice.paths)
             /\ drain' = Cleared(slice)
             /\ UNCHANGED <<runtime, retry, forgiven, missed>>
    <2> DEFINE paths == IF slice.full THEN {} ELSE slice.paths
    <2>1. paths \in SUBSET Path /\ Schedule(paths)
      BY <1>2, <1>7 DEF Slice
    <2>2. /\ job' \in Job /\ job' # NoJob /\ current' \in Submission
          /\ pc' \in {"idle", "top", "slot", "reading", "gate", "installed", "failed",
                      "retry", "stop"}
          /\ JobInv' /\ PendingInv' /\ MovedInv'
      BY <1>3, <2>1, ScheduledTable
    <2>3. /\ drain' \in Slice /\ drain'.generation = drain.generation
          /\ drain'.pending = drain.pending /\ drain'.rescan = drain.rescan
      BY <1>2, <1>7, ClearedSlice
    <2>4. TypeOK'
      BY <1>0, <1>3, <1>7, <2>2, <2>3, StagesTyped DEF TypeOK
    <2>5. Unpublished' = Unpublished
      BY <1>3, <1>7 DEF Unpublished
    <2>6. \A p : p \in slice.paths \/ slice.full => Covers(paths, p)
      BY DEF Covers
    <2>7. \A p : Upstream(p) => Upstream(p)' \/ Covers(paths, p)
      BY <1>2, <1>3, <2>3, <2>6 DEF Upstream, InSlice
    <2> HIDE DEF paths
    <2>8. CarriedInv' /\ DroppedInv' /\ GivenUpInv'
      BY <1>3, <1>7, <2>1, <2>5, <2>7, SubmitStep
    <2> QED BY <2>2, <2>4, <2>8 DEF IInv
  <1> QED BY <1>3, <1>4, <1>5, <1>6, <1>7 DEF PublishIfQuiet

(* A step that touches neither the edits on their way nor the worker.        *)
LEMMA AsideStep ==
  ASSUME IInv, Aside
  PROVE  IInv'
  <1> USE DEF world, watcher, draining, worker, asking
  <1>0. TypeOK
    BY DEF IInv
  <1>1. /\ UNCHANGED <<present, generation, runtime, published, watching, reported, overflow,
                       drain, drainer, job, current, prepared, unread, pc, disturbances,
                       dirty, moved, forgiven>>
        /\ binding' \in {"bound", binding}
    BY DEF Aside, WatcherStage, Rebind, RetryDue, Query, QueryFrame, BeginQuery, ReadStage,
           EndQuery, vars
  <1>2. /\ tail' \in {"watcher", "view", "none"} /\ retry' \in {"none", "future", "passed"}
        /\ missed' \subseteq Member
    BY <1>0 DEF Aside, WatcherStage, Rebind, RetryDue, Query, QueryFrame, BeginQuery, ReadStage,
                EndQuery, vars, TypeOK
  <1>3. query' \in 0..Answered
    BY <1>0, StagesTyped DEF Aside, WatcherStage, Rebind, RetryDue, Query, QueryFrame,
                             BeginQuery, ReadStage, EndQuery, vars, TypeOK
  <1>4. overtaken' \in BOOLEAN
    BY <1>0 DEF Aside, WatcherStage, Rebind, RetryDue, Query, QueryFrame, BeginQuery, ReadStage,
                EndQuery, vars, TypeOK
  <1>5. TypeOK'
    BY <1>0, <1>1, <1>2, <1>3, <1>4 DEF TypeOK
  <1>6. JobInv' /\ PendingInv' /\ MovedInv'
    BY <1>1, TableKept
  <1>7. CarriedInv' /\ DroppedInv' /\ GivenUpInv'
    <2>1. Unpublished' = Unpublished
      BY <1>1 DEF Unpublished
    <2>2. \A p : Upstream(p) => Upstream(p)'
      BY <1>1, UpstreamKept
    <2> QED BY <1>1, <2>1, <2>2, EditsKept
  <1> QED BY <1>5, <1>6, <1>7 DEF IInv

-----------------------------------------------------------------------------

LEMMA InvInductive ==
  ASSUME IInv, [Next]_vars
  PROVE  IInv'
  BY NextCases, DisturbanceStep, DrainReadStep, DropStep, LoadStep, WorkerStep, AsideStep,
     PutBackStep

(* The job table, the worker's submission, the drain's slice and the query   *)
(* keep their types through every merge, cancellation and retirement, for    *)
(* any set of paths and any number of disturbances.                          *)
THEOREM TypeCorrect == Spec => []TypeOK
  <1>1. Init => IInv
    BY InitInv
  <1>2. IInv /\ [Next]_vars => IInv'
    BY InvInductive
  <1>3. IInv => TypeOK
    BY DEF IInv
  <1> QED BY <1>1, <1>2, <1>3, PTL DEF Spec

(* No watched edit is lost between the watcher's channel, the drain's slice, *)
(* the running batch and the pending submission of                           *)
(* executor/view_publication.rs, for any set of paths and any number of      *)
(* edits, failures, unbinds and configures: what is given up goes down with  *)
(* the watcher, the view, the binding or the configuration.                  *)
THEOREM EditsOnTheirWay == Spec => []NoEditForgotten
  <1>1. Init => IInv
    BY InitInv
  <1>2. IInv /\ [Next]_vars => IInv'
    BY InvInductive
  <1>3. IInv => NoEditForgotten
    BY DEF IInv, CarriedInv, NoEditForgotten, Unpublished, Elsewhere, OnItsWay
  <1> QED BY <1>1, <1>2, <1>3, PTL DEF Spec

-----------------------------------------------------------------------------
(* Queries                                                                   *)

(* A whole publication that is not due yet waits for its rescan to end.      *)
FullInv == drain.full /\ drain.due = "none" => drain.rescan

(* Where a query finds an edit once it has read the watcher: in the slice,   *)
(* or in the job table, with a submission the worker will not drop while the *)
(* query holds the root's read gate.  The batch may have read p before its   *)
(* last edit: it cannot be installed before the query ends.                  *)
InDrain(p) ==
  /\ drain.generation = generation
  /\ p \in drain.paths \/ (drain.full /\ drain.due # "none")

InJobs(p) ==
  /\ job # NoJob
  /\ \/ /\ Covers(current.paths, p)
        /\ pc \in {"top", "slot", "reading", "gate", "failed", "retry"}
        /\ job.token # "cancelled"
        /\ current.generation = generation
     \/ /\ job.pending # NoSubmission
        /\ job.pending.generation = generation
        /\ Covers(job.pending.paths, p)

(* What the query has not named is still unpublished, and is in a stage that *)
(* it has yet to read, unless it read the slot of a running drain.           *)
AskInv ==
  present /\ query # 0 =>
    /\ missed \subseteq Unpublished
    /\ binding = "abandoned" \/ ~runtime => missed = {}
    /\ query > 1 => \A p \in missed : InDrain(p) \/ InJobs(p)
    /\ query > 2 /\ ~overtaken => \A p \in missed : InJobs(p)
    /\ query > 3 /\ ~overtaken => missed = {}

LEMMA FullStep ==
  ASSUME TypeOK, FullInv, [Next]_vars
  PROVE  FullInv'
  <1> USE DEF world, watcher, draining, worker, asking
  <1>1. CASE UNCHANGED drain
    BY <1>1 DEF FullInv
  <1>2. ASSUME NEW paths \in SUBSET Path, NEW rescan \in BOOLEAN, TakeSlice(paths, rescan)
        PROVE  FullInv'
    <2> DEFINE slice == IF drain.generation = generation THEN drain ELSE NewSlice(generation)
    <2>1. slice \in Slice /\ (slice.full /\ slice.due = "none" => slice.rescan)
      BY SliceTyped DEF TypeOK, FullInv, NewSlice
    <2>2. drain' = Received(slice, paths, rescan)
      BY <1>2 DEF TakeSlice
    <2> HIDE DEF slice
    <2> QED BY <2>1, <2>2 DEF Received, Slice, FullInv
  <1>3. CASE FinishRescan
    BY <1>3 DEF FinishRescan, FullInv, TypeOK, Slice
  <1>4. ASSUME NEW batch \in SUBSET Path, NEW cut \in BOOLEAN, ApplyPaths(batch, cut)
        PROVE  FullInv'
    BY <1>4 DEF ApplyPaths, FullInv, TypeOK, Slice
  <1>5. CASE ResumeApply \/ QuietEnds
    BY <1>5 DEF ResumeApply, QuietEnds, FullInv, TypeOK, Slice
  <1>6. CASE DropEvents
    BY <1>6 DEF DropEvents, NewSlice, FullInv
  <1>7. ASSUME NEW verify \in BOOLEAN, PutBack(verify) PROVE FullInv'
    <2> DEFINE sl == IF verify THEN Verified(drain) ELSE drain
    <2>1. PICK slice : slice = sl
      OBVIOUS
    <2>2. slice \in Slice
      BY <2>1, SliceOf
    <2>3. slice.full /\ slice.due = "none" => slice.rescan
      BY <2>1 DEF Verified, FullInv, TypeOK, Slice
    <2>4. PublishIfQuiet(slice)
      BY <1>7, <2>1 DEF PutBack
    <2>5. drain' \in {slice, Cleared(slice), Refused(slice)}
      BY <2>4 DEF PublishIfQuiet
    <2> HIDE DEF sl
    <2> QED BY <2>2, <2>3, <2>5, ClearedSlice, RefusedSlice DEF FullInv
  <1>8. CASE Worker
    BY <1>1, <1>8 DEF Worker, StopAtTop, StartAttempt, BeginPrepare, ReadMember, EndPrepare,
                      GiveUp, AttemptFails, Commit, Installed, StopAfterFailure, Failed,
                      Advance, WorkerFrame
  <1>9. CASE Disturbance
    BY <1>1, <1>9 DEF Disturbance, Edit, LoseEvents, DeleteRoot, Unbind, GraceEnds, Configure
  <1>10. CASE Aside
    BY <1>1, <1>10 DEF Aside, Rebind, RetryDue, Query, QueryFrame, BeginQuery, ReadStage,
                       EndQuery, WatcherStage, vars
  <1>11. CASE Load \/ ParkRescan
    BY <1>1, <1>11 DEF Load, FinishViewLoad, ViewLoadFails, ParkRescan
  <1>12. CASE Drop
    BY <1>6, <1>12 DEF Drop, WatcherFails, CleanupDeletedRoot
  <1>13. CASE DrainRead
    BY <1>2, <1>3, <1>4, <1>5, <1>11, <1>13 DEF DrainRead, WorkOnSlice
  <1> QED BY <1>7, <1>8, <1>9, <1>10, <1>11, <1>12, <1>13, NextCases

(* A step that moves edits only downstream, as seen by a query.              *)
AskFrame ==
  /\ query' = query
  /\ overtaken' = overtaken
  /\ missed' \subseteq missed
  /\ present' => present
  /\ present /\ present' /\ query # 0 =>
       /\ missed \subseteq Unpublished => missed' \subseteq Unpublished'
       /\ binding' = "abandoned" \/ ~runtime' =>
            binding = "abandoned" \/ ~runtime \/ missed' = {}
       /\ \A p \in missed' : InDrain(p) => InDrain(p)' \/ InJobs(p)'
       /\ \A p \in missed' : InJobs(p) => InJobs(p)'

LEMMA AskKept ==
  ASSUME AskInv, AskFrame
  PROVE  AskInv'
  <1> SUFFICES ASSUME present', query' # 0
               PROVE  /\ missed' \subseteq Unpublished'
                      /\ binding' = "abandoned" \/ ~runtime' => missed' = {}
                      /\ query' > 1 => \A p \in missed' : InDrain(p)' \/ InJobs(p)'
                      /\ query' > 2 /\ ~overtaken' => \A p \in missed' : InJobs(p)'
                      /\ query' > 3 /\ ~overtaken' => missed' = {}
    BY DEF AskInv
  <1>1. /\ present /\ query # 0 /\ query' = query /\ missed' \subseteq missed
        /\ overtaken' = overtaken
    BY DEF AskFrame
  <1>2. /\ missed \subseteq Unpublished => missed' \subseteq Unpublished'
        /\ binding' = "abandoned" \/ ~runtime' =>
             binding = "abandoned" \/ ~runtime \/ missed' = {}
        /\ \A p \in missed' : InDrain(p) => InDrain(p)' \/ InJobs(p)'
        /\ \A p \in missed' : InJobs(p) => InJobs(p)'
    BY <1>1 DEF AskFrame
  <1>3. /\ missed \subseteq Unpublished
        /\ binding = "abandoned" \/ ~runtime => missed = {}
        /\ query > 1 => \A p \in missed : InDrain(p) \/ InJobs(p)
        /\ query > 2 /\ ~overtaken => \A p \in missed : InJobs(p)
        /\ query > 3 /\ ~overtaken => missed = {}
    BY <1>1 DEF AskInv
  <1> QED BY <1>1, <1>2, <1>3

(* A step that leaves the job and the batch alone, or moves the worker on    *)
(* with them.                                                                *)
LEMMA JobsKept ==
  ASSUME generation' = generation, current' = current, job # NoJob => job' # NoJob,
         job # NoJob => job'.pending = job.pending /\ job'.token = job.token,
         NEW p, pc' = pc \/ pc' \in {"top", "slot", "reading", "gate", "failed", "retry"}
                \/ pc \in {"installed", "stop"} \/ ~Covers(current.paths, p),
         InJobs(p)
  PROVE  InJobs(p)'
  BY DEF InJobs

(* A submission: the pending one only grows, and takes the current content.  *)
LEMMA JobsScheduled ==
  ASSUME IInv, NEW paths \in SUBSET Path, Schedule(paths), generation' = generation
  PROVE  /\ \A p : InJobs(p) => InJobs(p)'
         /\ \A p : Covers(paths, p) => InJobs(p)'
  <1>0. TypeOK /\ JobInv /\ PendingInv
    BY DEF IInv
  <1>1. job' \in Job /\ job' # NoJob
    BY <1>0, Scheduled, NamesAssumption
  <1>2. CASE job = NoJob
    BY <1>0, <1>1, <1>2, Scheduled DEF InJobs
  <1>3. CASE job # NoJob
    <2>1. /\ current' = current /\ pc' = pc /\ job'.token = job.token
          /\ job'.pending \in Submission /\ job'.pending # NoSubmission
          /\ job'.pending.generation = generation
          /\ \A p : Covers(paths, p) => Covers(job'.pending.paths, p)
          /\ job.pending # NoSubmission =>
               \A p : Covers(job.pending.paths, p) => Covers(job'.pending.paths, p)
      BY <1>0, <1>3, Scheduled, NamesAssumption
    <2> QED BY <1>1, <1>3, <2>1 DEF InJobs
  <1> QED BY <1>2, <1>3

LEMMA AskWorker ==
  ASSUME IInv, AskInv, Worker, query # 0
  PROVE  AskFrame
  <1> USE DEF watcher, draining, asking
  <1>0. /\ TypeOK /\ JobInv /\ PendingInv
        /\ pc # "idle" => job # NoJob /\ job \in Job
    BY DEF IInv, JobInv, TypeOK
  <1>1. ~Commit
    BY DEF Commit
  <1>2. UNCHANGED WorkerFrame
    BY <1>1 DEF Worker, StopAtTop, StartAttempt, BeginPrepare, ReadMember, EndPrepare,
                GiveUp, AttemptFails, Installed, StopAfterFailure, Failed, Advance
  <1>3. /\ query' = query /\ missed' = missed /\ overtaken' = overtaken
        /\ present' = present /\ binding' = binding
        /\ generation' = generation /\ drain' = drain
        /\ dirty' = dirty /\ forgiven' = forgiven
    BY <1>2 DEF WorkerFrame
  <1>4. present => runtime' = runtime
    BY <1>1 DEF Worker, StopAtTop, StartAttempt, BeginPrepare, ReadMember, EndPrepare,
                GiveUp, AttemptFails, Installed, StopAfterFailure, Failed, Advance,
                Stops, Retire, Signal
  <1>5. ASSUME present, NEW p \in missed, InJobs(p) PROVE InJobs(p)'
    <2>0. runtime /\ binding # "abandoned" /\ p \in Member /\ ~Retire /\ ~Signal
      BY <1>0, <1>5 DEF AskInv, TypeOK, Retire, Signal, MayCancel
    <2>1. CASE StopAtTop \/ StopAfterFailure
      <3>1. /\ UNCHANGED <<job, current>> /\ pc' = "stop" /\ pc # "idle"
            /\ job.token = "cancelled" \/ generation # current.generation
        BY <2>0, <2>1 DEF StopAtTop, StopAfterFailure, Stops
      <3> QED BY <1>3, <1>5, <3>1 DEF InJobs
    <2>2. CASE StartAttempt
      <3>1. /\ UNCHANGED <<job, current>>
            /\ pc' = "slot" \/ ~Covers(current.paths, p)
        BY <2>0, <2>2 DEF StartAttempt, Covers
      <3> QED BY <1>3, <1>5, <3>1, JobsKept
    <2>3. CASE BeginPrepare \/ (\E q \in Path : ReadMember(q)) \/ EndPrepare
               \/ AttemptFails \/ Failed
      <3>1. /\ UNCHANGED <<job, current>>
            /\ pc' = pc \/ pc' \in {"top", "slot", "reading", "gate", "failed", "retry"}
        BY <2>3 DEF BeginPrepare, ReadMember, EndPrepare, AttemptFails, Failed, EndAttempt
      <3> QED BY <1>3, <1>5, <3>1, JobsKept
    <2>4. CASE GiveUp
      <3>1. UNCHANGED <<job, current>> /\ pc' = "failed"
        BY <2>0, <2>4 DEF GiveUp, EndAttempt
      <3> QED BY <1>3, <1>5, <3>1, JobsKept
    <2>5. CASE Installed
      <3>1. UNCHANGED <<job, current>> /\ pc = "installed"
        BY <2>5 DEF Installed
      <3> QED BY <1>3, <1>5, <3>1, JobsKept
    <2>6. CASE Advance
      <3>1. PICK signal \in {FALSE, MayCancel} :
              LET retrying == pc = "retry" /\ job.token # "cancelled" /\ ~signal
                  next == Advanced(retrying)
              IN  IF job.pending = NoSubmission /\ ~retrying
                  THEN /\ job' = NoJob
                       /\ pc' = "idle"
                       /\ current' = NoSubmission
                  ELSE /\ job' = NewJob(next, NoSubmission)
                       /\ pc' = "top"
                       /\ current' = next
        BY <2>6 DEF Advance
      <3> DEFINE retrying == pc = "retry" /\ job.token # "cancelled" /\ ~signal
                 next == Advanced(retrying)
      <3>2. ~signal /\ pc \in {"stop", "retry"} /\ job # NoJob
        BY <1>5, <2>0, <2>6, <3>1 DEF MayCancel, Advance, InJobs
      <3>3. job.pending # NoSubmission \/ retrying
        BY <1>5, <3>2 DEF InJobs
      <3>4. job' = NewJob(next, NoSubmission) /\ pc' = "top" /\ current' = next
        BY <3>1, <3>3
      <3>5. /\ next \in Submission
            /\ job.pending = NoSubmission => next = current
            /\ job.pending # NoSubmission =>
                 /\ next.generation = job.pending.generation
                 /\ \A q : Covers(job.pending.paths, q) => Covers(next.paths, q)
            /\ retrying => \A q : Covers(current.paths, q) => Covers(next.paths, q)
        BY <3>2, <3>3, AdvancedTyped
      <3>6. Covers(next.paths, p) /\ next.generation = generation
        <4>1. CASE /\ job.pending # NoSubmission
                   /\ job.pending.generation = generation
                   /\ Covers(job.pending.paths, p)
          BY <3>5, <4>1
        <4>2. CASE retrying /\ Covers(current.paths, p) /\ current.generation = generation
          <5>1. job.pending # NoSubmission => job.pending.generation = generation
            <6>1. job.pending # NoSubmission => job.pending \in Submission
              BY <1>0, <3>2 DEF TypeOK, Job
            <6> QED BY <1>0, <3>2, <4>2, <6>1 DEF PendingInv, TypeOK, Submission
          <5> QED BY <3>5, <4>2, <5>1
        <4> QED BY <1>5, <3>2, <4>1, <4>2 DEF InJobs
      <3> HIDE DEF next, retrying
      <3>7. job' # NoJob /\ job'.token = "running"
        BY <3>4, <3>5, NewJobTyped
      <3> QED BY <1>3, <3>4, <3>6, <3>7 DEF InJobs
    <2> QED BY <1>1, <2>1, <2>2, <2>3, <2>4, <2>5, <2>6 DEF Worker
  <1> QED BY <1>3, <1>4, <1>5 DEF AskFrame, Unpublished, InDrain

(* A query reads one stage: what is not in it is downstream.                 *)
LEMMA AskQuery ==
  ASSUME IInv, FullInv, AskInv, Query
  PROVE  AskInv'
  <1> USE DEF world, watcher, draining, worker, QueryFrame
  <1>0. /\ TypeOK /\ JobInv
        /\ UNCHANGED <<present, binding, generation, runtime, reported, overflow,
                       drain, drainer, job, current, pc, unread, moved, dirty, forgiven>>
    BY DEF IInv, Query, BeginQuery, ReadStage, EndQuery
  <1>1. CASE BeginQuery
    BY <1>0, <1>1 DEF BeginQuery, AskInv, Unpublished
  <1>2. CASE EndQuery
    BY <1>2 DEF EndQuery, AskInv
  <1>3. CASE ReadStage
    <2> SUFFICES ASSUME present
                 PROVE  AskInv'
      BY <1>0 DEF AskInv
    <2>0. /\ query \in 1..3 /\ query' = query + 1
          /\ missed' = missed \ NamedBy(QueryStages[query])
          /\ missed \subseteq Member
      BY <1>0, <1>3, StagesTyped DEF ReadStage, TypeOK
    <2>1. /\ missed \subseteq Unpublished
          /\ binding = "abandoned" \/ ~runtime => missed = {}
          /\ query > 1 => \A p \in missed : InDrain(p) \/ InJobs(p)
          /\ query > 2 /\ ~overtaken => \A p \in missed : InJobs(p)
      BY <2>0 DEF AskInv
    <2>2. \A p : (InDrain(p)' <=> InDrain(p)) /\ (InJobs(p)' <=> InJobs(p))
      BY <1>0 DEF InDrain, InJobs
    <2>3. CASE query = 1
      <3>1. ASSUME NEW p \in missed' PROVE InDrain(p) \/ InJobs(p)
        <4>1. /\ p \in missed
              /\ ~(WatcherDrainHasWork \/ drainer # "idle")
          BY <2>0, <2>3, <3>1 DEF NamedBy, QueryStages
        <4>2. Elsewhere(p) \/ (job # NoJob /\ CarriedByBatch(p))
          BY <2>1, <4>1 DEF IInv, CarriedInv
        <4>3. CASE Elsewhere(p)
          BY <2>1, <4>1, <4>3 DEF Elsewhere, Upstream, InSlice, WatcherDrainHasWork,
                                  HasPendingWork, FullInv, InDrain, InJobs
        <4>4. CASE job # NoJob /\ CarriedByBatch(p) /\ ~Elsewhere(p)
          <5>1. job.token # "cancelled" /\ generation = current.generation
            BY <2>1, <4>1, <4>4 DEF IInv, DroppedInv
          <5> QED BY <4>4, <5>1 DEF CarriedByBatch, InJobs
        <4> QED BY <4>2, <4>3, <4>4
      <3> QED BY <1>0, <2>0, <2>1, <2>2, <2>3, <3>1 DEF AskInv, Unpublished
    <2>4. CASE query = 2
      <3>0. overtaken' = (overtaken \/ drainer # "idle")
        BY <1>3, <2>4 DEF ReadStage, QueryStages
      <3>1. ASSUME ~overtaken', NEW p \in missed' PROVE InJobs(p)
        <4>1. p \in missed /\ ~InDrain(p)
          BY <2>0, <2>4, <3>0, <3>1 DEF NamedBy, QueryStages, InDrain
        <4> QED BY <2>1, <2>4, <4>1
      <3>2. missed' \subseteq missed
        BY <2>0
      <3> QED BY <1>0, <2>0, <2>1, <2>2, <2>4, <3>1, <3>2 DEF AskInv, Unpublished
    <2>5. CASE query = 3
      <3>0. ~overtaken' => ~overtaken
        BY <1>3, <2>5 DEF ReadStage, QueryStages
      <3>1. ASSUME ~overtaken, NEW p \in missed' PROVE FALSE
        <4>1. p \in missed /\ InJobs(p)
          BY <2>0, <2>1, <2>5, <3>1
        <4>2. job.paths = current.paths
          BY <1>0, <4>1 DEF JobInv, InJobs
        <4>3. p \in NamedBy("jobs")
          BY <2>0, <4>1, <4>2 DEF NamedBy, InJobs
        <4> QED BY <2>0, <2>5, <3>1, <4>3 DEF QueryStages
      <3>2. missed' \subseteq missed
        BY <2>0
      <3> QED BY <1>0, <2>0, <2>1, <2>2, <2>5, <3>0, <3>1, <3>2 DEF AskInv, Unpublished
    <2> QED BY <2>0, <2>3, <2>4, <2>5
  <1> QED BY <1>1, <1>2, <1>3 DEF Query

(* A step of the drain that keeps the slice and its submissions together.    *)
LEMMA AskSlice ==
  ASSUME TypeOK, DrainRead
  PROVE  \A p : InDrain(p) => InDrain(p)'
  <1> USE DEF world, watcher, draining
  <1>1. ASSUME UNCHANGED <<drain, generation>> PROVE \A p : InDrain(p) => InDrain(p)'
    BY <1>1 DEF InDrain
  <1>2. ASSUME NEW paths \in SUBSET Path, NEW rescan \in BOOLEAN, TakeSlice(paths, rescan),
               NEW p, InDrain(p)
        PROVE  InDrain(p)'
    <2>1. drain' = Received(drain, paths, rescan) /\ generation' = generation /\ drain \in Slice
      BY <1>2 DEF TakeSlice, InDrain, TypeOK
    <2> QED BY <1>2, <2>1 DEF Received, Slice, InDrain
  <1>3. ASSUME FinishRescan, NEW p, InDrain(p) PROVE InDrain(p)'
    BY <1>3 DEF FinishRescan, InDrain, TypeOK, Slice
  <1>4. ASSUME NEW batch \in SUBSET Path, NEW cut \in BOOLEAN, ApplyPaths(batch, cut),
               NEW p, InDrain(p)
        PROVE  InDrain(p)'
    <2>1. CASE batch = {}
      BY <1>1, <1>4, <2>1 DEF ApplyPaths
    <2>2. CASE batch # {}
      <3>1. /\ drain' = [drain EXCEPT !.pending = @ \ batch, !.paths = @ \cup batch,
                                      !.due = "future",
                                      !.applying = cut \/ drainer = "stale"]
            /\ generation' = generation
        BY <1>4, <2>2 DEF ApplyPaths
      <3>2. /\ drain'.generation = drain.generation /\ drain'.paths = drain.paths \cup batch
            /\ drain'.full = drain.full /\ drain'.due = "future"
        BY <3>1 DEF TypeOK, Slice
      <3> QED BY <1>4, <3>1, <3>2 DEF InDrain
    <2> QED BY <2>1, <2>2
  <1>5. ASSUME ResumeApply \/ QuietEnds, NEW p, InDrain(p) PROVE InDrain(p)'
    BY <1>5 DEF ResumeApply, QuietEnds, InDrain, TypeOK, Slice
  <1>6. CASE ParkRescan
    BY <1>1, <1>6 DEF ParkRescan
  <1> QED BY <1>2, <1>3, <1>4, <1>5, <1>6 DEF DrainRead, WorkOnSlice

LEMMA AskPutBack ==
  ASSUME IInv, AskInv, NEW verify \in BOOLEAN, PutBack(verify), query # 0
  PROVE  AskFrame
  <1>0. TypeOK
    BY DEF IInv
  <1> DEFINE sl == IF verify THEN Verified(drain) ELSE drain
  <1>1. PICK slice : slice = sl
    OBVIOUS
  <1>2. /\ slice \in Slice
        /\ slice.generation = drain.generation
        /\ slice.paths = drain.paths
        /\ drain.full => slice.full
    BY <1>0, <1>1, SliceOf
  <1>3. drain.due # "none" => slice.due # "none"
    BY <1>0, <1>1 DEF Verified, TypeOK, Slice
  <1>4. /\ PublishIfQuiet(slice)
        /\ UNCHANGED <<present, binding, generation, query, overtaken, dirty>>
    BY <1>1 DEF PutBack
  <1> HIDE DEF sl
  <1>5. CASE /\ drain' = slice \/ drain' = Refused(slice)
             /\ UNCHANGED <<runtime, job, current, pc, forgiven, missed>>
    <2>1. \A p : InDrain(p) => InDrain(p)'
      BY <1>2, <1>3, <1>4, <1>5, RefusedSlice DEF InDrain
    <2> QED BY <1>4, <1>5, <2>1 DEF AskFrame, InJobs, Unpublished
  <1>6. CASE Retire /\ missed' = missed
    BY <1>4, <1>6 DEF Retire, AskFrame
  <1>7. CASE /\ present /\ ~runtime
             /\ Forgive({p \in dirty : p \in slice.paths \/ slice.full})
    <2>1. present' => missed = {}
      BY <1>7 DEF AskInv
    <2>2. missed' \subseteq missed
      BY <1>7 DEF Forgive
    <2> QED BY <1>4, <1>7, <2>1, <2>2 DEF AskFrame
  <1>8. CASE /\ present /\ runtime /\ binding = "bound"
             /\ Schedule(IF slice.full THEN {} ELSE slice.paths)
             /\ UNCHANGED <<runtime, forgiven, missed>>
    <2> DEFINE paths == IF slice.full THEN {} ELSE slice.paths
    <2>1. paths \in SUBSET Path /\ Schedule(paths)
      BY <1>2, <1>8 DEF Slice
    <2>2. \A p : InDrain(p) => Covers(paths, p)
      BY <1>2 DEF InDrain, Covers
    <2> HIDE DEF paths
    <2>3. /\ \A p : InJobs(p) => InJobs(p)'
          /\ \A p : Covers(paths, p) => InJobs(p)'
      BY <1>4, <2>1, JobsScheduled
    <2> QED BY <1>4, <1>8, <2>2, <2>3 DEF AskFrame, Unpublished
  <1> QED BY <1>4, <1>5, <1>6, <1>7, <1>8 DEF PublishIfQuiet

LEMMA AskOther ==
  ASSUME IInv, AskInv, [Next]_vars, ~Worker, ~Query, query # 0
  PROVE  AskFrame
  <1> USE DEF world, watcher, draining, worker, asking
  <1>0. TypeOK /\ ~Configure
    BY DEF IInv, Configure
  <1>1. CASE \E p \in Path : Edit(p)
    <2>1. PICK p \in Path : Edit(p)
      BY <1>1
    <2>2. UNCHANGED <<present, binding, generation, runtime, drain, job, current, pc, query,
                      overtaken>>
      BY <2>1 DEF Edit
    <2>3. /\ missed' \subseteq missed
          /\ missed \subseteq Unpublished => missed' \subseteq Unpublished'
      <3>1. CASE watching
        BY <2>1, <3>1 DEF Edit, Unpublished
      <3>2. CASE ~watching
        BY <2>1, <3>2 DEF Edit, Forgive, Unpublished
      <3> QED BY <3>1, <3>2
    <2> QED BY <2>2, <2>3 DEF AskFrame, InDrain, InJobs
  <1>2. CASE LoseEvents \/ DeleteRoot \/ Aside
    <2>1. /\ UNCHANGED <<generation, runtime, drain, job, current, pc,
                         query, missed, overtaken, dirty, forgiven>>
          /\ present' => present
          /\ binding' = binding \/ binding' = "bound"
      BY <1>2 DEF LoseEvents, DeleteRoot, Aside, WatcherStage, Rebind, RetryDue, vars
    <2> QED BY <2>1 DEF AskFrame, InDrain, InJobs, Unpublished
  <1>3. CASE Unbind
    <2>1. /\ UNCHANGED <<present, generation, runtime, drain, current, pc,
                         query, missed, overtaken, dirty, forgiven>>
          /\ present => job' = job
          /\ binding' = "unbound"
      BY <1>3 DEF Unbind
    <2> QED BY <2>1 DEF AskFrame, InDrain, InJobs, Unpublished
  <1>4. CASE GraceEnds \/ ViewLoadFails
    BY <1>4 DEF GraceEnds, ViewLoadFails, AskFrame
  <1>5. CASE FinishViewLoad
    <2>1. /\ UNCHANGED <<present, binding, generation, drain, query, missed, overtaken, dirty>>
          /\ runtime' = TRUE /\ binding = "bound"
          /\ forgiven' = {} \/ forgiven' = forgiven
      BY <1>5 DEF FinishViewLoad
    <2>2. \A p : InJobs(p) => InJobs(p)'
      <3>1. CASE Schedule({})
        BY <2>1, <3>1, JobsScheduled
      <3>2. CASE UNCHANGED <<job, current, pc>>
        BY <2>1, <3>2 DEF InJobs
      <3> QED BY <1>5, <3>1, <3>2 DEF FinishViewLoad
    <2> QED BY <2>1, <2>2 DEF AskFrame, InDrain, Unpublished
  <1>6. CASE DrainRead
    <2>1. UNCHANGED <<present, binding, generation, runtime, job, current, pc, query,
                      missed, overtaken, dirty, forgiven>>
      BY <1>6 DEF DrainRead, TakeSlice, WorkOnSlice, ParkRescan, FinishRescan, ApplyPaths,
                  ResumeApply, QuietEnds
    <2> QED BY <1>0, <1>6, <2>1, AskSlice DEF AskFrame, InJobs, Unpublished
  <1>7. CASE Drop
    <2>1. /\ UNCHANGED <<present, binding, generation, runtime, job, current, pc, query,
                         overtaken, dirty>>
          /\ DropEvents
      BY <1>7 DEF Drop, WatcherStage, WatcherFails, CleanupDeletedRoot
    <2>2. /\ forgiven' = forgiven \cup {p \in dirty : Upstream(p)}
          /\ missed' = missed \ {p \in dirty : Upstream(p)}
      BY <2>1 DEF DropEvents, Forgive
    <2>3. missed \subseteq Unpublished => missed' \subseteq Unpublished'
      BY <2>1, <2>2 DEF Unpublished
    <2>4. \A p : InDrain(p) => Upstream(p)
      BY DEF InDrain, Upstream, InSlice
    <2>5. present => \A p \in missed' : ~InDrain(p)
      BY <2>2, <2>4 DEF AskInv, Unpublished
    <2> QED BY <2>1, <2>2, <2>3, <2>5 DEF AskFrame, InJobs
  <1>8. CASE \E verify \in BOOLEAN : PutBack(verify)
    BY <1>8, AskPutBack
  <1> QED BY <1>0, <1>1, <1>2, <1>3, <1>4, <1>5, <1>6, <1>7, <1>8, NextCases
          DEF Disturbance, Load

LEMMA AskStep ==
  ASSUME IInv, FullInv, AskInv, [Next]_vars
  PROVE  AskInv'
  <1>1. CASE Query
    BY <1>1, AskQuery
  <1>2. CASE ~Query /\ query = 0
    <2> USE DEF asking
    <2>1. query' = 0
      <3>1. CASE Disturbance \/ Drop \/ Load
        BY <1>2, <3>1 DEF Disturbance, Edit, LoseEvents, DeleteRoot, Unbind, GraceEnds,
                          Configure, Drop, WatcherStage, WatcherFails, CleanupDeletedRoot,
                          Load, FinishViewLoad, ViewLoadFails
      <3>2. CASE Worker
        BY <1>2, <3>2 DEF Worker, StopAtTop, StartAttempt, BeginPrepare, ReadMember,
                          EndPrepare, GiveUp, AttemptFails, Commit, Installed,
                          StopAfterFailure, Failed, Advance, WorkerFrame
      <3>3. CASE DrainRead \/ \E verify \in BOOLEAN : PutBack(verify)
        BY <1>2, <3>3 DEF DrainRead, TakeSlice, WorkOnSlice, ParkRescan, FinishRescan,
                          ApplyPaths, ResumeApply, QuietEnds, PutBack
      <3>4. CASE Aside
        BY <1>2, <3>4 DEF Aside, WatcherStage, Rebind, RetryDue, vars
      <3> QED BY <3>1, <3>2, <3>3, <3>4, NextCases
    <2> QED BY <2>1 DEF AskInv
  <1>3. CASE ~Query /\ query # 0
    BY <1>3, AskWorker, AskOther, AskKept
  <1> QED BY <1>1, <1>2, <1>3

(* An answer names every edit it may lack (pending_changes_for_query), for   *)
(* any set of paths and any number of edits, failures, unbinds and           *)
(* configures: an edit that moves while the query reads stage after stage is *)
(* found in a later one, unless a drain held its slice when the query read   *)
(* the drain's slot.                                                         *)
THEOREM AnswersNameEdits == Spec => []NamedUnlessOvertaken
  <1>1. Init => IInv /\ FullInv /\ AskInv
    <2>1. Init => FullInv /\ AskInv
      BY DEF Init, FullInv, AskInv, NewSlice
    <2> QED BY <2>1, InitInv
  <1>2. IInv /\ FullInv /\ AskInv /\ [Next]_vars => (IInv /\ FullInv /\ AskInv)'
    <2>1. IInv => TypeOK
      BY DEF IInv
    <2> QED BY <2>1, InvInductive, FullStep, AskStep
  <1>3. AskInv => NamedUnlessOvertaken
    BY StagesTyped DEF AskInv, NamedUnlessOvertaken
  <1> QED BY <1>1, <1>2, <1>3, PTL DEF Spec
=============================================================================
