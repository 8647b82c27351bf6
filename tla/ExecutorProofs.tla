--------------------------- MODULE ExecutorProofs ---------------------------
(***************************************************************************)
(* Theorems about Executor for any number of roots, jobs and workers.      *)
(***************************************************************************)
EXTENDS Executor, FiniteSetTheorems, TLAPS

-----------------------------------------------------------------------------
(* Type correctness.  TypeOK says nothing of the shape of the scheduler's    *)
(* record nor of its actor order; both are needed to know that the cursor    *)
(* stays a number, and a pass is only entered when there is a root to visit. *)
SchedState ==
  [pc : {"idle", "drain"} \cup Passes, left : Nat, progress : BOOLEAN, wake : BOOLEAN,
   timer : BOOLEAN, cursor : Nat, order : Seq(Actors)]

ActType   == act \in [Actors -> ActorCounters]
PoolType  == pool \in PoolCounters
JobType   == job \in [Jobs -> JobState]
QueueType == ahead \in [Jobs -> SUBSET Jobs] /\ older \in [Jobs -> SUBSET Jobs]
RootType  == root \in [Actors -> RootState]
SchedType == sched \in SchedState /\ (sched.pc \in Passes => sched.order # <<>>)

TypeInv == ActType /\ PoolType /\ JobType /\ QueueType /\ RootType /\ SchedType

LEMMA JobsTyped ==
  ASSUME NEW j \in Jobs
  PROVE  Root(j) \in Actors /\ Class(j) \in Classes /\ Lane(j) \in Lanes
         /\ Info[j].kind \in Kinds
  BY ExecutorAssumption DEF Root, Class, Lane, JobInfo

LEMMA ConstantsTyped ==
  /\ TotalWorkers \in Nat /\ HeavyPermits \in Nat /\ MaintenanceCap \in Nat
  /\ InteractiveReserve \in Nat /\ BindReserve \in Nat /\ ProviderReserve \in Nat
  /\ BatchCap \in Nat /\ BatchCap >= 1 /\ TotalWorkers >= BindReserve + ProviderReserve + 1
  /\ InitOrder \in Seq(Actors) /\ IsFiniteSet(Jobs)
  BY ExecutorAssumption

LEMMA SubsetFinite ==
  ASSUME NEW S \in SUBSET Jobs
  PROVE  IsFiniteSet(S) /\ Cardinality(S) \in Nat
  BY ConstantsTyped, FS_Subset, FS_CardinalityType

LEMMA WritersCounted ==
  ASSUME NEW a, NEW S \in SUBSET Jobs
  PROVE  Cardinality(Writers(a) \cup S) \in Nat /\ Cardinality(Writers(a) \ S) \in Nat
  <1>1. Writers(a) \cup S \in SUBSET Jobs /\ Writers(a) \ S \in SUBSET Jobs
    BY DEF Writers, LaneQueue, Queued
  <1> QED BY <1>1, SubsetFinite

(* The pieces the actions are made of. *)
LEMMA JobPut ==
  ASSUME JobType, NEW j \in Jobs, NEW r \in JobState, job' = [job EXCEPT ![j] = r]
  PROVE  JobType'
  BY DEF JobType

LEMMA JobPutPhase ==
  ASSUME JobType, NEW j \in Jobs, NEW p \in Phases, NEW t \in Tokens,
         job' = [job EXCEPT ![j] = [@ EXCEPT !.phase = p, !.token = t]]
  PROVE  JobType'
  <1> DEFINE r == [job[j] EXCEPT !.phase = p, !.token = t]
  <1>1. job[j] \in JobState
    BY DEF JobType
  <1>2. r \in JobState
    BY <1>1 DEF JobState
  <1> QED BY <1>2, JobPut

LEMMA JobPutCancel ==
  ASSUME JobType, NEW j \in Jobs, NEW c \in Tokens \cup Outcomes, NEW t \in Tokens,
         job' = [job EXCEPT ![j] = [@ EXCEPT !.cancel = c, !.token = t]]
  PROVE  JobType'
  <1> DEFINE r == [job[j] EXCEPT !.cancel = c, !.token = t]
  <1>1. job[j] \in JobState
    BY DEF JobType
  <1>2. r \in JobState
    BY <1>1 DEF JobState
  <1> QED BY <1>2, JobPut

LEMMA RootPut ==
  ASSUME RootType, NEW a \in Actors, NEW r \in RootState, root' = [root EXCEPT ![a] = r]
  PROVE  RootType'
  BY DEF RootType

LEMMA ActPut ==
  ASSUME ActType, NEW a \in Actors, NEW r \in ActorCounters, act' = [act EXCEPT ![a] = r]
  PROVE  ActType'
  BY DEF ActType

LEMMA FreshTyped ==
  /\ FreshJob \in JobState
  /\ FreshRoot \in RootState
  /\ \A i \in Nat : FreshActor(i) \in ActorCounters
                    /\ [FreshActor(i) EXCEPT !.registered = FALSE] \in ActorCounters
  <1>1. FreshJob \in JobState
    BY DEF FreshJob, JobState, Phases, Tokens, Answers
  <1>2. FreshRoot \in RootState
    BY DEF FreshRoot, RootState
  <1>3. ASSUME NEW i \in Nat
        PROVE  FreshActor(i) \in ActorCounters
               /\ [FreshActor(i) EXCEPT !.registered = FALSE] \in ActorCounters
    BY DEF FreshActor, ActorCounters
  <1> QED BY <1>1, <1>2, <1>3

LEMMA SettledTyped ==
  ASSUME JobType, NEW k \in Jobs, NEW ans \in Answers
  PROVE  Settled(k, ans) \in JobState
  BY DEF Settled, FreshJob, JobType, JobState, Phases, Tokens, Answers

LEMMA SettleAllTyped ==
  ASSUME JobType, NEW S, NEW ans \in Answers
  PROVE  SettleAll(S, ans) \in [Jobs -> JobState]
  BY SettledTyped DEF SettleAll, JobType

LEMMA WithoutTyped ==
  ASSUME NEW rel \in [Jobs -> SUBSET Jobs], NEW S
  PROVE  Without(rel, S) \in [Jobs -> SUBSET Jobs]
  BY DEF Without

LEMMA WakeTyped ==
  ASSUME SchedType, Wake
  PROVE  SchedType'
  BY DEF SchedType, SchedState, Wake

LEMMA ReturnTyped ==
  ASSUME JobType, NEW j \in Jobs, NEW ans \in Answers,
         NEW how \in {"done", "panic", "rerun", "retry"}, NEW tok \in Tokens,
         Return(j, ans, how, tok)
  PROVE  JobType'
  <1> DEFINE r == [job[j] EXCEPT !.phase = "returned", !.hold = "none", !.answer = ans,
                                 !.end = how, !.token = tok]
  <1>1. job[j] \in JobState
    BY DEF JobType
  <1>2. r \in JobState
    BY <1>1 DEF JobState, Phases, RunPhases
  <1> QED BY <1>2, JobPut DEF Return

LEMMA ReturnCancelledTyped ==
  ASSUME JobType, NEW j \in Jobs, ReturnCancelled(j)
  PROVE  JobType'
  BY ReturnTyped DEF ReturnCancelled, Answers, Tokens

-----------------------------------------------------------------------------
(* Callers: what a job becomes in a submit or a cancel. *)
LEMMA SubmitTyped ==
  ASSUME TypeInv, NEW j \in Jobs, NEW seen,
         SubmitRefused(j, seen) \/ SubmitBackpressure(j, seen) \/ SubmitQueued(j, seen)
  PROVE  TypeInv'
  <1> USE DEF TypeInv
  <1>1. CASE SubmitRefused(j, seen)
    <2>1. JobType'
      BY <1>1, SettleAllTyped DEF SubmitRefused, JobType, Answers
    <2> QED BY <1>1, <2>1 DEF SubmitRefused, ActType, PoolType, QueueType, RootType, SchedType
  <1>2. CASE SubmitBackpressure(j, seen)
    <2>1. JobType'
      BY <1>2, SettleAllTyped DEF SubmitBackpressure, JobType, Answers
    <2>2. QueueType'
      BY <1>2, WithoutTyped DEF SubmitBackpressure, QueueType
    <2> QED BY <1>2, <2>1, <2>2 DEF SubmitBackpressure, ActType, PoolType, RootType, SchedType
  <1>3. CASE SubmitQueued(j, seen)
    <2>1. Fresh(j) \in JobState
      BY JobsTyped DEF Fresh, FreshJob, JobState, Phases, Tokens, Answers, RootType, RootState,
                       RunningReaders, Running
    <2>2. JobType'
      BY <1>3, <2>1, SettleAllTyped DEF SubmitQueued, JobType, Answers
    <2>3. Queued(Root(j), Class(j)) \ Duplicates(j) \in SUBSET Jobs
      BY DEF Queued
    <2>4. QueueType'
      BY <1>3, <2>3, WithoutTyped DEF SubmitQueued, QueueType
    <2>a. Cardinality(Writers(Root(j)) \cup (IF Interrupts(j) THEN {j} ELSE {})) \in Nat
      BY WritersCounted
    <2>5. ActType'
      BY <1>3, <2>a, JobsTyped DEF SubmitQueued, ActType, ActorCounters
    <2>6. SchedType'
      BY <1>3, WakeTyped DEF SubmitQueued
    <2> QED BY <1>3, <2>2, <2>4, <2>5, <2>6 DEF SubmitQueued, PoolType, RootType
  <1> QED BY <1>1, <1>2, <1>3

LEMMA RemoveQueuedTyped ==
  ASSUME TypeInv, NEW j \in Jobs, NEW outcome \in Outcomes, RemoveQueued(j, outcome)
  PROVE  TypeInv'
  <1> USE DEF TypeInv
  <1> DEFINE r == [Settled(j, "cancelled") EXCEPT !.token = "cancelled", !.cancel = outcome]
  <1>1. Settled(j, "cancelled") \in JobState
    BY SettledTyped DEF Answers
  <1>2. r \in JobState
    BY <1>1 DEF JobState, Tokens
  <1>3. JobType'
    BY <1>2, JobPut DEF RemoveQueued
  <1>4. QueueType'
    BY WithoutTyped DEF RemoveQueued, QueueType
  <1>5. ActType'
    BY WritersCounted, JobsTyped DEF RemoveQueued, SyncDemand, ActType, ActorCounters
  <1>6. SchedType'
    BY WakeTyped DEF RemoveQueued
  <1> QED BY <1>3, <1>4, <1>5, <1>6 DEF RemoveQueued, PoolType, RootType

LEMMA CancelTyped ==
  ASSUME TypeInv, NEW j \in Jobs,
         SignalCancel(j) \/ ResolveCancel(j) \/ CancelBeforeExecution(j) \/ Recycle(j)
  PROVE  TypeInv'
  <1> USE DEF TypeInv
  <1>0. job[j] \in JobState
    BY DEF JobType
  <1>1. CASE SignalCancel(j)
    <2>1. job[j].token \in Tokens /\ Signalled(job[j].token) \in Tokens
      BY <1>0 DEF JobState, Tokens, Signalled
    <2>2. JobType'
      BY <1>1, <2>1, JobPutCancel DEF SignalCancel
    <2> QED BY <1>1, <2>2 DEF SignalCancel, ActType, PoolType, QueueType, RootType, SchedType
  <1>2. CASE ResolveCancel(j)
    <2>1. CASE job[j].phase = "queued"
      BY <1>2, <2>1, RemoveQueuedTyped DEF ResolveCancel, Outcomes
    <2>2. CASE job[j].phase # "queued"
      <3>1. Outcome(job[j].cancel) \in Outcomes
        BY DEF Outcome, Outcomes
      <3>2. JobType'
        BY <1>2, <2>2, <3>1 DEF ResolveCancel, JobType, JobState
      <3> QED BY <1>2, <2>2, <3>2
              DEF ResolveCancel, ActType, PoolType, QueueType, RootType, SchedType
    <2> QED BY <2>1, <2>2
  <1>3. CASE CancelBeforeExecution(j)
    <2>1. CASE job[j].token = "pending" /\ job[j].phase = "queued"
      BY <1>3, <2>1, RemoveQueuedTyped DEF CancelBeforeExecution, Outcomes
    <2>2. CASE ~(job[j].token = "pending" /\ job[j].phase = "queued")
      <3> DEFINE c == IF job[j].token = "pending" THEN "DispatchedCancelled" ELSE "AlreadyStarted"
                 t == IF job[j].token = "pending" THEN "cancelled" ELSE job[j].token
      <3>1. c \in Tokens \cup Outcomes /\ t \in Tokens
        BY <1>0 DEF JobState, Outcomes, Tokens
      <3>a. job' = [job EXCEPT ![j] = [@ EXCEPT !.cancel = c, !.token = t]]
        BY <1>3, <2>2 DEF CancelBeforeExecution
      <3> HIDE DEF c, t
      <3>2. JobType'
        BY <3>1, <3>a, JobPutCancel
      <3> QED BY <1>3, <2>2, <3>2
              DEF CancelBeforeExecution, ActType, PoolType, QueueType, RootType, SchedType
    <2> QED BY <2>1, <2>2
  <1>4. CASE Recycle(j)
    <2>1. JobType'
      BY <1>4, FreshTyped, JobPut DEF Recycle
    <2> QED BY <1>4, <2>1 DEF Recycle, WorkerOnly, ActType, PoolType, QueueType, RootType, SchedType
  <1> QED BY <1>1, <1>2, <1>3, <1>4

(* Workers and time change one job, and Seal the root's generation. *)
LEMMA WorkerTyped ==
  ASSUME TypeInv, NEW j \in Jobs,
         Worker(j) \/ Seal(j) \/ Panic(j) \/ Age(j) \/ Stick(j) \/ RetryDue(j)
  PROVE  TypeInv'
  <1> USE DEF TypeInv
  <1> DEFINE Rest == ActType' /\ PoolType' /\ QueueType' /\ SchedType'
  <1>0. job[j] \in JobState /\ job[j].token \in Tokens
    BY DEF JobType, JobState
  <1>a. ASSUME WorkerOnly PROVE Rest /\ RootType'
    BY <1>a DEF WorkerOnly, ActType, PoolType, QueueType, RootType, SchedType
  <1>1. CASE EnterGate(j)
    <2> DEFINE r == [job[j] EXCEPT !.phase = "gated",
                                   !.hold = IF NeedsWrite(j) THEN "write" ELSE "read"]
    <2>1. r \in JobState
      BY <1>0 DEF JobState, Phases, RunPhases
    <2> QED BY <1>1, <1>a, <2>1, JobPut DEF EnterGate
  <1>2. CASE GiveUpGate(j)
    BY <1>2, <1>a, ReturnCancelledTyped DEF GiveUpGate
  <1>3. CASE MissGate(j)
    <2> DEFINE r == [job[j] EXCEPT !.phase = "handback",
                                   !.end = IF job[j].shared THEN "rerun" ELSE "retry"]
    <2>1. r \in JobState
      BY <1>0 DEF JobState, Phases, RunPhases
    <2> QED BY <1>3, <1>a, <2>1, JobPut DEF MissGate
  <1>4. CASE ProbePasses(j)
    <2>1. JobType'
      BY <1>4 DEF ProbePasses, JobType, JobState, Phases, RunPhases
    <2> QED BY <1>4, <1>a, <2>1 DEF ProbePasses
  <1>5. CASE ProbeStops(j)
    BY <1>5, <1>0, <1>a, ReturnTyped DEF ProbeStops, Answers, Tokens
  <1>6. CASE Start(j)
    <2> DEFINE t == IF Lane(j) = "ProviderMetadata" THEN "committed"
                    ELSE IF job[j].token = "pending" THEN "running" ELSE job[j].token
    <2>1. t \in Tokens /\ "executing" \in Phases
      BY <1>0 DEF Phases, RunPhases, Tokens
    <2>2. job' = [job EXCEPT ![j] = [@ EXCEPT !.phase = "executing", !.token = t]]
      BY <1>6 DEF Start
    <2> HIDE DEF t
    <2>3. JobType'
      BY <2>1, <2>2, JobPutPhase
    <2> QED BY <1>6, <1>a, <2>3 DEF Start
  <1>7. CASE StartRefused(j)
    BY <1>7, <1>0, <1>a, ReturnTyped DEF StartRefused, Answers
  <1>8. CASE Finish(j)
    BY <1>8, <1>0, <1>a, ReturnTyped DEF Finish, Answers
  <1>9. CASE Panic(j)
    BY <1>9, <1>0, <1>a, ReturnTyped DEF Panic, Answers
  <1>10. CASE RequestRerun(j)
    <2> DEFINE r == [job[j] EXCEPT !.phase = "handback", !.hold = "none", !.end = "rerun"]
    <2>1. r \in JobState
      BY <1>0 DEF JobState, Phases, RunPhases
    <2> QED BY <1>10, <1>a, <2>1, JobPut DEF RequestRerun
  <1>11. CASE ReturnToPending(j)
    <2> DEFINE t == IF job[j].token = "running" THEN "pending" ELSE job[j].token
    <2>1. t \in Tokens /\ "handed" \in Phases
      BY <1>0 DEF Phases, RunPhases, Tokens
    <2>a. \/ ReturnCancelled(j)
          \/ job' = [job EXCEPT ![j] = [@ EXCEPT !.phase = "handed", !.token = t]]
      BY <1>11 DEF ReturnToPending
    <2> HIDE DEF t
    <2>2. JobType'
      BY <2>1, <2>a, JobPutPhase, ReturnCancelledTyped
    <2> QED BY <1>11, <1>a, <2>2 DEF ReturnToPending
  <1>12. CASE HandOff(j)
    <2>1. CASE ReturnCancelled(j)
      BY <1>12, <1>a, <2>1, ReturnCancelledTyped DEF HandOff
    <2>2. CASE job' = [job EXCEPT ![j].phase = "returned"]
      <3>1. JobType'
        BY <2>2 DEF JobType, JobState, Phases, RunPhases
      <3> QED BY <1>12, <1>a, <3>1 DEF HandOff
    <2> QED BY <1>12, <2>1, <2>2 DEF HandOff
  <1>13. CASE Seal(j)
    <2>1. JobType'
      BY <1>13 DEF Seal, JobType, JobState, Tokens
    <2>2. RootType'
      BY <1>13, JobsTyped DEF Seal, RootType, RootState
    <2> QED BY <1>13, <2>1, <2>2 DEF Seal, ActType, PoolType, QueueType, SchedType
  <1>14. CASE Age(j)
    <2> DEFINE r == [job[j] EXCEPT !.aged = TRUE]
    <2>1. r \in JobState
      BY <1>0 DEF JobState
    <2>2. job' = [job EXCEPT ![j] = r]
      BY <1>14 DEF Age
    <2> HIDE DEF r
    <2>3. JobType'
      BY <2>1, <2>2, JobPut
    <2> QED BY <1>14, <1>a, <2>3 DEF Age
  <1>15. CASE Stick(j)
    <2> DEFINE r == [job[j] EXCEPT !.stuck = TRUE]
    <2>1. r \in JobState
      BY <1>0 DEF JobState
    <2>2. job' = [job EXCEPT ![j] = r]
      BY <1>15 DEF Stick
    <2> HIDE DEF r
    <2>3. JobType'
      BY <2>1, <2>2, JobPut
    <2> QED BY <1>15, <1>a, <2>3 DEF Stick
  <1>16. CASE RetryDue(j)
    <2>1. JobType'
      BY <1>16 DEF RetryDue, JobType, JobState
    <2> QED BY <1>16, <1>a, <2>1 DEF RetryDue
  <1> QED BY <1>1, <1>2, <1>3, <1>4, <1>5, <1>6, <1>7, <1>8, <1>9, <1>10, <1>11, <1>12,
             <1>13, <1>14, <1>15, <1>16 DEF Worker

-----------------------------------------------------------------------------
(* Roots and publishers. *)
LEMMA DropTyped ==
  ASSUME TypeInv, NEW a \in Actors, NEW ans \in Answers, Free, Drop(a, ans)
  PROVE  TypeInv'
  <1> USE DEF TypeInv
  <1>1. act[a].inc \in Nat
    BY DEF ActType, ActorCounters
  <1>2. ActType'
    BY <1>1, FreshTyped, ActPut DEF Drop
  <1>3. JobType'
    BY SettleAllTyped DEF Drop, JobType
  <1>4. QueueType'
    BY WithoutTyped DEF Drop, QueueType
  <1>5. SchedType'
    <2>1. PICK i \in 1..Len(sched.order) :
            sched' = [sched EXCEPT !.wake = TRUE,
                        !.order = SubSeq(@, 1, i - 1) \o SubSeq(@, i + 1, Len(@))]
      BY DEF Drop
    <2>2. sched.order \in Seq(Actors)
      BY DEF SchedType, SchedState
    <2>3. SubSeq(sched.order, 1, i - 1) \o SubSeq(sched.order, i + 1, Len(sched.order)) \in Seq(Actors)
      BY <2>2
    <2> QED BY <2>1, <2>3 DEF SchedType, SchedState, Free, Passes
  <1> QED BY <1>2, <1>3, <1>4, <1>5 DEF Drop, PoolType, RootType

LEMMA RootStepTyped ==
  ASSUME TypeInv, NEW a \in Actors,
         \/ Register(a) \/ RemoveActor(a) \/ RetireIdleActor(a)
         \/ MarkUnbound(a) \/ Quiesce(a) \/ MarkBound(a) \/ DeleteRoot(a)
         \/ PublisherParks(a) \/ PublisherEnters(a) \/ PublisherLeaves(a)
  PROVE  TypeInv'
  <1> USE DEF TypeInv
  <1> DEFINE Rest == ActType' /\ PoolType' /\ QueueType' /\ JobType' /\ SchedType'
  <1>0. root[a] \in RootState
    BY DEF RootType
  <1>a. ASSUME UNCHANGED <<act, pool, job, ahead, older, sched>> PROVE Rest
    BY <1>a DEF ActType, PoolType, QueueType, JobType, SchedType
  <1>1. CASE Register(a)
    <2>1. act[a].inc + 1 \in Nat
      BY DEF ActType, ActorCounters
    <2>2. ActType'
      BY <1>1, <2>1, FreshTyped, ActPut DEF Register
    <2> DEFINE torn == On(a) # {}
    <2>3. [FreshRoot EXCEPT !.pubs = root[a].pubs, !.torn = torn, !.quiescing = root[a].quiescing]
            \in RootState
      <3>1. torn \in BOOLEAN
        OBVIOUS
      <3> HIDE DEF torn
      <3> QED BY <1>0, <3>1 DEF FreshRoot, RootState
    <2>4. RootType'
      BY <1>1, <2>3, RootPut DEF Register
    <2>5. sched.order \in Seq(Actors) /\ Append(sched.order, a) \in Seq(Actors)
      BY DEF SchedType, SchedState
    <2>6. SchedType'
      BY <1>1, <2>5 DEF Register, SchedType, SchedState, Free, Passes
    <2> QED BY <1>1, <2>2, <2>4, <2>6 DEF Register, PoolType, JobType, QueueType
  <1>2. CASE RemoveActor(a)
    BY <1>2, DropTyped DEF RemoveActor, Answers
  <1>3. CASE RetireIdleActor(a)
    BY <1>3, DropTyped DEF RetireIdleActor, Answers
  <1>4. CASE MarkUnbound(a)
    <2> DEFINE g == root[a].gen + 1
    <2>1. g \in Nat
      BY <1>0 DEF RootState
    <2>2. root' = [root EXCEPT ![a] = [@ EXCEPT !.bound = FALSE, !.gen = g, !.quiescing = TRUE]]
      BY <1>4 DEF MarkUnbound
    <2> HIDE DEF g
    <2>3. [root[a] EXCEPT !.bound = FALSE, !.gen = g, !.quiescing = TRUE] \in RootState
      BY <1>0, <2>1 DEF RootState
    <2>4. RootType'
      BY <2>2, <2>3, RootPut
    <2> QED BY <1>4, <1>a, <2>4 DEF MarkUnbound
  <1>5. CASE Quiesce(a)
    <2>1. [root[a] EXCEPT !.quiescing = FALSE] \in RootState
      BY <1>0 DEF RootState
    <2>2. RootType'
      BY <1>5, <2>1, RootPut DEF Quiesce
    <2>3. ASSUME NEW k \in Jobs
          PROVE  /\ [job[k] EXCEPT !.token = Signalled(job[k].token)] \in JobState
                 /\ [Settled(k, "cancelled") EXCEPT !.token = "cancelled"] \in JobState
                 /\ [Settled(k, "cancelled") EXCEPT !.token = @] \in JobState
                 /\ job[k] \in JobState
      <3>1. job[k] \in JobState /\ Settled(k, "cancelled") \in JobState
        BY <2>3, SettledTyped DEF JobType, Answers
      <3>2. Signalled(job[k].token) \in Tokens
        BY <3>1 DEF Signalled, JobState, Tokens
      <3> QED BY <3>1, <3>2 DEF JobState, Tokens
    <2>4. JobType'
      BY <1>5, <2>3 DEF Quiesce, JobType
    <2>5. QueueType'
      BY <1>5, WithoutTyped DEF Quiesce, QueueType
    <2>6. SchedType'
      BY <1>5, WakeTyped DEF Quiesce
    <2> QED BY <1>5, <2>2, <2>4, <2>5, <2>6 DEF Quiesce, ActType, PoolType
  <1>6. CASE MarkBound(a)
    <2>1. [root[a] EXCEPT !.bound = TRUE] \in RootState
      BY <1>0 DEF RootState
    <2> QED BY <1>6, <1>a, <2>1, RootPut DEF MarkBound
  <1>7. CASE DeleteRoot(a)
    <2>1. [root[a] EXCEPT !.dir = FALSE] \in RootState
      BY <1>0 DEF RootState
    <2> QED BY <1>7, <1>a, <2>1, RootPut DEF DeleteRoot
  <1>8. CASE PublisherParks(a)
    <2> DEFINE n == root[a].pubs + 1
    <2>1. n \in Nat
      BY <1>0 DEF RootState
    <2>2. root' = [root EXCEPT ![a] = [@ EXCEPT !.publisher = "parked", !.pubs = n]]
      BY <1>8 DEF PublisherParks
    <2> HIDE DEF n
    <2>3. [root[a] EXCEPT !.publisher = "parked", !.pubs = n] \in RootState
      BY <1>0, <2>1 DEF RootState
    <2>4. RootType'
      BY <2>2, <2>3, RootPut
    <2> QED BY <1>8, <1>a, <2>4 DEF PublisherParks
  <1>9. CASE PublisherEnters(a)
    BY <1>9, <1>a, <1>0 DEF PublisherEnters, RootType, RootState
  <1>10. CASE PublisherLeaves(a)
    BY <1>10, <1>a, <1>0 DEF PublisherLeaves, RootType, RootState
  <1> QED BY <1>1, <1>2, <1>3, <1>4, <1>5, <1>6, <1>7, <1>8, <1>9, <1>10

-----------------------------------------------------------------------------
(* The scheduler: counters first. *)
LEMMA OccupiedTyped ==
  ASSUME NEW r \in ActorCounters, NEW j, NEW sharing \in BOOLEAN, NEW d \in Nat
  PROVE  [Occupied(r, j, sharing) EXCEPT !.demand = d] \in ActorCounters
  <1> DEFINE t == r.total + 1
             n == IF Lane(j) = "PureRead" THEN r.read + 1 ELSE r.read
             l == r.lsp \/ Lane(j) = "SerialLspStatus"
             q == r.acquire \/ IsAcquisition(j)
             w == r.writer \/ Lane(j) = "Mutating"
             s == IF Lane(j) = "Mutating" THEN sharing ELSE r.shared
             c == r.commit \/ Lane(j) = "MaintenanceCommit"
             p == r.provider \/ Lane(j) = "ProviderMetadata"
             g == r.ledger \/ Lane(j) = "CallLedger"
  <1>1. t \in Nat /\ n \in Nat
    BY DEF ActorCounters
  <1>2. l \in BOOLEAN /\ q \in BOOLEAN /\ w \in BOOLEAN /\ s \in BOOLEAN /\ c \in BOOLEAN
        /\ p \in BOOLEAN /\ g \in BOOLEAN
    BY DEF ActorCounters
  <1>3. Occupied(r, j, sharing) =
          [r EXCEPT !.total = t, !.read = n, !.lsp = l, !.acquire = q, !.writer = w,
                    !.shared = s, !.commit = c, !.provider = p, !.ledger = g]
    BY DEF Occupied
  <1> HIDE DEF t, n, l, q, w, s, c, p, g
  <1>4. [r EXCEPT !.total = t, !.read = n, !.lsp = l, !.acquire = q, !.writer = w,
                  !.shared = s, !.commit = c, !.provider = p, !.ledger = g] \in ActorCounters
    BY <1>1, <1>2 DEF ActorCounters
  <1>5. Occupied(r, j, sharing) \in ActorCounters
    BY <1>3, <1>4
  <1> QED BY <1>5 DEF ActorCounters

LEMMA FreedTyped ==
  ASSUME NEW r \in ActorCounters, NEW j
  PROVE  Freed(r, j) \in ActorCounters
  <1> DEFINE t == Less(r.total)
             n == IF Lane(j) = "PureRead" THEN Less(r.read) ELSE r.read
             l == r.lsp /\ Lane(j) # "SerialLspStatus"
             q == r.acquire /\ ~IsAcquisition(j)
             w == r.writer /\ Lane(j) # "Mutating"
             s == r.shared /\ Lane(j) # "Mutating"
             c == r.commit /\ Lane(j) # "MaintenanceCommit"
             p == r.provider /\ Lane(j) # "ProviderMetadata"
             g == r.ledger /\ Lane(j) # "CallLedger"
  <1>1. t \in Nat /\ n \in Nat
    BY DEF ActorCounters, Less
  <1>2. l \in BOOLEAN /\ q \in BOOLEAN /\ w \in BOOLEAN /\ s \in BOOLEAN /\ c \in BOOLEAN
        /\ p \in BOOLEAN /\ g \in BOOLEAN
    BY DEF ActorCounters
  <1>3. Freed(r, j) =
          [r EXCEPT !.total = t, !.read = n, !.lsp = l, !.acquire = q, !.writer = w,
                    !.shared = s, !.commit = c, !.provider = p, !.ledger = g]
    BY DEF Freed
  <1> HIDE DEF t, n, l, q, w, s, c, p, g
  <1>4. [r EXCEPT !.total = t, !.read = n, !.lsp = l, !.acquire = q, !.writer = w,
                  !.shared = s, !.commit = c, !.provider = p, !.ledger = g] \in ActorCounters
    BY <1>1, <1>2 DEF ActorCounters
  <1> QED BY <1>3, <1>4

(* The fields of the pool's record after a launch and after a completion. *)
LEMMA OccupiedPoolFields ==
  ASSUME PoolType, NEW j \in Jobs
  PROVE  /\ OccupiedPool(j).idle = pool.idle - 1
         /\ OccupiedPool(j).interactive =
              IF Class(j) = "Interactive" THEN pool.interactive + 1 ELSE pool.interactive
         /\ OccupiedPool(j).maintenance =
              IF Class(j) = "Maintenance" THEN pool.maintenance + 1 ELSE pool.maintenance
         /\ OccupiedPool(j).provider =
              IF Lane(j) = "ProviderMetadata" THEN pool.provider + 1 ELSE pool.provider
         /\ OccupiedPool(j).binds = IF IsBind(j) THEN pool.binds + 1 ELSE pool.binds
         /\ OccupiedPool(j).heavy = IF Lane(j) = "HeavyInit" THEN pool.heavy - 1 ELSE pool.heavy
         /\ pool.idle >= 1 /\ (Lane(j) = "HeavyInit" => pool.heavy >= 1)
            => OccupiedPool(j) \in PoolCounters
  <1> DEFINE i == pool.idle - 1
             n == IF Class(j) = "Interactive" THEN pool.interactive + 1 ELSE pool.interactive
             m == IF Class(j) = "Maintenance" THEN pool.maintenance + 1 ELSE pool.maintenance
             p == IF Lane(j) = "ProviderMetadata" THEN pool.provider + 1 ELSE pool.provider
             b == IF IsBind(j) THEN pool.binds + 1 ELSE pool.binds
             h == IF Lane(j) = "HeavyInit" THEN pool.heavy - 1 ELSE pool.heavy
  <1>1. OccupiedPool(j) = [pool EXCEPT !.idle = i, !.interactive = n, !.maintenance = m,
                                       !.provider = p, !.binds = b, !.heavy = h]
    BY DEF OccupiedPool
  <1>3. pool.idle >= 1 /\ (Lane(j) = "HeavyInit" => pool.heavy >= 1)
        => i \in Nat /\ n \in Nat /\ m \in Nat /\ p \in Nat /\ b \in Nat /\ h \in Nat
    BY DEF PoolType, PoolCounters
  <1>4. /\ OccupiedPool(j).idle = i /\ OccupiedPool(j).interactive = n
        /\ OccupiedPool(j).maintenance = m /\ OccupiedPool(j).provider = p
        /\ OccupiedPool(j).binds = b /\ OccupiedPool(j).heavy = h
        /\ i \in Nat /\ n \in Nat /\ m \in Nat /\ p \in Nat /\ b \in Nat /\ h \in Nat
           => OccupiedPool(j) \in PoolCounters
    <2> HIDE DEF i, n, m, p, b, h
    <2> QED BY <1>1 DEF PoolType, PoolCounters
  <1> QED BY <1>3, <1>4

LEMMA FreedPoolFields ==
  ASSUME PoolType, NEW j \in Jobs
  PROVE  /\ FreedPool(j).idle = pool.idle + 1
         /\ FreedPool(j).interactive =
              IF Class(j) = "Interactive" THEN Less(pool.interactive) ELSE pool.interactive
         /\ FreedPool(j).maintenance =
              IF Class(j) = "Maintenance" THEN Less(pool.maintenance) ELSE pool.maintenance
         /\ FreedPool(j).provider =
              IF Lane(j) = "ProviderMetadata" THEN Less(pool.provider) ELSE pool.provider
         /\ FreedPool(j).binds = IF IsBind(j) THEN Less(pool.binds) ELSE pool.binds
         /\ FreedPool(j).heavy = IF Lane(j) = "HeavyInit" THEN pool.heavy + 1 ELSE pool.heavy
         /\ FreedPool(j) \in PoolCounters
  <1> DEFINE i == pool.idle + 1
             n == IF Class(j) = "Interactive" THEN Less(pool.interactive) ELSE pool.interactive
             m == IF Class(j) = "Maintenance" THEN Less(pool.maintenance) ELSE pool.maintenance
             p == IF Lane(j) = "ProviderMetadata" THEN Less(pool.provider) ELSE pool.provider
             b == IF IsBind(j) THEN Less(pool.binds) ELSE pool.binds
             h == IF Lane(j) = "HeavyInit" THEN pool.heavy + 1 ELSE pool.heavy
  <1>1. FreedPool(j) = [pool EXCEPT !.idle = i, !.interactive = n, !.maintenance = m,
                                    !.provider = p, !.binds = b, !.heavy = h]
    BY DEF FreedPool
  <1>3. i \in Nat /\ n \in Nat /\ m \in Nat /\ p \in Nat /\ b \in Nat /\ h \in Nat
    BY DEF PoolType, PoolCounters, Less
  <1>4. /\ FreedPool(j).idle = i /\ FreedPool(j).interactive = n /\ FreedPool(j).maintenance = m
        /\ FreedPool(j).provider = p /\ FreedPool(j).binds = b /\ FreedPool(j).heavy = h
        /\ FreedPool(j) \in PoolCounters
    <2> HIDE DEF i, n, m, p, b, h
    <2> QED BY <1>1, <1>3 DEF PoolType, PoolCounters
  <1> QED BY <1>4

(* What a pass admits. *)
LEMMA OfferFacts ==
  ASSUME NEW a, NEW pass \in Passes, NEW j \in Offer(a, pass)
  PROVE  /\ j \in Jobs /\ job[j].phase = "queued" /\ Root(j) = a /\ Admits(j, pass)
         /\ Class(j) = IF pass = "maintenance" THEN "Maintenance" ELSE "Interactive"
         /\ pass = "bind" => IsBind(j)
         /\ pass = "provider" => Lane(j) = "ProviderMetadata"
         /\ pass \notin {"provider", "maintenance"} => Lane(j) # "ProviderMetadata"
  <1>1. j \in Candidate(a, pass) /\ Admits(j, pass)
    BY DEF Offer
  <1>2. CASE pass = "bind"
    BY <1>1, <1>2 DEF Candidate, First, QueuedBinds, Writers, LaneQueue, Queued
  <1>3. CASE pass = "provider"
    BY <1>1, <1>3 DEF Candidate, First, LaneQueue, Queued
  <1>4. CASE pass = "ledger"
    BY <1>1, <1>4 DEF Candidate, First, LaneQueue, Queued
  <1>5. CASE pass = "interactive"
    BY <1>1, <1>5 DEF Candidate, NextInteractive, InteractiveChoice, First, Writers, LaneQueue, Queued
  <1>6. CASE pass = "maintenance"
    BY <1>1, <1>6 DEF Candidate, First, Queued
  <1> QED BY <1>2, <1>3, <1>4, <1>5, <1>6 DEF Passes

LEMMA DispatchNeedsWorker ==
  ASSUME PoolType, NEW pass \in Passes, CanDispatch(pass)
  PROVE  pool.idle >= 1
  BY ConstantsTyped DEF PoolType, PoolCounters, CanDispatch, GeneralIdle, ProviderIdle, Monus, Passes

LEMMA LaunchTyped ==
  ASSUME TypeInv, NEW a, NEW pass \in Passes, NEW j \in Offer(a, pass),
         CanDispatch(pass), Launch(j, pass)
  PROVE  ActType' /\ PoolType' /\ JobType' /\ QueueType' /\ RootType'
  <1> USE DEF TypeInv
  <1>0. j \in Jobs /\ Admits(j, pass) /\ Root(j) \in Actors
    BY OfferFacts, JobsTyped
  <1> DEFINE sharing == MayShare(j, pass) /\ EpochReader(Root(j))
             d == Cardinality(Writers(Root(j)) \ {j})
             n == act[Root(j)].inc
  <1>1. sharing \in BOOLEAN
    OBVIOUS
  <1>2. d \in Nat /\ n \in Nat
    BY <1>0, WritersCounted DEF ActType, ActorCounters
  <1>3. /\ act' = [act EXCEPT ![Root(j)] =
                     [Occupied(act[Root(j)], j, sharing) EXCEPT !.demand = d]]
        /\ job' = [job EXCEPT ![j] = [@ EXCEPT !.phase = "dispatched", !.shared = sharing,
                                               !.inc = n, !.backoff = "none"]]
    BY DEF Launch
  <1> HIDE DEF sharing, d, n
  <1>4. ActType'
    <2>1. act[Root(j)] \in ActorCounters
      BY <1>0 DEF ActType
    <2>2. [Occupied(act[Root(j)], j, sharing) EXCEPT !.demand = d] \in ActorCounters
      BY <1>1, <1>2, <2>1, OccupiedTyped
    <2> QED BY <1>0, <1>3, <2>2, ActPut
  <1>5. JobType'
    <2>1. job[j] \in JobState
      BY <1>0 DEF JobType
    <2>2. [job[j] EXCEPT !.phase = "dispatched", !.shared = sharing,
                         !.inc = n, !.backoff = "none"] \in JobState
      BY <1>1, <1>2, <2>1 DEF JobState, Phases, RunPhases
    <2> QED BY <1>0, <1>3, <2>2, JobPut
  <1>6. PoolType'
    <2>1. pool.idle >= 1
      BY DispatchNeedsWorker
    <2>2. Lane(j) = "HeavyInit" => pool.heavy >= 1
      BY <1>0 DEF Admits, LaneAdmits, PermitFree, PoolType, PoolCounters
    <2> QED BY <1>0, <2>1, <2>2, OccupiedPoolFields DEF Launch, PoolType
  <1>7. QueueType'
    BY WithoutTyped DEF Launch, QueueType
  <1> QED BY <1>4, <1>5, <1>6, <1>7 DEF Launch, RootType

LEMMA EndTurnTyped ==
  ASSUME TypeInv, NEW c \in Nat, EndTurn(c)
  PROVE  TypeInv'
  <1> USE DEF TypeInv
  <1>1. SchedType'
    <2> DEFINE t == RetryPending
    <2>1. t \in BOOLEAN
      BY DEF RetryPending
    <2>2. sched' = [sched EXCEPT !.pc = "idle", !.left = 0, !.progress = FALSE, !.cursor = c,
                                 !.timer = t]
      BY DEF EndTurn
    <2> HIDE DEF t
    <2> QED BY <2>1, <2>2 DEF SchedType, SchedState, Passes
  <1>2. ASSUME NEW k \in Jobs
        PROVE  job[k] \in JobState /\ [job[k] EXCEPT !.backoff = "offered"] \in JobState
    BY <1>2 DEF JobType, JobState
  <1>3. JobType'
    BY <1>2 DEF EndTurn, JobType
  <1> QED BY <1>1, <1>3 DEF EndTurn, ActType, PoolType, QueueType, RootType

LEMMA GoToTyped ==
  ASSUME TypeInv, NEW c \in Nat, NEW p \in Passes, GoTo(p, c), sched.order # <<>>
  PROVE  TypeInv'
  <1> USE DEF TypeInv
  <1> DEFINE b == sched.progress /\ p # "bind"
             n == Len(sched.order)
  <1>1. b \in BOOLEAN /\ n \in Nat
    BY DEF SchedType, SchedState
  <1>2. sched' = [sched EXCEPT !.pc = p, !.cursor = c, !.left = n, !.progress = b]
    BY DEF GoTo
  <1> HIDE DEF b, n
  <1>3. SchedType'
    BY <1>1, <1>2 DEF SchedType, SchedState
  <1> QED BY <1>3 DEF GoTo, ActType, PoolType, JobType, QueueType, RootType

LEMMA NextRoundTyped ==
  ASSUME TypeInv, NEW c \in Nat, NextRound(c)
  PROVE  TypeInv'
  <1>1. "bind" \in Passes
    BY DEF Passes
  <1>2. CASE pool.idle > 0 /\ sched.order # <<>>
    BY <1>1, <1>2, GoToTyped DEF NextRound
  <1>3. CASE ~(pool.idle > 0 /\ sched.order # <<>>)
    BY <1>3, EndTurnTyped DEF NextRound
  <1> QED BY <1>2, <1>3

LEMMA LeavePassTyped ==
  ASSUME TypeInv, NEW c \in Nat, sched.pc \in Passes, LeavePass(c)
  PROVE  TypeInv'
  <1>1. CASE sched.pc = "maintenance"
    BY <1>1, NextRoundTyped, EndTurnTyped DEF LeavePass
  <1>2. CASE sched.pc # "maintenance"
    <2>1. Following[sched.pc] \in Passes
      BY <1>2 DEF Passes, Following
    <2>2. sched.order # <<>>
      BY DEF TypeInv, SchedType
    <2>3. GoTo(Following[sched.pc], c) \/ EndTurn(c)
      BY <1>2 DEF LeavePass
    <2> QED BY <2>1, <2>2, <2>3, GoToTyped, EndTurnTyped
  <1> QED BY <1>1, <1>2

LEMMA TakeEventTyped ==
  ASSUME SchedType, NEW j \in Jobs, TakeEvent(j)
  PROVE  SchedType'
  <1>1. BatchCap - 1 \in Nat
    BY ConstantsTyped
  <1>2. CASE Free /\ BeginTurn(sched)
    BY <1>1, <1>2 DEF BeginTurn, SchedType, SchedState, Passes
  <1>3. CASE sched.pc = "drain" /\ sched.left > 0 /\ sched' = [sched EXCEPT !.left = @ - 1]
    <2> DEFINE n == sched.left - 1
    <2>1. n \in Nat
      BY <1>3 DEF SchedType, SchedState
    <2>2. sched' = [sched EXCEPT !.left = n]
      BY <1>3
    <2> HIDE DEF n
    <2> QED BY <1>3, <2>1, <2>2 DEF SchedType, SchedState, Passes
  <1> QED BY <1>2, <1>3 DEF TakeEvent

LEMMA CompleteTyped ==
  ASSUME TypeInv, NEW j \in Jobs, Complete(j)
  PROVE  TypeInv'
  <1> USE DEF TypeInv
  <1> DEFINE a == Root(j)
             dies == act[a].registered /\ job[j].end = "panic" /\ Lane(j) = "Mutating"
             failed == IF dies THEN Failed(a) ELSE {}
  <1>0. a \in Actors /\ job[j].answer \in Answers /\ act[a] \in ActorCounters
    BY JobsTyped DEF JobType, JobState, ActType
  <1>1. JobType'
    <2>1. job' = [SettleAll(failed, "fatal") EXCEPT ![j] = Settled(j, job[j].answer)]
      BY DEF Complete
    <2>2. SettleAll(failed, "fatal") \in [Jobs -> JobState]
      BY SettleAllTyped DEF Answers
    <2>3. Settled(j, job[j].answer) \in JobState
      BY <1>0, SettledTyped
    <2> HIDE DEF failed
    <2> QED BY <2>1, <2>2, <2>3 DEF JobType
  <1>2. ActType'
    <2> DEFINE r == Freed(act[a], j)
               f == r.fatal \/ dies
               d == IF dies THEN 0 ELSE r.demand
    <2>1. r \in ActorCounters
      BY <1>0, FreedTyped
    <2>a. act' = IF act[a].registered
                 THEN [act EXCEPT ![a] = [r EXCEPT !.fatal = f, !.demand = d]] ELSE act
      BY DEF Complete
    <2> HIDE DEF r
    <2>2. f \in BOOLEAN /\ d \in Nat
      BY <2>1 DEF ActorCounters
    <2> HIDE DEF f, d
    <2>3. [r EXCEPT !.fatal = f, !.demand = d] \in ActorCounters
      BY <2>1, <2>2 DEF ActorCounters
    <2> QED BY <1>0, <2>a, <2>3, ActPut DEF ActType
  <1>3. QueueType'
    BY WithoutTyped DEF Complete, QueueType
  <1>4. PoolType'
    BY FreedPoolFields DEF Complete, PoolType
  <1>5. SchedType'
    BY TakeEventTyped DEF Complete
  <1> QED BY <1>1, <1>2, <1>3, <1>4, <1>5 DEF Complete, RootType

LEMMA RequeueTyped ==
  ASSUME TypeInv, NEW j \in Jobs, CompleteRequeue(j)
  PROVE  TypeInv'
  <1> USE DEF TypeInv
  <1> DEFINE a == Root(j)
             stays == Requeues(j)
  <1>0. a \in Actors /\ job[j] \in JobState /\ act[a] \in ActorCounters
    BY JobsTyped DEF JobType, ActType
  <1>1. JobType'
    <2> DEFINE b == IF job[j].end = "retry" THEN "waiting" ELSE "none"
               s == IF job[j].token = "cancelled" THEN "cancelled"
                    ELSE IF act[a].registered THEN "fatal" ELSE "rejected"
               r == [job[j] EXCEPT !.phase = "queued", !.shared = FALSE, !.forced = TRUE, !.inc = 0,
                                   !.end = "done", !.backoff = b]
    <2>1. b \in {"none", "waiting"} /\ s \in Answers
      BY DEF Answers
    <2>2. job' = [job EXCEPT ![j] = IF stays THEN r ELSE Settled(j, s)]
      BY DEF CompleteRequeue
    <2> HIDE DEF b, s, stays
    <2>3. r \in JobState
      BY <1>0, <2>1 DEF JobState, Phases
    <2>4. Settled(j, s) \in JobState
      BY <2>1, SettledTyped
    <2> HIDE DEF r
    <2> QED BY <2>2, <2>3, <2>4, JobPut
  <1>2. ActType'
    <2> DEFINE r == Freed(act[a], j)
               d == IF stays THEN Cardinality(Writers(a) \cup {j}) ELSE r.demand
    <2>1. r \in ActorCounters
      BY <1>0, FreedTyped
    <2>a. act' = IF act[a].registered THEN [act EXCEPT ![a] = [r EXCEPT !.demand = d]] ELSE act
      BY DEF CompleteRequeue
    <2> HIDE DEF r, stays
    <2>2. d \in Nat
      BY <2>1, WritersCounted DEF ActorCounters
    <2> HIDE DEF d
    <2>3. [r EXCEPT !.demand = d] \in ActorCounters
      BY <2>1, <2>2 DEF ActorCounters
    <2> QED BY <1>0, <2>a, <2>3, ActPut DEF ActType
  <1>3. QueueType'
    BY WithoutTyped DEF CompleteRequeue, QueueType
  <1>4. PoolType'
    BY FreedPoolFields DEF CompleteRequeue, PoolType
  <1>5. SchedType'
    BY TakeEventTyped DEF CompleteRequeue
  <1> QED BY <1>1, <1>2, <1>3, <1>4, <1>5 DEF CompleteRequeue, RootType

LEMMA RemainderTyped ==
  ASSUME NEW c \in Nat, NEW k \in Nat, NEW n \in Nat, n > 0
  PROVE  (c + k) % n \in Nat
  OBVIOUS

LEMMA SchedulerTyped ==
  ASSUME TypeInv, Scheduler
  PROVE  TypeInv'
  <1> USE DEF TypeInv
  <1>0. sched \in SchedState /\ sched.cursor \in Nat /\ sched.left \in Nat
    BY DEF SchedType, SchedState
  <1>1. CASE WakeTurn
    <2>1. BatchCap - 1 \in Nat
      BY ConstantsTyped
    <2>2. SchedType'
      BY <1>1, <2>1 DEF WakeTurn, BeginTurn, SchedType, SchedState, Passes
    <2> QED BY <1>1, <2>2 DEF WakeTurn, ActType, PoolType, JobType, QueueType, RootType
  <1>2. CASE TimerTurn
    <2>1. BatchCap - 1 \in Nat
      BY ConstantsTyped
    <2>2. SchedType'
      BY <1>2, <2>1 DEF TimerTurn, BeginTurn, SchedType, SchedState, Passes
    <2> QED BY <1>2, <2>2 DEF TimerTurn, ActType, PoolType, JobType, QueueType, RootType
  <1>3. CASE BeginDispatch
    BY <1>0, <1>3, NextRoundTyped DEF BeginDispatch
  <1>4. CASE BindPass
    <2>0. sched.pc = "bind" /\ "bind" \in Passes
      BY <1>4 DEF BindPass, Passes
    <2>1. CASE CanDispatch("bind") /\ BindRoots # {}
      <3>a. PICK a \in BindRoots : \E j \in Offer(a, "bind") : Launch(j, "bind")
        BY <1>4, <2>1 DEF BindPass
      <3>1. PICK j \in Offer(a, "bind") : Launch(j, "bind")
        BY <3>a
      <3>2. SchedType'
        BY <1>4, <2>1 DEF BindPass, SchedType, SchedState
      <3> QED BY <2>0, <2>1, <3>1, <3>2, LaunchTyped
    <2>2. CASE ~(CanDispatch("bind") /\ BindRoots # {})
      BY <1>0, <1>4, <2>0, <2>2, LeavePassTyped DEF BindPass
    <2> QED BY <2>1, <2>2
  <1>5. CASE RingPass
    <2> DEFINE offers == {k \in 0 .. sched.left - 1 : Offer(ActorAt(k), sched.pc) # {}}
    <2>0. sched.pc \in Passes \ {"bind"}
      BY <1>5 DEF RingPass
    <2>1. \A k \in Nat : After(k) \in Nat
      <3>1. Len(sched.order) \in Nat /\ Len(sched.order) > 0
        BY <2>0 DEF SchedType, SchedState
      <3>2. Cursor \in Nat
        BY <1>0, <3>1 DEF Cursor
      <3> QED BY <3>1, <3>2, RemainderTyped DEF After
    <2>2. CASE ~CanDispatch(sched.pc) \/ sched.left = 0
      BY <1>0, <1>5, <2>0, <2>2, LeavePassTyped DEF RingPass
    <2>3. CASE CanDispatch(sched.pc) /\ sched.left # 0 /\ offers = {}
      BY <1>0, <1>5, <2>0, <2>1, <2>3, LeavePassTyped DEF RingPass
    <2>4. CASE CanDispatch(sched.pc) /\ sched.left # 0 /\ offers # {}
      <3>a. PICK k \in offers :
              /\ \E j \in Offer(ActorAt(k), sched.pc) : Launch(j, sched.pc)
              /\ sched' = [sched EXCEPT !.cursor = After(k + 1), !.left = @ - (k + 1),
                                        !.progress = TRUE]
        BY <1>5, <2>4 DEF RingPass
      <3>1. PICK j \in Offer(ActorAt(k), sched.pc) : Launch(j, sched.pc)
        BY <3>a
      <3> DEFINE c == After(k + 1)
                 n == sched.left - (k + 1)
      <3>2. c \in Nat /\ n \in Nat
        BY <1>0, <2>1
      <3>3. sched' = [sched EXCEPT !.cursor = c, !.left = n, !.progress = TRUE]
        BY <3>a
      <3> HIDE DEF c, n
      <3>4. SchedType'
        BY <1>0, <3>2, <3>3 DEF SchedType, SchedState
      <3> QED BY <2>0, <2>4, <3>1, <3>4, LaunchTyped
    <2> QED BY <2>2, <2>3, <2>4
  <1>6. ASSUME NEW j \in Jobs, Complete(j) PROVE TypeInv'
    BY <1>6, CompleteTyped
  <1>7. ASSUME NEW j \in Jobs, CompleteRequeue(j) PROVE TypeInv'
    BY <1>7, RequeueTyped
  <1> QED BY <1>1, <1>2, <1>3, <1>4, <1>5, <1>6, <1>7 DEF Scheduler

LEMMA InitTyped ==
  ASSUME Init
  PROVE  TypeInv
  <1>1. ActType
    BY FreshTyped DEF Init, ActType
  <1>2. PoolType
    BY ConstantsTyped DEF Init, PoolType, PoolCounters
  <1>3. JobType /\ QueueType /\ RootType
    BY FreshTyped DEF Init, JobType, QueueType, RootType
  <1>4. SchedType
    BY ConstantsTyped DEF Init, SchedType, SchedState, Passes
  <1> QED BY <1>1, <1>2, <1>3, <1>4 DEF TypeInv

LEMMA StepTyped ==
  ASSUME TypeInv, [Next]_vars
  PROVE  TypeInv'
  <1>1. CASE Scheduler
    BY <1>1, SchedulerTyped
  <1>2. ASSUME NEW j \in Jobs, Worker(j) \/ Seal(j) \/ Panic(j) \/ Age(j) \/ Stick(j) \/ RetryDue(j)
        PROVE  TypeInv'
    BY <1>2, WorkerTyped
  <1>3. ASSUME NEW j \in Jobs, Caller(j) PROVE TypeInv'
    BY <1>3, SubmitTyped, CancelTyped DEF Caller
  <1>4. ASSUME NEW a \in Actors,
               \/ Register(a) \/ RemoveActor(a) \/ RetireIdleActor(a)
               \/ MarkUnbound(a) \/ Quiesce(a) \/ MarkBound(a) \/ DeleteRoot(a)
               \/ PublisherParks(a) \/ PublisherEnters(a) \/ PublisherLeaves(a)
        PROVE  TypeInv'
    BY <1>4, RootStepTyped
  <1>5. CASE UNCHANGED vars
    BY <1>5 DEF vars, TypeInv, ActType, PoolType, JobType, QueueType, RootType, SchedType
  <1> QED BY <1>1, <1>2, <1>3, <1>4, <1>5 DEF Next

(* Every counter of the executor stays a number: the pool never hands out    *)
(* more workers than there are, nor more heavy permits (launch_run_job and   *)
(* HeavySemaphore subtract without a check of their own).                    *)
THEOREM TypeCorrect == Spec => []TypeOK
  <1>1. Init => TypeInv
    BY InitTyped
  <1>2. TypeInv /\ [Next]_vars => TypeInv'
    BY StepTyped
  <1>3. TypeInv => TypeOK
    BY DEF TypeInv, ActType, PoolType, JobType, QueueType, RootType, SchedType, SchedState, TypeOK
  <1> QED BY <1>1, <1>2, <1>3, PTL DEF Spec

-----------------------------------------------------------------------------
(***************************************************************************)
(* The pool's counters are exact and its reserves hold, for any number of  *)
(* roots, jobs and workers and any reserves.                               *)
(*                                                                         *)
(* A step either leaves the pool's counters and the set of running jobs    *)
(* alone, or launches one job, or completes one.  The counters follow the  *)
(* set in the last two kinds, and the reserves follow from the counters    *)
(* being exact: that maintenance leaves the interactive reserve alone      *)
(* needs idle + interactive + maintenance = TotalWorkers, and that binds   *)
(* and provider jobs are different interactive jobs.                       *)
(***************************************************************************)
(* Ledger and provider jobs are interactive: the maintenance pass, which     *)
(* looks at no lane, cannot meet one.                                        *)
Live == {"queued"} \cup RunPhases
LaneOK(j) == Lane(j) \in {"CallLedger", "ProviderMetadata"} => Class(j) = "Interactive"
LanesOK == \A j \in Jobs : job[j].phase \in Live => LaneOK(j)

Quiet ==
  /\ pool' = pool
  /\ \A k \in Jobs : /\ job'[k].phase \in RunPhases <=> job[k].phase \in RunPhases
                     /\ job'[k].phase = "queued" => job[k].phase = "queued" \/ LaneOK(k)

LEMMA SettledPhase ==
  ASSUME NEW k, NEW ans
  PROVE  Settled(k, ans).phase = "settled"
  BY DEF Settled, FreshJob

LEMMA PutQuiet ==
  ASSUME JobType, NEW j \in Jobs, NEW r, job' = [job EXCEPT ![j] = r], pool' = pool,
         r.phase \in RunPhases <=> job[j].phase \in RunPhases,
         r.phase = "queued" => job[j].phase = "queued"
  PROVE  Quiet
  BY DEF Quiet, JobType

LEMMA SettleAllQuiet ==
  ASSUME JobType, NEW S, NEW ans, job' = SettleAll(S, ans), pool' = pool,
         \A k \in S : job[k].phase \notin RunPhases
  PROVE  Quiet
  <1>1. "settled" \notin RunPhases
    BY DEF RunPhases
  <1> QED BY <1>1, SettledPhase DEF Quiet, SettleAll

LEMMA NotRunning ==
  "idle" \notin RunPhases /\ "queued" \notin RunPhases /\ "settled" \notin RunPhases
  BY DEF RunPhases

LEMMA SubmitQuiet ==
  ASSUME TypeInv, NEW j \in Jobs, NEW seen,
         SubmitRefused(j, seen) \/ SubmitBackpressure(j, seen) \/ SubmitQueued(j, seen)
  PROVE  Quiet
  <1> USE NotRunning DEF TypeInv
  <1>0. \A k \in Duplicates(j) : k \in Jobs /\ job[k].phase = "queued"
    BY DEF Duplicates, Queued
  <1>1. CASE SubmitRefused(j, seen)
    BY <1>1, SettleAllQuiet DEF SubmitRefused
  <1>2. CASE SubmitBackpressure(j, seen)
    BY <1>0, <1>2, SettleAllQuiet DEF SubmitBackpressure
  <1>3. CASE SubmitQueued(j, seen)
    <2>1. Fresh(j).phase = "queued"
      BY DEF Fresh, FreshJob
    <2>2. LaneOK(j)
      BY <1>3, JobsTyped DEF SubmitQueued, Refused, LaneOK
    <2>3. ASSUME NEW k \in Jobs, k # j
          PROVE  job'[k] = IF k \in Duplicates(j) THEN Settled(k, "rejected") ELSE job[k]
      BY <1>3, <2>3 DEF SubmitQueued, SettleAll
    <2>4. job'[j] = Fresh(j) /\ job[j].phase = "idle" /\ pool' = pool
      BY <1>3 DEF SubmitQueued, SettleAll
    <2>5. ASSUME NEW k \in Jobs
          PROVE  /\ job'[k].phase \in RunPhases <=> job[k].phase \in RunPhases
                 /\ job'[k].phase = "queued" => job[k].phase = "queued" \/ LaneOK(k)
      BY <1>0, <2>1, <2>2, <2>3, <2>4, SettledPhase
    <2> QED BY <2>4, <2>5 DEF Quiet
  <1> QED BY <1>1, <1>2, <1>3

LEMMA RemoveQueuedQuiet ==
  ASSUME TypeInv, NEW j \in Jobs, NEW outcome, RemoveQueued(j, outcome), job[j].phase = "queued"
  PROVE  Quiet
  <1> DEFINE r == [Settled(j, "cancelled") EXCEPT !.token = "cancelled", !.cancel = outcome]
  <1>1. r.phase = "settled"
    BY DEF Settled, FreshJob
  <1>2. job' = [job EXCEPT ![j] = r] /\ pool' = pool
    BY DEF RemoveQueued
  <1> HIDE DEF r
  <1> QED BY <1>1, <1>2, PutQuiet, NotRunning DEF TypeInv

LEMMA CancelQuiet ==
  ASSUME TypeInv, NEW j \in Jobs,
         SignalCancel(j) \/ ResolveCancel(j) \/ CancelBeforeExecution(j) \/ Recycle(j)
  PROVE  Quiet
  <1> USE NotRunning DEF TypeInv
  <1>0. job[j] \in JobState
    BY DEF JobType
  <1>1. CASE SignalCancel(j)
    <2> DEFINE r == [job[j] EXCEPT !.cancel = job[j].token, !.token = Signalled(job[j].token)]
    <2>1. r.phase = job[j].phase
      BY <1>0 DEF JobState
    <2>2. job' = [job EXCEPT ![j] = r] /\ pool' = pool
      BY <1>1 DEF SignalCancel
    <2> HIDE DEF r
    <2> QED BY <2>1, <2>2, PutQuiet
  <1>2. CASE ResolveCancel(j)
    <2>1. CASE job[j].phase = "queued"
      BY <1>2, <2>1, RemoveQueuedQuiet DEF ResolveCancel
    <2>2. CASE job[j].phase # "queued"
      <3> DEFINE r == [job[j] EXCEPT !.cancel = Outcome(job[j].cancel)]
      <3>1. r.phase = job[j].phase
        BY <1>0 DEF JobState
      <3>2. job' = [job EXCEPT ![j] = r] /\ pool' = pool
        BY <1>2, <2>2 DEF ResolveCancel
      <3> HIDE DEF r
      <3> QED BY <3>1, <3>2, PutQuiet
    <2> QED BY <2>1, <2>2
  <1>3. CASE CancelBeforeExecution(j)
    <2>1. CASE job[j].token = "pending" /\ job[j].phase = "queued"
      BY <1>3, <2>1, RemoveQueuedQuiet DEF CancelBeforeExecution
    <2>2. CASE ~(job[j].token = "pending" /\ job[j].phase = "queued")
      <3> DEFINE r == [job[j] EXCEPT
                         !.cancel = IF job[j].token = "pending"
                                    THEN "DispatchedCancelled" ELSE "AlreadyStarted",
                         !.token = IF job[j].token = "pending" THEN "cancelled" ELSE job[j].token]
      <3>1. r.phase = job[j].phase
        BY <1>0 DEF JobState
      <3>2. job' = [job EXCEPT ![j] = r] /\ pool' = pool
        BY <1>3, <2>2 DEF CancelBeforeExecution
      <3> HIDE DEF r
      <3> QED BY <3>1, <3>2, PutQuiet
    <2> QED BY <2>1, <2>2
  <1>4. CASE Recycle(j)
    <2>1. FreshJob.phase = "idle"
      BY DEF FreshJob
    <2> QED BY <1>4, <2>1, PutQuiet DEF Recycle, WorkerOnly
  <1> QED BY <1>1, <1>2, <1>3, <1>4

LEMMA ReturnQuiet ==
  ASSUME TypeInv, NEW j \in Jobs, NEW ans, NEW how, NEW tok, Return(j, ans, how, tok),
         WorkerOnly, job[j].phase \in RunPhases
  PROVE  Quiet
  <1> DEFINE r == [job[j] EXCEPT !.phase = "returned", !.hold = "none", !.answer = ans,
                                 !.end = how, !.token = tok]
  <1>0. job[j] \in JobState
    BY DEF TypeInv, JobType
  <1>1. r.phase = "returned"
    BY <1>0 DEF JobState
  <1>2. job' = [job EXCEPT ![j] = r] /\ pool' = pool
    BY DEF Return, WorkerOnly
  <1> HIDE DEF r
  <1> QED BY <1>1, <1>2, PutQuiet DEF TypeInv, RunPhases

LEMMA WorkerQuiet ==
  ASSUME TypeInv, NEW j \in Jobs,
         Worker(j) \/ Seal(j) \/ Panic(j) \/ Age(j) \/ Stick(j) \/ RetryDue(j)
  PROVE  Quiet
  <1> USE DEF TypeInv
  <1>0. job[j] \in JobState
    BY DEF JobType
  <1>1. CASE EnterGate(j)
    <2> DEFINE r == [job[j] EXCEPT !.phase = "gated",
                                   !.hold = IF NeedsWrite(j) THEN "write" ELSE "read"]
    <2>1. r.phase = "gated" /\ job[j].phase \in RunPhases
      BY <1>0, <1>1 DEF EnterGate, JobState, RunPhases
    <2>2. job' = [job EXCEPT ![j] = r] /\ pool' = pool
      BY <1>1 DEF EnterGate, WorkerOnly
    <2> HIDE DEF r
    <2> QED BY <2>1, <2>2, PutQuiet DEF RunPhases
  <1>2. CASE GiveUpGate(j)
    BY <1>2, ReturnQuiet DEF GiveUpGate, ReturnCancelled, RunPhases
  <1>3. CASE MissGate(j)
    <2> DEFINE r == [job[j] EXCEPT !.phase = "handback",
                                   !.end = IF job[j].shared THEN "rerun" ELSE "retry"]
    <2>1. r.phase = "handback" /\ job[j].phase \in RunPhases
      BY <1>0, <1>3 DEF MissGate, JobState, RunPhases
    <2>2. job' = [job EXCEPT ![j] = r] /\ pool' = pool
      BY <1>3 DEF MissGate, WorkerOnly
    <2> HIDE DEF r
    <2> QED BY <2>1, <2>2, PutQuiet DEF RunPhases
  <1>4. CASE ProbePasses(j)
    <2> DEFINE r == [job[j] EXCEPT !.phase = "probed"]
    <2>1. r.phase = "probed" /\ job[j].phase \in RunPhases
      BY <1>0, <1>4 DEF ProbePasses, JobState, RunPhases, AtRun
    <2>2. job' = [job EXCEPT ![j] = r] /\ pool' = pool
      BY <1>4 DEF ProbePasses, WorkerOnly
    <2> HIDE DEF r
    <2> QED BY <2>1, <2>2, PutQuiet DEF RunPhases
  <1>5. CASE ProbeStops(j)
    BY <1>5, ReturnQuiet DEF ProbeStops, AtRun, RunPhases
  <1>6. CASE Start(j)
    <2> DEFINE r == [job[j] EXCEPT
                       !.phase = "executing",
                       !.token = IF Lane(j) = "ProviderMetadata" THEN "committed"
                                 ELSE IF job[j].token = "pending" THEN "running" ELSE job[j].token]
    <2>1. r.phase = "executing" /\ job[j].phase \in RunPhases
      BY <1>0, <1>6 DEF Start, JobState, RunPhases
    <2>2. job' = [job EXCEPT ![j] = r] /\ pool' = pool
      BY <1>6 DEF Start, WorkerOnly
    <2> HIDE DEF r
    <2> QED BY <2>1, <2>2, PutQuiet DEF RunPhases
  <1>7. CASE StartRefused(j) \/ Finish(j) \/ Panic(j)
    BY <1>7, ReturnQuiet DEF StartRefused, Finish, Panic, RunPhases
  <1>8. CASE RequestRerun(j)
    <2> DEFINE r == [job[j] EXCEPT !.phase = "handback", !.hold = "none", !.end = "rerun"]
    <2>1. r.phase = "handback" /\ job[j].phase \in RunPhases
      BY <1>0, <1>8 DEF RequestRerun, JobState, RunPhases
    <2>2. job' = [job EXCEPT ![j] = r] /\ pool' = pool
      BY <1>8 DEF RequestRerun, WorkerOnly
    <2> HIDE DEF r
    <2> QED BY <2>1, <2>2, PutQuiet DEF RunPhases
  <1>9. CASE ReturnToPending(j)
    <2> DEFINE r == [job[j] EXCEPT !.phase = "handed",
                                   !.token = IF job[j].token = "running"
                                             THEN "pending" ELSE job[j].token]
    <2>1. r.phase = "handed" /\ job[j].phase \in RunPhases /\ WorkerOnly
      BY <1>0, <1>9 DEF ReturnToPending, JobState, RunPhases
    <2>2. CASE job[j].token = "cancelled"
      BY <1>9, <2>1, <2>2, ReturnQuiet DEF ReturnToPending, ReturnCancelled
    <2>3. CASE job[j].token # "cancelled"
      <3>1. job' = [job EXCEPT ![j] = r] /\ pool' = pool
        BY <1>9, <2>3 DEF ReturnToPending, WorkerOnly
      <3> HIDE DEF r
      <3> QED BY <2>1, <3>1, PutQuiet DEF RunPhases
    <2> QED BY <2>2, <2>3
  <1>10. CASE HandOff(j)
    <2> DEFINE r == [job[j] EXCEPT !.phase = "returned"]
    <2>1. r.phase = "returned" /\ job[j].phase \in RunPhases /\ WorkerOnly
      BY <1>0, <1>10 DEF HandOff, JobState, RunPhases
    <2>2. CASE ReturnCancelled(j)
      BY <2>1, <2>2, ReturnQuiet DEF ReturnCancelled
    <2>3. CASE job' = [job EXCEPT ![j].phase = "returned"]
      <3>1. job' = [job EXCEPT ![j] = r] /\ pool' = pool
        BY <2>1, <2>3 DEF WorkerOnly
      <3> HIDE DEF r
      <3> QED BY <2>1, <3>1, PutQuiet DEF RunPhases
    <2> QED BY <1>10, <2>2, <2>3 DEF HandOff
  <1>11. CASE Seal(j)
    <2> DEFINE r == [job[j] EXCEPT !.token = "committed"]
    <2>1. r.phase = job[j].phase
      BY <1>0 DEF JobState
    <2>2. job' = [job EXCEPT ![j] = r] /\ pool' = pool
      BY <1>11 DEF Seal, WorkerOnly
    <2> HIDE DEF r
    <2> QED BY <2>1, <2>2, PutQuiet
  <1>12. CASE Age(j)
    <2> DEFINE r == [job[j] EXCEPT !.aged = TRUE]
    <2>1. r.phase = job[j].phase
      BY <1>0 DEF JobState
    <2>2. job' = [job EXCEPT ![j] = r] /\ pool' = pool
      BY <1>12 DEF Age, WorkerOnly
    <2> HIDE DEF r
    <2> QED BY <2>1, <2>2, PutQuiet
  <1>13. CASE Stick(j)
    <2> DEFINE r == [job[j] EXCEPT !.stuck = TRUE]
    <2>1. r.phase = job[j].phase
      BY <1>0 DEF JobState
    <2>2. job' = [job EXCEPT ![j] = r] /\ pool' = pool
      BY <1>13 DEF Stick, WorkerOnly
    <2> HIDE DEF r
    <2> QED BY <2>1, <2>2, PutQuiet
  <1>14. CASE RetryDue(j)
    <2> DEFINE r == [job[j] EXCEPT !.backoff = "due"]
    <2>1. r.phase = job[j].phase
      BY <1>0 DEF JobState
    <2>2. job' = [job EXCEPT ![j] = r] /\ pool' = pool
      BY <1>14 DEF RetryDue, WorkerOnly
    <2> HIDE DEF r
    <2> QED BY <2>1, <2>2, PutQuiet
  <1> QED BY <1>1, <1>2, <1>3, <1>4, <1>5, <1>6, <1>7, <1>8, <1>9, <1>10, <1>11, <1>12,
             <1>13, <1>14 DEF Worker

LEMMA RootStepQuiet ==
  ASSUME TypeInv, NEW a \in Actors,
         \/ Register(a) \/ RemoveActor(a) \/ RetireIdleActor(a)
         \/ MarkUnbound(a) \/ Quiesce(a) \/ MarkBound(a) \/ DeleteRoot(a)
         \/ PublisherParks(a) \/ PublisherEnters(a) \/ PublisherLeaves(a)
  PROVE  Quiet
  <1> USE NotRunning DEF TypeInv
  <1>1. CASE pool' = pool /\ job' = job
    BY <1>1 DEF Quiet
  <1>2. CASE \E ans \in Answers : Drop(a, ans)
    <2>1. \A k \in Queued(a, "Interactive") \cup Queued(a, "Maintenance") :
            job[k].phase \notin RunPhases
      BY DEF Queued
    <2> QED BY <1>2, <2>1, SettleAllQuiet DEF Drop
  <1>3. CASE Quiesce(a)
    <2> DEFINE gone == IF act[a].registered
                       THEN Queued(a, "Maintenance") \cup LaneQueue(a, "Interactive", "ProviderMetadata")
                       ELSE {}
    <2>0. \A k \in gone : k \in Jobs /\ job[k].phase = "queued"
      BY DEF Queued, LaneQueue
    <2>1. ASSUME NEW k \in Jobs
          PROVE  /\ k \in gone => job'[k].phase = "settled"
                 /\ k \notin gone => job'[k].phase = job[k].phase
      <3>0. job[k] \in JobState
        BY <2>1 DEF JobType
      <3>1. CASE k \in gone
        <4>1. job'[k] = [Settled(k, "cancelled") EXCEPT !.token =
                           IF Lane(k) = "ProviderMetadata" THEN "cancelled" ELSE @]
          BY <1>3, <3>1 DEF Quiesce
        <4> QED BY <3>1, <4>1 DEF Settled, FreshJob
      <3>2. CASE k \notin gone
        <4>1. job'[k] \in {[job[k] EXCEPT !.token = Signalled(job[k].token)], job[k]}
          BY <1>3, <3>2 DEF Quiesce
        <4> QED BY <3>0, <3>2, <4>1 DEF JobState
      <3> QED BY <3>1, <3>2
    <2>2. pool' = pool
      BY <1>3 DEF Quiesce
    <2> HIDE DEF gone
    <2> QED BY <2>0, <2>1, <2>2 DEF Quiet
  <1>4. "removed" \in Answers /\ "lost" \in Answers
    BY DEF Answers
  <1> QED BY <1>1, <1>2, <1>3, <1>4 DEF Register, RemoveActor, RetireIdleActor, MarkUnbound, MarkBound,
             DeleteRoot, PublisherParks, PublisherEnters, PublisherLeaves

-----------------------------------------------------------------------------
(* Counting: PoolExact as a statement about a set and a record. *)
Ints   == {k \in Jobs : Class(k) = "Interactive"}
Maints == {k \in Jobs : Class(k) = "Maintenance"}
Provs  == {k \in Jobs : Lane(k) = "ProviderMetadata"}
Binds  == {k \in Jobs : IsBind(k)}
Heavies == {k \in Jobs : Lane(k) = "HeavyInit"}

ExactFor(S, p) ==
  /\ p.idle + Cardinality(S) = TotalWorkers
  /\ p.interactive = Cardinality(S \cap Ints)
  /\ p.maintenance = Cardinality(S \cap Maints)
  /\ p.provider = Cardinality(S \cap Provs)
  /\ p.binds = Cardinality(S \cap Binds)
  /\ p.heavy + Cardinality(S \cap Heavies) = HeavyPermits

LEMMA ExactForRunning ==
  PoolExact <=> ExactFor(Running, pool)
  <1>1. /\ {k \in Running : Class(k) = "Interactive"} = Running \cap Ints
        /\ {k \in Running : Class(k) = "Maintenance"} = Running \cap Maints
        /\ {k \in Running : Lane(k) = "ProviderMetadata"} = Running \cap Provs
        /\ {k \in Running : IsBind(k)} = Running \cap Binds
        /\ {k \in Running : Lane(k) = "HeavyInit"} = Running \cap Heavies
    BY DEF Running, Ints, Maints, Provs, Binds, Heavies
  <1> QED BY <1>1 DEF PoolExact, ExactFor

LEMMA ExactForRunningNext ==
  PoolExact' <=> ExactFor(Running', pool')
  <1>1. /\ {k \in Running' : Class(k) = "Interactive"} = Running' \cap Ints
        /\ {k \in Running' : Class(k) = "Maintenance"} = Running' \cap Maints
        /\ {k \in Running' : Lane(k) = "ProviderMetadata"} = Running' \cap Provs
        /\ {k \in Running' : IsBind(k)} = Running' \cap Binds
        /\ {k \in Running' : Lane(k) = "HeavyInit"} = Running' \cap Heavies
    BY DEF Running, Ints, Maints, Provs, Binds, Heavies
  <1> QED BY <1>1 DEF PoolExact, ExactFor

LEMMA CountAdd ==
  ASSUME NEW S \in SUBSET Jobs, NEW T, NEW j \in Jobs, j \notin S
  PROVE  /\ Cardinality((S \cup {j}) \cap T) =
              IF j \in T THEN Cardinality(S \cap T) + 1 ELSE Cardinality(S \cap T)
         /\ Cardinality(S \cap T) \in Nat
  <1>1. IsFiniteSet(S \cap T) /\ Cardinality(S \cap T) \in Nat
    BY SubsetFinite
  <1>2. CASE j \in T
    <2>1. (S \cup {j}) \cap T = (S \cap T) \cup {j} /\ j \notin S \cap T
      BY <1>2
    <2> QED BY <1>1, <1>2, <2>1, FS_AddElement
  <1>3. CASE j \notin T
    <2>1. (S \cup {j}) \cap T = S \cap T
      BY <1>3
    <2> QED BY <1>1, <1>3, <2>1
  <1> QED BY <1>2, <1>3

LEMMA CountRemove ==
  ASSUME NEW S \in SUBSET Jobs, NEW T, NEW j \in S
  PROVE  /\ Cardinality(S \cap T) \in Nat
         /\ j \in T => Cardinality(S \cap T) >= 1
         /\ Cardinality((S \ {j}) \cap T) =
              IF j \in T THEN Cardinality(S \cap T) - 1 ELSE Cardinality(S \cap T)
  <1>1. Cardinality(((S \ {j}) \cup {j}) \cap T) =
          IF j \in T THEN Cardinality((S \ {j}) \cap T) + 1 ELSE Cardinality((S \ {j}) \cap T)
    BY CountAdd
  <1>2. (S \ {j}) \cup {j} = S
    OBVIOUS
  <1>3. Cardinality(S \cap T) \in Nat /\ Cardinality((S \ {j}) \cap T) \in Nat
    BY SubsetFinite
  <1>4. Cardinality(S \cap T) = Cardinality(((S \ {j}) \cup {j}) \cap T)
    BY <1>2
  <1> QED BY <1>1, <1>3, <1>4

(* A counter of the jobs of one sort follows a launch and a completion. *)
LEMMA CounterUp ==
  ASSUME NEW S \in SUBSET Jobs, NEW T, NEW j \in Jobs, j \notin S, NEW c, NEW d,
         c = Cardinality(S \cap T), d = IF j \in T THEN c + 1 ELSE c
  PROVE  d = Cardinality((S \cup {j}) \cap T)
  BY CountAdd

LEMMA CounterDown ==
  ASSUME NEW S \in SUBSET Jobs, NEW T, NEW j \in S, NEW c, NEW d,
         c = Cardinality(S \cap T), d = IF j \in T THEN Less(c) ELSE c
  PROVE  d = Cardinality((S \ {j}) \cap T)
  BY CountRemove DEF Less

LEMMA RunningInJobs == Running \in SUBSET Jobs
  BY DEF Running

LEMMA Sorts ==
  ASSUME NEW j \in Jobs
  PROVE  /\ j \in Ints <=> Class(j) = "Interactive"
         /\ j \in Maints <=> Class(j) = "Maintenance"
         /\ j \in Provs <=> Lane(j) = "ProviderMetadata"
         /\ j \in Binds <=> IsBind(j)
         /\ j \in Heavies <=> Lane(j) = "HeavyInit"
  BY DEF Ints, Maints, Provs, Binds, Heavies

LEMMA LaunchExact ==
  ASSUME PoolType, NEW S \in SUBSET Jobs, NEW j \in Jobs, j \notin S, ExactFor(S, pool)
  PROVE  ExactFor(S \cup {j}, OccupiedPool(j))
  <1>1. /\ OccupiedPool(j).idle = pool.idle - 1
        /\ OccupiedPool(j).interactive = IF j \in Ints THEN pool.interactive + 1 ELSE pool.interactive
        /\ OccupiedPool(j).maintenance = IF j \in Maints THEN pool.maintenance + 1 ELSE pool.maintenance
        /\ OccupiedPool(j).provider = IF j \in Provs THEN pool.provider + 1 ELSE pool.provider
        /\ OccupiedPool(j).binds = IF j \in Binds THEN pool.binds + 1 ELSE pool.binds
        /\ OccupiedPool(j).heavy = IF j \in Heavies THEN pool.heavy - 1 ELSE pool.heavy
    BY OccupiedPoolFields, Sorts
  <1>a. /\ pool.interactive = Cardinality(S \cap Ints)
        /\ pool.maintenance = Cardinality(S \cap Maints)
        /\ pool.provider = Cardinality(S \cap Provs)
        /\ pool.binds = Cardinality(S \cap Binds)
    BY DEF ExactFor
  <1>2. OccupiedPool(j).idle + Cardinality(S \cup {j}) = TotalWorkers
    <2>1. Cardinality(S \cup {j}) = Cardinality(S) + 1 /\ Cardinality(S) \in Nat
      BY SubsetFinite, FS_AddElement
    <2> QED BY <1>1, <2>1 DEF ExactFor, PoolType, PoolCounters
  <1>3. OccupiedPool(j).interactive = Cardinality((S \cup {j}) \cap Ints)
    <2>1. OccupiedPool(j).interactive = IF j \in Ints THEN pool.interactive + 1 ELSE pool.interactive
      BY <1>1
    <2>2. pool.interactive = Cardinality(S \cap Ints)
      BY <1>a
    <2> QED BY <2>1, <2>2, CounterUp
  <1>4. OccupiedPool(j).maintenance = Cardinality((S \cup {j}) \cap Maints)
    <2>1. OccupiedPool(j).maintenance = IF j \in Maints THEN pool.maintenance + 1 ELSE pool.maintenance
      BY <1>1
    <2>2. pool.maintenance = Cardinality(S \cap Maints)
      BY <1>a
    <2> QED BY <2>1, <2>2, CounterUp
  <1>5. OccupiedPool(j).provider = Cardinality((S \cup {j}) \cap Provs)
    <2>1. OccupiedPool(j).provider = IF j \in Provs THEN pool.provider + 1 ELSE pool.provider
      BY <1>1
    <2>2. pool.provider = Cardinality(S \cap Provs)
      BY <1>a
    <2> QED BY <2>1, <2>2, CounterUp
  <1>6. OccupiedPool(j).binds = Cardinality((S \cup {j}) \cap Binds)
    <2>1. OccupiedPool(j).binds = IF j \in Binds THEN pool.binds + 1 ELSE pool.binds
      BY <1>1
    <2>2. pool.binds = Cardinality(S \cap Binds)
      BY <1>a
    <2> QED BY <2>1, <2>2, CounterUp
  <1>7. OccupiedPool(j).heavy + Cardinality((S \cup {j}) \cap Heavies) = HeavyPermits
    <2>1. /\ Cardinality((S \cup {j}) \cap Heavies) =
               IF j \in Heavies THEN Cardinality(S \cap Heavies) + 1 ELSE Cardinality(S \cap Heavies)
          /\ Cardinality(S \cap Heavies) \in Nat
      BY CountAdd
    <2> QED BY <1>1, <2>1 DEF ExactFor, PoolType, PoolCounters
  <1> QED BY <1>2, <1>3, <1>4, <1>5, <1>6, <1>7 DEF ExactFor

LEMMA CompleteExact ==
  ASSUME PoolType, NEW S \in SUBSET Jobs, NEW j \in S, ExactFor(S, pool)
  PROVE  ExactFor(S \ {j}, FreedPool(j))
  <1>0. j \in Jobs
    OBVIOUS
  <1>1. /\ FreedPool(j).idle = pool.idle + 1
        /\ FreedPool(j).interactive = IF j \in Ints THEN Less(pool.interactive) ELSE pool.interactive
        /\ FreedPool(j).maintenance = IF j \in Maints THEN Less(pool.maintenance) ELSE pool.maintenance
        /\ FreedPool(j).provider = IF j \in Provs THEN Less(pool.provider) ELSE pool.provider
        /\ FreedPool(j).binds = IF j \in Binds THEN Less(pool.binds) ELSE pool.binds
        /\ FreedPool(j).heavy = IF j \in Heavies THEN pool.heavy + 1 ELSE pool.heavy
    BY <1>0, FreedPoolFields DEF Ints, Maints, Provs, Binds, Heavies
  <1>a. /\ pool.interactive = Cardinality(S \cap Ints)
        /\ pool.maintenance = Cardinality(S \cap Maints)
        /\ pool.provider = Cardinality(S \cap Provs)
        /\ pool.binds = Cardinality(S \cap Binds)
    BY DEF ExactFor
  <1>2. FreedPool(j).idle + Cardinality(S \ {j}) = TotalWorkers
    <2>1. Cardinality(S \ {j}) = Cardinality(S) - 1 /\ Cardinality(S) \in Nat
      BY SubsetFinite, FS_RemoveElement
    <2> QED BY <1>1, <2>1 DEF ExactFor, PoolType, PoolCounters
  <1>3. FreedPool(j).interactive = Cardinality((S \ {j}) \cap Ints)
    <2>1. FreedPool(j).interactive = IF j \in Ints THEN Less(pool.interactive) ELSE pool.interactive
      BY <1>1
    <2>2. pool.interactive = Cardinality(S \cap Ints)
      BY <1>a
    <2> QED BY <2>1, <2>2, CounterDown
  <1>4. FreedPool(j).maintenance = Cardinality((S \ {j}) \cap Maints)
    <2>1. FreedPool(j).maintenance = IF j \in Maints THEN Less(pool.maintenance) ELSE pool.maintenance
      BY <1>1
    <2>2. pool.maintenance = Cardinality(S \cap Maints)
      BY <1>a
    <2> QED BY <2>1, <2>2, CounterDown
  <1>5. FreedPool(j).provider = Cardinality((S \ {j}) \cap Provs)
    <2>1. FreedPool(j).provider = IF j \in Provs THEN Less(pool.provider) ELSE pool.provider
      BY <1>1
    <2>2. pool.provider = Cardinality(S \cap Provs)
      BY <1>a
    <2> QED BY <2>1, <2>2, CounterDown
  <1>6. FreedPool(j).binds = Cardinality((S \ {j}) \cap Binds)
    <2>1. FreedPool(j).binds = IF j \in Binds THEN Less(pool.binds) ELSE pool.binds
      BY <1>1
    <2>2. pool.binds = Cardinality(S \cap Binds)
      BY <1>a
    <2> QED BY <2>1, <2>2, CounterDown
  <1>7. FreedPool(j).heavy + Cardinality((S \ {j}) \cap Heavies) = HeavyPermits
    <2>1. /\ Cardinality((S \ {j}) \cap Heavies) =
               IF j \in Heavies THEN Cardinality(S \cap Heavies) - 1 ELSE Cardinality(S \cap Heavies)
          /\ Cardinality(S \cap Heavies) \in Nat
      BY CountRemove
    <2> QED BY <1>1, <2>1 DEF ExactFor, PoolType, PoolCounters
  <1> QED BY <1>2, <1>3, <1>4, <1>5, <1>6, <1>7 DEF ExactFor

-----------------------------------------------------------------------------
(* Interactive and maintenance jobs share the busy workers, and binds and    *)
(* provider jobs are different interactive jobs.                             *)
LEMMA SplitByClass ==
  ASSUME PoolType, ExactFor(Running, pool), LanesOK
  PROVE  /\ pool.idle + pool.interactive + pool.maintenance = TotalWorkers
         /\ pool.interactive >= pool.binds + pool.provider
  <1> DEFINE S == Running
             I == S \cap Ints
             M == S \cap Maints
             P == S \cap Provs
             B == S \cap Binds
  <1>1. /\ S \in SUBSET Jobs /\ I \in SUBSET Jobs /\ M \in SUBSET Jobs
        /\ P \in SUBSET Jobs /\ B \in SUBSET Jobs /\ P \cup B \in SUBSET Jobs
    BY RunningInJobs
  <1>2. S = I \cup M /\ I \cap M = {}
    BY <1>1, JobsTyped DEF Ints, Maints, Classes
  <1>3. P \cup B \subseteq I /\ P \cap B = {}
    <2>1. ASSUME NEW k \in P PROVE k \in Ints /\ k \notin Binds
      BY <1>1, <2>1 DEF Provs, Ints, Binds, IsBind, LanesOK, LaneOK, Live, Running
    <2>2. ASSUME NEW k \in B PROVE k \in Ints
      BY <1>1, <2>2 DEF Binds, Ints, IsBind
    <2> QED BY <2>1, <2>2
  <1> HIDE DEF S, I, M, P, B
  <1>4. /\ IsFiniteSet(S) /\ IsFiniteSet(I) /\ IsFiniteSet(M) /\ IsFiniteSet(P) /\ IsFiniteSet(B)
        /\ Cardinality(S) \in Nat /\ Cardinality(I) \in Nat /\ Cardinality(M) \in Nat
        /\ Cardinality(P) \in Nat /\ Cardinality(B) \in Nat
    BY <1>1, SubsetFinite
  <1>5. Cardinality(S) = Cardinality(I) + Cardinality(M)
    <2>1. Cardinality(I \cup M) = Cardinality(I) + Cardinality(M) - Cardinality(I \cap M)
      BY <1>4, FS_Union
    <2>2. Cardinality(I \cap M) = 0
      BY <1>2, FS_EmptySet
    <2>3. Cardinality(S) = Cardinality(I \cup M)
      BY <1>2
    <2> QED BY <1>4, <2>1, <2>2, <2>3
  <1>6. Cardinality(P \cup B) = Cardinality(P) + Cardinality(B)
    <2>1. Cardinality(P \cup B) = Cardinality(P) + Cardinality(B) - Cardinality(P \cap B)
      BY <1>4, FS_Union
    <2>2. Cardinality(P \cap B) = 0
      BY <1>3, FS_EmptySet
    <2> QED BY <1>4, <2>1, <2>2
  <1>7. Cardinality(P \cup B) <= Cardinality(I)
    BY <1>3, <1>4, FS_Subset
  <1>8. /\ pool.idle + Cardinality(S) = TotalWorkers
        /\ pool.interactive = Cardinality(I) /\ pool.maintenance = Cardinality(M)
        /\ pool.provider = Cardinality(P) /\ pool.binds = Cardinality(B)
    BY DEF ExactFor, S, I, M, P, B
  <1> QED BY <1>4, <1>5, <1>6, <1>7, <1>8 DEF PoolType, PoolCounters

(* The arithmetic of a launch from each kind of pass and of a completion:    *)
(* i idle workers, b binds and p provider jobs running, reserves B and P.    *)
LEMMA BindArithmetic ==
  ASSUME NEW B \in Nat, NEW P \in Nat, NEW i \in Nat, NEW b \in Nat, NEW p \in Nat,
         i >= Monus(B, b) + Monus(P, p), i > Monus(P, p)
  PROVE  i - 1 >= Monus(B, b + 1) + Monus(P, p)
  BY DEF Monus

LEMMA ProviderArithmetic ==
  ASSUME NEW B \in Nat, NEW P \in Nat, NEW i \in Nat, NEW b \in Nat, NEW p \in Nat,
         i >= Monus(B, b) + Monus(P, p), p < P
  PROVE  i - 1 >= Monus(B, b) + Monus(P, p + 1)
  BY DEF Monus

LEMMA GeneralArithmetic ==
  ASSUME NEW B \in Nat, NEW P \in Nat, NEW i \in Nat, NEW b \in Nat, NEW p \in Nat,
         Monus(i, Monus(B, b) + Monus(P, p)) > 0
  PROVE  /\ i - 1 >= Monus(B, b) + Monus(P, p)
         /\ i - 1 >= Monus(B, b + 1) + Monus(P, p)
  BY DEF Monus

LEMMA MaintenanceArithmetic ==
  ASSUME NEW B \in Nat, NEW P \in Nat, NEW i \in Nat, NEW b \in Nat, NEW p \in Nat,
         NEW R \in Nat, NEW n \in Nat, NEW m \in Nat,
         n >= b + p, Monus(i, Monus(B, b) + Monus(P, p)) > R
  PROVE  m + 1 <= Monus(i + n + m - B - P, R)
  BY DEF Monus

LEMMA CompleteArithmetic ==
  ASSUME NEW B \in Nat, NEW P \in Nat, NEW i \in Nat, NEW b \in Nat, NEW p \in Nat,
         i >= Monus(B, b) + Monus(P, p)
  PROVE  /\ i + 1 >= Monus(B, b) + Monus(P, p)
         /\ i + 1 >= Monus(B, Less(b)) + Monus(P, p)
         /\ i + 1 >= Monus(B, b) + Monus(P, Less(p))
  BY DEF Monus, Less

LEMMA LaunchReserves ==
  ASSUME PoolType, ReservesHeld, LanesOK, ExactFor(Running, pool),
         NEW a, NEW pass \in Passes, NEW j \in Offer(a, pass), CanDispatch(pass),
         pool' = OccupiedPool(j)
  PROVE  ReservesHeld'
  <1>0. /\ j \in Jobs /\ job[j].phase = "queued"
        /\ Class(j) = IF pass = "maintenance" THEN "Maintenance" ELSE "Interactive"
        /\ pass = "bind" => IsBind(j)
        /\ pass = "provider" => Lane(j) = "ProviderMetadata"
        /\ pass \notin {"provider", "maintenance"} => Lane(j) # "ProviderMetadata"
    BY OfferFacts
  <1>1. /\ pool.idle \in Nat /\ pool.interactive \in Nat /\ pool.maintenance \in Nat
        /\ pool.provider \in Nat /\ pool.binds \in Nat
    BY DEF PoolType, PoolCounters
  <1>2. pass # "provider" => Lane(j) # "ProviderMetadata"
    BY <1>0 DEF LanesOK, LaneOK, Live
  <1>3. /\ pool'.idle = pool.idle - 1
        /\ pool'.maintenance = IF pass = "maintenance" THEN pool.maintenance + 1 ELSE pool.maintenance
        /\ pool'.provider = IF pass = "provider" THEN pool.provider + 1 ELSE pool.provider
        /\ pool'.binds = IF IsBind(j) THEN pool.binds + 1 ELSE pool.binds
    BY <1>0, <1>2, OccupiedPoolFields
  <1>4. IsBind(j) => pass \notin {"provider", "maintenance"}
    BY <1>0 DEF IsBind
  <1>5. /\ pool.idle + pool.interactive + pool.maintenance = TotalWorkers
        /\ pool.interactive >= pool.binds + pool.provider
    BY SplitByClass
  <1>6. pool'.idle >= Monus(BindReserve, pool'.binds) + Monus(ProviderReserve, pool'.provider)
    <2>0. pool.idle >= Monus(BindReserve, pool.binds) + Monus(ProviderReserve, pool.provider)
      BY DEF ReservesHeld
    <2>1. CASE pass = "bind"
      <3>1. pool.idle > Monus(ProviderReserve, pool.provider)
        BY <2>1 DEF CanDispatch, ProviderIdle
      <3>2. pool.idle - 1 >= Monus(BindReserve, pool.binds + 1) + Monus(ProviderReserve, pool.provider)
        BY <1>1, <2>0, <3>1, ConstantsTyped, BindArithmetic
      <3> QED BY <1>0, <1>3, <2>1, <3>2
    <2>2. CASE pass = "provider"
      <3>1. pool.provider < ProviderReserve
        BY <2>2 DEF CanDispatch
      <3>2. pool.idle - 1 >= Monus(BindReserve, pool.binds) + Monus(ProviderReserve, pool.provider + 1)
        BY <1>1, <2>0, <3>1, ConstantsTyped, ProviderArithmetic
      <3> QED BY <1>3, <1>4, <2>2, <3>2
    <2>3. CASE pass \in {"ledger", "interactive", "maintenance"}
      <3>1. Monus(pool.idle, Monus(BindReserve, pool.binds) + Monus(ProviderReserve, pool.provider)) > 0
        BY <2>3 DEF CanDispatch, GeneralIdle, ProviderIdle
      <3>2. /\ pool.idle - 1 >= Monus(BindReserve, pool.binds) + Monus(ProviderReserve, pool.provider)
            /\ pool.idle - 1 >= Monus(BindReserve, pool.binds + 1) + Monus(ProviderReserve, pool.provider)
        BY <1>1, <3>1, ConstantsTyped, GeneralArithmetic
      <3> QED BY <1>3, <2>3, <3>2
    <2> QED BY <2>1, <2>2, <2>3 DEF Passes
  <1>7. pool'.provider <= ProviderReserve
    BY <1>1, <1>3, ConstantsTyped DEF ReservesHeld, CanDispatch
  <1>8. pool'.maintenance <= MaintenanceCap
    BY <1>1, <1>3, ConstantsTyped DEF ReservesHeld, CanDispatch
  <1>9. pool'.maintenance <= Monus(TotalWorkers - BindReserve - ProviderReserve, InteractiveReserve)
    <2>1. CASE pass = "maintenance"
      <3>1. Monus(pool.idle, Monus(BindReserve, pool.binds) + Monus(ProviderReserve, pool.provider))
              > InteractiveReserve
        BY <2>1 DEF CanDispatch, GeneralIdle, ProviderIdle
      <3>2. pool.maintenance + 1 <=
              Monus(pool.idle + pool.interactive + pool.maintenance - BindReserve - ProviderReserve,
                    InteractiveReserve)
        BY <1>1, <1>5, <3>1, ConstantsTyped, MaintenanceArithmetic
      <3>3. pool.maintenance + 1 <=
              Monus(TotalWorkers - BindReserve - ProviderReserve, InteractiveReserve)
        <4>1. pool.idle + pool.interactive + pool.maintenance - BindReserve - ProviderReserve
                = TotalWorkers - BindReserve - ProviderReserve
          BY <1>1, <1>5, ConstantsTyped
        <4> QED BY <3>2, <4>1
      <3>4. pool'.maintenance = pool.maintenance + 1
        BY <1>3, <2>1
      <3> QED BY <3>3, <3>4
    <2>2. CASE pass # "maintenance"
      BY <1>3, <2>2 DEF ReservesHeld
    <2> QED BY <2>1, <2>2
  <1> QED BY <1>6, <1>7, <1>8, <1>9 DEF ReservesHeld

LEMMA CompleteReserves ==
  ASSUME PoolType, ReservesHeld, NEW j \in Jobs, pool' = FreedPool(j)
  PROVE  ReservesHeld'
  <1>1. /\ pool.idle \in Nat /\ pool.maintenance \in Nat /\ pool.provider \in Nat /\ pool.binds \in Nat
    BY DEF PoolType, PoolCounters
  <1>2. /\ pool'.idle = pool.idle + 1
        /\ pool'.maintenance \in {pool.maintenance, Less(pool.maintenance)}
        /\ pool'.provider = IF Lane(j) = "ProviderMetadata" THEN Less(pool.provider) ELSE pool.provider
        /\ pool'.binds = IF IsBind(j) THEN Less(pool.binds) ELSE pool.binds
    BY FreedPoolFields
  <1>3. Lane(j) = "ProviderMetadata" => ~IsBind(j)
    BY DEF IsBind
  <1>4. pool'.idle >= Monus(BindReserve, pool'.binds) + Monus(ProviderReserve, pool'.provider)
    <2>0. pool.idle >= Monus(BindReserve, pool.binds) + Monus(ProviderReserve, pool.provider)
      BY DEF ReservesHeld
    <2>1. /\ pool.idle + 1 >= Monus(BindReserve, pool.binds) + Monus(ProviderReserve, pool.provider)
          /\ pool.idle + 1 >= Monus(BindReserve, Less(pool.binds)) + Monus(ProviderReserve, pool.provider)
          /\ pool.idle + 1 >= Monus(BindReserve, pool.binds) + Monus(ProviderReserve, Less(pool.provider))
      BY <1>1, <2>0, ConstantsTyped, CompleteArithmetic
    <2> QED BY <1>2, <1>3, <2>1
  <1>5. pool'.provider <= ProviderReserve /\ pool'.maintenance <= MaintenanceCap
    BY <1>1, <1>2, ConstantsTyped DEF ReservesHeld, Less
  <1>6. pool'.maintenance <= Monus(TotalWorkers - BindReserve - ProviderReserve, InteractiveReserve)
    BY <1>1, <1>2, ConstantsTyped DEF ReservesHeld, Monus, Less
  <1> QED BY <1>4, <1>5, <1>6 DEF ReservesHeld

-----------------------------------------------------------------------------
PoolInv == TypeInv /\ PoolExact /\ LanesOK /\ ReservesHeld

LEMMA QuietKeeps ==
  ASSUME PoolInv, Quiet
  PROVE  PoolExact' /\ LanesOK' /\ ReservesHeld'
  <1>1. Running' = Running
    BY DEF Quiet, Running
  <1>2. PoolExact'
    BY <1>1, ExactForRunning, ExactForRunningNext DEF PoolInv, Quiet
  <1>3. LanesOK'
    BY DEF PoolInv, LanesOK, Quiet, Live, LaneOK, Lane, Class
  <1>4. ReservesHeld'
    BY DEF PoolInv, ReservesHeld, Quiet
  <1> QED BY <1>2, <1>3, <1>4

LEMMA LaunchKeeps ==
  ASSUME PoolInv, NEW a, NEW pass \in Passes, NEW j \in Offer(a, pass),
         CanDispatch(pass), Launch(j, pass)
  PROVE  PoolExact' /\ LanesOK' /\ ReservesHeld'
  <1>0. j \in Jobs /\ job[j].phase = "queued" /\ JobType /\ PoolType
    BY OfferFacts DEF PoolInv, TypeInv
  <1>1. job'[j].phase = "dispatched" /\ \A k \in Jobs \ {j} : job'[k] = job[k]
    <2>1. job[j] \in JobState
      BY <1>0 DEF JobType
    <2> QED BY <1>0, <2>1 DEF Launch, JobType, JobState
  <1>2. Running' = Running \cup {j} /\ j \notin Running
    BY <1>0, <1>1 DEF Running, RunPhases
  <1>3. pool' = OccupiedPool(j)
    BY DEF Launch
  <1>4. ExactFor(Running, pool)
    BY ExactForRunning DEF PoolInv
  <1>5. ExactFor(Running \cup {j}, OccupiedPool(j))
    BY <1>0, <1>2, <1>4, LaunchExact, RunningInJobs
  <1>6. PoolExact'
    BY <1>2, <1>3, <1>5, ExactForRunningNext
  <1>7. LanesOK'
    BY <1>0, <1>1 DEF PoolInv, LanesOK, Live, RunPhases, LaneOK, Lane, Class
  <1>8. ReservesHeld'
    BY <1>0, <1>3, <1>4, LaunchReserves DEF PoolInv
  <1> QED BY <1>6, <1>7, <1>8

LEMMA CompleteKeeps ==
  ASSUME PoolInv, NEW j \in Jobs, Complete(j) \/ CompleteRequeue(j)
  PROVE  PoolExact' /\ LanesOK' /\ ReservesHeld'
  <1>0. job[j].phase = "returned" /\ JobType /\ PoolType /\ pool' = FreedPool(j)
    BY DEF PoolInv, TypeInv, Complete, CompleteRequeue, TakeEvent
  <1>1. job'[j].phase \in {"settled", "queued"}
    <2>1. CASE Complete(j)
      <3>1. job'[j] = Settled(j, job[j].answer)
        BY <2>1 DEF Complete, SettleAll
      <3> QED BY <3>1, SettledPhase
    <2>2. CASE CompleteRequeue(j)
      <3>0. job[j] \in JobState
        BY <1>0 DEF JobType
      <3> DEFINE b == IF job[j].end = "retry" THEN "waiting" ELSE "none"
                 r == [job[j] EXCEPT !.phase = "queued", !.shared = FALSE, !.forced = TRUE,
                                     !.inc = 0, !.end = "done", !.backoff = b]
      <3>1. job'[j] = r \/ \E ans : job'[j] = Settled(j, ans)
        BY <1>0, <2>2 DEF CompleteRequeue, JobType
      <3> HIDE DEF b
      <3>2. r.phase = "queued"
        BY <3>0 DEF JobState
      <3> HIDE DEF r
      <3> QED BY <3>1, <3>2, SettledPhase
    <2> QED BY <2>1, <2>2
  <1>2. ASSUME NEW k \in Jobs \ {j}
        PROVE  job'[k] = job[k] \/ (job[k].phase = "queued" /\ job'[k].phase = "settled")
    <2>1. CASE Complete(j)
      <3> DEFINE dies == act[Root(j)].registered /\ job[j].end = "panic" /\ Lane(j) = "Mutating"
                 failed == IF dies THEN Failed(Root(j)) ELSE {}
      <3>1. job'[k] = IF k \in failed THEN Settled(k, "fatal") ELSE job[k]
        BY <1>2, <2>1 DEF Complete, SettleAll
      <3>2. k \in failed => job[k].phase = "queued"
        BY DEF Failed, Queued
      <3> HIDE DEF failed
      <3> QED BY <3>1, <3>2, SettledPhase
    <2>2. CASE CompleteRequeue(j)
      BY <1>0, <1>2, <2>2 DEF CompleteRequeue, JobType
    <2> QED BY <2>1, <2>2
  <1>3. Running' = Running \ {j} /\ j \in Running
    BY <1>0, <1>1, <1>2 DEF Running, RunPhases
  <1>4. ExactFor(Running, pool)
    BY ExactForRunning DEF PoolInv
  <1>5. ExactFor(Running \ {j}, FreedPool(j))
    BY <1>0, <1>3, <1>4, CompleteExact, RunningInJobs
  <1>6. PoolExact'
    BY <1>0, <1>3, <1>5, ExactForRunningNext
  <1>7. LanesOK'
    BY <1>0, <1>1, <1>2 DEF PoolInv, LanesOK, Live, RunPhases, LaneOK, Lane, Class
  <1>8. ReservesHeld'
    BY <1>0, CompleteReserves DEF PoolInv
  <1> QED BY <1>6, <1>7, <1>8

(* What is left of the scheduler's turn moves no job. *)
LEMMA TurnQuiet ==
  ASSUME TypeInv, NEW c, EndTurn(c) \/ (\E p : GoTo(p, c))
  PROVE  Quiet
  <1>1. CASE EndTurn(c)
    <2>1. ASSUME NEW k \in Jobs PROVE job'[k].phase = job[k].phase
      <3>1. job[k] \in JobState
        BY <2>1 DEF TypeInv, JobType
      <3>2. job'[k] \in {[job[k] EXCEPT !.backoff = "offered"], job[k]}
        BY <1>1 DEF EndTurn
      <3> QED BY <3>1, <3>2 DEF JobState
    <2> QED BY <1>1, <2>1 DEF EndTurn, Quiet
  <1>2. CASE \E p : GoTo(p, c)
    BY <1>2 DEF GoTo, Quiet
  <1> QED BY <1>1, <1>2

LEMMA SchedulerKeeps ==
  ASSUME PoolInv, Scheduler
  PROVE  PoolExact' /\ LanesOK' /\ ReservesHeld'
  <1>0. TypeInv
    BY DEF PoolInv
  <1>1. CASE WakeTurn \/ TimerTurn
    BY <1>1, QuietKeeps DEF WakeTurn, TimerTurn, Quiet
  <1>2. CASE BeginDispatch
    BY <1>0, <1>2, TurnQuiet, QuietKeeps DEF BeginDispatch, NextRound
  <1>a. ASSUME NEW c, LeavePass(c) PROVE Quiet
    BY <1>0, <1>a, TurnQuiet DEF LeavePass, NextRound
  <1>3. CASE BindPass
    <2>0. "bind" \in Passes
      BY DEF Passes
    <2>1. CASE CanDispatch("bind") /\ BindRoots # {}
      <3>1. PICK a \in BindRoots : \E j \in Offer(a, "bind") : Launch(j, "bind")
        BY <1>3, <2>1 DEF BindPass
      <3>2. PICK j \in Offer(a, "bind") : Launch(j, "bind")
        BY <3>1
      <3> QED BY <2>0, <2>1, <3>2, LaunchKeeps
    <2>2. CASE ~(CanDispatch("bind") /\ BindRoots # {})
      <3>1. LeavePass(sched.cursor)
        BY <1>3, <2>2 DEF BindPass
      <3> QED BY <1>a, <3>1, QuietKeeps
    <2> QED BY <2>1, <2>2
  <1>4. CASE RingPass
    <2> DEFINE offers == {k \in 0 .. sched.left - 1 : Offer(ActorAt(k), sched.pc) # {}}
    <2>0. sched.pc \in Passes
      BY <1>4 DEF RingPass
    <2>1. CASE ~CanDispatch(sched.pc) \/ sched.left = 0 \/ offers = {}
      <3>1. LeavePass(sched.cursor) \/ LeavePass(After(sched.left))
        BY <1>4, <2>1 DEF RingPass
      <3> QED BY <1>a, <3>1, QuietKeeps
    <2>2. CASE CanDispatch(sched.pc) /\ sched.left # 0 /\ offers # {}
      <3>1. PICK k \in offers : \E j \in Offer(ActorAt(k), sched.pc) : Launch(j, sched.pc)
        BY <1>4, <2>2 DEF RingPass
      <3>2. PICK j \in Offer(ActorAt(k), sched.pc) : Launch(j, sched.pc)
        BY <3>1
      <3> QED BY <2>0, <2>2, <3>2, LaunchKeeps
    <2> QED BY <2>1, <2>2
  <1>5. CASE \E j \in Jobs : Complete(j) \/ CompleteRequeue(j)
    BY <1>5, CompleteKeeps
  <1> QED BY <1>1, <1>2, <1>3, <1>4, <1>5 DEF Scheduler

LEMMA InitKeeps ==
  ASSUME Init
  PROVE  PoolInv
  <1>1. TypeInv
    BY InitTyped
  <1>2. \A k \in Jobs : job[k].phase = "idle"
    BY DEF Init, FreshJob
  <1>3. Running = {} /\ LanesOK
    BY <1>2 DEF Running, RunPhases, LanesOK, Live
  <1>4. /\ pool.idle = TotalWorkers /\ pool.interactive = 0 /\ pool.maintenance = 0
        /\ pool.provider = 0 /\ pool.binds = 0 /\ pool.heavy = HeavyPermits
    BY DEF Init
  <1>5. ExactFor({}, pool)
    <2>1. \A T : {} \cap T = {}
      OBVIOUS
    <2> QED BY <1>4, <2>1, FS_EmptySet, ConstantsTyped DEF ExactFor
  <1>6. PoolExact
    BY <1>3, <1>5, ExactForRunning
  <1>7. ReservesHeld
    BY <1>4, ConstantsTyped DEF ReservesHeld, Monus
  <1> QED BY <1>1, <1>3, <1>6, <1>7 DEF PoolInv

LEMMA StepKeeps ==
  ASSUME PoolInv, [Next]_vars
  PROVE  PoolInv'
  <1>0. TypeInv
    BY DEF PoolInv
  <1>1. TypeInv'
    BY <1>0, StepTyped
  <1>2. PoolExact' /\ LanesOK' /\ ReservesHeld'
    <2>1. CASE Scheduler
      BY <2>1, SchedulerKeeps
    <2>2. ASSUME NEW j \in Jobs, Worker(j) \/ Seal(j) \/ Panic(j) \/ Age(j) \/ Stick(j) \/ RetryDue(j)
          PROVE  Quiet
      BY <1>0, <2>2, WorkerQuiet
    <2>3. ASSUME NEW j \in Jobs, Caller(j) PROVE Quiet
      BY <1>0, <2>3, SubmitQuiet, CancelQuiet DEF Caller
    <2>4. ASSUME NEW a \in Actors,
                 \/ Register(a) \/ RemoveActor(a) \/ RetireIdleActor(a)
                 \/ MarkUnbound(a) \/ Quiesce(a) \/ MarkBound(a) \/ DeleteRoot(a)
                 \/ PublisherParks(a) \/ PublisherEnters(a) \/ PublisherLeaves(a)
          PROVE  Quiet
      BY <1>0, <2>4, RootStepQuiet
    <2>5. CASE UNCHANGED vars
      BY <2>5, QuietKeeps DEF vars, Quiet
    <2> QED BY <2>1, <2>2, <2>3, <2>4, <2>5, QuietKeeps DEF Next
  <1> QED BY <1>1, <1>2 DEF PoolInv

(* The global counters of SchedulerState are what running_jobs holds, for    *)
(* every pool (assert_running_invariants is only a debug_assert).            *)
THEOREM PoolCountersExact == Spec => []PoolExact
  <1>1. Init => PoolInv
    BY InitKeeps
  <1>2. PoolInv /\ [Next]_vars => PoolInv'
    BY StepKeeps
  <1>3. PoolInv => PoolExact
    BY DEF PoolInv
  <1> QED BY <1>1, <1>2, <1>3, PTL DEF Spec

(* No interleaving of submits, cancels, panics, requeues, removals and       *)
(* admissions takes the workers that can_dispatch_class keeps for binds,     *)
(* provider jobs and interactive work, for every pool size and reserves.     *)
THEOREM ReservesAlwaysHeld == Spec => []ReservesHeld
  <1>1. Init => PoolInv
    BY InitKeeps
  <1>2. PoolInv /\ [Next]_vars => PoolInv'
    BY StepKeeps
  <1>3. PoolInv => ReservesHeld
    BY DEF PoolInv
  <1> QED BY <1>1, <1>2, <1>3, PTL DEF Spec
=============================================================================
