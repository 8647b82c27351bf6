------------------------ MODULE ExecutorSafetyProofs ------------------------
(***************************************************************************)
(* What the executor guarantees every job, every root's queues and every   *)
(* root's lanes, for any number of roots, jobs and workers, and that it    *)
(* implements CommandService.                                              *)
(*                                                                         *)
(* The argument has three layers.  JobOK relates the fields of ONE job: no *)
(* action looks at another job to decide a job's token, answer or handback,*)
(* so it is inductive job by job, and each action's effect on a job is a   *)
(* step of CommandService.  GateInv is what the epoch gate of one          *)
(* registration guarantees its holders.  QueueInv relates the queued jobs  *)
(* to their root's flags and lifecycle.  LaneInv relates the running jobs  *)
(* of a root to its counters; it needs JobOK (only a repeatable bind is    *)
(* handed back), and where a registration began beside jobs that outlived  *)
(* a removed one (`torn') only its NoMore is left.                         *)
(***************************************************************************)
EXTENDS ExecutorProofs

-----------------------------------------------------------------------------
(* One job.  An end of "rerun" or "retry" marks a bind on its way back to    *)
(* the queue; nobody has been answered then, and nothing is sealed.          *)
Back == {"rerun", "retry"}

AnswerOK(j, r) ==
  /\ r.phase \in {"idle", "queued", "dispatched", "gated", "probed", "executing", "handback", "handed"}
     => r.answer = "none"
  /\ r.phase = "returned" => r.answer \in (IF r.end \in Back THEN {"none"} ELSE {"ok", "panic", "cancelled"})
  /\ r.phase = "settled" => r.answer # "none"
  /\ r.answer # "lost"

EndOK(j, r) ==
  /\ r.end \in Back => r.phase \in {"handback", "handed", "returned"} /\ Repeatable(j)
  /\ r.phase \in {"handback", "handed"} => r.end \in Back
  /\ r.shared => Repeatable(j)

TokenOK(j, r) ==
  /\ r.phase = "idle" => r.token = "none" /\ r.cancel = "none"
  /\ r.token = "running" => r.phase \in {"executing", "handback", "returned", "settled"}
  /\ r.token \in {"running", "committed"} => ~(r.phase = "returned" /\ r.end \in Back)
  /\ r.token = "committed" => r.phase \in {"executing", "returned", "settled"}
                              /\ r.answer \in {"none", "ok", "panic"}
  /\ r.token = "pending" => r.phase # "executing"
  /\ r.token = "pending" /\ r.phase = "returned" => r.answer \in {"none", "cancelled"}

CancelOK(j, r) ==
  /\ r.cancel \in {"pending", "running", "cancelled", "RunningSignalled", "DispatchedCancelled"}
     => r.token = "cancelled"
  /\ r.cancel \in {"committed", "RunningCommitted"} => r.token = "committed"
  /\ r.cancel = "QueuedRemoved" => r.phase = "settled" /\ r.answer = "cancelled"
  /\ r.cancel = "DispatchedCancelled" => r.phase # "executing" /\ r.phase # "queued"
                                         /\ r.answer \in {"none", "cancelled"}
  /\ r.phase = "queued" /\ r.token = "cancelled" /\ Lane(j) = "Mutating" /\ Class(j) = "Interactive"
     => r.cancel = "pending"

(* The epoch guard on the worker's stack. *)
Held(j, p, sharing) ==
  IF p \in {"gated", "probed", "executing"} /\ Lane(j) \in GatedLanes
  THEN IF Lane(j) = "Mutating" /\ ~sharing THEN "write" ELSE "read"
  ELSE "none"

HoldOK(j, r) ==
  /\ r.hold = Held(j, r.phase, r.shared)
  /\ r.phase = "gated" => Lane(j) \in GatedLanes

JobOK(j, r) == AnswerOK(j, r) /\ EndOK(j, r) /\ TokenOK(j, r) /\ CancelOK(j, r) /\ HoldOK(j, r)

JobsOK == \A j \in Jobs : JobOK(j, job[j])

-----------------------------------------------------------------------------
(* The queued jobs and their root.  Only a registered root has any.          *)
QueuedRegistered == \A j \in Jobs : job[j].phase = "queued" => act[Root(j)].registered

DemandExact == \A a \in Actors : act[a].demand = Cardinality(Writers(a))

QueueInv == QueuedRegistered /\ FatalDrained /\ DemandExact /\ NoDuplicateDrains /\ QuietWhenUnbound

(* The running jobs of a root and its record r. *)
SerialLane == {"SerialLspStatus", "MaintenanceCommit", "ProviderMetadata", "CallLedger", "Mutating"}

RootExact(a, r) ==
  /\ r.total = Cardinality(On(a))
  /\ r.read = Cardinality(RunningIn(a, "PureRead"))
  /\ r.lsp = (RunningIn(a, "SerialLspStatus") # {})
  /\ r.commit = (RunningIn(a, "MaintenanceCommit") # {})
  /\ r.provider = (RunningIn(a, "ProviderMetadata") # {})
  /\ r.ledger = (RunningIn(a, "CallLedger") # {})
  /\ r.acquire = (\E j \in On(a) : IsAcquisition(j))
  /\ r.writer = (RunningIn(a, "Mutating") # {})
  /\ r.shared = (\E j \in RunningIn(a, "Mutating") : job[j].shared)

NoMore(a, r) ==
  /\ r.total <= Cardinality(On(a))
  /\ r.read <= Cardinality(RunningIn(a, "PureRead"))
  /\ r.lsp => RunningIn(a, "SerialLspStatus") # {}
  /\ r.commit => RunningIn(a, "MaintenanceCommit") # {}
  /\ r.provider => RunningIn(a, "ProviderMetadata") # {}
  /\ r.ledger => RunningIn(a, "CallLedger") # {}
  /\ r.acquire => \E j \in On(a) : IsAcquisition(j)
  /\ r.writer => RunningIn(a, "Mutating") # {}

OneEach ==
  \A i, k \in Running :
    /\ Root(i) = Root(k) /\ ~root[Root(i)].torn
    /\ \/ Lane(i) = Lane(k) /\ Lane(i) \in SerialLane
       \/ IsAcquisition(i) /\ IsAcquisition(k)
    => i = k

(* What one root's record says of its running jobs. *)
Books(a) ==
  /\ act[a].registered /\ ~root[a].torn => RootExact(a, act[a])
  /\ act[a].registered => NoMore(a, act[a])
  /\ ~root[a].torn => Cardinality(RunningIn(a, "PureRead")) <= ReadCap

LaneInv == (\A a \in Actors : Books(a)) /\ OneEach /\ WriterAlone

(* A job that holds a registration's gate for writing is its only holder. *)
GateInv ==
  \A j, k \in Jobs :
    /\ j # k /\ Root(j) = Root(k) /\ job[j].inc = job[k].inc /\ job[j].hold = "write"
    => job[k].hold = "none"

SafetyInv == PoolInv /\ JobsOK /\ GateInv /\ QueueInv /\ LaneInv

(* How CommandService sees a job whose record is r. *)
Seen(j, r) ==
  [stage   |-> IF r.phase = "idle" THEN "idle"
               ELSE IF r.phase = "executing" THEN "running"
               ELSE IF r.phase = "settled" \/ (r.phase = "returned" /\ r.end \in {"done", "panic"})
               THEN "over" ELSE "accepted",
   use     |-> IF r.phase # "executing" THEN "none"
               ELSE IF r.hold = "none" THEN "free"
               ELSE IF r.hold = "read" THEN "shared" ELSE "exclusive",
   session |-> IF r.phase = "executing" THEN r.inc ELSE 0,
   verdict |-> IF r.token = "cancelled" THEN "revoked"
               ELSE IF r.token = "committed" THEN "sealed" ELSE "open",
   answer  |-> r.answer]

(* Whoever holds a gate after a step held it before, or has just entered it  *)
(* while nobody else moved.                                                  *)
Entered(j, r) ==
  /\ IF r.hold = "write" THEN CanWrite(j) ELSE CanRead(j)
  /\ \A k \in Jobs \ {j} : job'[k] = job[k]

Grip(j, r) ==
  r.hold # "none" => r.inc = job[j].inc /\ (r.hold = job[j].hold \/ Entered(j, r))

(* r is what a step may make of job j. *)
Legal(j, r) == JobOK(j, r) /\ Grip(j, r) /\ Service!Step(Seen(j, job[j]), Seen(j, r))

LEMMA StayLegal ==
  ASSUME NEW j \in Jobs, JobOK(j, job[j])
  PROVE  Legal(j, job[j])
  BY DEF Legal, Grip, Service!Step

LEMMA ViewSeen ==
  ASSUME JobType, NEW j \in Jobs
  PROVE  View[j] = Seen(j, job[j])
  <1>1. job[j] \in JobState
    BY DEF JobType
  <1>2. job[j].hold \in {"none", "read", "write"}
    BY <1>1 DEF JobState
  <1> QED BY <1>2 DEF View, Seen, Stage, Use, Verdict, Session

(* The kinds of change a job goes through, by the fields they set. *)
Unmoved(j, r) ==
  r.phase = job[j].phase /\ r.shared = job[j].shared /\ r.end = job[j].end
  /\ r.hold = job[j].hold /\ r.answer = job[j].answer /\ r.inc = job[j].inc

(* What CommandService calls open, revoked and sealed. *)
Mark(t) == IF t = "cancelled" THEN "revoked" ELSE IF t = "committed" THEN "sealed" ELSE "open"

(* A request of CommandService. *)
Req(s, u, i, v, b) == [stage |-> s, use |-> u, session |-> i, verdict |-> v, answer |-> b]

LEMMA GiveUpStep ==
  ASSUME NEW v, v # "sealed", NEW w \in {v, "revoked"},
         NEW ans \in {"cancelled", "rejected", "fatal", "removed"}
  PROVE  Service!Step(Req("accepted", "none", 0, v, "none"), Req("over", "none", 0, w, ans))
  <1> DEFINE r == Req("accepted", "none", 0, v, "none")
             n == Req("over", "none", 0, w, ans)
  <1>1. n = [r EXCEPT !.stage = "over", !.answer = ans, !.verdict = w]
    <2>1. [Req("accepted", "none", 0, v, "none") EXCEPT !.stage = "over"]
          = Req("over", "none", 0, v, "none")
      BY DEF Req
    <2>2. [Req("over", "none", 0, v, "none") EXCEPT !.answer = ans] = Req("over", "none", 0, v, ans)
      BY DEF Req
    <2>3. [Req("over", "none", 0, v, ans) EXCEPT !.verdict = w] = Req("over", "none", 0, w, ans)
      BY DEF Req
    <2> QED BY <2>1, <2>2, <2>3
  <1>2. r.stage = "accepted" /\ r.verdict = v
    BY DEF Req
  <1> HIDE DEF r, n
  <1>3. Service!GiveUp(r, n)
    BY <1>1, <1>2 DEF Service!GiveUp
  <1>4. Service!Step(r, n)
    BY <1>3 DEF Service!Step
  <1> QED BY <1>4 DEF r, n

LEMMA ReplyStep ==
  ASSUME NEW u, NEW i, NEW v, NEW ans \in {"ok", "panic"}
  PROVE  Service!Step(Req("running", u, i, v, "none"), Req("over", "none", 0, v, ans))
  <1> DEFINE r == Req("running", u, i, v, "none")
             n == Req("over", "none", 0, v, ans)
  <1>1. n = [r EXCEPT !.stage = "over", !.use = "none", !.session = 0, !.answer = ans]
    <2>1. [Req("running", u, i, v, "none") EXCEPT !.stage = "over"] = Req("over", u, i, v, "none")
      BY DEF Req
    <2>2. [Req("over", u, i, v, "none") EXCEPT !.use = "none"] = Req("over", "none", i, v, "none")
      BY DEF Req
    <2>3. [Req("over", "none", i, v, "none") EXCEPT !.session = 0] = Req("over", "none", 0, v, "none")
      BY DEF Req
    <2>4. [Req("over", "none", 0, v, "none") EXCEPT !.answer = ans] = Req("over", "none", 0, v, ans)
      BY DEF Req
    <2> QED BY <2>1, <2>2, <2>3, <2>4
  <1>2. r.stage = "running"
    BY DEF Req
  <1> HIDE DEF r, n
  <1>3. Service!Reply(r, n)
    BY <1>1, <1>2 DEF Service!Reply
  <1>4. Service!Step(r, n)
    BY <1>3 DEF Service!Step
  <1> QED BY <1>4 DEF r, n

LEMMA BeginStep ==
  ASSUME NEW u \in {"free", "shared", "exclusive"}, NEW i, NEW v \in {"open", "sealed"}
  PROVE  Service!Step(Req("accepted", "none", 0, "open", "none"), Req("running", u, i, v, "none"))
  <1> DEFINE r == Req("accepted", "none", 0, "open", "none")
             n == Req("running", u, i, v, "none")
  <1>1. n = [r EXCEPT !.stage = "running", !.use = u, !.session = i, !.verdict = v]
    <2>1. [Req("accepted", "none", 0, "open", "none") EXCEPT !.stage = "running"]
          = Req("running", "none", 0, "open", "none")
      BY DEF Req
    <2>2. [Req("running", "none", 0, "open", "none") EXCEPT !.use = u] = Req("running", u, 0, "open", "none")
      BY DEF Req
    <2>3. [Req("running", u, 0, "open", "none") EXCEPT !.session = i] = Req("running", u, i, "open", "none")
      BY DEF Req
    <2>4. [Req("running", u, i, "open", "none") EXCEPT !.verdict = v] = Req("running", u, i, v, "none")
      BY DEF Req
    <2> QED BY <2>1, <2>2, <2>3, <2>4
  <1>2. /\ r.stage = "accepted" /\ r.verdict = "open" /\ n.session = i
        /\ u \in Service!Uses \ {"none"}
    BY DEF Req, Service!Uses
  <1> HIDE DEF r, n
  <1>3. Service!Begin(r, n)
    BY <1>1, <1>2 DEF Service!Begin
  <1>4. Service!Step(r, n)
    BY <1>3 DEF Service!Step
  <1> QED BY <1>4 DEF r, n

LEMMA WithdrawStep ==
  ASSUME NEW i, NEW v, v # "sealed"
  PROVE  Service!Step(Req("running", "shared", i, v, "none"), Req("accepted", "none", 0, v, "none"))
  <1> DEFINE r == Req("running", "shared", i, v, "none")
             n == Req("accepted", "none", 0, v, "none")
  <1>1. n = [r EXCEPT !.stage = "accepted", !.use = "none", !.session = 0]
    <2>1. [Req("running", "shared", i, v, "none") EXCEPT !.stage = "accepted"]
          = Req("accepted", "shared", i, v, "none")
      BY DEF Req
    <2>2. [Req("accepted", "shared", i, v, "none") EXCEPT !.use = "none"]
          = Req("accepted", "none", i, v, "none")
      BY DEF Req
    <2>3. [Req("accepted", "none", i, v, "none") EXCEPT !.session = 0]
          = Req("accepted", "none", 0, v, "none")
      BY DEF Req
    <2> QED BY <2>1, <2>2, <2>3
  <1>2. r.stage = "running" /\ r.use = "shared" /\ r.verdict # "sealed"
    BY DEF Req
  <1> HIDE DEF r, n
  <1>3. Service!Withdraw(r, n)
    BY <1>1, <1>2 DEF Service!Withdraw
  <1>4. Service!Step(r, n)
    BY <1>3 DEF Service!Step
  <1> QED BY <1>4 DEF r, n

LEMMA SealStep ==
  ASSUME NEW u, NEW i, NEW b
  PROVE  Service!Step(Req("running", u, i, "open", b), Req("running", u, i, "sealed", b))
  BY DEF Req, Service!Step, Service!Seal

LEMMA RevokeStep ==
  ASSUME NEW s, NEW u, NEW i, NEW b, s # "idle"
  PROVE  Service!Step(Req(s, u, i, "open", b), Req(s, u, i, "revoked", b))
  BY DEF Req, Service!Step, Service!Revoke

(* A queued job, or one on its way back to the queue, is answered without    *)
(* having run.                                                               *)
LEMMA DismissLegal ==
  ASSUME NEW j \in Jobs, JobOK(j, job[j]), NEW r,
         \/ job[j].phase = "queued"
         \/ /\ job[j].phase = "returned" /\ job[j].end \in Back
            /\ job[j].token = "cancelled" => r.answer = "cancelled",
         r.phase = "settled", r.hold = "none", r.shared = FALSE, r.end = "done",
         \/ r.token \in {job[j].token, "cancelled"} /\ r.cancel = job[j].cancel
            /\ r.answer \in {"cancelled", "rejected", "fatal", "removed"}
         \/ r.token = "cancelled" /\ r.cancel = "QueuedRemoved" /\ r.answer = "cancelled"
  PROVE  Legal(j, r)
  <1>1. JobOK(j, r)
    BY DEF JobOK, AnswerOK, EndOK, TokenOK, CancelOK, HoldOK, Held, Back
  <1>2. /\ Seen(j, job[j]) = Req("accepted", "none", 0, Mark(job[j].token), "none")
        /\ Mark(job[j].token) # "sealed"
    BY DEF Req, Seen, Mark, JobOK, AnswerOK, TokenOK, Back
  <1>3. /\ Seen(j, r) = Req("over", "none", 0, Mark(r.token), r.answer)
        /\ Mark(r.token) \in {Mark(job[j].token), "revoked"}
    BY DEF Req, Seen, Mark
  <1>4. r.answer \in {"cancelled", "rejected", "fatal", "removed"}
    OBVIOUS
  <1> QED BY <1>1, <1>2, <1>3, <1>4, GiveUpStep DEF Legal, Grip

(* The worker stops before the command begins. *)
LEMMA StopLegal ==
  ASSUME NEW j \in Jobs, JobOK(j, job[j]), NEW r,
         job[j].phase \in {"dispatched", "gated", "probed", "handback", "handed"},
         r.phase = "returned", r.hold = "none", r.shared = job[j].shared, r.end = "done",
         r.answer = "cancelled", r.cancel = job[j].cancel, r.token \in {job[j].token, "cancelled"}
  PROVE  Legal(j, r)
  <1>1. JobOK(j, r)
    BY DEF JobOK, AnswerOK, EndOK, TokenOK, CancelOK, HoldOK, Held, Back
  <1>2. /\ Seen(j, job[j]) = Req("accepted", "none", 0, Mark(job[j].token), "none")
        /\ Mark(job[j].token) # "sealed"
    BY DEF Req, Seen, Mark, JobOK, AnswerOK, TokenOK
  <1>3. /\ Seen(j, r) = Req("over", "none", 0, Mark(r.token), r.answer)
        /\ Mark(r.token) \in {Mark(job[j].token), "revoked"}
    BY DEF Req, Seen, Mark
  <1> QED BY <1>1, <1>2, <1>3, GiveUpStep DEF Legal, Grip

(* The command returns or panics. *)
LEMMA ReplyLegal ==
  ASSUME NEW j \in Jobs, JobOK(j, job[j]), NEW r, job[j].phase = "executing",
         r.phase = "returned", r.hold = "none", r.shared = job[j].shared, r.end \in {"done", "panic"},
         r.answer \in {"ok", "panic"}, r.cancel = job[j].cancel, r.token = job[j].token
  PROVE  Legal(j, r)
  <1>1. JobOK(j, r)
    BY DEF JobOK, AnswerOK, EndOK, TokenOK, CancelOK, HoldOK, Held, Back
  <1>2. Seen(j, job[j]) = Req("running", Seen(j, job[j]).use, job[j].inc, Mark(job[j].token), "none")
    BY DEF Req, Seen, Mark, JobOK, AnswerOK
  <1>3. Seen(j, r) = Req("over", "none", 0, Mark(job[j].token), r.answer)
    BY DEF Req, Seen, Mark
  <1> QED BY <1>1, <1>2, <1>3, ReplyStep DEF Legal, Grip

(* A step from one phase to the next that CommandService does not see. *)
LEMMA AdvanceLegal ==
  ASSUME NEW j \in Jobs, JobOK(j, job[j]), NEW r, r.answer = job[j].answer, r.cancel = job[j].cancel,
         r.hold = Held(j, r.phase, r.shared),
         \/ /\ job[j].phase = "queued" /\ r.phase = "dispatched" /\ r.end = job[j].end
            /\ r.token = job[j].token /\ (r.shared => Repeatable(j))
         \/ /\ job[j].phase = "dispatched" /\ r.phase = "gated" /\ r.end = job[j].end
            /\ r.token = job[j].token /\ r.shared = job[j].shared /\ Lane(j) \in GatedLanes
            /\ r.inc = job[j].inc /\ Entered(j, r)
         \/ /\ job[j].phase \in {"dispatched", "gated"} /\ r.phase = "probed" /\ r.end = job[j].end
            /\ r.token = job[j].token /\ r.shared = job[j].shared
            /\ r.inc = job[j].inc /\ r.hold = job[j].hold
         \/ /\ job[j].phase = "dispatched" /\ r.phase = "handback" /\ r.end \in Back
            /\ Repeatable(j) /\ r.token = job[j].token /\ r.shared = job[j].shared
         \/ /\ job[j].phase = "handback" /\ r.phase = "handed" /\ r.end = job[j].end
            /\ job[j].token # "cancelled" /\ r.shared = job[j].shared
            /\ r.token = IF job[j].token = "running" THEN "pending" ELSE job[j].token
         \/ /\ job[j].phase = "handed" /\ r.phase = "returned" /\ r.end = job[j].end
            /\ r.token = job[j].token /\ r.shared = job[j].shared
         \/ /\ job[j].phase = "returned" /\ job[j].end \in Back /\ r.phase = "queued" /\ r.end = "done"
            /\ r.token = job[j].token /\ r.token # "cancelled" /\ ~r.shared
  PROVE  Legal(j, r)
  <1>1. JobOK(j, r)
    BY DEF JobOK, AnswerOK, EndOK, TokenOK, CancelOK, HoldOK, Held, Back
  <1>2. Seen(j, r) = Seen(j, job[j])
    BY DEF Seen, JobOK, EndOK, TokenOK, Back
  <1>3. Grip(j, r)
    BY DEF Grip, Held
  <1> QED BY <1>1, <1>2, <1>3 DEF Legal, Service!Step

(* The command begins, is sealed, or asks to be run again. *)
LEMMA BeginLegal ==
  ASSUME NEW j \in Jobs, JobOK(j, job[j]), NEW r, job[j].phase = "probed", job[j].token # "cancelled",
         r.phase = "executing", r.hold = job[j].hold, r.inc = job[j].inc,
         r.shared = job[j].shared, r.end = job[j].end,
         r.answer = job[j].answer, r.cancel = job[j].cancel,
         r.token \in {job[j].token, "running", "committed"},
         job[j].token = "pending" => r.token # "pending"
  PROVE  Legal(j, r)
  <1>1. job[j].cancel \notin {"pending", "running", "cancelled", "RunningSignalled",
                               "DispatchedCancelled", "committed", "RunningCommitted"}
    BY DEF JobOK, CancelOK, TokenOK
  <1>2. JobOK(j, r)
    BY <1>1 DEF JobOK, AnswerOK, EndOK, TokenOK, CancelOK, HoldOK, Held, Back
  <1>3. Seen(j, job[j]) = Req("accepted", "none", 0, "open", "none")
    BY DEF Req, Seen, JobOK, AnswerOK, TokenOK
  <1>4. /\ Seen(j, r) = Req("running", Seen(j, r).use, r.inc, Seen(j, r).verdict, "none")
        /\ Seen(j, r).use \in {"free", "shared", "exclusive"}
        /\ Seen(j, r).verdict \in {"open", "sealed"}
    BY DEF Req, Seen, JobOK, AnswerOK
  <1> QED BY <1>2, <1>3, <1>4, BeginStep DEF Legal, Grip

LEMMA SealLegal ==
  ASSUME NEW j \in Jobs, JobOK(j, job[j]), NEW r,
         job[j].phase = "executing", job[j].token = "running",
         Unmoved(j, r), r.token = "committed", r.cancel = job[j].cancel
  PROVE  Legal(j, r)
  <1>1. JobOK(j, r)
    BY DEF Unmoved, JobOK, AnswerOK, EndOK, TokenOK, CancelOK, HoldOK, Back
  <1>2. /\ Seen(j, job[j]) = Req("running", Seen(j, r).use, r.inc, "open", r.answer)
        /\ Seen(j, r) = Req("running", Seen(j, r).use, r.inc, "sealed", r.answer)
    BY DEF Req, Unmoved, Seen
  <1> QED BY <1>1, <1>2, SealStep DEF Legal, Grip, Unmoved

LEMMA WithdrawLegal ==
  ASSUME NEW j \in Jobs, JobOK(j, job[j]), NEW r,
         job[j].phase = "executing", job[j].shared, job[j].token # "committed",
         r.phase = "handback", r.hold = "none", r.shared = job[j].shared, r.end = "rerun",
         r.answer = job[j].answer, r.cancel = job[j].cancel, r.token = job[j].token
  PROVE  Legal(j, r)
  <1>1. Repeatable(j) /\ job[j].hold = "read"
    BY DEF JobOK, EndOK, HoldOK, Held, Repeatable, IsBind, GatedLanes
  <1>2. JobOK(j, r)
    BY <1>1 DEF JobOK, AnswerOK, EndOK, TokenOK, CancelOK, HoldOK, Held, Back
  <1>3. /\ Seen(j, job[j]) = Req("running", "shared", job[j].inc, Mark(job[j].token), "none")
        /\ Seen(j, r) = Req("accepted", "none", 0, Mark(job[j].token), "none")
        /\ Mark(job[j].token) # "sealed"
    BY <1>1 DEF Req, Seen, Mark, JobOK, AnswerOK
  <1> QED BY <1>2, <1>3, WithdrawStep DEF Legal, Grip

(* A token is signalled, or a canceller writes down what it saw. *)
LEMMA SignalLegal ==
  ASSUME NEW j \in Jobs, JobOK(j, job[j]), NEW r, Unmoved(j, r),
         job[j].phase # "idle", CancelOK(j, r), r.token \in {job[j].token, "cancelled"},
         job[j].token = "committed" => r.token = "committed"
  PROVE  Legal(j, r)
  <1>1. JobOK(j, r)
    BY DEF Unmoved, JobOK, AnswerOK, EndOK, TokenOK, HoldOK, Back
  <1>2. CASE job[j].token = "committed" \/ r.token = job[j].token \/ job[j].token = "cancelled"
    <2>1. Seen(j, r) = Seen(j, job[j])
      BY <1>2 DEF Unmoved, Seen
    <2> QED BY <1>1, <2>1 DEF Legal, Grip, Unmoved, Service!Step
  <1>3. CASE job[j].token \notin {"committed", "cancelled"} /\ r.token = "cancelled"
    <2>1. /\ Seen(j, job[j]) = Req(Seen(j, r).stage, Seen(j, r).use, Seen(j, r).session, "open", r.answer)
          /\ Seen(j, r) = Req(Seen(j, r).stage, Seen(j, r).use, Seen(j, r).session, "revoked", r.answer)
          /\ Seen(j, r).stage # "idle"
      BY <1>3 DEF Req, Unmoved, Seen
    <2> DEFINE s == Seen(j, r).stage
               u == Seen(j, r).use
               i == Seen(j, r).session
    <2>2. s # "idle"
      BY <2>1
    <2> HIDE DEF s, u, i
    <2>3. Service!Step(Req(s, u, i, "open", r.answer), Req(s, u, i, "revoked", r.answer))
      BY <2>2, RevokeStep
    <2> QED BY <1>1, <2>1, <2>3 DEF Legal, Grip, Unmoved, s, u, i
  <1> QED BY <1>2, <1>3

(* Being submitted, refused, recycled, and taken off the scheduler's books. *)
LEMMA AcceptLegal ==
  ASSUME NEW j \in Jobs, JobOK(j, job[j]), job[j].phase = "idle"
  PROVE  Legal(j, Fresh(j))
  <1> DEFINE r == Fresh(j)
  <1>1. /\ r.phase = "queued" /\ r.token \in {"pending", "none"} /\ r.hold = "none"
        /\ r.shared = FALSE /\ r.end = "done" /\ r.answer = "none" /\ r.cancel = "none"
    BY DEF Fresh, FreshJob
  <1> HIDE DEF r
  <1>2. JobOK(j, r)
    BY <1>1 DEF JobOK, AnswerOK, EndOK, TokenOK, CancelOK, HoldOK, Held, Back
  <1>3. /\ Seen(j, job[j]).stage = "idle"
        /\ Seen(j, r) = Req("accepted", "none", 0, "open", "none")
    BY <1>1 DEF Req, Seen
  <1>4. Service!Accept(Seen(j, job[j]), Seen(j, r))
    BY <1>3 DEF Req, Service!Accept, Service!NotYet
  <1>5. Legal(j, r)
    BY <1>1, <1>2, <1>4 DEF Legal, Grip, Service!Step
  <1> QED BY <1>5 DEF r

LEMMA RefuseLegal ==
  ASSUME NEW j \in Jobs, JobOK(j, job[j]), job[j].phase = "idle", NEW ans \in {"rejected", "fatal"}
  PROVE  Legal(j, Settled(j, ans))
  <1> DEFINE r == Settled(j, ans)
  <1>0. job[j].token = "none" /\ job[j].cancel = "none"
    BY DEF JobOK, TokenOK
  <1>1. /\ r.phase = "settled" /\ r.token = "none" /\ r.hold = "none" /\ r.shared = FALSE
        /\ r.end = "done" /\ r.answer = ans /\ r.cancel = "none"
    BY <1>0 DEF Settled, FreshJob
  <1> HIDE DEF r
  <1>2. JobOK(j, r)
    BY <1>1 DEF JobOK, AnswerOK, EndOK, TokenOK, CancelOK, HoldOK, Held, Back
  <1>3. /\ Seen(j, job[j]).stage = "idle"
        /\ Seen(j, r) = Req("over", "none", 0, "open", ans)
    BY <1>1 DEF Req, Seen
  <1>4. Service!Refuse(Seen(j, job[j]), Seen(j, r))
    <2>1. [Service!NotYet EXCEPT !.stage = "over"] = Req("over", "none", 0, "open", "none")
      BY DEF Req, Service!NotYet
    <2>2. [Req("over", "none", 0, "open", "none") EXCEPT !.answer = ans] = Req("over", "none", 0, "open", ans)
      BY DEF Req
    <2>3. Seen(j, r) = [Service!NotYet EXCEPT !.stage = "over", !.answer = ans]
      BY <1>3, <2>1, <2>2
    <2> QED BY <1>3, <2>3 DEF Service!Refuse
  <1>5. Legal(j, r)
    BY <1>1, <1>2, <1>4 DEF Legal, Grip, Service!Step
  <1> QED BY <1>5 DEF r

LEMMA ReuseLegal ==
  ASSUME NEW j \in Jobs, job[j].phase = "settled"
  PROVE  Legal(j, FreshJob)
  <1> DEFINE r == FreshJob
  <1>1. /\ r.phase = "idle" /\ r.token = "none" /\ r.hold = "none" /\ r.shared = FALSE
        /\ r.end = "done" /\ r.answer = "none" /\ r.cancel = "none"
    BY DEF FreshJob
  <1> HIDE DEF r
  <1>2. JobOK(j, r)
    BY <1>1 DEF JobOK, AnswerOK, EndOK, TokenOK, CancelOK, HoldOK, Held, Back
  <1>3. /\ Seen(j, job[j]).stage = "over"
        /\ Seen(j, r) = Req("idle", "none", 0, "open", "none")
    BY <1>1 DEF Req, Seen
  <1>4. Service!Reuse(Seen(j, job[j]), Seen(j, r))
    BY <1>3 DEF Req, Service!Reuse, Service!NotYet
  <1>5. Legal(j, r)
    BY <1>1, <1>2, <1>4 DEF Legal, Grip, Service!Step
  <1> QED BY <1>5 DEF r

LEMMA CollectLegal ==
  ASSUME NEW j \in Jobs, JobOK(j, job[j]), job[j].phase = "returned", job[j].end \in {"done", "panic"}
  PROVE  Legal(j, Settled(j, job[j].answer))
  <1> DEFINE r == Settled(j, job[j].answer)
  <1>1. /\ r.phase = "settled" /\ r.token = job[j].token /\ r.hold = "none" /\ r.shared = FALSE
        /\ r.end = "done" /\ r.answer = job[j].answer /\ r.cancel = job[j].cancel
    BY DEF Settled, FreshJob
  <1> HIDE DEF r
  <1>2. JobOK(j, r)
    BY <1>1 DEF JobOK, AnswerOK, EndOK, TokenOK, CancelOK, HoldOK, Held, Back
  <1>3. Seen(j, r) = Seen(j, job[j])
    BY <1>1 DEF Seen
  <1>4. Legal(j, r)
    BY <1>1, <1>2, <1>3 DEF Legal, Grip, Service!Step
  <1> QED BY <1>4 DEF r

(* A job dropped by SettleAll. *)
LEMMA SettledLegal ==
  ASSUME NEW k \in Jobs, JobOK(k, job[k]), job[k].phase = "queued",
         NEW ans \in {"rejected", "fatal", "removed"}
  PROVE  Legal(k, Settled(k, ans))
  <1> DEFINE r == Settled(k, ans)
  <1>1. /\ r.phase = "settled" /\ r.token = job[k].token /\ r.hold = "none" /\ r.shared = FALSE
        /\ r.end = "done" /\ r.answer = ans /\ r.cancel = job[k].cancel
    BY DEF Settled, FreshJob
  <1> HIDE DEF r
  <1>2. Legal(k, r)
    BY <1>1, DismissLegal
  <1> QED BY <1>2 DEF r

-----------------------------------------------------------------------------
(* Every action, as a step of each job. *)
AllLegal == \A k \in Jobs : Legal(k, job'[k])

(* A step that moves no job into or out of a queue or a worker. *)
Still ==
  /\ act' = act
  /\ \A a \in Actors : /\ root'[a].bound = root[a].bound /\ root'[a].quiescing = root[a].quiescing
                        /\ root'[a].torn = root[a].torn
  /\ \A k \in Jobs : /\ job'[k].phase = "queued" <=> job[k].phase = "queued"
                     /\ job'[k].phase \in RunPhases <=> job[k].phase \in RunPhases
                     /\ job'[k].phase \in RunPhases => job'[k].shared = job[k].shared

LEMMA PutLegal ==
  ASSUME JobType, JobsOK, NEW j \in Jobs, NEW r, job' = [job EXCEPT ![j] = r], Legal(j, r)
  PROVE  AllLegal
  <1>1. job'[j] = r /\ \A k \in Jobs \ {j} : job'[k] = job[k]
    BY DEF JobType
  <1> QED BY <1>1, StayLegal DEF AllLegal, JobsOK

LEMMA PutStill ==
  ASSUME JobType, JobsOK, NEW j \in Jobs, NEW r, job' = [job EXCEPT ![j] = r], Legal(j, r),
         act' = act, root' = root, r.shared = job[j].shared,
         r.phase = job[j].phase \/ (r.phase \in RunPhases /\ job[j].phase \in RunPhases)
  PROVE  AllLegal /\ Still
  <1>1. job'[j] = r /\ \A k \in Jobs \ {j} : job'[k] = job[k]
    BY DEF JobType
  <1> QED BY <1>1, PutLegal, NotRunning DEF Still

LEMMA StopSteps ==
  ASSUME TypeInv, JobsOK, NEW j \in Jobs, NEW tok \in {job[j].token, "cancelled"},
         job[j].phase \in {"dispatched", "gated", "probed", "handback", "handed"},
         Return(j, "cancelled", "done", tok), WorkerOnly
  PROVE  AllLegal /\ Still
  <1> DEFINE r == [job[j] EXCEPT !.phase = "returned", !.hold = "none", !.answer = "cancelled",
                                 !.end = "done", !.token = tok]
  <1>0. job[j] \in JobState /\ JobOK(j, job[j])
    BY DEF TypeInv, JobType, JobsOK
  <1>1. /\ r.phase = "returned" /\ r.hold = "none" /\ r.answer = "cancelled" /\ r.end = "done"
        /\ r.token = tok /\ r.shared = job[j].shared /\ r.cancel = job[j].cancel
    BY <1>0 DEF JobState
  <1>2. job' = [job EXCEPT ![j] = r] /\ act' = act /\ root' = root
    BY DEF Return, WorkerOnly
  <1> HIDE DEF r
  <1>3. Legal(j, r)
    BY <1>0, <1>1, StopLegal
  <1> QED BY <1>1, <1>2, <1>3, PutStill DEF TypeInv, RunPhases

LEMMA ReplySteps ==
  ASSUME TypeInv, JobsOK, NEW j \in Jobs, job[j].phase = "executing", NEW ans \in {"ok", "panic"},
         NEW how \in {"done", "panic"}, Return(j, ans, how, job[j].token), WorkerOnly
  PROVE  AllLegal /\ Still
  <1> DEFINE r == [job[j] EXCEPT !.phase = "returned", !.hold = "none", !.answer = ans,
                                 !.end = how, !.token = job[j].token]
  <1>0. job[j] \in JobState /\ JobOK(j, job[j])
    BY DEF TypeInv, JobType, JobsOK
  <1>1. /\ r.phase = "returned" /\ r.hold = "none" /\ r.answer = ans /\ r.end = how
        /\ r.token = job[j].token /\ r.shared = job[j].shared /\ r.cancel = job[j].cancel
    BY <1>0 DEF JobState
  <1>2. job' = [job EXCEPT ![j] = r] /\ act' = act /\ root' = root
    BY DEF Return, WorkerOnly
  <1> HIDE DEF r
  <1>3. Legal(j, r)
    BY <1>0, <1>1, ReplyLegal
  <1> QED BY <1>1, <1>2, <1>3, PutStill DEF TypeInv, RunPhases

LEMMA CancelledSteps ==
  ASSUME TypeInv, JobsOK, NEW j \in Jobs, ReturnCancelled(j), WorkerOnly,
         job[j].phase \in {"dispatched", "gated", "probed", "handback", "handed"}
  PROVE  AllLegal /\ Still
  BY StopSteps DEF ReturnCancelled

LEMMA ObservesFalse ==
  ASSUME NEW j, FALSE \in Observes(j)
  PROVE  job[j].token # "cancelled"
  BY DEF Observes

LEMMA WorkerSteps ==
  ASSUME TypeInv, JobsOK, NEW j \in Jobs, Worker(j) \/ Panic(j)
  PROVE  AllLegal /\ Still
  <1> USE DEF TypeInv
  <1>0. job[j] \in JobState /\ JobOK(j, job[j])
    BY DEF JobType, JobsOK
  <1>1. CASE EnterGate(j)
    <2> DEFINE r == [job[j] EXCEPT !.phase = "gated",
                                   !.hold = IF NeedsWrite(j) THEN "write" ELSE "read"]
    <2>1. /\ r.phase = "gated" /\ r.hold = Held(j, "gated", job[j].shared) /\ r.answer = job[j].answer
          /\ r.end = job[j].end /\ r.token = job[j].token /\ r.shared = job[j].shared
          /\ r.cancel = job[j].cancel /\ job[j].phase = "dispatched" /\ Lane(j) \in GatedLanes
          /\ r.inc = job[j].inc /\ (r.hold = "write" <=> NeedsWrite(j))
      BY <1>0, <1>1 DEF JobState, EnterGate, Held, NeedsWrite
    <2>2. job' = [job EXCEPT ![j] = r] /\ act' = act /\ root' = root
      BY <1>1 DEF EnterGate, WorkerOnly
    <2> HIDE DEF r
    <2>a. Entered(j, r)
      BY <1>1, <2>1, <2>2 DEF Entered, EnterGate, JobType
    <2>3. Legal(j, r)
      BY <1>0, <2>1, <2>a, AdvanceLegal
    <2> QED BY <2>1, <2>2, <2>3, PutStill DEF RunPhases
  <1>2. CASE GiveUpGate(j)
    BY <1>2, CancelledSteps DEF GiveUpGate
  <1>3. CASE MissGate(j)
    <2> DEFINE r == [job[j] EXCEPT !.phase = "handback",
                                   !.end = IF job[j].shared THEN "rerun" ELSE "retry"]
    <2>1. /\ r.phase = "handback" /\ r.hold = job[j].hold /\ r.answer = job[j].answer
          /\ r.end \in Back /\ r.token = job[j].token /\ r.shared = job[j].shared
          /\ r.cancel = job[j].cancel /\ job[j].phase = "dispatched"
      BY <1>0, <1>3 DEF JobState, MissGate, Back
    <2>2. job' = [job EXCEPT ![j] = r] /\ act' = act /\ root' = root
      BY <1>3 DEF MissGate, WorkerOnly
    <2> HIDE DEF r
    <2>3. r.hold = Held(j, r.phase, r.shared)
      BY <1>0, <2>1 DEF JobOK, HoldOK, Held
    <2>4. Repeatable(j)
      BY <1>0, <1>3 DEF MissGate, TriesGate, JobOK, EndOK
    <2>5. Legal(j, r)
      BY <1>0, <2>1, <2>3, <2>4, AdvanceLegal
    <2> QED BY <2>1, <2>2, <2>5, PutStill DEF RunPhases
  <1>4. CASE ProbePasses(j)
    <2> DEFINE r == [job[j] EXCEPT !.phase = "probed"]
    <2>1. /\ r.phase = "probed" /\ r.hold = job[j].hold /\ r.answer = job[j].answer
          /\ r.end = job[j].end /\ r.token = job[j].token /\ r.shared = job[j].shared
          /\ r.cancel = job[j].cancel /\ r.inc = job[j].inc
      BY <1>0 DEF JobState
    <2>2. job' = [job EXCEPT ![j] = r] /\ act' = act /\ root' = root
      BY <1>4 DEF ProbePasses, WorkerOnly
    <2> HIDE DEF r
    <2>3. job[j].phase \in {"dispatched", "gated"} /\ r.hold = Held(j, r.phase, r.shared)
      BY <1>0, <1>4, <2>1 DEF ProbePasses, AtRun, JobOK, HoldOK, Held
    <2>4. Legal(j, r)
      BY <1>0, <2>1, <2>3, AdvanceLegal
    <2> QED BY <2>1, <2>2, <2>3, <2>4, PutStill DEF RunPhases
  <1>5. CASE ProbeStops(j)
    <2>1. job[j].phase \in {"dispatched", "gated"}
      BY <1>5 DEF ProbeStops, AtRun
    <2> QED BY <1>5, <2>1, StopSteps DEF ProbeStops
  <1>6. CASE Start(j)
    <2> DEFINE t == IF Lane(j) = "ProviderMetadata" THEN "committed"
                    ELSE IF job[j].token = "pending" THEN "running" ELSE job[j].token
               r == [job[j] EXCEPT !.phase = "executing", !.token = t]
    <2>0. t \in {job[j].token, "running", "committed"} /\ (job[j].token = "pending" => t # "pending")
      OBVIOUS
    <2>2. job' = [job EXCEPT ![j] = r] /\ act' = act /\ root' = root
      BY <1>6 DEF Start, WorkerOnly
    <2> HIDE DEF t
    <2>1. /\ r.phase = "executing" /\ r.hold = job[j].hold /\ r.answer = job[j].answer
          /\ r.end = job[j].end /\ r.token = t /\ r.shared = job[j].shared
          /\ r.cancel = job[j].cancel /\ r.inc = job[j].inc
          /\ job[j].phase = "probed" /\ job[j].token # "cancelled"
      BY <1>0, <1>6 DEF JobState, Start, CanStart
    <2> HIDE DEF r
    <2>3. Legal(j, r)
      BY <1>0, <2>0, <2>1, BeginLegal
    <2> QED BY <2>1, <2>2, <2>3, PutStill DEF RunPhases
  <1>7. CASE StartRefused(j)
    BY <1>7, StopSteps DEF StartRefused
  <1>8. CASE Finish(j) \/ Panic(j)
    BY <1>8, ReplySteps DEF Finish, Panic
  <1>9. CASE RequestRerun(j)
    <2> DEFINE r == [job[j] EXCEPT !.phase = "handback", !.hold = "none", !.end = "rerun"]
    <2>1. /\ r.phase = "handback" /\ r.hold = "none" /\ r.answer = job[j].answer
          /\ r.end = "rerun" /\ r.token = job[j].token /\ r.shared = job[j].shared
          /\ r.cancel = job[j].cancel
      BY <1>0 DEF JobState
    <2>2. job' = [job EXCEPT ![j] = r] /\ act' = act /\ root' = root
      BY <1>9 DEF RequestRerun, WorkerOnly
    <2> HIDE DEF r
    <2>3. job[j].phase = "executing" /\ job[j].shared /\ job[j].token # "committed"
      BY <1>9 DEF RequestRerun
    <2>4. Legal(j, r)
      BY <1>0, <2>1, <2>3, WithdrawLegal
    <2> QED BY <2>1, <2>2, <2>3, <2>4, PutStill DEF RunPhases
  <1>10. CASE ReturnToPending(j)
    <2>0. job[j].phase = "handback" /\ WorkerOnly
      BY <1>10 DEF ReturnToPending
    <2>1. CASE job[j].token = "cancelled"
      BY <1>10, <2>0, <2>1, CancelledSteps DEF ReturnToPending
    <2>2. CASE job[j].token # "cancelled"
      <3> DEFINE t == IF job[j].token = "running" THEN "pending" ELSE job[j].token
                 r == [job[j] EXCEPT !.phase = "handed", !.token = t]
      <3>2. job' = [job EXCEPT ![j] = r] /\ act' = act /\ root' = root
        BY <1>10, <2>2 DEF ReturnToPending, WorkerOnly
      <3>a. t = IF job[j].token = "running" THEN "pending" ELSE job[j].token
        OBVIOUS
      <3> HIDE DEF t
      <3>1. /\ r.phase = "handed" /\ r.hold = job[j].hold /\ r.answer = job[j].answer
            /\ r.end = job[j].end /\ r.token = t /\ r.shared = job[j].shared
            /\ r.cancel = job[j].cancel
        BY <1>0 DEF JobState
      <3> HIDE DEF r
      <3>3. r.hold = Held(j, r.phase, r.shared)
        BY <1>0, <2>0, <3>1 DEF JobOK, HoldOK, Held
      <3>4. Legal(j, r)
        BY <1>0, <2>0, <2>2, <3>a, <3>1, <3>3, AdvanceLegal
      <3> QED BY <2>0, <3>1, <3>2, <3>4, PutStill DEF RunPhases
    <2> QED BY <2>1, <2>2
  <1>11. CASE HandOff(j)
    <2>0. job[j].phase = "handed" /\ WorkerOnly
      BY <1>11 DEF HandOff
    <2>1. CASE ReturnCancelled(j)
      BY <2>0, <2>1, CancelledSteps
    <2>2. CASE job' = [job EXCEPT ![j].phase = "returned"]
      <3> DEFINE r == [job[j] EXCEPT !.phase = "returned"]
      <3>1. /\ r.phase = "returned" /\ r.hold = job[j].hold /\ r.answer = job[j].answer
            /\ r.end = job[j].end /\ r.token = job[j].token /\ r.shared = job[j].shared
            /\ r.cancel = job[j].cancel
        BY <1>0 DEF JobState
      <3>2. job' = [job EXCEPT ![j] = r] /\ act' = act /\ root' = root
        BY <2>0, <2>2 DEF WorkerOnly
      <3> HIDE DEF r
      <3>3. r.hold = Held(j, r.phase, r.shared)
        BY <1>0, <2>0, <3>1 DEF JobOK, HoldOK, Held
      <3>4. Legal(j, r)
        BY <1>0, <2>0, <3>1, <3>3, AdvanceLegal
      <3> QED BY <2>0, <3>1, <3>2, <3>4, PutStill DEF RunPhases
    <2> QED BY <1>11, <2>1, <2>2 DEF HandOff
  <1> QED BY <1>1, <1>2, <1>3, <1>4, <1>5, <1>6, <1>7, <1>8, <1>9, <1>10, <1>11 DEF Worker

LEMMA SignalledLegal ==
  ASSUME NEW j \in Jobs, JobOK(j, job[j]), NEW r, Unmoved(j, r), job[j].phase # "idle",
         r.token = Signalled(job[j].token), r.cancel = job[j].cancel,
         job[j].phase = "queued" => Lane(j) # "Mutating"
  PROVE  Legal(j, r)
  <1>1. CancelOK(j, r)
    BY DEF JobOK, CancelOK, Unmoved, Signalled
  <1> QED BY <1>1, SignalLegal DEF Signalled

LEMMA CancelSteps ==
  ASSUME TypeInv, JobsOK, NEW j \in Jobs,
         \/ SignalCancel(j)
         \/ ResolveCancel(j) /\ job[j].phase # "queued"
         \/ CancelBeforeExecution(j) /\ ~(job[j].token = "pending" /\ job[j].phase = "queued")
  PROVE  AllLegal /\ Still
  <1> USE DEF TypeInv
  <1>0. job[j] \in JobState /\ JobOK(j, job[j])
    BY DEF JobType, JobsOK
  <1>1. ASSUME NEW c, NEW t, job' = [job EXCEPT ![j] = [job[j] EXCEPT !.cancel = c, !.token = t]],
               act' = act, root' = root, job[j].phase # "idle",
               t \in {job[j].token, "cancelled"}, job[j].token = "committed" => t = "committed",
               \A r : Unmoved(j, r) /\ r.token = t /\ r.cancel = c => CancelOK(j, r)
        PROVE  AllLegal /\ Still
    <2> DEFINE r == [job[j] EXCEPT !.cancel = c, !.token = t]
    <2>1. Unmoved(j, r) /\ r.token = t /\ r.cancel = c
      BY <1>0 DEF JobState, Unmoved
    <2>2. job' = [job EXCEPT ![j] = r]
      BY <1>1
    <2> HIDE DEF r
    <2>3. Legal(j, r)
      BY <1>0, <1>1, <2>1, SignalLegal
    <2> QED BY <1>1, <2>1, <2>2, <2>3, PutStill DEF Unmoved
  <1>2. CASE SignalCancel(j)
    <2> DEFINE c == job[j].token
               t == Signalled(job[j].token)
    <2>1. /\ job' = [job EXCEPT ![j] = [job[j] EXCEPT !.cancel = c, !.token = t]]
          /\ act' = act /\ root' = root /\ job[j].phase # "idle"
      BY <1>2 DEF SignalCancel
    <2>2. t \in {job[j].token, "cancelled"} /\ (job[j].token = "committed" => t = "committed")
      BY DEF Signalled
    <2>3. ASSUME NEW r, Unmoved(j, r), r.token = t, r.cancel = c PROVE CancelOK(j, r)
      <3>1. job[j].token \in Tokens \ {"none"} /\ job[j].cancel = "none"
        BY <1>0, <1>2 DEF SignalCancel, JobState
      <3> QED BY <1>0, <2>3, <3>1 DEF CancelOK, JobOK, TokenOK, Unmoved, Signalled, Tokens
    <2> HIDE DEF c, t
    <2> QED BY <1>1, <2>1, <2>2, <2>3
  <1>3. CASE ResolveCancel(j) /\ job[j].phase # "queued"
    <2> DEFINE c == Outcome(job[j].cancel)
               t == job[j].token
    <2>0. job[j].cancel \in Tokens \ {"none"}
      BY <1>3 DEF ResolveCancel
    <2>a. job' = [job EXCEPT ![j].cancel = c] /\ act' = act /\ root' = root
      BY <1>3 DEF ResolveCancel
    <2>b. [job[j] EXCEPT !.cancel = c, !.token = t] = [job[j] EXCEPT !.cancel = c]
      <3> HIDE DEF c
      <3> QED BY <1>0 DEF JobState
    <2>1. /\ job' = [job EXCEPT ![j] = [job[j] EXCEPT !.cancel = c, !.token = t]]
          /\ act' = act /\ root' = root
      BY <2>a, <2>b
    <2>2. job[j].phase # "idle"
      BY <1>0, <2>0 DEF JobOK, TokenOK
    <2>3. ASSUME NEW r, Unmoved(j, r), r.token = t, r.cancel = c PROVE CancelOK(j, r)
      BY <1>0, <1>3, <2>0, <2>3 DEF CancelOK, JobOK, Unmoved, Outcome, Tokens
    <2> HIDE DEF c
    <2> QED BY <1>1, <2>1, <2>2, <2>3
  <1>4. CASE CancelBeforeExecution(j) /\ ~(job[j].token = "pending" /\ job[j].phase = "queued")
    <2> DEFINE c == IF job[j].token = "pending" THEN "DispatchedCancelled" ELSE "AlreadyStarted"
               t == IF job[j].token = "pending" THEN "cancelled" ELSE job[j].token
    <2>1. /\ job' = [job EXCEPT ![j] = [job[j] EXCEPT !.cancel = c, !.token = t]]
          /\ act' = act /\ root' = root
      BY <1>4 DEF CancelBeforeExecution
    <2>0. /\ job[j].phase \notin {"idle", "settled"} /\ job[j].cancel = "none"
          /\ job[j].phase \in Phases
      BY <1>0, <1>4 DEF CancelBeforeExecution, JobState
    <2>2. t \in {job[j].token, "cancelled"} /\ (job[j].token = "committed" => t = "committed")
      OBVIOUS
    <2>3. ASSUME NEW r, Unmoved(j, r), r.token = t, r.cancel = c PROVE CancelOK(j, r)
      BY <1>0, <1>4, <2>0, <2>3
         DEF CancelOK, JobOK, TokenOK, AnswerOK, Back, Unmoved, Phases, RunPhases
    <2> HIDE DEF c, t
    <2> QED BY <1>1, <2>0, <2>1, <2>2, <2>3
  <1> QED BY <1>2, <1>3, <1>4

(* Time passes, or a command seals its token: a field no other job sees. *)
LEMMA QuietFieldSteps ==
  ASSUME TypeInv, JobsOK, NEW j \in Jobs, NEW r, Unmoved(j, r), r.token = job[j].token,
         r.cancel = job[j].cancel, job' = [job EXCEPT ![j] = r], WorkerOnly
  PROVE  AllLegal /\ Still
  <1>0. JobOK(j, job[j])
    BY DEF JobsOK
  <1>1. JobOK(j, r)
    BY <1>0 DEF JobOK, AnswerOK, EndOK, TokenOK, CancelOK, HoldOK, Unmoved, Back
  <1>2. Seen(j, r) = Seen(j, job[j])
    BY DEF Seen, Unmoved
  <1>3. Legal(j, r)
    BY <1>1, <1>2 DEF Legal, Grip, Unmoved, Service!Step
  <1> QED BY <1>3, PutStill DEF TypeInv, WorkerOnly, Unmoved

LEMMA TimeSteps ==
  ASSUME TypeInv, JobsOK, NEW j \in Jobs, Age(j) \/ Stick(j) \/ RetryDue(j)
  PROVE  AllLegal /\ Still
  <1>0. job[j] \in JobState
    BY DEF TypeInv, JobType
  <1>1. CASE Age(j)
    <2> DEFINE r == [job[j] EXCEPT !.aged = TRUE]
    <2>1. Unmoved(j, r) /\ r.token = job[j].token /\ r.cancel = job[j].cancel
      BY <1>0 DEF JobState, Unmoved
    <2>2. job' = [job EXCEPT ![j] = r] /\ WorkerOnly
      BY <1>1 DEF Age
    <2> HIDE DEF r
    <2> QED BY <2>1, <2>2, QuietFieldSteps
  <1>2. CASE Stick(j)
    <2> DEFINE r == [job[j] EXCEPT !.stuck = TRUE]
    <2>1. Unmoved(j, r) /\ r.token = job[j].token /\ r.cancel = job[j].cancel
      BY <1>0 DEF JobState, Unmoved
    <2>2. job' = [job EXCEPT ![j] = r] /\ WorkerOnly
      BY <1>2 DEF Stick
    <2> HIDE DEF r
    <2> QED BY <2>1, <2>2, QuietFieldSteps
  <1>3. CASE RetryDue(j)
    <2> DEFINE r == [job[j] EXCEPT !.backoff = "due"]
    <2>1. Unmoved(j, r) /\ r.token = job[j].token /\ r.cancel = job[j].cancel
      BY <1>0 DEF JobState, Unmoved
    <2>2. job' = [job EXCEPT ![j] = r] /\ WorkerOnly
      BY <1>3 DEF RetryDue
    <2> HIDE DEF r
    <2> QED BY <2>1, <2>2, QuietFieldSteps
  <1> QED BY <1>1, <1>2, <1>3

LEMMA SealSteps ==
  ASSUME TypeInv, JobsOK, NEW j \in Jobs, Seal(j)
  PROVE  AllLegal /\ Still
  <1> DEFINE r == [job[j] EXCEPT !.token = "committed"]
  <1>0. job[j] \in JobState /\ JobOK(j, job[j]) /\ Root(j) \in Actors /\ root[Root(j)] \in RootState
    BY JobsTyped DEF TypeInv, JobType, JobsOK, RootType
  <1>1. Unmoved(j, r) /\ r.token = "committed" /\ r.cancel = job[j].cancel
    BY <1>0 DEF JobState, Unmoved
  <1>2. /\ job' = [job EXCEPT ![j] = r] /\ act' = act
        /\ job[j].phase = "executing" /\ job[j].token = "running"
    BY DEF Seal
  <1> HIDE DEF r
  <1>3. Legal(j, r)
    BY <1>0, <1>1, <1>2, SealLegal
  <1>4. AllLegal
    BY <1>2, <1>3, PutLegal DEF TypeInv
  <1>5. ASSUME NEW a \in Actors
        PROVE  /\ root'[a].bound = root[a].bound /\ root'[a].quiescing = root[a].quiescing
               /\ root'[a].torn = root[a].torn
    <2>1. root' = root \/ root' = [root EXCEPT ![Root(j)].gen = @ + 1]
      BY DEF Seal
    <2>2. CASE root' = [root EXCEPT ![Root(j)].gen = @ + 1]
      <3> DEFINE q == [root[Root(j)] EXCEPT !.gen = @ + 1]
      <3>1. /\ q.bound = root[Root(j)].bound /\ q.quiescing = root[Root(j)].quiescing
            /\ q.torn = root[Root(j)].torn
        BY <1>0 DEF RootState
      <3>2. root'[a] = IF a = Root(j) THEN q ELSE root[a]
        BY <1>0, <2>2 DEF TypeInv, RootType
      <3> HIDE DEF q
      <3> QED BY <3>1, <3>2
    <2> QED BY <2>1, <2>2
  <1>6. ASSUME NEW k \in Jobs
        PROVE  job'[k].phase = job[k].phase /\ job'[k].shared = job[k].shared
    BY <1>1, <1>2 DEF Unmoved, TypeInv, JobType
  <1> QED BY <1>2, <1>4, <1>5, <1>6 DEF Still

LEMMA RecycleSteps ==
  ASSUME TypeInv, JobsOK, NEW j \in Jobs, Recycle(j)
  PROVE  AllLegal /\ Still
  <1>1. /\ job' = [job EXCEPT ![j] = FreshJob] /\ act' = act /\ root' = root /\ job[j].phase = "settled"
    BY DEF Recycle, WorkerOnly
  <1>2. AllLegal
    BY <1>1, ReuseLegal, PutLegal DEF TypeInv
  <1>3. FreshJob.phase = "idle"
    BY DEF FreshJob
  <1>4. job'[j].phase = "idle" /\ \A k \in Jobs \ {j} : job'[k] = job[k]
    BY <1>1, <1>3 DEF TypeInv, JobType
  <1> QED BY <1>1, <1>2, <1>4, NotRunning DEF Still

LEMMA TurnSteps ==
  ASSUME TypeInv, JobsOK, NEW c, EndTurn(c) \/ (\E p : GoTo(p, c))
  PROVE  AllLegal /\ Still
  <1>1. CASE EndTurn(c)
    <2>1. ASSUME NEW k \in Jobs
          PROVE  /\ Legal(k, job'[k])
                 /\ job'[k].phase = job[k].phase /\ job'[k].shared = job[k].shared
      <3> DEFINE r == [job[k] EXCEPT !.backoff = "offered"]
      <3>0. job[k] \in JobState /\ JobOK(k, job[k])
        BY DEF TypeInv, JobType, JobsOK
      <3>1. Unmoved(k, r) /\ r.token = job[k].token /\ r.cancel = job[k].cancel
        BY <3>0 DEF JobState, Unmoved
      <3>2. job'[k] \in {r, job[k]}
        BY <1>1 DEF EndTurn
      <3> HIDE DEF r
      <3>3. JobOK(k, r) /\ Seen(k, r) = Seen(k, job[k])
        BY <3>0, <3>1 DEF JobOK, AnswerOK, EndOK, TokenOK, CancelOK, HoldOK, Unmoved, Back, Seen
      <3>4. Legal(k, r)
        BY <3>1, <3>3 DEF Legal, Grip, Unmoved, Service!Step
      <3> QED BY <3>0, <3>1, <3>2, <3>4, StayLegal DEF Unmoved
    <2> QED BY <1>1, <2>1 DEF EndTurn, AllLegal, Still
  <1>2. CASE \E p : GoTo(p, c)
    BY <1>2, StayLegal DEF GoTo, AllLegal, Still, JobsOK
  <1> QED BY <1>1, <1>2

LEMMA SameJobs ==
  ASSUME JobsOK, job' = job
  PROVE  AllLegal
  BY StayLegal DEF AllLegal, JobsOK

LEMMA PublisherSteps ==
  ASSUME TypeInv, JobsOK, NEW a \in Actors,
         DeleteRoot(a) \/ PublisherParks(a) \/ PublisherEnters(a) \/ PublisherLeaves(a)
  PROVE  AllLegal /\ Still
  <1>0. root[a] \in RootState /\ job' = job /\ act' = act
    BY DEF TypeInv, RootType, DeleteRoot, PublisherParks, PublisherEnters, PublisherLeaves
  <1>1. ASSUME NEW q, root' = [root EXCEPT ![a] = q], q.bound = root[a].bound,
               q.quiescing = root[a].quiescing, q.torn = root[a].torn
        PROVE  AllLegal /\ Still
    BY <1>0, <1>1, SameJobs DEF Still, TypeInv, RootType
  <1>2. CASE DeleteRoot(a)
    <2> DEFINE q == [root[a] EXCEPT !.dir = FALSE]
    <2>1. q.bound = root[a].bound /\ q.quiescing = root[a].quiescing /\ q.torn = root[a].torn
      BY <1>0 DEF RootState
    <2>2. root' = [root EXCEPT ![a] = q]
      BY <1>2 DEF DeleteRoot
    <2> HIDE DEF q
    <2> QED BY <1>1, <2>1, <2>2
  <1>3. CASE PublisherParks(a)
    <2> DEFINE n == root[a].pubs + 1
               q == [root[a] EXCEPT !.publisher = "parked", !.pubs = n]
    <2>2. root' = [root EXCEPT ![a] = q]
      BY <1>3 DEF PublisherParks
    <2> HIDE DEF n
    <2>1. q.bound = root[a].bound /\ q.quiescing = root[a].quiescing /\ q.torn = root[a].torn
      BY <1>0 DEF RootState
    <2> HIDE DEF q
    <2> QED BY <1>1, <2>1, <2>2
  <1>4. CASE PublisherEnters(a)
    <2> DEFINE q == [root[a] EXCEPT !.publisher = "holding"]
    <2>1. q.bound = root[a].bound /\ q.quiescing = root[a].quiescing /\ q.torn = root[a].torn
      BY <1>0 DEF RootState
    <2>2. root' = [root EXCEPT ![a] = q]
      BY <1>4 DEF PublisherEnters
    <2> HIDE DEF q
    <2> QED BY <1>1, <2>1, <2>2
  <1>5. CASE PublisherLeaves(a)
    <2> DEFINE q == [root[a] EXCEPT !.publisher = "none"]
    <2>1. q.bound = root[a].bound /\ q.quiescing = root[a].quiescing /\ q.torn = root[a].torn
      BY <1>0 DEF RootState
    <2>2. root' = [root EXCEPT ![a] = q]
      BY <1>5 DEF PublisherLeaves
    <2> HIDE DEF q
    <2> QED BY <1>1, <2>1, <2>2
  <1> QED BY <1>2, <1>3, <1>4, <1>5

-----------------------------------------------------------------------------
(* The queues.  A step that queues nobody keeps QueueInv when the demand     *)
(* follows the queued writers and a root that ends, turns fatal or becomes   *)
(* quiet has nothing queued that it may not have.                            *)
AllowedUnbound(k) ==
  (Class(k) = "Maintenance" => Info[k].kind = "teardown") /\ Lane(k) # "ProviderMetadata"

DemandNext(a) == act'[a].demand = Cardinality(Writers(a)')

RootKept(a) ==
  \/ act'[a].registered = act[a].registered /\ act'[a].fatal = act[a].fatal
  \/ \A k \in Jobs : Root(k) = a => job'[k].phase # "queued"

QuietKept(a) ==
  \/ root'[a].bound \/ root'[a].quiescing
  \/ root'[a].bound = root[a].bound /\ root'[a].quiescing = root[a].quiescing
  \/ \A k \in Jobs : Root(k) = a /\ job'[k].phase = "queued" => AllowedUnbound(k)

LEMMA QueueKeeps ==
  ASSUME QueueInv, \A k \in Jobs : job'[k].phase = "queued" => job[k].phase = "queued",
         \A a \in Actors : DemandNext(a) /\ RootKept(a) /\ QuietKept(a)
  PROVE  QueueInv'
  <1>1. QueuedRegistered'
    BY JobsTyped DEF QueueInv, QueuedRegistered, RootKept, Root
  <1>2. FatalDrained'
    BY DEF QueueInv, FatalDrained, Queued, RootKept, Root, Class
  <1>3. DemandExact'
    BY DEF DemandExact, DemandNext
  <1>4. NoDuplicateDrains'
    BY DEF QueueInv, NoDuplicateDrains, Root, Class
  <1>5. QuietWhenUnbound'
    BY DEF QueueInv, QuietWhenUnbound, QuietKept, AllowedUnbound, Root, Class, Lane
  <1> QED BY <1>1, <1>2, <1>3, <1>4, <1>5 DEF QueueInv

(* A step that queues one job that the root may have. *)
LEMMA QueueAdds ==
  ASSUME QueueInv, NEW j \in Jobs,
         \A k \in Jobs \ {j} : job'[k].phase = "queued" => job[k].phase = "queued",
         \A a \in Actors : /\ DemandNext(a)
                           /\ act'[a].registered = act[a].registered /\ act'[a].fatal = act[a].fatal
                           /\ root'[a] = root[a],
         act[Root(j)].registered, ~act[Root(j)].fatal,
         root[Root(j)].bound \/ AllowedUnbound(j),
         \/ Class(j) # "Maintenance" \/ Info[j].key = NoKey
         \/ \A k \in Queued(Root(j), "Maintenance") : Info[k].key # Info[j].key
  PROVE  QueueInv'
  <1>0. Root(j) \in Actors
    BY JobsTyped
  <1>1. QueuedRegistered'
    BY <1>0, JobsTyped DEF QueueInv, QueuedRegistered, Root
  <1>2. FatalDrained'
    BY <1>0 DEF QueueInv, FatalDrained, Queued, Root, Class
  <1>3. DemandExact'
    BY DEF DemandExact, DemandNext
  <1>4. NoDuplicateDrains'
    BY DEF QueueInv, NoDuplicateDrains, Queued, Root, Class
  <1>5. QuietWhenUnbound'
    BY DEF QueueInv, QuietWhenUnbound, AllowedUnbound, Root, Class, Lane
  <1> QED BY <1>1, <1>2, <1>3, <1>4, <1>5 DEF QueueInv

LEMMA WritersSame ==
  ASSUME NEW a, \A k \in Jobs : Class(k) = "Interactive" /\ Lane(k) = "Mutating" /\ Root(k) = a
                  => (job'[k].phase = "queued" <=> job[k].phase = "queued")
  PROVE  Writers(a)' = Writers(a)
  BY DEF Writers, LaneQueue, Queued, Root, Class, Lane

LEMMA StillQueue ==
  ASSUME QueueInv, Still
  PROVE  QueueInv'
  <1>1. ASSUME NEW a \in Actors PROVE DemandNext(a) /\ RootKept(a) /\ QuietKept(a)
    BY <1>1, WritersSame DEF Still, DemandNext, RootKept, QuietKept, QueueInv, DemandExact
  <1> QED BY <1>1, QueueKeeps DEF Still

-----------------------------------------------------------------------------
(* The lanes.  A step that moves no running job and no slot of a root. *)
SameSlots(r, s) ==
  /\ s.registered = r.registered /\ s.total = r.total /\ s.read = r.read /\ s.lsp = r.lsp
  /\ s.writer = r.writer /\ s.shared = r.shared /\ s.commit = r.commit /\ s.acquire = r.acquire
  /\ s.provider = r.provider /\ s.ledger = r.ledger

LaneStill ==
  /\ \A a \in Actors : SameSlots(act[a], act'[a]) /\ root'[a].torn = root[a].torn
  /\ \A k \in Jobs : /\ job'[k].phase \in RunPhases <=> job[k].phase \in RunPhases
                     /\ job'[k].phase \in RunPhases => job'[k].shared = job[k].shared

LEMMA StillLanes ==
  ASSUME Still
  PROVE  LaneStill
  BY DEF Still, LaneStill, SameSlots

(* A root whose running jobs, slots and history stay. *)
LEMMA BooksKept ==
  ASSUME NEW a \in Actors, Books(a), SameSlots(act[a], act'[a]), root'[a].torn = root[a].torn,
         On(a)' = On(a), \A k \in On(a) : job'[k].shared = job[k].shared
  PROVE  Books(a)'
  <1>1. \A l : RunningIn(a, l)' = RunningIn(a, l)
    BY DEF RunningIn, Lane
  <1>2. (\E k \in RunningIn(a, "Mutating") : job[k].shared)'
          <=> (\E k \in RunningIn(a, "Mutating") : job[k].shared)
    BY <1>1 DEF RunningIn
  <1>3. (\E k \in On(a) : IsAcquisition(k))' <=> (\E k \in On(a) : IsAcquisition(k))
    BY DEF IsAcquisition, Class, Lane
  <1>4. RootExact(a, act[a]) => RootExact(a, act[a])'
    BY <1>1, <1>2, <1>3 DEF RootExact, SameSlots
  <1>5. NoMore(a, act[a]) => NoMore(a, act[a])'
    BY <1>1, <1>3 DEF NoMore, SameSlots
  <1> QED BY <1>1, <1>4, <1>5 DEF Books, SameSlots

LEMMA LanesKept ==
  ASSUME LaneInv, LaneStill
  PROVE  LaneInv'
  <1>1. Running' = Running /\ \A k \in Running : job'[k].shared = job[k].shared
    BY DEF LaneStill, Running
  <1>2. ASSUME NEW a PROVE On(a)' = On(a) /\ On(a) \subseteq Running
    BY <1>1 DEF On, Root
  <1>3. ASSUME NEW a \in Actors PROVE Books(a)'
    BY <1>1, <1>2, BooksKept DEF LaneInv, LaneStill
  <1>4. \A k \in Running : k \in Jobs /\ root'[Root(k)].torn = root[Root(k)].torn
    BY JobsTyped DEF Running, LaneStill
  <1>5. OneEach'
    BY <1>1, <1>4 DEF LaneInv, OneEach, Root, Lane, IsAcquisition, Class
  <1>6. WriterAlone'
    BY <1>1, <1>4 DEF LaneInv, WriterAlone, Root, Lane
  <1> QED BY <1>3, <1>5, <1>6 DEF LaneInv

(* Setting only the demand of a root. *)
LEMMA DemandSlots ==
  ASSUME NEW r \in ActorCounters, NEW d
  PROVE  /\ SameSlots(r, [r EXCEPT !.demand = d])
         /\ [r EXCEPT !.demand = d].fatal = r.fatal /\ [r EXCEPT !.demand = d].demand = d
  BY DEF SameSlots, ActorCounters

-----------------------------------------------------------------------------
(* Submitting. *)
LEMMA DuplicatesQueued ==
  ASSUME NEW j, NEW k \in Duplicates(j)
  PROVE  k \in Jobs /\ job[k].phase = "queued" /\ Class(k) = "Maintenance"
  BY DEF Duplicates, Queued

LEMMA RefusedSteps ==
  ASSUME TypeInv, JobsOK, NEW j \in Jobs, NEW seen, SubmitRefused(j, seen)
  PROVE  AllLegal /\ Still
  <1> DEFINE ans == IF act[Root(j)].registered /\ act[Root(j)].fatal THEN "fatal" ELSE "rejected"
  <1>1. job[j].phase = "idle" /\ job' = SettleAll({j}, ans) /\ act' = act /\ root' = root
    BY DEF SubmitRefused
  <1>2. ans \in {"rejected", "fatal"}
    OBVIOUS
  <1> HIDE DEF ans
  <1>3. job'[j] = Settled(j, ans) /\ \A k \in Jobs \ {j} : job'[k] = job[k]
    BY <1>1 DEF SettleAll
  <1>4. AllLegal
    BY <1>1, <1>2, <1>3, RefuseLegal, StayLegal DEF AllLegal, JobsOK
  <1> QED BY <1>1, <1>3, <1>4, SettledPhase, NotRunning DEF Still

LEMMA BackpressureSteps ==
  ASSUME TypeInv, JobsOK, QueueInv, NEW j \in Jobs, NEW seen, SubmitBackpressure(j, seen)
  PROVE  AllLegal /\ QueueInv' /\ LaneStill
  <1>1. /\ job[j].phase = "idle" /\ job' = SettleAll({j} \cup Duplicates(j), "rejected")
        /\ act' = act /\ root' = root
    BY DEF SubmitBackpressure
  <1>2. \A k \in Jobs : job'[k] = IF k \in {j} \cup Duplicates(j) THEN Settled(k, "rejected") ELSE job[k]
    BY <1>1 DEF SettleAll
  <1>3. AllLegal
    BY <1>1, <1>2, DuplicatesQueued, RefuseLegal, SettledLegal, StayLegal DEF AllLegal, JobsOK
  <1>4. \A k \in Jobs : job'[k].phase = "queued" => job[k].phase = "queued"
    BY <1>2, SettledPhase
  <1>5. ASSUME NEW a \in Actors PROVE DemandNext(a) /\ RootKept(a) /\ QuietKept(a)
    <2>1. Writers(a)' = Writers(a)
      <3>1. ASSUME NEW k \in Jobs, Class(k) = "Interactive"
            PROVE  job'[k].phase = "queued" <=> job[k].phase = "queued"
        BY <1>1, <1>2, <3>1, DuplicatesQueued, SettledPhase
      <3> QED BY <3>1, WritersSame
    <2> QED BY <1>1, <2>1 DEF DemandNext, RootKept, QuietKept, QueueInv, DemandExact
  <1>6. QueueInv'
    BY <1>4, <1>5, QueueKeeps
  <1>7. LaneStill
    BY <1>1, <1>2, DuplicatesQueued, SettledPhase, NotRunning DEF LaneStill, SameSlots
  <1> QED BY <1>3, <1>6, <1>7

LEMMA QueuedSteps ==
  ASSUME TypeInv, JobsOK, QueueInv, NEW j \in Jobs, NEW seen, SubmitQueued(j, seen)
  PROVE  AllLegal /\ QueueInv' /\ LaneStill
  <1> DEFINE d == Cardinality(Writers(Root(j)) \cup (IF Interrupts(j) THEN {j} ELSE {}))
  <1>0. Root(j) \in Actors
    BY JobsTyped
  <1>1. /\ job[j].phase = "idle" /\ root' = root /\ ~Refused(j, seen)
        /\ act' = [act EXCEPT ![Root(j)].demand = d]
    BY DEF SubmitQueued
  <1>2. /\ job'[j] = Fresh(j)
        /\ \A k \in Jobs \ {j} :
             job'[k] = IF k \in Duplicates(j) THEN Settled(k, "rejected") ELSE job[k]
    BY DEF SubmitQueued, SettleAll
  <1>3. Fresh(j).phase = "queued"
    BY DEF Fresh, FreshJob
  <1>4. AllLegal
    BY <1>1, <1>2, DuplicatesQueued, AcceptLegal, SettledLegal, StayLegal DEF AllLegal, JobsOK
  <1>5. \A k \in Jobs \ {j} : job'[k].phase = "queued" => job[k].phase = "queued"
    BY <1>2, SettledPhase
  <1>6. ASSUME NEW a \in Actors
        PROVE  DemandNext(a) /\ act'[a].fatal = act[a].fatal /\ SameSlots(act[a], act'[a])
    <2>1. \A k \in Jobs \ {j} : Class(k) = "Interactive" => (job'[k].phase = "queued" <=> job[k].phase = "queued")
      BY <1>2, DuplicatesQueued, SettledPhase
    <2>2. Writers(a)' = Writers(a) \cup (IF Interrupts(j) /\ Root(j) = a THEN {j} ELSE {})
      BY <1>1, <1>2, <1>3, <2>1 DEF Writers, LaneQueue, Queued, Interrupts, Root, Class, Lane
    <2>3. /\ SameSlots(act[a], act'[a]) /\ act'[a].fatal = act[a].fatal
          /\ act'[a].demand = IF a = Root(j) THEN d ELSE act[a].demand
      <3> HIDE DEF d
      <3> DEFINE q == [act[Root(j)] EXCEPT !.demand = d]
      <3>1. act'[a] = IF a = Root(j) THEN q ELSE act[a]
        BY <1>0, <1>1 DEF TypeInv, ActType
      <3>2. act[Root(j)] \in ActorCounters
        BY <1>0 DEF TypeInv, ActType
      <3>3. SameSlots(act[Root(j)], q) /\ q.fatal = act[Root(j)].fatal /\ q.demand = d
        BY <3>2, DemandSlots
      <3> HIDE DEF q
      <3> QED BY <3>1, <3>3 DEF SameSlots
    <2>4. CASE a = Root(j)
      <3>1. Writers(a)' = Writers(Root(j)) \cup (IF Interrupts(j) THEN {j} ELSE {})
        BY <2>2, <2>4
      <3> QED BY <2>3, <2>4, <3>1 DEF DemandNext
    <2>5. CASE a # Root(j)
      <3>1. Writers(a)' = Writers(a)
        BY <2>2, <2>5
      <3> QED BY <2>3, <2>5, <3>1 DEF DemandNext, QueueInv, DemandExact
    <2> QED BY <2>3, <2>4, <2>5
  <1>7. QueueInv'
    <2>1. act[Root(j)].registered /\ ~act[Root(j)].fatal /\ ~LifecycleRefuses(j, seen) /\ ~Coalesced(j)
      BY <1>1 DEF Refused
    <2>2. root[Root(j)].bound \/ AllowedUnbound(j)
      BY <2>1 DEF LifecycleRefuses, AllowedUnbound
    <2>3. \/ Class(j) # "Maintenance" \/ Info[j].key = NoKey
          \/ \A k \in Queued(Root(j), "Maintenance") : Info[k].key # Info[j].key
      BY <2>1 DEF Coalesced
    <2>4. \A a \in Actors : act'[a].registered = act[a].registered
      BY <1>6 DEF SameSlots
    <2> HIDE DEF d
    <2> QED BY <1>1, <1>5, <1>6, <2>1, <2>2, <2>3, <2>4, QueueAdds
  <1>8. LaneStill
    <2>1. \A k \in Jobs : \/ job'[k] = job[k]
                          \/ job[k].phase \notin RunPhases /\ job'[k].phase \notin RunPhases
      BY <1>1, <1>2, <1>3, DuplicatesQueued, SettledPhase, NotRunning
    <2> HIDE DEF d
    <2> QED BY <1>1, <1>6, <2>1 DEF LaneStill
  <1> QED BY <1>4, <1>7, <1>8

LEMMA RemoveSteps ==
  ASSUME TypeInv, JobsOK, QueueInv, NEW j \in Jobs, RemoveQueued(j, "QueuedRemoved"),
         job[j].phase = "queued"
  PROVE  AllLegal /\ QueueInv' /\ LaneStill
  <1> DEFINE r == [Settled(j, "cancelled") EXCEPT !.token = "cancelled", !.cancel = "QueuedRemoved"]
             d == Cardinality(Writers(Root(j)) \ {j})
  <1>0. Root(j) \in Actors /\ JobOK(j, job[j])
    BY JobsTyped DEF JobsOK
  <1>1. /\ r.phase = "settled" /\ r.token = "cancelled" /\ r.hold = "none" /\ r.shared = FALSE
        /\ r.end = "done" /\ r.answer = "cancelled" /\ r.cancel = "QueuedRemoved"
    BY DEF Settled, FreshJob
  <1>2. job' = [job EXCEPT ![j] = r] /\ root' = root /\ act' = [act EXCEPT ![Root(j)].demand = d]
    BY DEF RemoveQueued, SyncDemand
  <1> HIDE DEF r
  <1>3. Legal(j, r)
    BY <1>0, <1>1, DismissLegal
  <1>4. AllLegal
    BY <1>2, <1>3, PutLegal DEF TypeInv
  <1>5. job'[j].phase = "settled" /\ \A k \in Jobs \ {j} : job'[k] = job[k]
    BY <1>1, <1>2 DEF TypeInv, JobType
  <1>6. ASSUME NEW a \in Actors
        PROVE  DemandNext(a) /\ act'[a].fatal = act[a].fatal /\ SameSlots(act[a], act'[a])
    <2>2. Writers(a)' = Writers(a) \ {j}
      BY <1>5 DEF Writers, LaneQueue, Queued, Root, Class, Lane
    <2>3. /\ SameSlots(act[a], act'[a]) /\ act'[a].fatal = act[a].fatal
          /\ act'[a].demand = IF a = Root(j) THEN d ELSE act[a].demand
      <3> HIDE DEF d
      <3> DEFINE q == [act[Root(j)] EXCEPT !.demand = d]
      <3>1. act'[a] = IF a = Root(j) THEN q ELSE act[a]
        BY <1>0, <1>2 DEF TypeInv, ActType
      <3>2. act[Root(j)] \in ActorCounters
        BY <1>0 DEF TypeInv, ActType
      <3>3. SameSlots(act[Root(j)], q) /\ q.fatal = act[Root(j)].fatal /\ q.demand = d
        BY <3>2, DemandSlots
      <3> HIDE DEF q
      <3> QED BY <3>1, <3>3 DEF SameSlots
    <2>4. CASE a = Root(j)
      BY <2>2, <2>3, <2>4 DEF DemandNext
    <2>5. CASE a # Root(j)
      <3>1. Writers(a)' = Writers(a)
        BY <2>2, <2>5 DEF Writers, LaneQueue, Queued
      <3> QED BY <2>3, <2>5, <3>1 DEF DemandNext, QueueInv, DemandExact
    <2> QED BY <2>3, <2>4, <2>5
  <1> HIDE DEF d
  <1>7. QueueInv'
    <2>1. \A a \in Actors : RootKept(a) /\ QuietKept(a)
      BY <1>2, <1>6 DEF RootKept, QuietKept, SameSlots
    <2> QED BY <1>5, <1>6, <2>1, QueueKeeps
  <1>8. LaneStill
    BY <1>2, <1>5, <1>6, NotRunning DEF LaneStill
  <1> QED BY <1>4, <1>7, <1>8

-----------------------------------------------------------------------------
(* A root's life. *)
LEMMA QuiesceSteps ==
  ASSUME TypeInv, JobsOK, QueueInv, NEW a \in Actors, Quiesce(a)
  PROVE  AllLegal /\ QueueInv' /\ LaneStill
  <1> DEFINE gone == IF act[a].registered
                     THEN Queued(a, "Maintenance") \cup LaneQueue(a, "Interactive", "ProviderMetadata")
                     ELSE {}
             signalled == {k \in Jobs \ gone :
                      /\ Root(k) = a /\ ~root[a].dir
                      /\ \/ job[k].phase = "queued" /\ Info[k].kind = "inspect" /\ act[a].registered
                         \/ k \in Running /\ (Class(k) = "Maintenance" \/ Info[k].kind = "inspect")}
  <1>1. /\ act' = act /\ root' = [root EXCEPT ![a].quiescing = FALSE]
        /\ \A k \in Jobs : job'[k] =
             IF k \in gone
             THEN [Settled(k, "cancelled") EXCEPT !.token =
                     IF Lane(k) = "ProviderMetadata" THEN "cancelled" ELSE @]
             ELSE IF k \in signalled
             THEN [job[k] EXCEPT !.token = Signalled(job[k].token)] ELSE job[k]
    BY DEF Quiesce
  <1>2. \A k \in gone : k \in Jobs /\ job[k].phase = "queued" /\ Root(k) = a
    BY DEF Queued, LaneQueue
  <1>3. \A k \in signalled : /\ job[k].phase # "idle"
                             /\ job[k].phase = "queued" => Lane(k) # "Mutating"
    BY InspectAssumption, NotRunning DEF Running
  <1>a. \A k \in Jobs : /\ Root(k) = a /\ job[k].phase = "queued" /\ k \notin gone => AllowedUnbound(k)
                        /\ k \in gone => ~(Class(k) = "Interactive" /\ Lane(k) = "Mutating")
    <2>1. \A k \in Jobs : Root(k) = a /\ job[k].phase = "queued" => act[a].registered
      BY DEF QueueInv, QueuedRegistered
    <2>2. \A k \in Jobs : Class(k) \in {"Interactive", "Maintenance"}
      BY JobsTyped DEF Classes
    <2> QED BY <2>1, <2>2 DEF Queued, LaneQueue, AllowedUnbound
  <1> HIDE DEF gone, signalled
  <1>4. ASSUME NEW k \in Jobs
        PROVE  /\ Legal(k, job'[k])
               /\ k \in gone => job'[k].phase = "settled"
               /\ k \notin gone => job'[k].phase = job[k].phase /\ job'[k].shared = job[k].shared
    <2>0. job[k] \in JobState /\ JobOK(k, job[k])
      BY <1>4 DEF TypeInv, JobType, JobsOK
    <2>1. CASE k \in gone
      <3> DEFINE t == IF Lane(k) = "ProviderMetadata" THEN "cancelled" ELSE job[k].token
                 r == [Settled(k, "cancelled") EXCEPT !.token =
                         IF Lane(k) = "ProviderMetadata" THEN "cancelled" ELSE @]
      <3>1. /\ r.phase = "settled" /\ r.hold = "none" /\ r.shared = FALSE
            /\ r.end = "done" /\ r.answer = "cancelled" /\ r.cancel = job[k].cancel
            /\ r.token \in {job[k].token, "cancelled"}
        BY DEF Settled, FreshJob
      <3>2. job'[k] = r
        BY <1>1, <2>1
      <3> HIDE DEF r
      <3>3. Legal(k, r)
        BY <1>2, <2>0, <2>1, <3>1, DismissLegal
      <3> QED BY <2>1, <3>1, <3>2, <3>3
    <2>2. CASE k \notin gone /\ k \in signalled
      <3> DEFINE t == Signalled(job[k].token)
                 r == [job[k] EXCEPT !.token = t]
      <3>2. job'[k] = r
        BY <1>1, <2>2
      <3> HIDE DEF t
      <3>1. Unmoved(k, r) /\ r.token = t /\ r.cancel = job[k].cancel
        BY <2>0 DEF JobState, Unmoved
      <3> HIDE DEF r
      <3>3. Legal(k, r)
        BY <1>3, <2>0, <2>2, <3>1, SignalledLegal DEF t
      <3> QED BY <2>2, <3>1, <3>2, <3>3 DEF Unmoved
    <2>3. CASE k \notin gone /\ k \notin signalled
      BY <1>1, <2>0, <2>3, StayLegal
    <2> QED BY <2>1, <2>2, <2>3
  <1>5. AllLegal
    BY <1>4 DEF AllLegal
  <1>6. \A k \in Jobs : job'[k].phase = "queued" => job[k].phase = "queued"
    BY <1>4
  <1>7. ASSUME NEW b \in Actors PROVE DemandNext(b) /\ RootKept(b) /\ QuietKept(b)
    <2>1. Writers(b)' = Writers(b)
      <3>1. ASSUME NEW k \in Jobs, Class(k) = "Interactive", Lane(k) = "Mutating"
            PROVE  job'[k].phase = "queued" <=> job[k].phase = "queued"
        BY <1>4, <1>a, <3>1
      <3> QED BY <3>1, WritersSame
    <2>2. QuietKept(b)
      <3>1. CASE b = a
        <4>1. \A k \in Jobs : Root(k) = a /\ job'[k].phase = "queued" => AllowedUnbound(k)
          BY <1>4, <1>6, <1>a
        <4> QED BY <3>1, <4>1 DEF QuietKept
      <3>2. CASE b # a
        BY <1>1, <3>2 DEF QuietKept, TypeInv, RootType
      <3> QED BY <3>1, <3>2
    <2> QED BY <1>1, <2>1, <2>2 DEF DemandNext, RootKept, QueueInv, DemandExact
  <1>8. QueueInv'
    BY <1>6, <1>7, QueueKeeps
  <1>b. ASSUME NEW b \in Actors PROVE root'[b].torn = root[b].torn
    BY <1>1 DEF TypeInv, RootType, RootState
  <1>9. LaneStill
    BY <1>1, <1>2, <1>4, <1>b, NotRunning DEF LaneStill, SameSlots
  <1> QED BY <1>5, <1>8, <1>9

LEMMA BoundSteps ==
  ASSUME TypeInv, JobsOK, QueueInv, NEW a \in Actors, MarkUnbound(a) \/ MarkBound(a)
  PROVE  AllLegal /\ QueueInv' /\ LaneStill
  <1>1. job' = job /\ act' = act
    BY DEF MarkUnbound, MarkBound
  <1>2. ASSUME NEW b \in Actors PROVE QuietKept(b)
    <2>1. CASE b # a
      BY <2>1 DEF MarkUnbound, MarkBound, QuietKept, TypeInv, RootType
    <2>2. CASE b = a /\ MarkBound(a)
      <3>1. root'[a].bound
        BY <2>2 DEF MarkBound, TypeInv, RootType, RootState
      <3> QED BY <2>2, <3>1 DEF QuietKept
    <2>3. CASE b = a /\ MarkUnbound(a)
      <3> DEFINE n == root[a].gen + 1
                 q == [root[a] EXCEPT !.bound = FALSE, !.gen = n, !.quiescing = TRUE]
      <3>1. root'[a] = q
        BY <2>3 DEF MarkUnbound, TypeInv, RootType
      <3> HIDE DEF n
      <3>2. q.quiescing
        BY DEF TypeInv, RootType, RootState
      <3> HIDE DEF q
      <3> QED BY <2>3, <3>1, <3>2 DEF QuietKept
    <2> QED BY <2>1, <2>2, <2>3
  <1>3. ASSUME NEW b \in Actors PROVE DemandNext(b) /\ RootKept(b)
    BY <1>1, WritersSame DEF DemandNext, RootKept, QueueInv, DemandExact
  <1>4. ASSUME NEW b \in Actors PROVE root'[b].torn = root[b].torn
    <2>1. CASE MarkBound(a)
      BY <2>1 DEF MarkBound, TypeInv, RootType, RootState
    <2>2. CASE MarkUnbound(a)
      <3> DEFINE n == root[a].gen + 1
                 q == [root[a] EXCEPT !.bound = FALSE, !.gen = n, !.quiescing = TRUE]
      <3>1. root'[b] = IF b = a THEN q ELSE root[b]
        BY <2>2 DEF MarkUnbound, TypeInv, RootType
      <3> HIDE DEF n
      <3>2. q.torn = root[a].torn
        BY DEF TypeInv, RootType, RootState
      <3> HIDE DEF q
      <3> QED BY <3>1, <3>2
    <2> QED BY <2>1, <2>2
  <1> QED BY <1>1, <1>2, <1>3, <1>4, SameJobs, QueueKeeps DEF LaneStill, SameSlots

(* A fresh record. *)
Blank(r) ==
  /\ r.total = 0 /\ r.read = 0 /\ r.lsp = FALSE /\ r.commit = FALSE /\ r.provider = FALSE
  /\ r.ledger = FALSE /\ r.acquire = FALSE /\ r.writer = FALSE /\ r.shared = FALSE

LEMMA FreshBooks ==
  ASSUME NEW a \in Actors, Blank(act'[a]), root'[a].torn = (On(a) # {}), On(a)' = On(a)
  PROVE  Books(a)'
  <1>1. \A l : RunningIn(a, l)' \in SUBSET Jobs /\ RunningIn(a, l)' \in SUBSET On(a)
    BY DEF RunningIn, On, Running, Lane
  <1>2. On(a)' \in SUBSET Jobs
    BY DEF On, Running
  <1>3. \A S \in SUBSET Jobs : Cardinality(S) \in Nat
    BY SubsetFinite, FS_CardinalityType
  <1>4. NoMore(a, act[a])'
    BY <1>1, <1>2, <1>3 DEF NoMore, Blank
  <1>5. ASSUME ~root'[a].torn
        PROVE  RootExact(a, act[a])' /\ Cardinality(RunningIn(a, "PureRead")') <= ReadCap
    <2>1. On(a)' = {} /\ \A l : RunningIn(a, l)' = {}
      BY <1>1, <1>5
    <2>2. Cardinality({}) = 0 /\ 0 <= ReadCap
      BY FS_EmptySet, ExecutorAssumption
    <2> QED BY <2>1, <2>2 DEF RootExact, Blank
  <1> QED BY <1>4, <1>5 DEF Books

LEMMA RegisterSteps ==
  ASSUME TypeInv, JobsOK, QueueInv, NEW a \in Actors, Register(a)
  PROVE  AllLegal /\ QueueInv' /\ (LaneInv => LaneInv')
  <1> DEFINE i == act[a].inc + 1
             t == On(a) # {}
             p == root[a].pubs
             z == root[a].quiescing
             q == [FreshRoot EXCEPT !.pubs = p, !.torn = t, !.quiescing = z]
  <1>1. /\ job' = job /\ act' = [act EXCEPT ![a] = FreshActor(i)] /\ ~act[a].registered
        /\ root' = [root EXCEPT ![a] = q]
    BY DEF Register
  <1>2. q.bound /\ q.torn = t
    <2> HIDE DEF t, p, z
    <2> QED BY DEF FreshRoot
  <1> HIDE DEF i, q
  <1>3. Blank(FreshActor(i)) /\ FreshActor(i).demand = 0
    BY DEF FreshActor, Blank
  <1>4. \A k \in Jobs : Root(k) = a => job[k].phase # "queued"
    BY <1>1 DEF QueueInv, QueuedRegistered
  <1>5. ASSUME NEW b \in Actors PROVE DemandNext(b) /\ RootKept(b) /\ QuietKept(b)
    <2>1. Writers(b)' = Writers(b)
      BY <1>1, WritersSame
    <2>2. CASE b = a
      <3>1. Writers(a) = {}
        BY <1>4 DEF Writers, LaneQueue, Queued
      <3>2. act'[a].demand = 0 /\ root'[a].bound
        BY <1>1, <1>2, <1>3 DEF TypeInv, ActType, RootType
      <3>3. DemandNext(b)
        BY <2>1, <2>2, <3>1, <3>2, FS_EmptySet DEF DemandNext
      <3> QED BY <1>1, <1>4, <2>2, <3>2, <3>3 DEF RootKept, QuietKept
    <2>3. CASE b # a
      <3>1. act'[b] = act[b] /\ root'[b] = root[b]
        BY <1>1, <2>3 DEF TypeInv, ActType, RootType
      <3> QED BY <2>1, <3>1 DEF DemandNext, RootKept, QuietKept, QueueInv, DemandExact
    <2> QED BY <2>2, <2>3
  <1>6. QueueInv'
    BY <1>1, <1>5, QueueKeeps
  <1>7. ASSUME LaneInv PROVE LaneInv'
    <2>1. Running' = Running /\ \A k \in Running : job'[k].shared = job[k].shared
      BY <1>1 DEF Running
    <2>2. ASSUME NEW c PROVE On(c)' = On(c) /\ On(c) \subseteq Running
      BY <2>1 DEF On, Root
    <2>3. act'[a] = FreshActor(i) /\ root'[a] = q
      BY <1>1 DEF TypeInv, ActType, RootType
    <2>4. ASSUME NEW c \in Actors, c # a PROVE act'[c] = act[c] /\ root'[c] = root[c]
      BY <1>1, <2>4 DEF TypeInv, ActType, RootType
    <2>5. Books(a)'
      BY <1>2, <1>3, <2>2, <2>3, FreshBooks
    <2>6. ASSUME NEW c \in Actors, c # a PROVE Books(c)'
      BY <1>7, <2>1, <2>2, <2>4, <2>6, BooksKept DEF LaneInv, SameSlots
    <2>7. ASSUME NEW k \in Running, ~root'[Root(k)].torn PROVE ~root[Root(k)].torn
      <3>1. k \in On(Root(k)) /\ Root(k) \in Actors
        BY JobsTyped DEF On, Running
      <3>2. CASE Root(k) = a
        BY <1>2, <2>3, <2>7, <3>1, <3>2
      <3>3. CASE Root(k) # a
        BY <2>4, <2>7, <3>1, <3>3
      <3> QED BY <3>2, <3>3
    <2>8. OneEach'
      BY <1>7, <2>1, <2>7 DEF LaneInv, OneEach, Root, Lane, IsAcquisition, Class
    <2>9. WriterAlone'
      BY <1>7, <2>1, <2>7 DEF LaneInv, WriterAlone, Root, Lane
    <2> QED BY <2>5, <2>6, <2>8, <2>9 DEF LaneInv
  <1> QED BY <1>1, <1>6, <1>7, SameJobs

LEMMA DropSteps ==
  ASSUME TypeInv, JobsOK, QueueInv, NEW a \in Actors, NEW ans, Drop(a, ans),
         ans = "removed" \/ IdleActor(a)
  PROVE  AllLegal /\ QueueInv' /\ (LaneInv => LaneInv')
  <1> DEFINE gone == Queued(a, "Interactive") \cup Queued(a, "Maintenance")
             i == act[a].inc
  <1>1. /\ job' = SettleAll(gone, ans) /\ root' = root
        /\ act' = [act EXCEPT ![a] = [FreshActor(i) EXCEPT !.registered = FALSE]]
    BY DEF Drop
  <1>2. \A k \in Jobs : k \in gone <=> job[k].phase = "queued" /\ Root(k) = a
    BY JobsTyped DEF Queued, Classes
  <1>3. ans = "removed" \/ gone = {}
    BY DEF IdleActor
  <1> HIDE DEF gone, i
  <1>4. \A k \in Jobs : job'[k] = IF k \in gone THEN Settled(k, ans) ELSE job[k]
    BY <1>1 DEF SettleAll
  <1>5. AllLegal
    BY <1>2, <1>3, <1>4, SettledLegal, StayLegal DEF AllLegal, JobsOK
  <1>6. /\ [FreshActor(i) EXCEPT !.registered = FALSE].demand = 0
        /\ ~[FreshActor(i) EXCEPT !.registered = FALSE].registered
    BY DEF FreshActor
  <1>7. ASSUME NEW b \in Actors PROVE DemandNext(b) /\ RootKept(b) /\ QuietKept(b)
    <2>0. QuietKept(b)
      BY <1>1 DEF QuietKept
    <2>2. CASE b = a
      <3>0. \A k \in Jobs : Root(k) = a => job'[k].phase # "queued"
        BY <1>2, <1>4, SettledPhase
      <3>1. Writers(a)' = {}
        BY <3>0 DEF Writers, LaneQueue, Queued, Root
      <3>2. act'[a].demand = 0
        BY <1>1, <1>6 DEF TypeInv, ActType
      <3>3. DemandNext(b)
        BY <2>2, <3>1, <3>2, FS_EmptySet DEF DemandNext
      <3> QED BY <2>0, <2>2, <3>0, <3>3 DEF RootKept
    <2>3. CASE b # a
      <3>1. act'[b] = act[b]
        BY <1>1, <2>3 DEF TypeInv, ActType
      <3>2. Writers(b)' = Writers(b)
        BY <1>2, <1>4, <2>3, WritersSame
      <3> QED BY <2>0, <3>1, <3>2 DEF DemandNext, RootKept, QueueInv, DemandExact
    <2> QED BY <2>2, <2>3
  <1>8. QueueInv'
    BY <1>4, <1>7, SettledPhase, QueueKeeps
  <1>9. ASSUME LaneInv PROVE LaneInv'
    <2>1. \A k \in Jobs : \/ job'[k] = job[k]
                          \/ job[k].phase \notin RunPhases /\ job'[k].phase \notin RunPhases
      BY <1>2, <1>4, SettledPhase, NotRunning
    <2>2. Running' = Running /\ \A k \in Running : job'[k].shared = job[k].shared
      BY <2>1 DEF Running
    <2>3. ASSUME NEW c PROVE On(c)' = On(c) /\ On(c) \subseteq Running
      BY <2>2 DEF On, Root
    <2>4. ~act'[a].registered /\ root' = root /\ \A c \in Actors \ {a} : act'[c] = act[c]
      BY <1>1, <1>6 DEF TypeInv, ActType
    <2>5. Books(a)'
      <3>1. RunningIn(a, "PureRead")' = RunningIn(a, "PureRead")
        BY <2>3 DEF RunningIn, Lane
      <3> QED BY <1>9, <2>4, <3>1 DEF LaneInv, Books
    <2>6. ASSUME NEW c \in Actors, c # a PROVE Books(c)'
      BY <1>9, <2>2, <2>3, <2>4, <2>6, BooksKept DEF LaneInv, SameSlots
    <2>7. OneEach'
      BY <1>9, <2>2, <2>4 DEF LaneInv, OneEach, Root, Lane, IsAcquisition, Class
    <2>8. WriterAlone'
      BY <1>9, <2>2, <2>4 DEF LaneInv, WriterAlone, Root, Lane
    <2> QED BY <2>5, <2>6, <2>7, <2>8 DEF LaneInv
  <1> QED BY <1>5, <1>8, <1>9

-----------------------------------------------------------------------------
(* A root's record before and after it is given a job's slot back, and       *)
(* before and after it takes one.                                            *)
GivenBack(r, j, s) ==
  /\ s.registered = r.registered /\ s.total = Less(r.total)
  /\ s.read = IF Lane(j) = "PureRead" THEN Less(r.read) ELSE r.read
  /\ s.lsp = (r.lsp /\ Lane(j) # "SerialLspStatus")
  /\ s.acquire = (r.acquire /\ ~IsAcquisition(j))
  /\ s.writer = (r.writer /\ Lane(j) # "Mutating")
  /\ s.shared = (r.shared /\ Lane(j) # "Mutating")
  /\ s.commit = (r.commit /\ Lane(j) # "MaintenanceCommit")
  /\ s.provider = (r.provider /\ Lane(j) # "ProviderMetadata")
  /\ s.ledger = (r.ledger /\ Lane(j) # "CallLedger")

TakenUp(r, j, sharing, s) ==
  /\ s.registered = r.registered /\ s.total = r.total + 1
  /\ s.read = IF Lane(j) = "PureRead" THEN r.read + 1 ELSE r.read
  /\ s.lsp = (r.lsp \/ Lane(j) = "SerialLspStatus")
  /\ s.acquire = (r.acquire \/ IsAcquisition(j))
  /\ s.writer = (r.writer \/ Lane(j) = "Mutating")
  /\ s.shared = (IF Lane(j) = "Mutating" THEN sharing ELSE r.shared)
  /\ s.commit = (r.commit \/ Lane(j) = "MaintenanceCommit")
  /\ s.provider = (r.provider \/ Lane(j) = "ProviderMetadata")
  /\ s.ledger = (r.ledger \/ Lane(j) = "CallLedger")

Marked(s, f, d) == s.fatal = f /\ s.demand = d

LEMMA FreedFields ==
  ASSUME NEW r \in ActorCounters, NEW j, NEW f, NEW d, NEW s,
         s = [Freed(r, j) EXCEPT !.fatal = f, !.demand = d]
  PROVE  GivenBack(r, j, s) /\ Marked(s, f, d)
  BY DEF Freed, ActorCounters, GivenBack, Marked

LEMMA RefreedFields ==
  ASSUME NEW r \in ActorCounters, NEW j, NEW d, NEW s, s = [Freed(r, j) EXCEPT !.demand = d]
  PROVE  GivenBack(r, j, s) /\ Marked(s, r.fatal, d)
  BY DEF Freed, ActorCounters, GivenBack, Marked

LEMMA FreedRest ==
  ASSUME NEW r \in ActorCounters, NEW j
  PROVE  Freed(r, j).demand = r.demand /\ Freed(r, j).fatal = r.fatal
  BY DEF Freed, ActorCounters

LEMMA OccupiedFields ==
  ASSUME NEW r \in ActorCounters, NEW j, NEW sharing, NEW d, NEW s,
         s = [Occupied(r, j, sharing) EXCEPT !.demand = d]
  PROVE  TakenUp(r, j, sharing, s) /\ Marked(s, r.fatal, d)
  BY DEF Occupied, ActorCounters, TakenUp, Marked

(* The running jobs of a root, as part of all the running ones. *)
OfRoot(a) == {k \in Jobs : Root(k) = a}
OfLane(a, l) == {k \in Jobs : Root(k) = a /\ Lane(k) = l}

LEMMA OnParts ==
  ASSUME NEW a, NEW l
  PROVE  /\ On(a) = Running \cap OfRoot(a) /\ RunningIn(a, l) = Running \cap OfLane(a, l)
         /\ On(a)' = Running' \cap OfRoot(a) /\ RunningIn(a, l)' = Running' \cap OfLane(a, l)
  BY DEF On, RunningIn, Running, OfRoot, OfLane, Root, Lane

LEMMA RecordTyped ==
  ASSUME ActType, NEW a \in Actors
  PROVE  /\ act[a] \in ActorCounters /\ act[a].total \in Nat /\ act[a].read \in Nat
         /\ act[a].lsp \in BOOLEAN /\ act[a].writer \in BOOLEAN /\ act[a].shared \in BOOLEAN
         /\ act[a].commit \in BOOLEAN /\ act[a].acquire \in BOOLEAN
         /\ act[a].provider \in BOOLEAN /\ act[a].ledger \in BOOLEAN
  BY DEF ActType, ActorCounters

(* The other roots' records and running jobs stay. *)
LEMMA OtherRoots ==
  ASSUME NEW j \in Jobs, NEW c \in Actors, c # Root(j), Books(c), act'[c] = act[c], root' = root,
         \A k \in Jobs \ {j} : /\ k \in Running' <=> k \in Running
                               /\ k \in Running => job'[k].shared = job[k].shared
  PROVE  Books(c)'
  <1>1. Running \in SUBSET Jobs /\ Running' \in SUBSET Jobs
    BY DEF Running
  <1>2. On(c)' = {k \in Running' : Root(k) = c} /\ On(c) = {k \in Running : Root(k) = c}
    BY DEF On, Root
  <1>3. On(c)' = On(c) /\ \A k \in On(c) : job'[k].shared = job[k].shared
    BY <1>1, <1>2
  <1> QED BY <1>3, BooksKept DEF SameSlots

LEMMA CardDown ==
  ASSUME NEW S \in SUBSET Jobs, NEW j \in S
  PROVE  Cardinality(S) \in Nat /\ Cardinality(S) >= 1 /\ Cardinality(S \ {j}) = Cardinality(S) - 1
  <1>1. IsFiniteSet(S)
    BY SubsetFinite
  <1>2. Cardinality(S) \in Nat /\ Cardinality(S) # 0
    BY <1>1, FS_CardinalityType, FS_EmptySet
  <1>3. Cardinality(S \ {j}) = Cardinality(S) - 1
    BY <1>1, FS_RemoveElement
  <1> QED BY <1>2, <1>3

LEMMA CardUp ==
  ASSUME NEW S \in SUBSET Jobs, NEW j \in Jobs \ S
  PROVE  Cardinality(S) \in Nat /\ Cardinality(S \cup {j}) = Cardinality(S) + 1
  BY SubsetFinite, FS_CardinalityType, FS_AddElement

(* The jobs of a root once one of them is gone, or one more is there. *)
LEMMA OnLess ==
  ASSUME NEW j, Running' = Running \ {j}, NEW a
  PROVE  On(a)' = On(a) \ {j} /\ \A l : RunningIn(a, l)' = RunningIn(a, l) \ {j}
  BY OnParts

LEMMA OnMore ==
  ASSUME NEW j, Running' = Running \cup {j}
  PROVE  /\ On(Root(j))' = On(Root(j)) \cup {j}
         /\ \A l : RunningIn(Root(j), l)' = RunningIn(Root(j), l) \cup (IF Lane(j) = l THEN {j} ELSE {})
  <1> DEFINE a == Root(j)
  <1>1. On(a)' = {k \in Running' : Root(k) = a} /\ On(a) = {k \in Running : Root(k) = a}
    BY DEF On, Root
  <1>2. \A l : /\ RunningIn(a, l)' = {k \in On(a)' : Lane(k) = l}
               /\ RunningIn(a, l) = {k \in On(a) : Lane(k) = l}
    BY DEF RunningIn, Lane
  <1>3. On(a)' = On(a) \cup {j}
    BY <1>1
  <1> QED BY <1>2, <1>3

LEMMA CompleteNoMore ==
  ASSUME ActType, NEW j \in Running, Running' = Running \ {j},
         NoMore(Root(j), act[Root(j)]), GivenBack(act[Root(j)], j, act'[Root(j)])
  PROVE  NoMore(Root(j), act[Root(j)])'
  <1> DEFINE a == Root(j)
             r == act[a]
             s == act'[a]
  <1>0. j \in Jobs /\ a \in Actors /\ On(a) \in SUBSET Jobs /\ \A l : RunningIn(a, l) \in SUBSET Jobs
    BY JobsTyped DEF Running, On, RunningIn
  <1>1. On(a)' = On(a) \ {j} /\ \A l : RunningIn(a, l)' = RunningIn(a, l) \ {j}
    BY OnLess
  <1>2. j \in On(a) /\ \A l : j \in RunningIn(a, l) <=> Lane(j) = l
    BY DEF On, RunningIn
  <1>3. r.total \in Nat /\ r.read \in Nat
    BY <1>0, RecordTyped
  <1>4. s.total <= Cardinality(On(a)')
    <2>1. /\ Cardinality(On(a)) \in Nat /\ Cardinality(On(a)) >= 1
          /\ Cardinality(On(a)') = Cardinality(On(a)) - 1
      BY <1>0, <1>1, <1>2, CardDown
    <2>2. r.total <= Cardinality(On(a)) /\ s.total = Less(r.total)
      BY DEF NoMore, GivenBack
    <2> QED BY <1>3, <2>1, <2>2 DEF Less
  <1>5. s.read <= Cardinality(RunningIn(a, "PureRead")')
    <2>1. r.read <= Cardinality(RunningIn(a, "PureRead"))
      BY DEF NoMore
    <2>2. CASE Lane(j) = "PureRead"
      <3>1. /\ Cardinality(RunningIn(a, "PureRead")) \in Nat /\ Cardinality(RunningIn(a, "PureRead")) >= 1
            /\ Cardinality(RunningIn(a, "PureRead")') = Cardinality(RunningIn(a, "PureRead")) - 1
        BY <1>0, <1>1, <1>2, <2>2, CardDown
      <3>2. s.read = Less(r.read)
        BY <2>2 DEF GivenBack
      <3> QED BY <1>3, <2>1, <3>1, <3>2 DEF Less
    <2>3. CASE Lane(j) # "PureRead"
      <3>1. RunningIn(a, "PureRead")' = RunningIn(a, "PureRead")
        BY <1>1, <1>2, <2>3
      <3>2. s.read = r.read
        BY <2>3 DEF GivenBack
      <3> QED BY <2>1, <3>1, <3>2
    <2> QED BY <2>2, <2>3
  <1>6. \A l : Lane(j) # l => RunningIn(a, l)' = RunningIn(a, l)
    BY <1>1, <1>2
  <1>7. s.acquire => \E k \in On(a)' : IsAcquisition(k)
    BY <1>1 DEF NoMore, GivenBack
  <1>8. (\E k \in On(a) : IsAcquisition(k))' <=> (\E k \in On(a)' : IsAcquisition(k))
    BY DEF IsAcquisition, Class, Lane
  <1> QED BY <1>4, <1>5, <1>6, <1>7, <1>8 DEF NoMore, GivenBack

LEMMA LaunchNoMore ==
  ASSUME ActType, NEW j \in Jobs, j \notin Running, Running' = Running \cup {j}, NEW sharing,
         NoMore(Root(j), act[Root(j)]), TakenUp(act[Root(j)], j, sharing, act'[Root(j)])
  PROVE  NoMore(Root(j), act[Root(j)])'
  <1> DEFINE a == Root(j)
             r == act[a]
             s == act'[a]
  <1>0. a \in Actors /\ On(a) \in SUBSET Jobs /\ \A l : RunningIn(a, l) \in SUBSET Jobs
    BY JobsTyped DEF Running, On, RunningIn
  <1>1. /\ On(a)' = On(a) \cup {j}
        /\ \A l : RunningIn(a, l)' = RunningIn(a, l) \cup (IF Lane(j) = l THEN {j} ELSE {})
    BY OnMore
  <1>2. j \notin On(a) /\ \A l : j \notin RunningIn(a, l)
    BY DEF On, RunningIn
  <1>3. r.total \in Nat /\ r.read \in Nat
    BY <1>0, RecordTyped
  <1>4. s.total <= Cardinality(On(a)')
    <2>1. Cardinality(On(a)) \in Nat /\ Cardinality(On(a)') = Cardinality(On(a)) + 1
      BY <1>0, <1>1, <1>2, CardUp
    <2>2. r.total <= Cardinality(On(a)) /\ s.total = r.total + 1
      BY DEF NoMore, TakenUp
    <2> QED BY <1>3, <2>1, <2>2
  <1>5. s.read <= Cardinality(RunningIn(a, "PureRead")')
    <2>1. r.read <= Cardinality(RunningIn(a, "PureRead"))
      BY DEF NoMore
    <2>2. CASE Lane(j) = "PureRead"
      <3>1. /\ Cardinality(RunningIn(a, "PureRead")) \in Nat
            /\ Cardinality(RunningIn(a, "PureRead")') = Cardinality(RunningIn(a, "PureRead")) + 1
        BY <1>0, <1>1, <1>2, <2>2, CardUp
      <3>2. s.read = r.read + 1
        BY <2>2 DEF TakenUp
      <3> QED BY <1>3, <2>1, <3>1, <3>2
    <2>3. CASE Lane(j) # "PureRead"
      <3>1. RunningIn(a, "PureRead")' = RunningIn(a, "PureRead")
        BY <1>1, <2>3
      <3>2. s.read = r.read
        BY <2>3 DEF TakenUp
      <3> QED BY <2>1, <3>1, <3>2
    <2> QED BY <2>2, <2>3
  <1>6. \A l : Lane(j) = l \/ RunningIn(a, l) # {} => RunningIn(a, l)' # {}
    BY <1>1
  <1>7. s.acquire => \E k \in On(a)' : IsAcquisition(k)
    BY <1>1 DEF NoMore, TakenUp
  <1>8. (\E k \in On(a) : IsAcquisition(k))' <=> (\E k \in On(a)' : IsAcquisition(k))
    BY DEF IsAcquisition, Class, Lane
  <1> QED BY <1>4, <1>5, <1>6, <1>7, <1>8 DEF NoMore, TakenUp

LEMMA CompleteBooks ==
  ASSUME OneEach, ActType, NEW j \in Running, Running' = Running \ {j}, ~root[Root(j)].torn,
         \A k \in Running \ {j} : job'[k].shared = job[k].shared,
         RootExact(Root(j), act[Root(j)]), NEW s, act'[Root(j)] = s, GivenBack(act[Root(j)], j, s)
  PROVE  RootExact(Root(j), act[Root(j)])'
  <1> DEFINE a == Root(j)
             r == act[a]
  <1>0. /\ j \in Jobs /\ a \in Actors /\ RootExact(a, r) /\ OneEach /\ Running \in SUBSET Jobs
        /\ ~root[a].torn /\ act'[a] = s
    BY JobsTyped DEF Running
  <1>1. RootExact(a, act[a])'
    <2> USE DEF RootExact, GivenBack
    <2>0. On(a)' = On(a) \ {j} /\ \A l : RunningIn(a, l)' = RunningIn(a, l) \ {j}
      BY OnParts
    <2>a. /\ r.total \in Nat /\ r.read \in Nat
          /\ r.lsp \in BOOLEAN /\ r.writer \in BOOLEAN /\ r.shared \in BOOLEAN
          /\ r.commit \in BOOLEAN /\ r.acquire \in BOOLEAN
          /\ r.provider \in BOOLEAN /\ r.ledger \in BOOLEAN
      BY <1>0, RecordTyped
    <2>b. j \in On(a) /\ \A l : j \in RunningIn(a, l) <=> Lane(j) = l
      BY DEF On, RunningIn
    <2>1. s.total = Cardinality(On(a)')
      <3>1. j \in OfRoot(a)
        BY <1>0 DEF OfRoot
      <3>2. r.total = Cardinality(Running \cap OfRoot(a)) /\ On(a)' = (Running \ {j}) \cap OfRoot(a)
        BY <1>0, OnParts
      <3>3. s.total = IF j \in OfRoot(a) THEN Less(r.total) ELSE r.total
        BY <3>1
      <3> QED BY <1>0, <3>2, <3>3, CounterDown
    <2>2. s.read = Cardinality(RunningIn(a, "PureRead")')
      <3>1. j \in OfLane(a, "PureRead") <=> Lane(j) = "PureRead"
        BY <1>0 DEF OfLane
      <3>2. /\ r.read = Cardinality(Running \cap OfLane(a, "PureRead"))
            /\ RunningIn(a, "PureRead")' = (Running \ {j}) \cap OfLane(a, "PureRead")
        BY <1>0, OnParts
      <3>3. s.read = IF j \in OfLane(a, "PureRead") THEN Less(r.read) ELSE r.read
        BY <3>1
      <3> QED BY <1>0, <3>2, <3>3, CounterDown
    <2>3. ASSUME NEW l \in SerialLane, Lane(j) = l
          PROVE  RunningIn(a, l)' = {}
      <3>1. \A k \in RunningIn(a, l) : k = j
        BY <1>0, <2>3 DEF OneEach, RunningIn, On
      <3> QED BY <2>0, <3>1
    <2>4. ASSUME NEW l, Lane(j) # l
          PROVE  RunningIn(a, l)' = RunningIn(a, l)
      BY <2>0, <2>4 DEF RunningIn
    <2>5. s.lsp = (RunningIn(a, "SerialLspStatus")' # {})
      BY <1>0, <2>a, <2>3, <2>4 DEF SerialLane
    <2>6. s.commit = (RunningIn(a, "MaintenanceCommit")' # {})
      BY <1>0, <2>a, <2>3, <2>4 DEF SerialLane
    <2>7. s.provider = (RunningIn(a, "ProviderMetadata")' # {})
      BY <1>0, <2>a, <2>3, <2>4 DEF SerialLane
    <2>8. s.ledger = (RunningIn(a, "CallLedger")' # {})
      BY <1>0, <2>a, <2>3, <2>4 DEF SerialLane
    <2>9. s.writer = (RunningIn(a, "Mutating")' # {})
      BY <1>0, <2>a, <2>3, <2>4 DEF SerialLane
    <2>10. s.shared = (\E k \in RunningIn(a, "Mutating")' : job'[k].shared)
      <3>1. CASE Lane(j) = "Mutating"
        <4>1. RunningIn(a, "Mutating")' = {}
          BY <2>3, <3>1 DEF SerialLane
        <4> QED BY <3>1, <4>1
      <3>2. CASE Lane(j) # "Mutating"
        <4>1. RunningIn(a, "Mutating")' = RunningIn(a, "Mutating")
          BY <2>4, <3>2
        <4>2. \A k \in RunningIn(a, "Mutating") : job'[k].shared = job[k].shared
          BY <3>2 DEF RunningIn, On
        <4> QED BY <1>0, <2>a, <3>2, <4>1, <4>2
      <3> QED BY <3>1, <3>2
    <2>11. s.acquire = (\E k \in On(a)' : IsAcquisition(k))
      <3>1. CASE IsAcquisition(j)
        <4>1. \A k \in On(a)' : ~IsAcquisition(k)
          BY <1>0, <2>0, <3>1 DEF OneEach, On
        <4> QED BY <3>1, <4>1
      <3>2. CASE ~IsAcquisition(j)
        BY <1>0, <2>0, <2>a, <3>2
      <3> QED BY <3>1, <3>2
    <2>12. (\E k \in On(a) : IsAcquisition(k))' <=> (\E k \in On(a)' : IsAcquisition(k))
      BY DEF IsAcquisition, Class, Lane
    <2> QED BY <1>0, <2>1, <2>2, <2>5, <2>6, <2>7, <2>8, <2>9, <2>10, <2>11, <2>12
  <1> QED BY <1>1

LEMMA CompleteLanes ==
  ASSUME LaneInv, ActType, NEW j \in Running, Running' = Running \ {j}, root' = root,
         \A k \in Running \ {j} : job'[k].shared = job[k].shared,
         \A c \in Actors \ {Root(j)} : act'[c] = act[c],
         IF act[Root(j)].registered
         THEN GivenBack(act[Root(j)], j, act'[Root(j)])
         ELSE act'[Root(j)] = act[Root(j)]
  PROVE  LaneInv'
  <1> DEFINE a == Root(j)
  <1>0. /\ j \in Jobs /\ a \in Actors /\ Books(a) /\ OneEach /\ Running \in SUBSET Jobs
        /\ act'[a].registered <=> act[a].registered
    BY JobsTyped DEF Running, LaneInv, GivenBack
  <1>1. Books(a)'
    <2>1. ASSUME act'[a].registered, ~root[a].torn PROVE RootExact(a, act[a])'
      BY <1>0, <2>1, CompleteBooks DEF Books
    <2>2. ASSUME act'[a].registered PROVE NoMore(a, act[a])'
      BY <1>0, <2>2, CompleteNoMore DEF Books
    <2>3. ASSUME ~root[a].torn PROVE Cardinality(RunningIn(a, "PureRead")') <= ReadCap
      <3> DEFINE S == RunningIn(a, "PureRead")
                 T == RunningIn(a, "PureRead")'
      <3>1. S \in SUBSET Jobs /\ T \in SUBSET S
        BY <1>0, OnLess DEF RunningIn, On
      <3>2. IsFiniteSet(S) /\ Cardinality(S) <= ReadCap
        BY <1>0, <2>3, <3>1, SubsetFinite DEF Books
      <3> HIDE DEF S, T
      <3>3. Cardinality(T) <= Cardinality(S) /\ Cardinality(S) \in Nat /\ Cardinality(T) \in Nat
        BY <3>1, <3>2, FS_Subset, FS_CardinalityType
      <3>4. Cardinality(T) <= ReadCap
        BY <3>2, <3>3, ExecutorAssumption
      <3> QED BY <3>4 DEF T
    <2> QED BY <2>1, <2>2, <2>3 DEF Books
  <1>2. ASSUME NEW c \in Actors PROVE Books(c)'
    <2>1. \A k \in Jobs \ {j} : /\ k \in Running' <=> k \in Running
                                /\ k \in Running => job'[k].shared = job[k].shared
      OBVIOUS
    <2> QED BY <1>0, <1>1, <2>1, OtherRoots DEF LaneInv
  <1>3. OneEach'
    BY <1>0 DEF OneEach, Root, Lane, IsAcquisition, Class
  <1>4. WriterAlone'
    BY DEF LaneInv, WriterAlone, Root, Lane
  <1> QED BY <1>2, <1>3, <1>4 DEF LaneInv

(* How a launched job goes with those that run on its root. *)
Fits(j, sharing) ==
  \A k \in Running : Root(k) = Root(j) =>
    /\ ~(Lane(k) = Lane(j) /\ Lane(j) \in SerialLane) /\ ~(IsAcquisition(j) /\ IsAcquisition(k))
    /\ Lane(j) = "Mutating" /\ Lane(k) \in GatedLanes => sharing
    /\ Lane(k) = "Mutating" /\ Lane(j) \in GatedLanes => job[k].shared

LEMMA LaunchBooks ==
  ASSUME OneEach, ActType, NEW j \in Jobs, j \notin Running, Running' = Running \cup {j},
         ~root[Root(j)].torn, RootExact(Root(j), act[Root(j)]),
         \A k \in Running : job'[k].shared = job[k].shared,
         NEW pass, Admits(j, pass), NEW sharing \in BOOLEAN,
         sharing <=> MayShare(j, pass) /\ EpochReader(Root(j)), job'[j].shared = sharing,
         NEW s, act'[Root(j)] = s, TakenUp(act[Root(j)], j, sharing, s)
  PROVE  /\ RootExact(Root(j), act[Root(j)])' /\ Fits(j, sharing)
         /\ Cardinality(RunningIn(Root(j), "PureRead")') <= ReadCap
             \/ RunningIn(Root(j), "PureRead")' = RunningIn(Root(j), "PureRead")
  <1> DEFINE a == Root(j)
             r == act[a]
  <1>0. /\ a \in Actors /\ RootExact(a, r) /\ OneEach /\ Running \in SUBSET Jobs
        /\ ~root[a].torn /\ act'[a] = s
    BY JobsTyped DEF Running
  <1>a. /\ r.total \in Nat /\ r.read \in Nat
        /\ r.lsp \in BOOLEAN /\ r.writer \in BOOLEAN /\ r.shared \in BOOLEAN
        /\ r.commit \in BOOLEAN /\ r.acquire \in BOOLEAN
        /\ r.provider \in BOOLEAN /\ r.ledger \in BOOLEAN
    BY <1>0, RecordTyped
  <1>b. /\ r.registered /\ ~Barred(j) /\ LaneFree(j)
        /\ Lane(j) = "PureRead" => r.read < ReadCap
        /\ Lane(j) = "Mutating" => MayShare(j, pass) \/ ~EpochReader(a)
    BY DEF Admits, LaneAdmits
  <1>c. ASSUME NEW l \in SerialLane, Lane(j) = l PROVE RunningIn(a, l) = {}
    <2>1. CASE l = "Mutating"
      <3>1. ~r.writer
        BY <1>b, <1>c, <2>1 DEF Barred, ReadLanes
      <3> QED BY <1>0, <2>1, <3>1 DEF RootExact
    <2>2. CASE l # "Mutating"
      BY <1>0, <1>b, <1>c, <2>2 DEF RootExact, LaneFree, SerialLane
    <2> QED BY <2>1, <2>2
  <1>d. IsAcquisition(j) => \A k \in On(a) : ~IsAcquisition(k)
    BY <1>0, <1>b DEF RootExact, LaneFree
  <1>e. (\E k \in RunningIn(a, "PureRead") \cup RunningIn(a, "SerialLspStatus")
               \cup RunningIn(a, "MaintenanceCommit") : TRUE) => EpochReader(a)
    <2>1. RunningIn(a, "PureRead") # {} => r.read > 0
      <3>1. IsFiniteSet(RunningIn(a, "PureRead"))
        BY SubsetFinite DEF RunningIn, On, Running
      <3>2. r.read = Cardinality(RunningIn(a, "PureRead"))
        BY <1>0 DEF RootExact
      <3> QED BY <1>a, <3>1, <3>2, FS_EmptySet
    <2> QED BY <1>0, <2>1 DEF RootExact, EpochReader
  <1>1. RootExact(a, act[a])'
    <2> USE DEF RootExact, TakenUp
    <2>0. /\ On(a)' = On(a) \cup {j}
          /\ \A l : RunningIn(a, l)' = RunningIn(a, l) \cup (IF Lane(j) = l THEN {j} ELSE {})
      BY OnMore
    <2>1. s.total = Cardinality(On(a)')
      <3>1. j \in OfRoot(a)
        BY DEF OfRoot
      <3>2. r.total = Cardinality(Running \cap OfRoot(a)) /\ On(a)' = (Running \cup {j}) \cap OfRoot(a)
        BY <1>0, OnParts
      <3>3. s.total = IF j \in OfRoot(a) THEN r.total + 1 ELSE r.total
        BY <3>1
      <3> QED BY <1>0, <3>2, <3>3, CounterUp
    <2>2. s.read = Cardinality(RunningIn(a, "PureRead")')
      <3>1. j \in OfLane(a, "PureRead") <=> Lane(j) = "PureRead"
        BY DEF OfLane
      <3>2. /\ r.read = Cardinality(Running \cap OfLane(a, "PureRead"))
            /\ RunningIn(a, "PureRead")' = (Running \cup {j}) \cap OfLane(a, "PureRead")
        BY <1>0, OnParts
      <3>3. s.read = IF j \in OfLane(a, "PureRead") THEN r.read + 1 ELSE r.read
        BY <3>1
      <3> QED BY <1>0, <3>2, <3>3, CounterUp
    <2>5. s.lsp = (RunningIn(a, "SerialLspStatus")' # {})
      BY <1>0, <1>a, <2>0
    <2>6. s.commit = (RunningIn(a, "MaintenanceCommit")' # {})
      BY <1>0, <1>a, <2>0
    <2>7. s.provider = (RunningIn(a, "ProviderMetadata")' # {})
      BY <1>0, <1>a, <2>0
    <2>8. s.ledger = (RunningIn(a, "CallLedger")' # {})
      BY <1>0, <1>a, <2>0
    <2>9. s.writer = (RunningIn(a, "Mutating")' # {})
      BY <1>0, <1>a, <2>0
    <2>10. s.shared = (\E k \in RunningIn(a, "Mutating")' : job'[k].shared)
      <3>1. CASE Lane(j) = "Mutating"
        <4>1. RunningIn(a, "Mutating")' = {j}
          BY <1>c, <2>0, <3>1 DEF SerialLane
        <4> QED BY <3>1, <4>1
      <3>2. CASE Lane(j) # "Mutating"
        <4>1. RunningIn(a, "Mutating")' = RunningIn(a, "Mutating")
          BY <2>0, <3>2
        <4>2. \A k \in RunningIn(a, "Mutating") : job'[k].shared = job[k].shared
          BY DEF RunningIn, On
        <4> QED BY <1>0, <1>a, <3>2, <4>1, <4>2
      <3> QED BY <3>1, <3>2
    <2>11. s.acquire = (\E k \in On(a)' : IsAcquisition(k))
      BY <1>0, <1>a, <2>0
    <2>12. (\E k \in On(a) : IsAcquisition(k))' <=> (\E k \in On(a)' : IsAcquisition(k))
      BY DEF IsAcquisition, Class, Lane
    <2> QED BY <1>0, <1>b, <2>1, <2>2, <2>5, <2>6, <2>7, <2>8, <2>9, <2>10, <2>11, <2>12
  <1>2. \/ Cardinality(RunningIn(a, "PureRead")') <= ReadCap
        \/ RunningIn(a, "PureRead")' = RunningIn(a, "PureRead")
    <2>1. CASE Lane(j) = "PureRead"
      <3>1. s.read = Cardinality(RunningIn(a, "PureRead")')
        BY <1>0, <1>1 DEF RootExact
      <3>2. s.read = r.read + 1 /\ r.read < ReadCap /\ ReadCap \in Nat
        BY <1>b, <2>1, ExecutorAssumption DEF TakenUp
      <3> QED BY <1>a, <3>1, <3>2
    <2>2. CASE Lane(j) # "PureRead"
      <3>1. RunningIn(a, "PureRead")'
              = RunningIn(a, "PureRead") \cup (IF Lane(j) = "PureRead" THEN {j} ELSE {})
        BY OnMore
      <3> QED BY <2>2, <3>1
    <2> QED BY <2>1, <2>2
  <1>f. \A k \in Running : Root(k) = a => k \in On(a) /\ k \in RunningIn(a, Lane(k))
    BY DEF On, RunningIn
  <1>3. Fits(j, sharing)
    <2>1. \A k \in Running : Root(k) = a => ~(Lane(k) = Lane(j) /\ Lane(j) \in SerialLane)
                                            /\ ~(IsAcquisition(j) /\ IsAcquisition(k))
      BY <1>c, <1>d, <1>f
    <2>2. ASSUME NEW k \in Running, Root(k) = a, Lane(j) = "Mutating", Lane(k) \in GatedLanes
          PROVE  sharing
      <3>1. Lane(k) # "Mutating"
        BY <1>c, <1>f, <2>2 DEF SerialLane
      <3>2. EpochReader(a)
        <4>1. Lane(k) \in {"PureRead", "SerialLspStatus", "MaintenanceCommit"}
          BY <2>2, <3>1 DEF GatedLanes, EpochLanes, ReadLanes
        <4> QED BY <1>e, <1>f, <2>2, <4>1
      <3> QED BY <1>b, <2>2, <3>1, <3>2
    <2>3. ASSUME NEW k \in Running, Root(k) = a, Lane(k) = "Mutating", Lane(j) \in GatedLanes
          PROVE  job[k].shared
      <3>1. r.writer
        BY <1>0, <1>f, <2>3 DEF RootExact
      <3>2. r.shared /\ Lane(j) # "Mutating"
        BY <1>b, <2>3, <3>1 DEF Barred, GatedLanes, EpochLanes, ReadLanes
      <3>3. PICK i \in RunningIn(a, "Mutating") : job[i].shared
        BY <1>0, <3>2 DEF RootExact
      <3>4. i = k
        BY <1>0, <2>3, <3>3 DEF OneEach, SerialLane, RunningIn, On
      <3> QED BY <3>2, <3>3, <3>4
    <2> QED BY <2>1, <2>2, <2>3 DEF Fits
  <1> QED BY <1>1, <1>2, <1>3

LEMMA LaunchLanes ==
  ASSUME LaneInv, ActType, NEW j \in Jobs, j \notin Running, Running' = Running \cup {j}, root' = root,
         \A k \in Running : job'[k].shared = job[k].shared,
         NEW pass, Admits(j, pass), NEW sharing \in BOOLEAN,
         sharing <=> MayShare(j, pass) /\ EpochReader(Root(j)), job'[j].shared = sharing,
         NEW s, act' = [act EXCEPT ![Root(j)] = s], TakenUp(act[Root(j)], j, sharing, s)
  PROVE  LaneInv'
  <1> DEFINE a == Root(j)
  <1>0. /\ a \in Actors /\ Books(a) /\ OneEach /\ WriterAlone /\ Running \in SUBSET Jobs
        /\ act[a].registered /\ act'[a] = s /\ \A c \in Actors \ {a} : act'[c] = act[c]
    <2>1. a \in Actors /\ Running \in SUBSET Jobs /\ act[a].registered
      BY JobsTyped DEF Running, Admits
    <2> QED BY <2>1 DEF LaneInv, ActType
  <1>1. ASSUME ~root[a].torn
        PROVE  /\ RootExact(a, act[a])' /\ Fits(j, sharing)
               /\ Cardinality(RunningIn(a, "PureRead")') <= ReadCap
    <2>1. RootExact(a, act[a]) /\ Cardinality(RunningIn(a, "PureRead")) <= ReadCap
      BY <1>0, <1>1 DEF Books
    <2>2. /\ RootExact(a, act[a])' /\ Fits(j, sharing)
          /\ Cardinality(RunningIn(a, "PureRead")') <= ReadCap
             \/ RunningIn(a, "PureRead")' = RunningIn(a, "PureRead")
      BY <1>0, <1>1, <2>1, LaunchBooks
    <2> QED BY <2>1, <2>2
  <1>2. NoMore(a, act[a])'
    BY <1>0, LaunchNoMore DEF Books
  <1>3. Books(a)'
    BY <1>1, <1>2 DEF Books
  <1>4. ASSUME NEW c \in Actors PROVE Books(c)'
    <2>1. \A k \in Jobs \ {j} : /\ k \in Running' <=> k \in Running
                                /\ k \in Running => job'[k].shared = job[k].shared
      OBVIOUS
    <2> QED BY <1>0, <1>3, <2>1, OtherRoots DEF LaneInv
  <1>5. OneEach'
    <2>1. \A i, k \in Running' :
            /\ Root(i) = Root(k) /\ ~root[Root(i)].torn
            /\ \/ Lane(i) = Lane(k) /\ Lane(i) \in SerialLane
               \/ IsAcquisition(i) /\ IsAcquisition(k)
            => i = k
      BY <1>0, <1>1 DEF OneEach, Fits
    <2> QED BY <2>1 DEF OneEach, Root, Lane, IsAcquisition, Class
  <1>6. WriterAlone'
    <2>1. \A i, k \in Running' :
            /\ i # k /\ Root(i) = Root(k) /\ ~root[Root(i)].torn
            /\ Lane(i) = "Mutating" /\ Lane(k) \in GatedLanes
            => job'[i].shared /\ Lane(k) # "Mutating"
      BY <1>0, <1>1 DEF WriterAlone, Fits, SerialLane
    <2> QED BY <2>1 DEF WriterAlone, Root, Lane
  <1> QED BY <1>4, <1>5, <1>6 DEF LaneInv

-----------------------------------------------------------------------------
(* The scheduler takes a completion, or launches a job. *)
LEMMA CompleteSteps ==
  ASSUME TypeInv, JobsOK, QueueInv, NEW j \in Jobs, Complete(j)
  PROVE  AllLegal /\ QueueInv' /\ (LaneInv => LaneInv')
  <1> DEFINE a == Root(j)
             dies == act[a].registered /\ job[j].end = "panic" /\ Lane(j) = "Mutating"
             failed == IF dies THEN Failed(a) ELSE {}
             f == Freed(act[a], j).fatal \/ dies
             d == IF dies THEN 0 ELSE Freed(act[a], j).demand
             s == [Freed(act[a], j) EXCEPT !.fatal = f, !.demand = d]
  <1>0. /\ a \in Actors /\ act[a] \in ActorCounters /\ JobOK(j, job[j])
        /\ job[j].phase = "returned" /\ job[j].end \in {"done", "panic"} /\ root' = root
    BY JobsTyped DEF TypeInv, ActType, JobsOK, Complete, TakeEvent
  <1>1. /\ job'[j] = Settled(j, job[j].answer)
        /\ \A k \in Jobs \ {j} : job'[k] = IF k \in failed THEN Settled(k, "fatal") ELSE job[k]
    BY DEF Complete, SettleAll
  <1>2. \A k \in Jobs : /\ k \in failed => job[k].phase = "queued" /\ dies
                        /\ dies /\ Root(k) = a /\ job[k].phase = "queued" => k \in failed
                        /\ k \in failed => Root(k) = a
    BY JobsTyped DEF Failed, Queued, Classes
  <1>3. act' = IF act[a].registered THEN [act EXCEPT ![a] = s] ELSE act
    BY DEF Complete
  <1>4. dies => act[a].registered
    OBVIOUS
  <1>5. /\ GivenBack(act[a], j, s) /\ Marked(s, f, d)
        /\ ~dies => f = act[a].fatal /\ d = act[a].demand
        /\ dies => d = 0
    <2>1. Freed(act[a], j).demand = act[a].demand /\ Freed(act[a], j).fatal = act[a].fatal
      BY <1>0, FreedRest
    <2>2. ~dies => f = act[a].fatal
      BY <1>0, <2>1 DEF ActorCounters
    <2>3. GivenBack(act[a], j, s) /\ Marked(s, f, d)
      <3>1. s = [Freed(act[a], j) EXCEPT !.fatal = f, !.demand = d]
        OBVIOUS
      <3> HIDE DEF f, d, s, a
      <3> QED BY <1>0, <3>1, FreedFields
    <2> QED BY <2>1, <2>2, <2>3
  <1> HIDE DEF failed, f, d, s, dies
  <1>6. AllLegal
    BY <1>0, <1>1, <1>2, CollectLegal, SettledLegal, StayLegal DEF AllLegal, JobsOK
  <1>7. \A k \in Jobs : job'[k].phase = "queued" => job[k].phase = "queued"
    BY <1>1, SettledPhase
  <1>8. \A k \in Jobs : k \notin failed => (job'[k].phase = "queued" <=> job[k].phase = "queued")
    BY <1>0, <1>1, SettledPhase
  <1>9. ASSUME NEW b \in Actors PROVE DemandNext(b) /\ RootKept(b) /\ QuietKept(b)
    <2>0. QuietKept(b)
      BY <1>0 DEF QuietKept
    <2>1. CASE b = a /\ dies
      <3>1. \A k \in Jobs : Root(k) = a => job'[k].phase # "queued"
        BY <1>0, <1>1, <1>2, <1>7, <2>1, SettledPhase
      <3>2. Writers(a)' = {}
        BY <3>1 DEF Writers, LaneQueue, Queued, Root
      <3>3. act'[a].demand = 0
        BY <1>0, <1>3, <1>4, <1>5, <2>1 DEF TypeInv, ActType, Marked
      <3> QED BY <2>0, <2>1, <3>1, <3>2, <3>3, FS_EmptySet DEF DemandNext, RootKept
    <2>2. CASE b # a \/ ~dies
      <3>1. Writers(b)' = Writers(b)
        BY <1>2, <1>8, <2>2, WritersSame
      <3>2. /\ act'[b].demand = act[b].demand /\ act'[b].registered = act[b].registered
            /\ act'[b].fatal = act[b].fatal
        BY <1>0, <1>3, <1>5, <2>2 DEF TypeInv, ActType, GivenBack, Marked
      <3> QED BY <2>0, <3>1, <3>2 DEF DemandNext, RootKept, QueueInv, DemandExact
    <2> QED BY <2>1, <2>2
  <1>10. QueueInv'
    BY <1>7, <1>9, QueueKeeps
  <1>11. ASSUME LaneInv PROVE LaneInv'
    <2>1. j \in Running /\ j \in On(a)
      BY <1>0 DEF Running, RunPhases, On
    <2>2. /\ \A c \in Actors \ {a} : act'[c] = act[c]
          /\ IF act[a].registered THEN GivenBack(act[a], j, act'[a]) ELSE act'[a] = act[a]
      BY <1>0, <1>3, <1>5 DEF TypeInv, ActType
    <2>3. \A k \in Jobs \ {j} : \/ job'[k] = job[k]
                                \/ job[k].phase = "queued" /\ job'[k].phase = "settled"
      BY <1>1, <1>2, SettledPhase
    <2>4. job'[j].phase = "settled"
      BY <1>1, SettledPhase
    <2>5. Running' = Running \ {j} /\ \A k \in Running \ {j} : job'[k] = job[k]
      BY <2>3, <2>4, NotRunning DEF Running
    <2> QED BY <1>0, <1>11, <2>1, <2>2, <2>5, CompleteLanes DEF TypeInv
  <1> QED BY <1>6, <1>10, <1>11

LEMMA RequeueSteps ==
  ASSUME TypeInv, JobsOK, QueueInv, NEW j \in Jobs, CompleteRequeue(j)
  PROVE  AllLegal /\ QueueInv' /\ (LaneInv => LaneInv')
  <1> DEFINE a == Root(j)
             stays == Requeues(j)
             d == IF stays THEN Cardinality(Writers(a) \cup {j}) ELSE Freed(act[a], j).demand
             s == [Freed(act[a], j) EXCEPT !.demand = d]
             w == IF job[j].end = "retry" THEN "waiting" ELSE "none"
             ans == IF job[j].token = "cancelled" THEN "cancelled"
                    ELSE IF act[a].registered THEN "fatal" ELSE "rejected"
             q == [job[j] EXCEPT !.phase = "queued", !.shared = FALSE, !.forced = TRUE, !.inc = 0,
                                 !.end = "done", !.backoff = w]
             r == IF stays THEN q ELSE Settled(j, ans)
  <1>0. /\ a \in Actors /\ act[a] \in ActorCounters /\ JobOK(j, job[j]) /\ job[j] \in JobState
        /\ job[j].phase = "returned" /\ job[j].end \in Back /\ root' = root
    BY JobsTyped DEF TypeInv, ActType, JobType, JobsOK, CompleteRequeue, TakeEvent, Back
  <1>a. Repeatable(j) /\ Class(j) = "Interactive" /\ Lane(j) = "Mutating" /\ job[j].answer = "none"
    BY <1>0 DEF JobOK, EndOK, AnswerOK, Repeatable, IsBind
  <1>b. stays => job[j].token # "cancelled" /\ act[a].registered /\ ~act[a].fatal
    BY DEF Requeues
  <1>1. job' = [job EXCEPT ![j] = r]
    BY DEF CompleteRequeue
  <1>3. act' = IF act[a].registered THEN [act EXCEPT ![a] = s] ELSE act
    BY DEF CompleteRequeue
  <1>5. /\ GivenBack(act[a], j, s) /\ Marked(s, act[a].fatal, d)
        /\ ~stays => d = act[a].demand
    <2>1. Freed(act[a], j).demand = act[a].demand
      BY <1>0, FreedRest
    <2>3. GivenBack(act[a], j, s) /\ Marked(s, act[a].fatal, d)
      <3>1. s = [Freed(act[a], j) EXCEPT !.demand = d]
        OBVIOUS
      <3> HIDE DEF d, s, a
      <3> QED BY <1>0, <3>1, RefreedFields
    <2> QED BY <2>1, <2>3
  <1> HIDE DEF s
  <1>6. stays => /\ r.phase = "queued" /\ r.shared = FALSE /\ r.end = "done" /\ r.hold = "none"
                 /\ r.token = job[j].token /\ r.cancel = job[j].cancel /\ r.answer = job[j].answer
    <2> HIDE DEF w
    <2>1. /\ q.phase = "queued" /\ q.shared = FALSE /\ q.end = "done" /\ q.hold = job[j].hold
          /\ q.token = job[j].token /\ q.cancel = job[j].cancel /\ q.answer = job[j].answer
      BY <1>0 DEF JobState
    <2> HIDE DEF q
    <2>2. job[j].hold = "none"
      BY <1>0 DEF JobOK, HoldOK, Held
    <2> QED BY <2>1, <2>2
  <1>7. ~stays => /\ r.phase = "settled" /\ r.shared = FALSE /\ r.end = "done" /\ r.hold = "none"
                  /\ r.token = job[j].token /\ r.cancel = job[j].cancel
                  /\ r.answer \in {"cancelled", "fatal", "rejected"}
                  /\ job[j].token = "cancelled" => r.answer = "cancelled"
    <2>1. ans \in {"cancelled", "fatal", "rejected"} /\ (job[j].token = "cancelled" => ans = "cancelled")
      OBVIOUS
    <2> DEFINE z == Settled(j, ans)
    <2> HIDE DEF ans
    <2>2. ~stays => r = z
      OBVIOUS
    <2>3. /\ z.phase = "settled" /\ z.shared = FALSE /\ z.end = "done" /\ z.hold = "none"
          /\ z.token = job[j].token /\ z.cancel = job[j].cancel /\ z.answer = ans
      BY DEF Settled, FreshJob
    <2> HIDE DEF z, r
    <2> QED BY <2>1, <2>2, <2>3
  <1> HIDE DEF stays, r, d
  <1>8. Legal(j, r)
    <2>1. CASE stays
      <3>1. r.hold = Held(j, r.phase, r.shared)
        BY <1>6, <2>1 DEF Held
      <3> QED BY <1>0, <1>b, <1>6, <2>1, <3>1, AdvanceLegal
    <2>2. CASE ~stays
      BY <1>0, <1>7, <2>2, DismissLegal
    <2> QED BY <2>1, <2>2
  <1>9. AllLegal
    BY <1>1, <1>8, PutLegal DEF TypeInv
  <1>10. /\ job'[j] = r /\ \A k \in Jobs \ {j} : job'[k] = job[k]
         /\ \A b \in Actors \ {a} : act'[b] = act[b]
         /\ act[a].registered => act'[a] = s
         /\ ~act[a].registered => act'[a] = act[a]
    BY <1>0, <1>1, <1>3 DEF TypeInv, ActType, JobType
  <1>11. \A b \in Actors : act'[b].registered = act[b].registered /\ act'[b].fatal = act[b].fatal
    BY <1>5, <1>10 DEF GivenBack, Marked
  <1>12. ASSUME NEW b \in Actors PROVE DemandNext(b)
    <2>1. Writers(b)' = Writers(b) \cup (IF stays /\ b = a THEN {j} ELSE {})
      <3>1. job'[j].phase = "queued" <=> stays
        BY <1>6, <1>7, <1>10
      <3> QED BY <1>0, <1>a, <1>10, <3>1 DEF Writers, LaneQueue, Queued, Root, Class, Lane
    <2>2. CASE stays /\ b = a
      <3>1. act'[a].demand = Cardinality(Writers(a) \cup {j})
        BY <1>5, <1>10, <1>b, <2>2 DEF d, Marked
      <3> QED BY <2>1, <2>2, <3>1 DEF DemandNext
    <2>3. CASE ~(stays /\ b = a)
      <3>1. Writers(b)' = Writers(b)
        BY <2>1, <2>3
      <3>2. act'[b].demand = act[b].demand
        BY <1>5, <1>10, <2>3 DEF Marked
      <3> QED BY <3>1, <3>2 DEF DemandNext, QueueInv, DemandExact
    <2> QED BY <2>2, <2>3
  <1>13. QueueInv'
    <2>1. CASE stays
      <3>1. AllowedUnbound(j)
        BY <1>a DEF AllowedUnbound
      <3> QED BY <1>0, <1>a, <1>b, <1>10, <1>11, <1>12, <2>1, <3>1, QueueAdds
    <2>2. CASE ~stays
      <3>1. \A k \in Jobs : job'[k].phase = "queued" => job[k].phase = "queued"
        BY <1>7, <1>10, <2>2
      <3>2. \A b \in Actors : RootKept(b) /\ QuietKept(b)
        BY <1>0, <1>11 DEF RootKept, QuietKept
      <3> QED BY <1>12, <3>1, <3>2, QueueKeeps
    <2> QED BY <2>1, <2>2
  <1>14. ASSUME LaneInv PROVE LaneInv'
    <2>1. j \in Running /\ j \in On(a)
      BY <1>0 DEF Running, RunPhases, On
    <2>2. IF act[a].registered THEN GivenBack(act[a], j, act'[a]) ELSE act'[a] = act[a]
      BY <1>5, <1>10
    <2>4. job'[j].phase \in {"settled", "queued"}
      BY <1>6, <1>7, <1>10
    <2>5. Running' = Running \ {j} /\ \A k \in Running \ {j} : job'[k] = job[k]
      BY <1>10, <2>4, NotRunning DEF Running
    <2> QED BY <1>0, <1>10, <1>14, <2>1, <2>2, <2>5, CompleteLanes DEF TypeInv
  <1> QED BY <1>9, <1>13, <1>14

LEMMA LaunchSteps ==
  ASSUME TypeInv, JobsOK, QueueInv, NEW b, NEW pass \in Passes, NEW j \in Offer(b, pass), Launch(j, pass)
  PROVE  AllLegal /\ QueueInv' /\ (LaneInv => LaneInv')
  <1> DEFINE a == Root(j)
             sharing == MayShare(j, pass) /\ EpochReader(a)
             d == Cardinality(Writers(a) \ {j})
             n == act[a].inc
             s == [Occupied(act[a], j, sharing) EXCEPT !.demand = d]
             r == [job[j] EXCEPT !.phase = "dispatched", !.shared = sharing, !.inc = n, !.backoff = "none"]
  <1>0. /\ j \in Jobs /\ a \in Actors /\ act[a] \in ActorCounters /\ JobOK(j, job[j])
        /\ job[j] \in JobState /\ job[j].phase = "queued" /\ Admits(j, pass) /\ root' = root
    BY OfferFacts, JobsTyped DEF TypeInv, ActType, JobType, JobsOK, Launch
  <1>1. sharing \in BOOLEAN /\ (sharing => Repeatable(j))
    BY DEF MayShare
  <1>2. job' = [job EXCEPT ![j] = r] /\ act' = [act EXCEPT ![a] = s]
    BY DEF Launch
  <1>3. TakenUp(act[a], j, sharing, s) /\ Marked(s, act[a].fatal, d)
    <2>1. s = [Occupied(act[a], j, sharing) EXCEPT !.demand = d]
      OBVIOUS
    <2> HIDE DEF sharing, d, s, a
    <2> QED BY <1>0, <2>1, OccupiedFields
  <1>4. /\ r.phase = "dispatched" /\ r.shared = sharing /\ r.end = job[j].end /\ r.hold = job[j].hold
        /\ r.token = job[j].token /\ r.cancel = job[j].cancel /\ r.answer = job[j].answer
    <2> HIDE DEF sharing, n
    <2> QED BY <1>0 DEF JobState
  <1>a. sharing <=> MayShare(j, pass) /\ EpochReader(Root(j))
    OBVIOUS
  <1> HIDE DEF sharing, n, d, s, r
  <1>5. Legal(j, r)
    <2>1. r.hold = Held(j, r.phase, r.shared)
      BY <1>0, <1>4 DEF JobOK, HoldOK, Held
    <2> QED BY <1>0, <1>1, <1>4, <2>1, AdvanceLegal
  <1>6. AllLegal
    BY <1>0, <1>2, <1>5, PutLegal DEF TypeInv
  <1>7. /\ job'[j] = r /\ \A k \in Jobs \ {j} : job'[k] = job[k]
        /\ act'[a] = s /\ \A c \in Actors \ {a} : act'[c] = act[c]
    BY <1>0, <1>2 DEF TypeInv, ActType, JobType
  <1>8. ASSUME NEW c \in Actors PROVE DemandNext(c) /\ RootKept(c) /\ QuietKept(c)
    <2>1. Writers(c)' = Writers(c) \ {j}
      BY <1>0, <1>4, <1>7 DEF Writers, LaneQueue, Queued, Root, Class, Lane
    <2>2. RootKept(c) /\ QuietKept(c)
      BY <1>0, <1>3, <1>7 DEF RootKept, QuietKept, TakenUp, Marked
    <2>3. CASE c = a
      BY <1>3, <1>7, <2>1, <2>2, <2>3 DEF DemandNext, d, Marked
    <2>4. CASE c # a
      <3>1. Writers(c)' = Writers(c)
        BY <2>1, <2>4 DEF Writers, LaneQueue, Queued
      <3> QED BY <1>7, <2>2, <2>4, <3>1 DEF DemandNext, QueueInv, DemandExact
    <2> QED BY <2>3, <2>4
  <1>9. QueueInv'
    BY <1>0, <1>4, <1>7, <1>8, QueueKeeps
  <1>10. ASSUME LaneInv PROVE LaneInv'
    <2>1. j \notin Running /\ Running' = Running \cup {j} /\ \A k \in Running : job'[k].shared = job[k].shared
      BY <1>0, <1>4, <1>7 DEF Running, RunPhases
    <2>2. job'[j].shared = sharing
      BY <1>4, <1>7
    <2> QED BY <1>0, <1>1, <1>2, <1>3, <1>10, <1>a, <2>1, <2>2, LaunchLanes DEF TypeInv
  <1> QED BY <1>6, <1>9, <1>10

-----------------------------------------------------------------------------
(* Every step keeps the invariant and is a step of CommandService. *)
SafeStep == AllLegal /\ QueueInv' /\ (LaneInv => LaneInv')

LEMMA StillSafe ==
  ASSUME QueueInv, AllLegal, Still
  PROVE  SafeStep
  BY StillQueue, StillLanes, LanesKept DEF SafeStep

LEMMA LaneStillSafe ==
  ASSUME AllLegal, QueueInv', LaneStill
  PROVE  SafeStep
  BY LanesKept DEF SafeStep

LEMMA SchedulerSafe ==
  ASSUME TypeInv, JobsOK, QueueInv, Scheduler
  PROVE  SafeStep
  <1>1. CASE WakeTurn \/ TimerTurn
    <2>1. act' = act /\ job' = job /\ root' = root
      BY <1>1 DEF WakeTurn, TimerTurn
    <2> QED BY <2>1, SameJobs, StillSafe DEF Still
  <1>2. CASE BeginDispatch
    BY <1>2, TurnSteps, StillSafe DEF BeginDispatch, NextRound
  <1>a. ASSUME NEW c, LeavePass(c) PROVE SafeStep
    BY <1>a, TurnSteps, StillSafe DEF LeavePass, NextRound
  <1>b. ASSUME NEW a, NEW pass \in Passes, NEW j \in Offer(a, pass), Launch(j, pass) PROVE SafeStep
    BY <1>b, LaunchSteps DEF SafeStep
  <1>3. CASE BindPass
    <2>0. "bind" \in Passes
      BY DEF Passes
    <2>1. CASE CanDispatch("bind") /\ BindRoots # {}
      <3>1. PICK a \in BindRoots : \E j \in Offer(a, "bind") : Launch(j, "bind")
        BY <1>3, <2>1 DEF BindPass
      <3> QED BY <1>b, <2>0, <3>1
    <2>2. CASE ~(CanDispatch("bind") /\ BindRoots # {})
      <3>1. LeavePass(sched.cursor)
        BY <1>3, <2>2 DEF BindPass
      <3> QED BY <1>a, <3>1
    <2> QED BY <2>1, <2>2
  <1>4. CASE RingPass
    <2> DEFINE offers == {k \in 0 .. sched.left - 1 : Offer(ActorAt(k), sched.pc) # {}}
    <2>0. sched.pc \in Passes
      BY <1>4 DEF RingPass
    <2>1. CASE ~CanDispatch(sched.pc) \/ sched.left = 0 \/ offers = {}
      <3>1. LeavePass(sched.cursor) \/ LeavePass(After(sched.left))
        BY <1>4, <2>1 DEF RingPass
      <3> QED BY <1>a, <3>1
    <2>2. CASE CanDispatch(sched.pc) /\ sched.left # 0 /\ offers # {}
      <3>1. PICK k \in offers : \E j \in Offer(ActorAt(k), sched.pc) : Launch(j, sched.pc)
        BY <1>4, <2>2 DEF RingPass
      <3> QED BY <1>b, <2>0, <3>1
    <2> QED BY <2>1, <2>2
  <1>5. CASE \E j \in Jobs : Complete(j) \/ CompleteRequeue(j)
    BY <1>5, CompleteSteps, RequeueSteps DEF SafeStep
  <1> QED BY <1>1, <1>2, <1>3, <1>4, <1>5 DEF Scheduler

LEMMA CallerSafe ==
  ASSUME TypeInv, JobsOK, QueueInv, NEW j \in Jobs, Caller(j)
  PROVE  SafeStep
  <1>1. ASSUME NEW seen, SubmitRefused(j, seen) \/ SubmitBackpressure(j, seen) \/ SubmitQueued(j, seen)
        PROVE  SafeStep
    BY <1>1, RefusedSteps, BackpressureSteps, QueuedSteps, StillSafe, LaneStillSafe
  <1>2. CASE SignalCancel(j)
    BY <1>2, CancelSteps, StillSafe
  <1>3. CASE ResolveCancel(j)
    <2>1. CASE job[j].phase = "queued"
      <3>1. RemoveQueued(j, "QueuedRemoved")
        BY <1>3, <2>1 DEF ResolveCancel
      <3> QED BY <2>1, <3>1, RemoveSteps, LaneStillSafe
    <2>2. CASE job[j].phase # "queued"
      BY <1>3, <2>2, CancelSteps, StillSafe
    <2> QED BY <2>1, <2>2
  <1>4. CASE CancelBeforeExecution(j)
    <2>1. CASE job[j].token = "pending" /\ job[j].phase = "queued"
      <3>1. RemoveQueued(j, "QueuedRemoved")
        BY <1>4, <2>1 DEF CancelBeforeExecution
      <3> QED BY <2>1, <3>1, RemoveSteps, LaneStillSafe
    <2>2. CASE ~(job[j].token = "pending" /\ job[j].phase = "queued")
      BY <1>4, <2>2, CancelSteps, StillSafe
    <2> QED BY <2>1, <2>2
  <1>5. CASE Recycle(j)
    BY <1>5, RecycleSteps, StillSafe
  <1> QED BY <1>1, <1>2, <1>3, <1>4, <1>5 DEF Caller

LEMMA RootSafe ==
  ASSUME TypeInv, JobsOK, QueueInv, NEW a \in Actors,
         \/ Register(a) \/ RemoveActor(a) \/ RetireIdleActor(a)
         \/ MarkUnbound(a) \/ Quiesce(a) \/ MarkBound(a) \/ DeleteRoot(a)
         \/ PublisherParks(a) \/ PublisherEnters(a) \/ PublisherLeaves(a)
  PROVE  SafeStep
  <1>1. CASE Register(a)
    BY <1>1, RegisterSteps DEF SafeStep
  <1>2. CASE RemoveActor(a) \/ RetireIdleActor(a)
    <2>1. PICK ans : Drop(a, ans) /\ (ans = "removed" \/ IdleActor(a))
      BY <1>2 DEF RemoveActor, RetireIdleActor
    <2> QED BY <2>1, DropSteps DEF SafeStep
  <1>3. CASE MarkUnbound(a) \/ MarkBound(a)
    BY <1>3, BoundSteps, LaneStillSafe
  <1>4. CASE Quiesce(a)
    BY <1>4, QuiesceSteps, LaneStillSafe
  <1>5. CASE DeleteRoot(a) \/ PublisherParks(a) \/ PublisherEnters(a) \/ PublisherLeaves(a)
    BY <1>5, PublisherSteps, StillSafe
  <1> QED BY <1>1, <1>2, <1>3, <1>4, <1>5

LEMMA EveryStepSafe ==
  ASSUME TypeInv, JobsOK, QueueInv, [Next]_vars
  PROVE  SafeStep
  <1>1. ASSUME NEW j \in Jobs, Worker(j) \/ Seal(j) \/ Panic(j) \/ Age(j) \/ Stick(j) \/ RetryDue(j)
        PROVE  SafeStep
    BY <1>1, WorkerSteps, SealSteps, TimeSteps, StillSafe
  <1>2. CASE UNCHANGED vars
    <2>1. act' = act /\ job' = job /\ root' = root
      BY <1>2 DEF vars
    <2> QED BY <2>1, SameJobs, StillSafe DEF Still
  <1> QED BY <1>1, <1>2, SchedulerSafe, CallerSafe, RootSafe DEF Next

LEMMA LegalKeeps ==
  ASSUME AllLegal
  PROVE  JobsOK'
  <1>1. \A j \in Jobs : JobOK(j, job'[j])
    BY DEF AllLegal, Legal
  <1> QED BY <1>1 DEF JobsOK, JobOK, AnswerOK, EndOK, TokenOK, CancelOK, HoldOK, Held, Back,
                      Repeatable, IsBind, GatedLanes, EpochLanes, ReadLanes, Lane, Class

LEMMA GateKept ==
  ASSUME JobType, JobType', GateInv, AllLegal
  PROVE  GateInv'
  <1>1. ASSUME NEW j \in Jobs, NEW k \in Jobs, j # k, Root(j) = Root(k),
               job'[j].inc = job'[k].inc, job'[j].hold = "write", job'[k].hold # "none"
        PROVE  FALSE
    <2>1. Grip(j, job'[j]) /\ Grip(k, job'[k])
      BY DEF AllLegal, Legal
    <2>2. job[j].inc = job[k].inc
      BY <1>1, <2>1 DEF Grip
    <2>3. CASE job'[j].hold = job[j].hold /\ job'[k].hold = job[k].hold
      BY <1>1, <2>2, <2>3 DEF GateInv
    <2>4. CASE Entered(j, job'[j])
      <3>1. job'[k] = job[k] /\ CanWrite(j)
        BY <1>1, <2>4 DEF Entered
      <3>2. k \in Holders(Root(j), job[j].inc)
        BY <1>1, <2>2, <3>1 DEF Holders
      <3> QED BY <3>1, <3>2 DEF CanWrite
    <2>5. CASE Entered(k, job'[k])
      <3>1. job'[j] = job[j] /\ (CanWrite(k) \/ CanRead(k))
        BY <1>1, <2>5 DEF Entered
      <3>2. j \in Holders(Root(k), job[k].inc) /\ job[j].hold = "write"
        BY <1>1, <2>2, <3>1 DEF Holders
      <3> QED BY <3>1, <3>2 DEF CanWrite, CanRead
    <2> QED BY <1>1, <2>1, <2>3, <2>4, <2>5 DEF Grip
  <1>2. \A j \in Jobs : job'[j].hold \in {"none", "read", "write"}
    BY DEF JobType, JobState
  <1> QED BY <1>1, <1>2 DEF GateInv, Root

LEMMA InitSafe ==
  ASSUME Init
  PROVE  SafetyInv
  <1>0. PoolInv
    BY InitKeeps
  <1>1. \A j \in Jobs : job[j] = FreshJob
    BY DEF Init
  <1>2. /\ FreshJob.phase = "idle" /\ FreshJob.token = "none" /\ FreshJob.hold = "none"
        /\ FreshJob.shared = FALSE /\ FreshJob.end = "done" /\ FreshJob.answer = "none"
        /\ FreshJob.cancel = "none"
    BY DEF FreshJob
  <1>3. JobsOK
    BY <1>1, <1>2 DEF JobsOK, JobOK, AnswerOK, EndOK, TokenOK, CancelOK, HoldOK, Held, Back
  <1>4. \A a \in Actors : act[a].demand = 0 /\ act[a].fatal = FALSE /\ Blank(act[a])
    <2>1. FreshActor(1).demand = 0 /\ FreshActor(1).fatal = FALSE /\ Blank(FreshActor(1))
      BY DEF FreshActor, Blank
    <2> DEFINE r == [FreshActor(0) EXCEPT !.registered = FALSE]
    <2>2. r.demand = 0 /\ r.fatal = FALSE /\ Blank(r)
      BY DEF FreshActor, Blank
    <2>3. \A a \in Actors : act[a] \in {FreshActor(1), r}
      BY DEF Init
    <2> HIDE DEF r
    <2> QED BY <2>1, <2>2, <2>3
  <1>5. \A a : Writers(a) = {}
    BY <1>1, <1>2 DEF Writers, LaneQueue, Queued
  <1>6. QueueInv
    <2>1. DemandExact
      BY <1>4, <1>5, FS_EmptySet DEF DemandExact
    <2> QED BY <1>1, <1>2, <1>4, <2>1
            DEF QueueInv, QueuedRegistered, FatalDrained, NoDuplicateDrains, QuietWhenUnbound
  <1>7. LaneInv
    <2>1. Running = {} /\ \A a : On(a) = {} /\ \A l : RunningIn(a, l) = {}
      BY <1>1, <1>2 DEF Running, RunPhases, On, RunningIn
    <2>2. Cardinality({}) = 0 /\ 0 <= ReadCap
      BY FS_EmptySet, ExecutorAssumption
    <2>3. \A a \in Actors : Books(a)
      <3>1. ASSUME NEW a \in Actors PROVE RootExact(a, act[a]) /\ NoMore(a, act[a])
        <4>1. Blank(act[a]) /\ On(a) = {} /\ \A l : RunningIn(a, l) = {}
          BY <1>4, <2>1, <3>1
        <4>2. Cardinality(On(a)) = 0 /\ Cardinality(RunningIn(a, "PureRead")) = 0
          BY <2>2, <4>1
        <4>3. RootExact(a, act[a])
          BY <4>1, <4>2 DEF RootExact, Blank
        <4>4. NoMore(a, act[a])
          BY <4>1, <4>2 DEF NoMore, Blank
        <4> QED BY <4>3, <4>4
      <3> QED BY <2>1, <2>2, <3>1 DEF Books
    <2> QED BY <2>1, <2>3 DEF LaneInv, OneEach, WriterAlone
  <1>8. GateInv
    BY <1>1, <1>2 DEF GateInv
  <1> QED BY <1>0, <1>3, <1>6, <1>7, <1>8 DEF SafetyInv

LEMMA StepSafe ==
  ASSUME SafetyInv, [Next]_vars
  PROVE  SafetyInv' /\ AllLegal
  <1>1. TypeInv /\ JobsOK /\ QueueInv /\ PoolInv
    BY DEF SafetyInv, PoolInv
  <1>2. PoolInv'
    BY <1>1, StepKeeps
  <1>3. SafeStep
    BY <1>1, EveryStepSafe
  <1>4. JobsOK'
    BY <1>3, LegalKeeps DEF SafeStep
  <1>5. GateInv'
    BY <1>1, <1>2, <1>3, GateKept DEF SafetyInv, PoolInv, TypeInv, SafeStep
  <1> QED BY <1>2, <1>3, <1>4, <1>5 DEF SafetyInv, SafeStep

(* The whole invariant; the theorems below are read off it. *)
LEMMA AlwaysSafe == Spec => []SafetyInv
  <1>1. Init => SafetyInv
    BY InitSafe
  <1>2. SafetyInv /\ [Next]_vars => SafetyInv'
    BY StepSafe
  <1> QED BY <1>1, <1>2, PTL DEF Spec

-----------------------------------------------------------------------------
(* A fatal root has nothing queued, however a panicking writer, submits and  *)
(* binds on their way back to the queue interleave (fail_queued_jobs).       *)
THEOREM FatalRootsDrained == Spec => []FatalDrained
  <1>1. SafetyInv => FatalDrained
    BY DEF SafetyInv, QueueInv
  <1> QED BY <1>1, AlwaysSafe, PTL

(* The writer demand that sync_waiting_writers publishes is the number of    *)
(* queued writers in every state, and no writer whose token is cancelled is  *)
(* part of it but while its canceller is between its two steps.              *)
THEOREM DemandAlwaysLive == Spec => []WriterDemandIsLive
  <1>1. SafetyInv => WriterDemandIsLive
    BY DEF SafetyInv, QueueInv, DemandExact, JobsOK, JobOK, CancelOK, WriterDemandIsLive,
           Writers, LaneQueue, Queued
  <1> QED BY <1>1, AlwaysSafe, PTL

(* Whatever a canceller was told by cancel_job or                            *)
(* cancel_job_before_execution stays true of the job.                        *)
THEOREM CancelsHonoured == Spec => []CancelHonoured
  <1>1. SafetyInv => CancelHonoured
    BY DEF SafetyInv, JobsOK, JobOK, CancelOK, TokenOK, CancelHonoured
  <1> QED BY <1>1, AlwaysSafe, PTL

(* No queue holds two drains of one key: submit_labeled's coalescing is      *)
(* enough, and remove_duplicate_maintenance_jobs has nothing to find.        *)
THEOREM DrainsCoalesced == Spec => []NoDuplicateDrains
  <1>1. SafetyInv => NoDuplicateDrains
    BY DEF SafetyInv, QueueInv
  <1> QED BY <1>1, AlwaysSafe, PTL

(* A root that was unbound and quiesced has no maintenance and no provider   *)
(* job queued, whatever was submitted between the two steps.                 *)
THEOREM UnboundRootsQuiet == Spec => []QuietWhenUnbound
  <1>1. SafetyInv => QuietWhenUnbound
    BY DEF SafetyInv, QueueInv
  <1> QED BY <1>1, AlwaysSafe, PTL

(* No retirement closes the channel of a caller that waits: a settled job    *)
(* was answered, or was queued on a root that remove_actor took away.        *)
THEOREM EveryoneAnswered == Spec => []SettledAnswered
  <1>1. SafetyInv => SettledAnswered
    BY DEF SafetyInv, JobsOK, JobOK, AnswerOK, SettledAnswered
  <1> QED BY <1>1, AlwaysSafe, PTL

(* The counters and flags are what runs: no path through panics, cancels,    *)
(* handed-back binds and removals under running jobs leaks or doubles a slot *)
(* of the pool, or leaks one of a root.                                      *)
THEOREM CountersAlwaysExact == Spec => []CountersExact
  <1>1. ASSUME SafetyInv PROVE CountersExact
    <2>1. \A a \in Actors : Books(a)
      BY <1>1 DEF SafetyInv, LaneInv
    <2>2. ActorExact
      BY <2>1 DEF Books, RootExact, ActorExact
    <2>3. NeverMore
      BY <2>1 DEF Books, NoMore, NeverMore
    <2> QED BY <1>1, <2>2, <2>3 DEF SafetyInv, PoolInv, CountersExact
  <1> QED BY <1>1, AlwaysSafe, PTL

(* One writer per root, alone unless it is a bind that shares the gate, what *)
(* try_admit_actor's flags are for; also among the jobs a removal left       *)
(* running, but not for a registration that began beside such jobs.          *)
THEOREM WritersAlone == Spec => []WriterAlone
  <1>1. SafetyInv => WriterAlone
    BY DEF SafetyInv, LaneInv
  <1> QED BY <1>1, AlwaysSafe, PTL

LEMMA AtMostOne ==
  ASSUME NEW S \in SUBSET Jobs, \A i, k \in S : i = k
  PROVE  Cardinality(S) <= 1
  <1>1. CASE S = {}
    BY <1>1, FS_EmptySet
  <1>2. CASE S # {}
    <2>1. PICK i \in S : TRUE
      BY <1>2
    <2>2. S = {i}
      BY <2>1
    <2>3. Cardinality({i}) = 1
      BY FS_Singleton
    <2> QED BY <2>2, <2>3
  <1> QED BY <1>1, <1>2

(* The lanes that are serial run one job at a time on every root, and reads  *)
(* stay within their cap, removed roots included; only a registration that   *)
(* began beside jobs of a removed one is left out.                           *)
THEOREM LanesSerial == Spec => []SerialLanes
  <1>1. ASSUME SafetyInv PROVE SerialLanes
    <2>0. OneEach /\ \A a \in Actors : Books(a)
      BY <1>1 DEF SafetyInv, LaneInv
    <2>1. ASSUME NEW a \in Actors, ~root[a].torn,
                 NEW l \in {"SerialLspStatus", "MaintenanceCommit", "ProviderMetadata", "CallLedger"}
          PROVE  Cardinality(RunningIn(a, l)) <= 1
      <3>1. RunningIn(a, l) \in SUBSET Jobs
        BY DEF RunningIn, On, Running
      <3>2. \A i, k \in RunningIn(a, l) : i = k
        BY <2>0, <2>1 DEF OneEach, RunningIn, On, SerialLane
      <3> QED BY <3>1, <3>2, AtMostOne
    <2>2. ASSUME NEW a \in Actors, ~root[a].torn
          PROVE  Cardinality({j \in On(a) : IsAcquisition(j)}) <= 1
      <3> DEFINE S == {j \in On(a) : IsAcquisition(j)}
      <3>1. S \in SUBSET Jobs
        BY DEF On, Running
      <3>2. \A i, k \in S : i = k
        BY <2>0, <2>2 DEF OneEach, On
      <3> HIDE DEF S
      <3>3. Cardinality(S) <= 1
        BY <3>1, <3>2, AtMostOne
      <3> QED BY <3>3 DEF S
    <2>3. \A a \in Actors : ~root[a].torn => Cardinality(RunningIn(a, "PureRead")) <= ReadCap
      BY <2>0 DEF Books
    <2> QED BY <2>1, <2>2, <2>3 DEF SerialLanes
  <1> QED BY <1>1, AlwaysSafe, PTL

-----------------------------------------------------------------------------
(* The refinement.  AllLegal gives each request's step; what is left is that *)
(* the requests that hold their root's gate are compatible.                  *)
LEMMA SeenTyped ==
  ASSUME NEW j \in Jobs, NEW r \in JobState, JobOK(j, r)
  PROVE  Seen(j, r) \in Service!Request
  <1>1. r.answer \in Answers \ {"lost"} /\ r.inc \in Nat
    BY DEF JobState, JobOK, AnswerOK
  <1> QED BY <1>1 DEF Seen, Answers, Service!Request, Service!Stages, Service!Uses,
                      Service!Verdicts, Service!Replies

LEMMA HoldersCompatible ==
  ASSUME JobType, GateInv
  PROVE  Service!Compatible
  <1>1. ASSUME NEW j \in Jobs, NEW k \in Jobs, j # k, Root(j) = Root(k),
               View[j].session = View[k].session, View[j].use = "exclusive"
        PROVE  View[k].use \in {"none", "free"}
    <2>1. View[j] = Seen(j, job[j]) /\ View[k] = Seen(k, job[k])
      BY ViewSeen
    <2>2. job[j].phase = "executing" /\ job[j].hold = "write"
      <3>1. job[j].hold \in {"none", "read", "write"}
        BY DEF JobType, JobState
      <3> QED BY <1>1, <2>1, <3>1 DEF Seen
    <2>3. SUFFICES ASSUME job[k].phase = "executing", job[k].hold # "none" PROVE FALSE
      BY <2>1 DEF Seen
    <2>4. job[j].inc = job[k].inc
      BY <1>1, <2>1, <2>2, <2>3 DEF Seen
    <2> QED BY <1>1, <2>2, <2>3, <2>4 DEF GateInv
  <1> QED BY <1>1 DEF Service!Compatible

(* The executor implements CommandService, for any number of roots, jobs and *)
(* workers: every request is answered once, in agreement with what happened  *)
(* to it, and an exclusive writer shares its session of the root with nobody.*)
THEOREM PromisesKept == Spec => KeepsPromises
  <1>1. ASSUME Init PROVE Service!Init
    <2>1. \A j \in Jobs : View[j] = Service!NotYet
      BY <1>1 DEF Init, FreshJob, View, Stage, Use, Verdict, Session, Service!NotYet
    <2> QED BY <2>1 DEF Service!Init, View
  <1>2. ASSUME SafetyInv, [Next]_vars PROVE [Service!Next]_View
    <2>1. AllLegal /\ SafetyInv'
      BY <1>2, StepSafe
    <2>2. JobType /\ JobType' /\ GateInv'
      BY <1>2, <2>1 DEF SafetyInv, PoolInv, TypeInv
    <2>3. \A j \in Jobs : View[j] = Seen(j, job[j]) /\ View'[j] = Seen(j, job'[j])
      <3>1. \A j \in Jobs : View'[j] = Seen(j, job'[j])
        BY <2>2 DEF View, Seen, Stage, Use, Verdict, Session, JobType, JobState
      <3> QED BY <2>2, <3>1, ViewSeen
    <2>4. View' \in [Jobs -> Service!Request] /\ \A j \in Jobs : Service!Step(View[j], View'[j])
      <3>1. \A j \in Jobs : JobOK(j, job'[j]) /\ job'[j] \in JobState
        BY <2>1, <2>2 DEF AllLegal, Legal, JobType
      <3>2. \A j \in Jobs : View'[j] \in Service!Request
        BY <2>3, <3>1, SeenTyped
      <3>3. View' = [j \in Jobs |-> View'[j]]
        BY DEF View
      <3> QED BY <2>1, <2>3, <3>2, <3>3 DEF AllLegal, Legal
    <2>5. Service!Compatible'
      BY <2>2, HoldersCompatible, PTL
    <2> QED BY <2>4, <2>5 DEF Service!Next
  <1> QED BY <1>1, <1>2, AlwaysSafe, PTL DEF Spec, KeepsPromises, Service!Spec
=============================================================================
