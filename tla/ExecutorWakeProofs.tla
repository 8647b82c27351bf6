-------------------------- MODULE ExecutorWakeProofs --------------------------
(***************************************************************************)
(* The scheduler never sleeps over a job that it could admit.              *)
(*                                                                         *)
(* WakeInv is the inductive invariant: NothingLeftBehind itself, and what  *)
(* makes the last fruitless round before sleeping conclusive.  The queues  *)
(* are lines (LineInv), so a queue that is not empty has one first job;    *)
(* the order lists every registered root (CoverInv), so a lap asks all of  *)
(* them; a round without progress found every earlier pass spent and has a *)
(* whole lap of this one to go (RoundInv); and a bind that waits for its   *)
(* retry time has the timer behind it (TimerInv).                          *)
(***************************************************************************)
EXTENDS ExecutorSafetyProofs

-----------------------------------------------------------------------------
(* A queue is a line: whoever is ahead is queued in the same place, being    *)
(* ahead is transitive and never both ways, and any two are ordered.         *)
LineInv ==
  /\ \A k \in Jobs : job[k].phase # "queued" => ahead[k] = {}
  /\ \A k \in Jobs : \A i \in ahead[k] :
       job[i].phase = "queued" /\ Root(i) = Root(k) /\ Class(i) = Class(k) /\ i # k
  /\ \A k \in Jobs : \A i \in ahead[k] : ahead[i] \subseteq ahead[k]
  /\ \A i, k \in Jobs :
       /\ job[i].phase = "queued" /\ job[k].phase = "queued" /\ i # k
       /\ Root(i) = Root(k) /\ Class(i) = Class(k)
       => i \in ahead[k] \/ k \in ahead[i]

(* Every registered root is visited by the round robin. *)
CoverInv ==
  \A a \in Actors : act[a].registered => \E i \in 1..Len(sched.order) : sched.order[i] = a

(* A bind that waits out a retry time has the timer behind it. *)
TimerInv == Free /\ RetryPending => sched.timer

(* A pass that would find nobody to admit. *)
Spent(pass) == CanDispatch(pass) => \A a \in Actors : Rests(a, pass)

(* The passes a round makes before this one. *)
Before(pass) ==
  IF pass = "bind" THEN {}
  ELSE IF pass = "provider" THEN {"bind"}
  ELSE IF pass = "ledger" THEN {"bind", "provider"}
  ELSE IF pass = "interactive" THEN {"bind", "provider", "ledger"}
  ELSE {"bind", "provider", "ledger", "interactive"}

(* A round that has admitted nobody found nothing in the passes it made, and *)
(* has the whole lap of this one before it.                                  *)
RoundInv ==
  sched.pc \in Passes /\ ~sched.progress =>
    sched.left = Len(sched.order) /\ \A q \in Before(sched.pc) : Spent(q)

(* The inductive invariant. *)
WakeInv == LineInv /\ CoverInv /\ TimerInv /\ RoundInv /\ NothingLeftBehind

(* A nonempty set of waiting jobs has a first: the lines are finite. *)
LEMMA FirstExists ==
  ASSUME QueueType, LineInv, NEW S \in SUBSET Jobs, S # {}
  PROVE  First(S) # {}
  <1> DEFINE T == {ahead[k] \cap S : k \in S}
  <1>1. IsWellFoundedOn(StrictSubsetOrdering(Jobs), SUBSET Jobs)
    <2>1. FiniteSubsetsOf(Jobs) = SUBSET Jobs
      BY ConstantsTyped, FS_FiniteSubsetsOfFinite
    <2> QED BY <2>1, FS_StrictSubsetOrderingWellFounded
  <1>2. T \subseteq SUBSET Jobs /\ T # {}
    BY DEF QueueType
  <1>3. \E x \in T : \A y \in T : ~(<<y, x>> \in StrictSubsetOrdering(Jobs))
    <2> HIDE DEF T
    <2> QED BY <1>1, <1>2, WFMin
  <1>4. PICK k \in S : \A i \in S : ~(<<ahead[i] \cap S, ahead[k] \cap S>> \in StrictSubsetOrdering(Jobs))
    BY <1>3
  <1>5. ASSUME NEW i \in ahead[k] \cap S PROVE FALSE
    <2>1. i \in S /\ i \in Jobs /\ k \in Jobs /\ i \in ahead[k] /\ i \notin ahead[i] /\ ahead[i] \subseteq ahead[k]
      BY <1>5 DEF LineInv, QueueType
    <2>2. ahead[i] \cap S \subseteq ahead[k] \cap S /\ ahead[i] \cap S # ahead[k] \cap S
      BY <2>1, <1>5
    <2>3. ahead[i] \cap S \in SUBSET Jobs /\ ahead[k] \cap S \in SUBSET Jobs
      OBVIOUS
    <2>4. <<ahead[i] \cap S, ahead[k] \cap S>> \in StrictSubsetOrdering(Jobs)
      BY <2>2, <2>3 DEF StrictSubsetOrdering
    <2> QED BY <2>1, <2>4, <1>4
  <1>6. k \in First(S)
    BY <1>5 DEF First
  <1> QED BY <1>6

(* What admission looks at, but for the writers' ages ... *)
SameLines ==
  /\ act' = act /\ pool' = pool /\ ahead' = ahead
  /\ \A k \in Jobs : /\ job'[k].phase = "queued" <=> job[k].phase = "queued"
                     /\ job[k].phase = "queued" =>
                          /\ job'[k].forced = job[k].forced
                          /\ job'[k].backoff = "waiting" <=> job[k].backoff = "waiting"

(* ... which only grow. *)
SameView ==
  /\ SameLines
  /\ \A k \in Jobs : job[k].phase = "queued" => job'[k].aged = job[k].aged \/ job'[k].aged = TRUE

(* A pass only considers jobs that wait on the root it visits. *)
LEMMA CandidateQueued ==
  ASSUME NEW a, NEW pass, NEW j \in Candidate(a, pass)
  PROVE  j \in Jobs /\ job[j].phase = "queued" /\ Root(j) = a
  BY DEF Candidate, NextInteractive, InteractiveChoice, First, Writers, QueuedBinds, LaneQueue, Queued

(* Who is considered depends on the lines and, in the interactive pass, on   *)
(* whether a writer starves.                                                 *)
LEMMA SameCandidates ==
  ASSUME SameLines, NEW a, NEW pass
  PROVE  /\ Writers(a)' = Writers(a) /\ First(Writers(a))' = First(Writers(a))
         /\ \A starved : InteractiveChoice(a, starved)' = InteractiveChoice(a, starved)
         /\ pass # "interactive" => Candidate(a, pass)' = Candidate(a, pass)
  <1> USE DEF Root, Class, Lane
  <1>1. \A c : Queued(a, c)' = Queued(a, c)
    BY DEF SameLines, Queued
  <1>2. ahead' = ahead
    BY DEF SameLines
  <1>3. /\ \A c, l : LaneQueue(a, c, l)' = LaneQueue(a, c, l)
        /\ Writers(a)' = Writers(a) /\ QueuedBinds(a)' = QueuedBinds(a)
    BY <1>1 DEF Writers, QueuedBinds, LaneQueue, IsBind
  <1>4. /\ First(QueuedBinds(a))' = First(QueuedBinds(a)) /\ First(Writers(a))' = First(Writers(a))
        /\ First(Queued(a, "Maintenance"))' = First(Queued(a, "Maintenance"))
        /\ First(LaneQueue(a, "Interactive", "ProviderMetadata"))'
             = First(LaneQueue(a, "Interactive", "ProviderMetadata"))
        /\ First(LaneQueue(a, "Interactive", "CallLedger"))' = First(LaneQueue(a, "Interactive", "CallLedger"))
        /\ First(LaneQueue(a, "Interactive", "PureRead"))' = First(LaneQueue(a, "Interactive", "PureRead"))
    BY <1>1, <1>2, <1>3 DEF First
  <1>5. First({j \in Queued(a, "Interactive") : Lane(j) \notin {"ProviderMetadata", "CallLedger"}})'
          = First({j \in Queued(a, "Interactive") : Lane(j) \notin {"ProviderMetadata", "CallLedger"}})
    BY <1>1, <1>2 DEF First
  <1>6. \A starved : InteractiveChoice(a, starved)' = InteractiveChoice(a, starved)
    BY <1>3, <1>4, <1>5 DEF InteractiveChoice
  <1>7. pass # "interactive" => Candidate(a, pass)' = Candidate(a, pass)
    BY <1>3, <1>4 DEF Candidate
  <1> QED BY <1>3, <1>4, <1>6, <1>7

(* Whether a candidate is admitted depends on nothing else either. *)
LEMMA SameAdmits ==
  ASSUME SameLines, NEW pass
  PROVE  /\ CanDispatch(pass)' <=> CanDispatch(pass)
         /\ \A j \in Jobs : job[j].phase = "queued" => (Admits(j, pass)' <=> Admits(j, pass))
  <1>1. act' = act /\ pool' = pool
    BY DEF SameLines
  <1>2. CanDispatch(pass)' <=> CanDispatch(pass)
    BY <1>1 DEF CanDispatch, GeneralIdle, ProviderIdle
  <1>3. ASSUME NEW j \in Jobs, job[j].phase = "queued"
        PROVE  Admits(j, pass)' <=> Admits(j, pass)
    <2>1. (job'[j].backoff = "waiting" <=> job[j].backoff = "waiting") /\ job'[j].forced = job[j].forced
      BY <1>3 DEF SameLines
    <2>2. LaneAdmits(j, pass)' <=> LaneAdmits(j, pass)
      BY <1>1, <2>1 DEF LaneAdmits, LaneFree, HasCapacity, One, PermitFree, IsAcquisition, MayShare,
                        Repeatable, IsBind, EpochReader, Root, Class, Lane
    <2>3. Barred(j)' <=> Barred(j)
      BY <1>1, SameCandidates DEF Barred, Root, Class, Lane
    <2> QED BY <1>1, <2>1, <2>2, <2>3 DEF Admits, Root, Class, Lane
  <1> QED BY <1>2, <1>3

(* A root that makes no offer rests: it was asked about one of its choices.  *)
LEMMA NoOfferRests ==
  ASSUME JobType, NEW a, NEW pass, Offer(a, pass) = {}
  PROVE  Rests(a, pass)
  <1>1. CASE pass # "interactive"
    BY <1>1 DEF Rests
  <1>2. CASE pass = "interactive" /\ StarvedWriter(a)
    <2>1. PICK j \in Writers(a) : job[j].aged
      BY <1>2 DEF StarvedWriter
    <2>2. job[j].aged = TRUE
      BY <2>1 DEF Writers, LaneQueue, Queued, JobType, JobState
    <2>3. TRUE \in Preferences(a)
      BY <2>2 DEF Preferences
    <2>4. \A k \in InteractiveChoice(a, TRUE) : ~Admits(k, pass)
      BY <1>2 DEF Offer, Candidate, NextInteractive, InteractiveChoice
    <2> QED BY <1>2, <2>3, <2>4 DEF Rests
  <1>3. CASE pass = "interactive" /\ ~StarvedWriter(a)
    <2>1. FALSE \in Preferences(a)
      BY DEF Preferences
    <2>2. \A k \in InteractiveChoice(a, FALSE) : ~Admits(k, pass)
      BY <1>3 DEF Offer, Candidate, NextInteractive, InteractiveChoice
    <2> QED BY <1>3, <2>1, <2>2 DEF Rests
  <1> QED BY <1>1, <1>2, <1>3

(* A choice that was open stays open while writers grow old. *)
LEMMA SamePreferences ==
  ASSUME JobType, SameView, NEW a, NEW starved \in Preferences(a)
  PROVE  starved \in Preferences(a)'
  <1>0. Writers(a)' = Writers(a) /\ Writers(a) \subseteq Jobs
    BY SameCandidates DEF SameView, Writers, LaneQueue, Queued
  <1>1. FALSE \in Preferences(a)'
    BY DEF Preferences
  <1>2. CASE starved # FALSE
    <2>1. PICK j \in Writers(a) : starved = job[j].aged
      BY <1>2 DEF Preferences
    <2>2. job[j].aged \in BOOLEAN /\ job[j].phase = "queued"
      BY <1>0 DEF JobType, JobState, Writers, LaneQueue, Queued
    <2>3. job'[j].aged = starved
      BY <1>0, <1>2, <2>1, <2>2 DEF SameView
    <2> QED BY <1>0, <2>1, <2>3 DEF Preferences
  <1> QED BY <1>1, <1>2

(* A root that rests still does while the scheduler sees the same. *)
LEMMA SameRests ==
  ASSUME JobType, SameView, NEW a, NEW pass, Rests(a, pass)
  PROVE  Rests(a, pass)'
  <1>0. SameLines
    BY DEF SameView
  <1>1. CASE pass # "interactive"
    <2>1. Candidate(a, pass)' = Candidate(a, pass)
      BY <1>0, <1>1, SameCandidates
    <2>2. \A j \in Candidate(a, pass) : Admits(j, pass)' <=> Admits(j, pass)
      BY <1>0, CandidateQueued, SameAdmits
    <2>3. Offer(a, pass)' = {}
      BY <1>1, <2>1, <2>2 DEF Rests, Offer
    <2> QED BY <1>1, <2>3 DEF Rests
  <1>2. CASE pass = "interactive"
    <2>1. PICK starved \in Preferences(a) : \A j \in InteractiveChoice(a, starved) : ~Admits(j, pass)
      BY <1>2 DEF Rests
    <2>2. InteractiveChoice(a, starved)' = InteractiveChoice(a, starved)
      BY <1>0, SameCandidates
    <2>3. \A j \in InteractiveChoice(a, starved) : j \in Jobs /\ job[j].phase = "queued"
      BY DEF InteractiveChoice, First, Writers, LaneQueue, Queued
    <2>4. \A j \in InteractiveChoice(a, starved)' : ~Admits(j, pass)'
      BY <1>0, <2>1, <2>2, <2>3, SameAdmits
    <2>5. starved \in Preferences(a)'
      BY SamePreferences
    <2> QED BY <1>2, <2>4, <2>5 DEF Rests
  <1> QED BY <1>1, <1>2

-----------------------------------------------------------------------------
(* The lines when nobody joins or leaves ... *)
LEMMA LineSame ==
  ASSUME LineInv, ahead' = ahead,
         \A k \in Jobs : job'[k].phase = "queued" <=> job[k].phase = "queued", QueueType
  PROVE  LineInv'
  BY DEF LineInv, Root, Class, QueueType

(* ... when the jobs of S leave ... *)
LEMMA LineLeaves ==
  ASSUME LineInv, QueueType, NEW S, ahead' = Without(ahead, S),
         \A k \in Jobs : job'[k].phase = "queued" <=> job[k].phase = "queued" /\ k \notin S
  PROVE  LineInv'
  <1>1. \A k \in Jobs : ahead'[k] = IF k \in S THEN {} ELSE ahead[k] \ S
    BY DEF Without
  <1>2. \A k \in Jobs : ahead[k] \subseteq Jobs
    BY DEF QueueType
  <1>3. \A k \in Jobs : job'[k].phase # "queued" => ahead'[k] = {}
    BY <1>1 DEF LineInv
  <1>4. \A k \in Jobs : \A i \in ahead'[k] :
          job'[i].phase = "queued" /\ Root(i) = Root(k) /\ Class(i) = Class(k) /\ i # k
    <2> SUFFICES ASSUME NEW k \in Jobs, NEW i \in ahead'[k]
                 PROVE  job'[i].phase = "queued" /\ Root(i) = Root(k) /\ Class(i) = Class(k) /\ i # k
      OBVIOUS
    <2>1. i \in ahead[k] /\ i \notin S /\ i \in Jobs
      BY <1>1, <1>2
    <2> QED BY <2>1 DEF LineInv
  <1>5. \A k \in Jobs : \A i \in ahead'[k] : ahead'[i] \subseteq ahead'[k]
    <2> SUFFICES ASSUME NEW k \in Jobs, NEW i \in ahead'[k] PROVE ahead'[i] \subseteq ahead'[k]
      OBVIOUS
    <2>1. i \in ahead[k] /\ i \notin S /\ k \notin S /\ i \in Jobs
      BY <1>1, <1>2
    <2>2. ahead[i] \subseteq ahead[k]
      BY <2>1 DEF LineInv
    <2> QED BY <2>1, <2>2, <1>1
  <1>6. \A i, k \in Jobs :
          /\ job'[i].phase = "queued" /\ job'[k].phase = "queued" /\ i # k
          /\ Root(i) = Root(k) /\ Class(i) = Class(k)
          => i \in ahead'[k] \/ k \in ahead'[i]
    <2> SUFFICES ASSUME NEW i \in Jobs, NEW k \in Jobs, job'[i].phase = "queued", job'[k].phase = "queued",
                        i # k, Root(i) = Root(k), Class(i) = Class(k)
                 PROVE  i \in ahead'[k] \/ k \in ahead'[i]
      OBVIOUS
    <2>1. i \in ahead[k] \/ k \in ahead[i]
      BY DEF LineInv
    <2> QED BY <2>1, <1>1
  <1> QED BY <1>3, <1>4, <1>5, <1>6 DEF LineInv, Root, Class

(* ... when j joins at the back ... *)
LEMMA LineJoins ==
  ASSUME LineInv, QueueType, NEW j \in Jobs, job[j].phase # "queued", job'[j].phase = "queued",
         \A k \in Jobs \ {j} : job'[k].phase = "queued" <=> job[k].phase = "queued",
         ahead' = [ahead EXCEPT ![j] = Queued(Root(j), Class(j))]
  PROVE  LineInv'
  <1>1. \A k \in Jobs : ahead'[k] = IF k = j THEN Queued(Root(j), Class(j)) ELSE ahead[k]
    BY DEF QueueType
  <1>2. \A k \in Jobs : ahead[k] \subseteq Jobs /\ j \notin ahead[k]
    BY DEF QueueType, LineInv
  <1>3. \A i \in Queued(Root(j), Class(j)) : ahead[i] \subseteq Queued(Root(j), Class(j))
    BY <1>2 DEF LineInv, Queued
  <1>4. \A k \in Jobs : k \in Queued(Root(j), Class(j)) <=>
                          job[k].phase = "queued" /\ Root(k) = Root(j) /\ Class(k) = Class(j)
    BY DEF Queued
  <1>5. Queued(Root(j), Class(j)) \subseteq Jobs
    BY DEF Queued
  <1>6. \A k \in Jobs : job'[k].phase # "queued" => ahead'[k] = {}
    BY <1>1 DEF LineInv
  <1>7. \A k \in Jobs : \A i \in ahead'[k] :
          job'[i].phase = "queued" /\ Root(i) = Root(k) /\ Class(i) = Class(k) /\ i # k
    BY <1>1, <1>2, <1>4, <1>5 DEF LineInv
  <1>8. \A k \in Jobs : \A i \in ahead'[k] : ahead'[i] \subseteq ahead'[k]
    <2> SUFFICES ASSUME NEW k \in Jobs, NEW i \in ahead'[k] PROVE ahead'[i] \subseteq ahead'[k]
      OBVIOUS
    <2>1. CASE k = j
      BY <2>1, <1>1, <1>3, <1>4, <1>5
    <2>2. CASE k # j
      BY <2>2, <1>1, <1>2 DEF LineInv
    <2> QED BY <2>1, <2>2
  <1>9. \A i, k \in Jobs :
          /\ job'[i].phase = "queued" /\ job'[k].phase = "queued" /\ i # k
          /\ Root(i) = Root(k) /\ Class(i) = Class(k)
          => i \in ahead'[k] \/ k \in ahead'[i]
    <2> SUFFICES ASSUME NEW i \in Jobs, NEW k \in Jobs, job'[i].phase = "queued", job'[k].phase = "queued",
                        i # k, Root(i) = Root(k), Class(i) = Class(k)
                 PROVE  i \in ahead'[k] \/ k \in ahead'[i]
      OBVIOUS
    <2>1. CASE k = j
      BY <2>1, <1>1, <1>4
    <2>2. CASE i = j
      BY <2>2, <1>1, <1>4
    <2>3. CASE i # j /\ k # j
      BY <2>3, <1>1 DEF LineInv
    <2> QED BY <2>1, <2>2, <2>3
  <1> QED BY <1>6, <1>7, <1>8, <1>9 DEF LineInv, Root, Class

(* ... and when j is put back at the front. *)
LEMMA LineFronts ==
  ASSUME LineInv, QueueType, NEW j \in Jobs, job[j].phase # "queued", job'[j].phase = "queued",
         Class(j) = "Interactive",
         \A k \in Jobs \ {j} : job'[k].phase = "queued" <=> job[k].phase = "queued",
         ahead' = [k \in Jobs |-> IF k \in Queued(Root(j), "Interactive") THEN ahead[k] \cup {j}
                                  ELSE ahead[k]]
  PROVE  LineInv'
  <1> DEFINE Q == Queued(Root(j), "Interactive")
  <1>1. \A k \in Jobs : ahead'[k] = IF k \in Q THEN ahead[k] \cup {j} ELSE ahead[k]
    OBVIOUS
  <1>2. ahead[j] = {} /\ j \notin Q /\ \A k \in Jobs : ahead[k] \subseteq Jobs /\ j \notin ahead[k]
    BY DEF QueueType, LineInv, Queued
  <1>3. \A k \in Q : ahead[k] \subseteq Q
    BY <1>2 DEF LineInv, Queued
  <1>4. \A k \in Jobs : k \in Q <=> job[k].phase = "queued" /\ Root(k) = Root(j) /\ Class(k) = "Interactive"
    BY DEF Queued
  <1>5. \A k \in Jobs : \A i \in ahead[k] : i \in Q => k \in Q
    BY <1>2, <1>4 DEF LineInv
  <1> HIDE DEF Q
  <1>6. \A k \in Jobs : job'[k].phase # "queued" => ahead'[k] = {}
    BY <1>1, <1>2, <1>4 DEF LineInv
  <1>7. \A k \in Jobs : \A i \in ahead'[k] :
          job'[i].phase = "queued" /\ Root(i) = Root(k) /\ Class(i) = Class(k) /\ i # k
    <2> SUFFICES ASSUME NEW k \in Jobs, NEW i \in ahead'[k]
                 PROVE  job'[i].phase = "queued" /\ Root(i) = Root(k) /\ Class(i) = Class(k) /\ i # k
      OBVIOUS
    <2>1. CASE i = j /\ k \in Q
      BY <2>1, <1>2, <1>4
    <2>2. CASE i \in ahead[k]
      BY <2>2, <1>2 DEF LineInv
    <2> QED BY <2>1, <2>2, <1>1
  <1>8. \A k \in Jobs : \A i \in ahead'[k] : ahead'[i] \subseteq ahead'[k]
    <2> SUFFICES ASSUME NEW k \in Jobs, NEW i \in ahead'[k] PROVE ahead'[i] \subseteq ahead'[k]
      OBVIOUS
    <2>1. CASE i = j
      BY <2>1, <1>1, <1>2
    <2>2. CASE i # j
      <3>1. i \in ahead[k] /\ i \in Jobs
        BY <2>2, <1>1, <1>2
      <3>2. ahead[i] \subseteq ahead[k]
        BY <3>1 DEF LineInv
      <3> QED BY <3>1, <3>2, <1>1, <1>5
    <2> QED BY <2>1, <2>2
  <1>9. \A i, k \in Jobs :
          /\ job'[i].phase = "queued" /\ job'[k].phase = "queued" /\ i # k
          /\ Root(i) = Root(k) /\ Class(i) = Class(k)
          => i \in ahead'[k] \/ k \in ahead'[i]
    <2> SUFFICES ASSUME NEW i \in Jobs, NEW k \in Jobs, job'[i].phase = "queued", job'[k].phase = "queued",
                        i # k, Root(i) = Root(k), Class(i) = Class(k)
                 PROVE  i \in ahead'[k] \/ k \in ahead'[i]
      OBVIOUS
    <2>1. CASE k = j
      BY <2>1, <1>1, <1>4
    <2>2. CASE i = j
      BY <2>2, <1>1, <1>4
    <2>3. CASE i # j /\ k # j
      BY <2>3, <1>1 DEF LineInv
    <2> QED BY <2>1, <2>2, <2>3
  <1> QED BY <1>6, <1>7, <1>8, <1>9 DEF LineInv, Root, Class

(* A spent pass stays spent while it sees the same. *)
LEMMA SpentKept ==
  ASSUME JobType, SameView, NEW pass, Spent(pass)
  PROVE  Spent(pass)'
  <1>1. CanDispatch(pass)' => CanDispatch(pass)
    BY SameAdmits DEF SameView
  <1> QED BY <1>1, SameRests DEF Spent

(* A step of which the scheduler sees nothing. *)
Unseen ==
  /\ SameView /\ sched' = sched
  /\ \A k \in Jobs : /\ job[k].phase = "returned" => job'[k].phase = "returned"
                     /\ job[k].phase = "queued" => job'[k].backoff = job[k].backoff

(* What the scheduler does not see leaves nobody behind. *)
LEMMA UnseenKeeps ==
  ASSUME WakeInv, QueueType, JobType, Unseen
  PROVE  WakeInv'
  <1>0. SameView /\ sched' = sched /\ act' = act
    BY DEF WakeInv, Unseen, SameView, SameLines
  <1>1. LineInv'
    BY LineSame DEF WakeInv, Unseen, SameView, SameLines
  <1>2. CoverInv'
    BY <1>0 DEF WakeInv, CoverInv
  <1>3. TimerInv'
    BY <1>0 DEF WakeInv, TimerInv, RetryPending, HasRetryTime, Free, Unseen, SameView, SameLines
  <1>4. RoundInv'
    <2>1. \A q \in Passes : Spent(q) => Spent(q)'
      BY <1>0, SpentKept
    <2>2. \A q \in Before(sched.pc) : q \in Passes
      BY DEF Before, Passes
    <2> QED BY <1>0, <2>1, <2>2 DEF WakeInv, RoundInv, Before
  <1>5. NothingLeftBehind'
    <2>1. Asleep' => Asleep
      BY <1>0 DEF Asleep, Free, Unseen
    <2>2. Overdue => Overdue'
      BY <1>0 DEF Overdue, Unseen, SameView, SameLines
    <2>3. Asleep' /\ ~Overdue' => \A q \in Passes : Spent(q)'
      BY <1>0, <2>1, <2>2, SpentKept DEF WakeInv, NothingLeftBehind, Spent
    <2> QED BY <2>3 DEF NothingLeftBehind, Spent
  <1> QED BY <1>1, <1>2, <1>3, <1>4, <1>5 DEF WakeInv

(* A step that leaves an event for the scheduler. *)
Alerting ==
  /\ Free /\ sched'.pc = "idle" /\ sched'.wake /\ sched'.timer = sched.timer
  /\ \A k \in Jobs : job'[k].phase = "queued" /\ job'[k].backoff # "none" =>
                       job[k].phase = "queued" /\ job[k].backoff # "none"

(* Nor does what it will be woken for. *)
LEMMA AlertingKeeps ==
  ASSUME WakeInv, Alerting, LineInv', CoverInv'
  PROVE  WakeInv'
  <1>1. TimerInv'
    BY DEF WakeInv, Alerting, TimerInv, RetryPending, HasRetryTime, Free
  <1>2. RoundInv'
    BY DEF Alerting, RoundInv, Passes
  <1>3. NothingLeftBehind'
    BY DEF Alerting, NothingLeftBehind, Asleep
  <1> QED BY <1>1, <1>2, <1>3 DEF WakeInv

LEMMA PutUnseen ==
  ASSUME JobType, NEW j \in Jobs, NEW r, job' = [job EXCEPT ![j] = r],
         act' = act, pool' = pool, ahead' = ahead, sched' = sched,
         \/ r.phase = job[j].phase /\ (r.aged = job[j].aged \/ r.aged = TRUE) /\ r.forced = job[j].forced
            /\ r.backoff = job[j].backoff
         \/ job[j].phase \notin {"queued", "returned"} /\ r.phase # "queued"
  PROVE  Unseen
  <1>1. job'[j] = r /\ \A k \in Jobs \ {j} : job'[k] = job[k]
    BY DEF JobType
  <1> QED BY <1>1 DEF Unseen, SameView, SameLines

-----------------------------------------------------------------------------
(* Only job j moves, and not into or out of a queue. *)
Aside(j) ==
  /\ \A k \in Jobs \ {j} : job'[k] = job[k]
  /\ job[j].phase \notin {"queued", "returned"} /\ job'[j].phase # "queued"

(* A job off the queues moves unseen. *)
LEMMA AsideUnseen ==
  ASSUME NEW j \in Jobs, Aside(j), act' = act, pool' = pool, ahead' = ahead, sched' = sched
  PROVE  Unseen
  BY DEF Aside, Unseen, SameView, SameLines

(* A worker that returns its job moves that job only. *)
LEMMA ReturnAside ==
  ASSUME JobType, NEW j \in Jobs, NEW ans, NEW how, NEW tok, Return(j, ans, how, tok),
         job[j].phase \notin {"queued", "returned"}
  PROVE  Aside(j)
  BY DEF JobType, JobState, Return, Aside

(* Workers are unseen until their completion event is taken. *)
LEMMA WorkerUnseen ==
  ASSUME JobType, NEW j \in Jobs, Worker(j) \/ Panic(j) \/ Seal(j)
  PROVE  Unseen
  <1>1. act' = act /\ pool' = pool /\ ahead' = ahead /\ sched' = sched
    BY DEF Worker, EnterGate, GiveUpGate, MissGate, ProbePasses, ProbeStops, Start, StartRefused,
           Finish, RequestRerun, ReturnToPending, HandOff, Panic, Seal, WorkerOnly
  <1> USE DEF JobType, JobState, Aside
  <1>2. CASE EnterGate(j)
    BY <1>2, <1>1, AsideUnseen DEF EnterGate
  <1>3. CASE GiveUpGate(j)
    BY <1>3, <1>1, AsideUnseen, ReturnAside DEF GiveUpGate, ReturnCancelled
  <1>4. CASE MissGate(j)
    BY <1>4, <1>1, AsideUnseen DEF MissGate
  <1>5. CASE ProbePasses(j)
    BY <1>5, <1>1, AsideUnseen DEF ProbePasses, AtRun
  <1>6. CASE ProbeStops(j)
    BY <1>6, <1>1, AsideUnseen, ReturnAside DEF ProbeStops, AtRun
  <1>7. CASE Start(j)
    BY <1>7, <1>1, AsideUnseen DEF Start
  <1>8. CASE StartRefused(j)
    BY <1>8, <1>1, AsideUnseen, ReturnAside DEF StartRefused
  <1>9. CASE Finish(j)
    BY <1>9, <1>1, AsideUnseen, ReturnAside DEF Finish
  <1>10. CASE RequestRerun(j)
    BY <1>10, <1>1, AsideUnseen DEF RequestRerun
  <1>11. CASE ReturnToPending(j)
    <2>1. CASE job[j].token = "cancelled"
      BY <1>11, <2>1, <1>1, AsideUnseen, ReturnAside DEF ReturnToPending, ReturnCancelled
    <2>2. CASE job[j].token # "cancelled"
      <3>1. PICK t : job' = [job EXCEPT ![j] = [@ EXCEPT !.phase = "handed", !.token = t]]
        BY <1>11, <2>2 DEF ReturnToPending
      <3> QED BY <1>11, <3>1, <1>1, AsideUnseen DEF ReturnToPending
    <2> QED BY <2>1, <2>2
  <1>12. CASE HandOff(j)
    <2>1. Aside(j)
      BY <1>12, ReturnAside DEF HandOff, ReturnCancelled
    <2> QED BY <2>1, <1>1, AsideUnseen
  <1>13. CASE Panic(j)
    BY <1>13, <1>1, AsideUnseen, ReturnAside DEF Panic
  <1>14. CASE Seal(j)
    BY <1>14, <1>1, AsideUnseen DEF Seal
  <1> QED BY <1>2, <1>3, <1>4, <1>5, <1>6, <1>7, <1>8, <1>9, <1>10, <1>11, <1>12, <1>13, <1>14 DEF Worker

(* So are the callers who do not take a job out of its queue. *)
LEMMA CallerUnseen ==
  ASSUME JobType, NEW j \in Jobs,
         \/ SignalCancel(j) \/ Recycle(j)
         \/ ResolveCancel(j) /\ job[j].phase # "queued"
         \/ CancelBeforeExecution(j) /\ ~(job[j].token = "pending" /\ job[j].phase = "queued")
  PROVE  Unseen
  <1>1. act' = act /\ pool' = pool /\ ahead' = ahead /\ sched' = sched
    BY DEF SignalCancel, Recycle, ResolveCancel, CancelBeforeExecution, WorkerOnly
  <1>2. CASE Recycle(j)
    BY <1>1, <1>2, AsideUnseen DEF Recycle, FreshJob, JobType, JobState, Aside
  <1>3. ASSUME NEW c, NEW t, job' = [job EXCEPT ![j] = [@ EXCEPT !.cancel = c, !.token = t]]
        PROVE  Unseen
    <2> DEFINE r == [job[j] EXCEPT !.cancel = c, !.token = t]
    <2>1. /\ r.phase = job[j].phase /\ r.aged = job[j].aged /\ r.forced = job[j].forced
          /\ r.backoff = job[j].backoff
      BY DEF JobType, JobState
    <2> HIDE DEF r
    <2> QED BY <1>1, <1>3, <2>1, PutUnseen DEF r
  <1>4. CASE SignalCancel(j)
    BY <1>3, <1>4 DEF SignalCancel
  <1>5. CASE ResolveCancel(j) /\ job[j].phase # "queued"
    <2> DEFINE c == Outcome(job[j].cancel)
               r == [job[j] EXCEPT !.cancel = c]
    <2>1. job' = [job EXCEPT ![j] = r]
      BY <1>5 DEF ResolveCancel
    <2>2. /\ r.phase = job[j].phase /\ r.aged = job[j].aged /\ r.forced = job[j].forced
          /\ r.backoff = job[j].backoff
      BY DEF JobType, JobState
    <2> QED BY <1>1, <2>1, <2>2, PutUnseen
  <1>6. CASE CancelBeforeExecution(j) /\ ~(job[j].token = "pending" /\ job[j].phase = "queued")
    BY <1>3, <1>6 DEF CancelBeforeExecution
  <1> QED BY <1>2, <1>4, <1>5, <1>6

(* Time raises no event. *)
LEMMA ClockUnseen ==
  ASSUME JobType, NEW j \in Jobs, Age(j) \/ Stick(j)
  PROVE  Unseen
  <1>0. job[j] \in JobState /\ act' = act /\ pool' = pool /\ ahead' = ahead /\ sched' = sched
    BY DEF Age, Stick, WorkerOnly, JobType
  <1>1. CASE Age(j)
    <2> DEFINE r == [job[j] EXCEPT !.aged = TRUE]
    <2>1. job' = [job EXCEPT ![j] = r]
      BY <1>1 DEF Age
    <2>2. r.phase = job[j].phase /\ r.aged = TRUE /\ r.forced = job[j].forced /\ r.backoff = job[j].backoff
      BY <1>0 DEF JobState
    <2> QED BY <1>0, <2>1, <2>2, PutUnseen
  <1>2. CASE Stick(j)
    <2> DEFINE r == [job[j] EXCEPT !.stuck = TRUE]
    <2>1. job' = [job EXCEPT ![j] = r]
      BY <1>2 DEF Stick
    <2>2. r.phase = job[j].phase /\ r.aged = job[j].aged /\ r.forced = job[j].forced /\ r.backoff = job[j].backoff
      BY <1>0 DEF JobState
    <2> QED BY <1>0, <2>1, <2>2, PutUnseen
  <1> QED BY <1>1, <1>2

(* A queue holds one drain of each kind, so there is none to collapse twice. *)
LEMMA NoDuplicates ==
  ASSUME QueueInv, LineInv, QueueType, NEW j \in Jobs
  PROVE  Duplicates(j) = {}
  BY DEF QueueInv, NoDuplicateDrains, Duplicates, Queued, LineInv

(* A refused submission queues nobody. *)
LEMMA RefusedUnseen ==
  ASSUME JobType, QueueType, QueueInv, LineInv, NEW j \in Jobs, NEW seen,
         SubmitRefused(j, seen) \/ SubmitBackpressure(j, seen)
  PROVE  Unseen
  <1>1. act' = act /\ pool' = pool /\ sched' = sched /\ job[j].phase = "idle"
    BY DEF SubmitRefused, SubmitBackpressure
  <1>2. ahead' = ahead
    <2>1. Without(ahead, {}) = ahead
      BY DEF Without, QueueType
    <2> QED BY <2>1, NoDuplicates DEF SubmitRefused, SubmitBackpressure
  <1>3. PICK ans : job' = SettleAll({j}, ans)
    BY NoDuplicates DEF SubmitRefused, SubmitBackpressure
  <1>4. Aside(j)
    BY <1>1, <1>3 DEF Aside, SettleAll, Settled, FreshJob, JobType, JobState
  <1> QED BY <1>1, <1>2, <1>4, AsideUnseen

(* The lifecycle of a root's directory and the detached publishers are       *)
(* unseen.                                                                   *)
LEMMA RootUnseen ==
  ASSUME NEW a,
         \/ MarkUnbound(a) \/ MarkBound(a) \/ DeleteRoot(a)
         \/ PublisherParks(a) \/ PublisherEnters(a) \/ PublisherLeaves(a) \/ UNCHANGED vars
  PROVE  Unseen
  <1>1. act' = act /\ pool' = pool /\ ahead' = ahead /\ sched' = sched /\ job' = job
    BY DEF MarkUnbound, MarkBound, DeleteRoot, PublisherParks, PublisherEnters, PublisherLeaves, vars
  <1> QED BY <1>1 DEF Unseen, SameView, SameLines

-----------------------------------------------------------------------------
(* The order covers the registered roots as long as no root is added. *)
LEMMA CoverSame ==
  ASSUME CoverInv, sched'.order = sched.order,
         \A a \in Actors : act'[a].registered => act[a].registered
  PROVE  CoverInv'
  BY DEF CoverInv

(* A wake with no new retry time is an alerting step. *)
LEMMA WokenAlerting ==
  ASSUME SchedType, Free, Wake,
         \A k \in Jobs : job'[k].phase = "queued" /\ job'[k].backoff # "none" =>
                           job[k].phase = "queued" /\ job[k].backoff # "none"
  PROVE  Alerting /\ sched'.order = sched.order
  BY DEF SchedType, SchedState, Wake, Alerting, Free

(* A queued submission wakes the scheduler. *)
LEMMA QueuedWakes ==
  ASSUME WakeInv, TypeInv, QueueInv, NEW j \in Jobs, NEW seen, SubmitQueued(j, seen)
  PROVE  WakeInv'
  <1> USE DEF TypeInv
  <1>0. Duplicates(j) = {} /\ LineInv /\ CoverInv
    BY NoDuplicates DEF WakeInv
  <1>1. job[j].phase = "idle" /\ Free /\ Wake
    BY DEF SubmitQueued
  <1>2. job'[j] = Fresh(j) /\ \A k \in Jobs \ {j} : job'[k] = job[k]
    BY <1>0 DEF SubmitQueued, SettleAll, JobType
  <1>3. Fresh(j).phase = "queued" /\ Fresh(j).backoff = "none"
    BY DEF Fresh, FreshJob
  <1>4. ahead' = [ahead EXCEPT ![j] = Queued(Root(j), Class(j))]
    <2>1. Without(ahead, {}) = ahead
      BY DEF Without, QueueType
    <2> QED BY <1>0, <2>1 DEF SubmitQueued
  <1>5. LineInv'
    BY <1>0, <1>1, <1>2, <1>3, <1>4, LineJoins
  <1>6. Alerting /\ sched'.order = sched.order
    BY <1>1, <1>2, <1>3, WokenAlerting
  <1>7. CoverInv'
    <2>1. \A a \in Actors : act'[a].registered = act[a].registered
      BY DEF SubmitQueued, ActType, ActorCounters
    <2> QED BY <1>0, <1>6, <2>1, CoverSame
  <1> QED BY <1>5, <1>6, <1>7, AlertingKeeps

(* Taking a job out of its queue wakes it, for whoever stood behind. *)
LEMMA RemovedWakes ==
  ASSUME WakeInv, TypeInv, NEW j \in Jobs, NEW outcome, RemoveQueued(j, outcome), Free
  PROVE  WakeInv'
  <1> USE DEF TypeInv
  <1>0. LineInv /\ CoverInv /\ Wake /\ ahead' = Without(ahead, {j})
    BY DEF WakeInv, RemoveQueued
  <1>1. job'[j].phase = "settled" /\ \A k \in Jobs \ {j} : job'[k] = job[k]
    BY DEF RemoveQueued, JobType, Settled, FreshJob
  <1>2. LineInv'
    BY <1>0, <1>1, LineLeaves
  <1>3. Alerting /\ sched'.order = sched.order
    BY <1>0, <1>1, WokenAlerting
  <1>4. CoverInv'
    <2>1. \A a \in Actors : act'[a].registered = act[a].registered
      BY DEF RemoveQueued, SyncDemand, ActType, ActorCounters
    <2> QED BY <1>0, <1>3, <2>1, CoverSame
  <1> QED BY <1>2, <1>3, <1>4, AlertingKeeps

(* A new root goes into the order and wakes it. *)
LEMMA RegisterWakes ==
  ASSUME WakeInv, TypeInv, NEW a \in Actors, Register(a)
  PROVE  WakeInv'
  <1> USE DEF TypeInv
  <1>1. /\ LineInv /\ CoverInv /\ Free /\ job' = job /\ ahead' = ahead
        /\ sched' = [sched EXCEPT !.order = Append(@, a), !.wake = TRUE]
        /\ act' = [act EXCEPT ![a] = FreshActor(act[a].inc + 1)]
    BY DEF WakeInv, Register
  <1>2. /\ sched.order \in Seq(Actors) /\ sched.pc = "idle"
        /\ sched'.pc = sched.pc /\ sched'.timer = sched.timer /\ sched'.wake = TRUE
        /\ sched'.order = Append(sched.order, a)
    BY <1>1 DEF SchedType, SchedState, Free
  <1>3. LineInv'
    BY <1>1, LineSame
  <1>4. Alerting
    BY <1>1, <1>2 DEF Alerting, Free
  <1>5. CoverInv'
    <2> SUFFICES ASSUME NEW b \in Actors, act'[b].registered
                 PROVE  \E i \in 1..Len(sched'.order) : sched'.order[i] = b
      BY DEF CoverInv
    <2>0. Len(sched'.order) = Len(sched.order) + 1 /\ Len(sched.order) \in Nat
      BY <1>2
    <2>1. CASE b = a
      <3>1. sched'.order[Len(sched.order) + 1] = a
        BY <1>2
      <3> QED BY <3>1, <2>0, <2>1
    <2>2. CASE b # a
      <3>1. act[b].registered
        BY <1>1, <2>2 DEF ActType
      <3>2. PICK i \in 1..Len(sched.order) : sched.order[i] = b
        BY <1>1, <3>1 DEF CoverInv
      <3>3. sched'.order[i] = b /\ i \in 1..Len(sched'.order)
        BY <1>2, <2>0, <3>2
      <3> QED BY <3>3
    <2> QED BY <2>1, <2>2
  <1> QED BY <1>3, <1>4, <1>5, AlertingKeeps

(* Concatenation, entry by entry. *)
LEMMA Joined ==
  ASSUME NEW t \in Seq(Actors), NEW u \in Seq(Actors)
  PROVE  /\ Len(t \o u) = Len(t) + Len(u)
         /\ \A m \in 1..Len(t) : (t \o u)[m] = t[m]
         /\ \A m \in (Len(t) + 1)..(Len(t) + Len(u)) : (t \o u)[m] = u[m - Len(t)]
  OBVIOUS

(* Cutting one entry out of a sequence keeps the others. *)
LEMMA CutOut ==
  ASSUME NEW s \in Seq(Actors), NEW i \in 1..Len(s), NEW k \in 1..Len(s), k # i
  PROVE  \E m \in 1..Len(SubSeq(s, 1, i - 1) \o SubSeq(s, i + 1, Len(s))) :
           (SubSeq(s, 1, i - 1) \o SubSeq(s, i + 1, Len(s)))[m] = s[k]
  <1> DEFINE t == SubSeq(s, 1, i - 1)
             u == SubSeq(s, i + 1, Len(s))
  <1>0. Len(s) \in Nat
    OBVIOUS
  <1>1. t \in Seq(Actors) /\ Len(t) = i - 1 /\ \A m \in 1..(i - 1) : t[m] = s[m]
    BY <1>0
  <1>2. u \in Seq(Actors) /\ Len(u) = Len(s) - i /\ \A m \in 1..(Len(s) - i) : u[m] = s[i + m]
    BY <1>0
  <1> HIDE DEF t, u
  <1>3. Len(t \o u) = Len(s) - 1
    <2>1. Len(t \o u) = Len(t) + Len(u)
      BY <1>1, <1>2, Joined
    <2>2. (i - 1) + (Len(s) - i) = Len(s) - 1
      BY <1>0
    <2> QED BY <2>1, <2>2, <1>1, <1>2
  <1>4. CASE k < i
    <2>1. (t \o u)[k] = s[k] /\ k \in 1..(Len(s) - 1)
      BY <1>0, <1>1, <1>2, <1>4
    <2> QED BY <2>1, <1>3 DEF t, u
  <1>5. CASE k > i
    <2>1. (t \o u)[k - 1] = u[k - i]
      BY <1>0, <1>1, <1>2, <1>5
    <2>2. u[k - i] = s[k]
      <3>1. k - i \in 1..(Len(s) - i) /\ i + (k - i) = k
        BY <1>0, <1>5
      <3> QED BY <3>1, <1>2
    <2>3. k - 1 \in 1..(Len(s) - 1)
      BY <1>0, <1>5
    <2> QED BY <2>1, <2>2, <2>3, <1>3 DEF t, u
  <1>6. k < i \/ k > i
    BY <1>0
  <1> QED BY <1>4, <1>5, <1>6

(* A dropped root leaves the order, and only it; its jobs leave with it. *)
LEMMA DropWakes ==
  ASSUME WakeInv, TypeInv, NEW a \in Actors, NEW ans, Free, Drop(a, ans)
  PROVE  WakeInv'
  <1> USE DEF TypeInv
  <1> DEFINE gone == Queued(a, "Interactive") \cup Queued(a, "Maintenance")
  <1>0. LineInv /\ CoverInv
    BY DEF WakeInv
  <1>1. /\ job' = SettleAll(gone, ans) /\ ahead' = Without(ahead, gone)
        /\ act' = [act EXCEPT ![a] = [FreshActor(act[a].inc) EXCEPT !.registered = FALSE]]
    BY DEF Drop
  <1>2. PICK i \in 1..Len(sched.order) :
          /\ sched.order[i] = a
          /\ sched' = [sched EXCEPT !.wake = TRUE,
                        !.order = SubSeq(@, 1, i - 1) \o SubSeq(@, i + 1, Len(@))]
    BY DEF Drop
  <1>3. /\ sched.order \in Seq(Actors) /\ sched.pc = "idle"
        /\ sched'.pc = sched.pc /\ sched'.timer = sched.timer /\ sched'.wake = TRUE
        /\ sched'.order = SubSeq(sched.order, 1, i - 1) \o SubSeq(sched.order, i + 1, Len(sched.order))
    BY <1>2 DEF SchedType, SchedState, Free
  <1> HIDE DEF gone
  <1>4. \A k \in Jobs : IF k \in gone THEN job'[k].phase = "settled"
                        ELSE job'[k] = job[k]
    BY <1>1 DEF SettleAll, Settled, FreshJob
  <1>5. LineInv'
    BY <1>0, <1>1, <1>4, LineLeaves
  <1>6. Alerting
    BY <1>3, <1>4 DEF Alerting
  <1>7. CoverInv'
    <2> SUFFICES ASSUME NEW b \in Actors, act'[b].registered
                 PROVE  \E m \in 1..Len(sched'.order) : sched'.order[m] = b
      BY DEF CoverInv
    <2>1. b # a
      BY <1>1 DEF ActType, FreshActor
    <2>2. act[b].registered
      BY <1>1, <2>1 DEF ActType
    <2>3. PICK k \in 1..Len(sched.order) : sched.order[k] = b
      BY <1>0, <2>2 DEF CoverInv
    <2>4. k # i
      BY <1>2, <2>1, <2>3
    <2>5. \E m \in 1..Len(SubSeq(sched.order, 1, i - 1) \o SubSeq(sched.order, i + 1, Len(sched.order))) :
            (SubSeq(sched.order, 1, i - 1) \o SubSeq(sched.order, i + 1, Len(sched.order)))[m] = sched.order[k]
      BY <1>3, <2>4, CutOut
    <2> QED BY <1>3, <2>3, <2>5
  <1> QED BY <1>5, <1>6, <1>7, AlertingKeeps

(* Quiescing a root wakes the scheduler if it took a job from a queue. *)
LEMMA QuiesceWakes ==
  ASSUME WakeInv, TypeInv, NEW a \in Actors, Quiesce(a)
  PROVE  WakeInv'
  <1> USE DEF TypeInv
  <1> DEFINE gone == IF act[a].registered
                     THEN Queued(a, "Maintenance") \cup LaneQueue(a, "Interactive", "ProviderMetadata")
                     ELSE {}
  <1>0. LineInv /\ CoverInv
    BY DEF WakeInv
  <1>1. Free /\ Wake /\ ahead' = Without(ahead, gone) /\ act' = act
    BY DEF Quiesce
  <1>2. ASSUME NEW k \in Jobs
        PROVE  IF k \in gone THEN job'[k].phase = "settled"
               ELSE /\ job'[k].phase = job[k].phase
                    /\ job'[k].backoff = job[k].backoff
    <2>1. job[k] \in JobState
      BY DEF JobType
    <2>2. \/ k \in gone /\ job'[k] = [Settled(k, "cancelled") EXCEPT !.token =
                                        IF Lane(k) = "ProviderMetadata" THEN "cancelled" ELSE @]
          \/ k \notin gone /\ (job'[k] = [job[k] EXCEPT !.token = Signalled(job[k].token)] \/ job'[k] = job[k])
      BY DEF Quiesce
    <2> QED BY <2>1, <2>2 DEF Settled, FreshJob, JobState
  <1> HIDE DEF gone
  <1>3. LineInv'
    BY <1>0, <1>1, <1>2, LineLeaves
  <1>4. Alerting /\ sched'.order = sched.order
    BY <1>1, <1>2, WokenAlerting
  <1>5. CoverInv'
    BY <1>0, <1>1, <1>4, CoverSame
  <1> QED BY <1>3, <1>4, <1>5, AlertingKeeps

-----------------------------------------------------------------------------
(* A retry that falls due makes no offer by itself: the timer is overdue. *)
LEMMA RetryWakes ==
  ASSUME WakeInv, TypeInv, NEW j \in Jobs, RetryDue(j)
  PROVE  WakeInv'
  <1> USE DEF TypeInv
  <1>0. LineInv /\ CoverInv /\ TimerInv /\ Free
    BY DEF WakeInv, RetryDue
  <1>1. /\ act' = act /\ ahead' = ahead /\ sched' = sched
        /\ job[j].phase = "queued" /\ job[j].backoff = "waiting"
        /\ job' = [job EXCEPT ![j].backoff = "due"]
    BY DEF RetryDue, WorkerOnly
  <1>2. /\ job'[j].backoff = "due"
        /\ \A k \in Jobs : job'[k].phase = job[k].phase
    BY <1>1 DEF JobType, JobState
  <1>3. sched.timer
    BY <1>0, <1>1 DEF TimerInv, RetryPending, HasRetryTime
  <1>4. LineInv' /\ CoverInv'
    BY <1>0, <1>1, <1>2, LineSame DEF CoverInv
  <1>5. TimerInv' /\ RoundInv'
    BY <1>0, <1>1, <1>3 DEF TimerInv, Free, RoundInv, Passes
  <1>6. Overdue'
    BY <1>1, <1>2, <1>3 DEF Overdue
  <1> QED BY <1>4, <1>5, <1>6 DEF WakeInv, NothingLeftBehind

-----------------------------------------------------------------------------
(* A scheduler that is draining events is awake. *)
LEMMA DrainingKeeps ==
  ASSUME sched'.pc = "drain", LineInv', CoverInv'
  PROVE  WakeInv'
  BY DEF WakeInv, TimerInv, RoundInv, NothingLeftBehind, Asleep, Free, Passes

(* Taking a completion event puts it there. *)
LEMMA EventTaken ==
  ASSUME SchedType, NEW j, TakeEvent(j)
  PROVE  sched'.pc = "drain" /\ sched'.order = sched.order /\ job[j].phase = "returned"
  BY DEF SchedType, SchedState, TakeEvent, BeginTurn

(* A turn begins by draining. *)
LEMMA TurnBegins ==
  ASSUME WakeInv, TypeInv, WakeTurn \/ TimerTurn
  PROVE  WakeInv'
  <1> USE DEF TypeInv
  <1>1. job' = job /\ ahead' = ahead /\ act' = act /\ LineInv /\ CoverInv
    BY DEF WakeTurn, TimerTurn, WakeInv
  <1>2. sched'.pc = "drain" /\ sched'.order = sched.order
    BY DEF WakeTurn, TimerTurn, BeginTurn, SchedType, SchedState
  <1>3. LineInv' /\ CoverInv'
    BY <1>1, <1>2, LineSame, CoverSame
  <1> QED BY <1>2, <1>3, DrainingKeeps

(* Freeing a job's slots leaves its root registered. *)
LEMMA FreedRegistered ==
  ASSUME NEW r \in ActorCounters, NEW j, NEW f, NEW d
  PROVE  /\ [Freed(r, j) EXCEPT !.fatal = f, !.demand = d].registered = r.registered
         /\ [Freed(r, j) EXCEPT !.demand = d].registered = r.registered
  BY DEF Freed, ActorCounters

(* Completions are processed in a turn. *)
LEMMA CompleteWakes ==
  ASSUME WakeInv, TypeInv, NEW j \in Jobs, Complete(j)
  PROVE  WakeInv'
  <1> USE DEF TypeInv
  <1> DEFINE a == Root(j)
             dies == act[a].registered /\ job[j].end = "panic" /\ Lane(j) = "Mutating"
             failed == IF dies THEN Failed(a) ELSE {}
  <1>0. LineInv /\ CoverInv /\ a \in Actors
    BY JobsTyped DEF WakeInv
  <1>1. sched'.pc = "drain" /\ sched'.order = sched.order /\ job[j].phase = "returned"
    BY EventTaken DEF Complete
  <1>2. /\ job' = [SettleAll(failed, "fatal") EXCEPT ![j] = Settled(j, job[j].answer)]
        /\ ahead' = Without(ahead, failed)
    BY DEF Complete
  <1>3. j \notin failed
    BY <1>1 DEF Failed, Queued
  <1>4. CoverInv'
    <2>1. \A b \in Actors : act'[b].registered = act[b].registered
      <3> DEFINE f == Freed(act[a], j).fatal \/ dies
                 d == IF dies THEN 0 ELSE Freed(act[a], j).demand
      <3>1. Freed(act[a], j) \in ActorCounters /\ act[a] \in ActorCounters
        BY <1>0, FreedTyped DEF ActType
      <3>2. act' = act \/ act' = [act EXCEPT ![a] = [Freed(act[a], j) EXCEPT !.fatal = f, !.demand = d]]
        BY DEF Complete
      <3>3. [Freed(act[a], j) EXCEPT !.fatal = f, !.demand = d].registered = act[a].registered
        BY <3>1, FreedRegistered
      <3> HIDE DEF a, f, d
      <3> QED BY <1>0, <3>2, <3>3 DEF ActType
    <2> QED BY <1>0, <1>1, <2>1, CoverSame
  <1> HIDE DEF failed
  <1>5. \A k \in Jobs : IF k \in failed \cup {j} THEN job'[k].phase = "settled"
                        ELSE job'[k] = job[k]
    BY <1>2 DEF SettleAll, Settled, FreshJob
  <1>6. LineInv'
    BY <1>0, <1>1, <1>2, <1>3, <1>5, LineLeaves
  <1> QED BY <1>1, <1>4, <1>6, DrainingKeeps

(* A requeued bind joins in a turn, at the front or the back. *)
LEMMA RequeueWakes ==
  ASSUME WakeInv, TypeInv, JobsOK, NEW j \in Jobs, CompleteRequeue(j)
  PROVE  WakeInv'
  <1> USE DEF TypeInv
  <1> DEFINE a == Root(j)
  <1>0. LineInv /\ CoverInv /\ a \in Actors
    BY JobsTyped DEF WakeInv
  <1>1. sched'.pc = "drain" /\ sched'.order = sched.order /\ job[j].phase = "returned"
    BY EventTaken DEF CompleteRequeue
  <1>2. Class(j) = "Interactive"
    BY DEF CompleteRequeue, JobsOK, JobOK, EndOK, Back, Repeatable, IsBind
  <1>3. CoverInv'
    <2>1. \A b \in Actors : act'[b].registered = act[b].registered
      <3>1. act[a] \in ActorCounters
        BY <1>0 DEF ActType
      <3>2. act' = act \/ \E d : act' = [act EXCEPT ![a] = [Freed(act[a], j) EXCEPT !.demand = d]]
        BY DEF CompleteRequeue
      <3>3. \A d : [Freed(act[a], j) EXCEPT !.demand = d].registered = act[a].registered
        BY <3>1, FreedRegistered
      <3> QED BY <1>0, <3>2, <3>3 DEF ActType
    <2> QED BY <1>0, <1>1, <2>1, CoverSame
  <1>4. \A k \in Jobs \ {j} : job'[k] = job[k]
    BY DEF CompleteRequeue, JobType
  <1>5. CASE Requeues(j)
    <2>1. job'[j].phase = "queued"
      BY <1>5 DEF CompleteRequeue, JobType, JobState
    <2>2. ahead' = [k \in Jobs |-> IF k \in Queued(Root(j), "Interactive") THEN ahead[k] \cup {j}
                                   ELSE ahead[k]]
      BY <1>5 DEF CompleteRequeue
    <2>3. LineInv'
      BY <1>0, <1>1, <1>2, <1>4, <2>1, <2>2, LineFronts
    <2> QED BY <1>1, <1>3, <2>3, DrainingKeeps
  <1>6. CASE ~Requeues(j)
    <2>1. job'[j].phase = "settled"
      BY <1>6 DEF CompleteRequeue, JobType, Settled, FreshJob
    <2>2. ahead' = ahead
      BY <1>6 DEF CompleteRequeue, QueueType
    <2>3. LineInv'
      BY <1>0, <1>1, <1>4, <2>1, <2>2, LineSame
    <2> QED BY <1>1, <1>3, <2>3, DrainingKeeps
  <1> QED BY <1>5, <1>6

-----------------------------------------------------------------------------
(* Only registered roots have offers. *)
LEMMA OfferRegistered ==
  ASSUME NEW a, NEW pass, Offer(a, pass) # {}
  PROVE  act[a].registered
  BY CandidateQueued DEF Offer, Admits

(* Without an idle worker no pass can dispatch. *)
LEMMA NoWorkerSpent ==
  ASSUME PoolType, ~(pool.idle > 0), NEW pass \in Passes
  PROVE  Spent(pass)
  BY DispatchNeedsWorker DEF Spent, PoolType, PoolCounters

(* Without a root there is nobody to offer. *)
LEMMA NoRootSpent ==
  ASSUME JobType, CoverInv, sched.order = <<>>, NEW pass
  PROVE  Spent(pass)
  <1>1. \A a \in Actors : Offer(a, pass) = {}
    BY OfferRegistered DEF CoverInv
  <1> QED BY <1>1, NoOfferRests DEF Spent

(* The scheduler sleeps only when every pass is spent, and sets the timer. *)
LEMMA EndTurnWakes ==
  ASSUME WakeInv, TypeInv, NEW c, EndTurn(c), \A q \in Passes : Spent(q)
  PROVE  WakeInv'
  <1> USE DEF TypeInv
  <1>0. LineInv /\ CoverInv
    BY DEF WakeInv
  <1>1. act' = act /\ pool' = pool /\ ahead' = ahead
    BY DEF EndTurn
  <1>2. sched'.pc = "idle" /\ sched'.timer = RetryPending /\ sched'.order = sched.order
    BY DEF EndTurn, SchedType, SchedState
  <1>3. ASSUME NEW k \in Jobs
        PROVE  /\ job'[k].phase = job[k].phase
               /\ job'[k].forced = job[k].forced /\ job'[k].aged = job[k].aged
               /\ job'[k].backoff = "waiting" <=> job[k].backoff = "waiting"
               /\ job'[k].backoff = "none" <=> job[k].backoff = "none"
    <2>1. job[k] \in JobState
      BY DEF JobType
    <2>2. job'[k] = job[k] \/ (job[k].backoff = "due" /\ job'[k] = [job[k] EXCEPT !.backoff = "offered"])
      BY DEF EndTurn
    <2> QED BY <2>1, <2>2 DEF JobState
  <1>4. SameView
    BY <1>1, <1>3 DEF SameView, SameLines
  <1>5. LineInv' /\ CoverInv'
    BY <1>0, <1>1, <1>2, <1>3, LineSame, CoverSame
  <1>6. TimerInv'
    BY <1>2, <1>3 DEF TimerInv, RetryPending, HasRetryTime
  <1>7. RoundInv'
    BY <1>2 DEF RoundInv, Passes
  <1>8. NothingLeftBehind'
    BY <1>0, <1>4, <1>5, SpentKept DEF NothingLeftBehind, Spent
  <1> QED BY <1>5, <1>6, <1>7, <1>8 DEF WakeInv

(* A pass is entered with the whole lap before it. *)
LEMMA GoToWakes ==
  ASSUME WakeInv, TypeInv, NEW c, NEW p \in Passes, GoTo(p, c),
         p # "bind" /\ ~sched.progress => \A q \in Before(p) : Spent(q)
  PROVE  WakeInv'
  <1> USE DEF TypeInv
  <1>0. LineInv /\ CoverInv
    BY DEF WakeInv
  <1>1. act' = act /\ pool' = pool /\ ahead' = ahead /\ job' = job
    BY DEF GoTo
  <1>2. /\ sched'.pc = p /\ sched'.order = sched.order /\ sched'.left = Len(sched.order)
        /\ sched'.progress = (sched.progress /\ p # "bind")
    BY DEF GoTo, SchedType, SchedState
  <1>3. SameView
    BY <1>1 DEF SameView, SameLines
  <1>4. LineInv' /\ CoverInv'
    BY <1>0, <1>1, <1>2, LineSame, CoverSame
  <1>5. RoundInv'
    <2>1. ASSUME ~sched'.progress, NEW q \in Before(p) PROVE Spent(q)'
      <3>1. Spent(q)
        BY <1>2, <2>1 DEF Before
      <3> QED BY <1>0, <1>3, <1>4, <3>1, SpentKept
    <2> QED BY <1>2, <2>1 DEF RoundInv, Before
  <1>6. TimerInv' /\ NothingLeftBehind'
    BY <1>2 DEF TimerInv, NothingLeftBehind, Asleep, Free, Passes
  <1> QED BY <1>4, <1>5, <1>6 DEF WakeInv

(* A round begins, or nothing is left that could. *)
LEMMA NextRoundWakes ==
  ASSUME WakeInv, TypeInv, NEW c, NextRound(c)
  PROVE  WakeInv'
  <1>1. CASE pool.idle > 0 /\ sched.order # <<>>
    BY <1>1, GoToWakes DEF NextRound, Passes
  <1>2. CASE ~(pool.idle > 0 /\ sched.order # <<>>)
    <2>1. \A q \in Passes : Spent(q)
      BY <1>2, NoWorkerSpent, NoRootSpent DEF TypeInv, WakeInv
    <2> QED BY <1>2, <2>1, EndTurnWakes DEF NextRound
  <1> QED BY <1>1, <1>2

(* A pass is left for the next one, or for another round after progress. *)
LEMMA LeavePassWakes ==
  ASSUME WakeInv, TypeInv, NEW c, sched.pc \in Passes, LeavePass(c), sched.progress \/ Spent(sched.pc)
  PROVE  WakeInv'
  <1>0. ~sched.progress => \A q \in Before(sched.pc) \cup {sched.pc} : Spent(q)
    BY DEF WakeInv, RoundInv
  <1>1. CASE sched.pc # "maintenance" /\ pool.idle > 0
    <2>1. /\ Following[sched.pc] \in Passes
          /\ Before(Following[sched.pc]) = Before(sched.pc) \cup {sched.pc}
      BY <1>1 DEF Following, Before, Passes
    <2>2. GoTo(Following[sched.pc], c)
      BY <1>1 DEF LeavePass
    <2> HIDE DEF Following
    <2> QED BY <1>0, <2>1, <2>2, GoToWakes
  <1>2. CASE sched.pc # "maintenance" /\ ~(pool.idle > 0)
    <2>1. EndTurn(c)
      BY <1>2 DEF LeavePass
    <2> QED BY <1>2, <2>1, NoWorkerSpent, EndTurnWakes DEF TypeInv
  <1>3. CASE sched.pc = "maintenance" /\ sched.progress
    BY <1>3, NextRoundWakes DEF LeavePass
  <1>4. CASE sched.pc = "maintenance" /\ ~sched.progress
    <2>1. Before(sched.pc) \cup {sched.pc} = Passes
      BY <1>4 DEF Before, Passes
    <2>2. EndTurn(c)
      BY <1>4 DEF LeavePass
    <2> QED BY <1>0, <1>4, <2>1, <2>2, EndTurnWakes
  <1> QED BY <1>1, <1>2, <1>3, <1>4

(* An admission is progress: the round will be repeated. *)
LEMMA LaunchWakes ==
  ASSUME WakeInv, TypeInv, NEW a, NEW pass \in Passes, NEW j \in Offer(a, pass), Launch(j, pass),
         sched'.pc = sched.pc, sched.pc \in Passes, sched'.progress, sched'.order = sched.order
  PROVE  WakeInv'
  <1> USE DEF TypeInv
  <1>0. LineInv /\ CoverInv
    BY DEF WakeInv
  <1>1. j \in Jobs /\ job[j].phase = "queued" /\ Root(j) \in Actors
    BY OfferFacts, JobsTyped
  <1>2. ahead' = Without(ahead, {j})
    BY DEF Launch
  <1>3. /\ job'[j].phase = "dispatched"
        /\ \A k \in Jobs \ {j} : job'[k] = job[k]
    BY <1>1 DEF Launch, JobType, JobState
  <1>4. LineInv'
    BY <1>0, <1>1, <1>2, <1>3, LineLeaves
  <1>5. CoverInv'
    <2>1. \A b \in Actors : act'[b].registered = act[b].registered
      BY <1>1 DEF Launch, Occupied, ActType, ActorCounters
    <2> QED BY <1>0, <2>1, CoverSame
  <1>6. TimerInv' /\ RoundInv' /\ NothingLeftBehind'
    BY DEF TimerInv, RoundInv, NothingLeftBehind, Asleep, Free, Passes
  <1> QED BY <1>4, <1>5, <1>6 DEF WakeInv

(* A lap from anywhere meets every place of the ring. *)
LEMMA RingArithmetic ==
  ASSUME NEW n \in Nat, n > 0, NEW c \in 0..(n - 1), NEW i \in 1..n
  PROVE  \E k \in 0..(n - 1) : ((c + k) % n) + 1 = i
  <1>1. CASE i - 1 >= c
    <2>1. (i - 1) - c \in 0..(n - 1) /\ c + ((i - 1) - c) = i - 1
      BY <1>1
    <2>2. (i - 1) % n = i - 1
      OBVIOUS
    <2>3. ((c + ((i - 1) - c)) % n) + 1 = i
      BY <2>1, <2>2
    <2> QED BY <2>1, <2>3
  <1>2. CASE i - 1 < c
    <2>1. ((i - 1) - c) + n \in 0..(n - 1) /\ c + (((i - 1) - c) + n) = (i - 1) + n
      BY <1>2
    <2>2. ((i - 1) + n) % n = i - 1
      OBVIOUS
    <2>3. ((c + (((i - 1) - c) + n)) % n) + 1 = i
      BY <2>1, <2>2
    <2> QED BY <2>1, <2>3
  <1> QED BY <1>1, <1>2

(* A lap that found no offer has asked every registered root. *)
LEMMA LapSpent ==
  ASSUME TypeInv, CoverInv, sched.pc \in Passes, sched.left = Len(sched.order),
         {k \in 0 .. sched.left - 1 : Offer(ActorAt(k), sched.pc) # {}} = {}
  PROVE  Spent(sched.pc)
  <1>0. sched.order \in Seq(Actors) /\ sched.order # <<>> /\ sched.cursor \in Nat
    BY DEF TypeInv, SchedType, SchedState
  <1>1. Len(sched.order) \in Nat /\ Len(sched.order) > 0
    BY <1>0
  <1>2. Cursor \in 0..(Len(sched.order) - 1)
    <2> DEFINE n == Len(sched.order)
    <2>1. sched.cursor % n \in 0..(n - 1)
      <3> HIDE DEF n
      <3>1. n \in Nat /\ n > 0
        BY <1>1 DEF n
      <3> QED BY <3>1, <1>0
    <2> QED BY <1>0, <1>1, <2>1 DEF Cursor
  <1>3. ASSUME NEW a \in Actors, Offer(a, sched.pc) # {} PROVE FALSE
    <2>1. PICK i \in 1..Len(sched.order) : sched.order[i] = a
      BY <1>3, OfferRegistered DEF CoverInv
    <2>2. PICK k \in 0..(Len(sched.order) - 1) : ((Cursor + k) % Len(sched.order)) + 1 = i
      BY <1>1, <1>2, RingArithmetic
    <2>3. ActorAt(k) = a
      BY <2>1, <2>2 DEF ActorAt, After
    <2> QED BY <1>3, <2>2, <2>3
  <1> QED BY <1>3, NoOfferRests DEF Spent, TypeInv

(* The bind pass takes the oldest bind of all roots, or has none to take. *)
LEMMA BindPassWakes ==
  ASSUME WakeInv, TypeInv, BindPass
  PROVE  WakeInv'
  <1>0. sched.pc = "bind" /\ sched.pc \in Passes
    BY DEF BindPass, Passes
  <1>1. CASE CanDispatch("bind") /\ BindRoots # {}
    <2>0. PICK a \in BindRoots : \E j \in Offer(a, "bind") :
            Launch(j, "bind") /\ sched' = [sched EXCEPT !.progress = TRUE]
      BY <1>1 DEF BindPass
    <2>1. PICK j \in Offer(a, "bind") :
            Launch(j, "bind") /\ sched' = [sched EXCEPT !.progress = TRUE]
      BY <2>0
    <2>2. sched'.pc = sched.pc /\ sched'.progress /\ sched'.order = sched.order
      BY <2>1 DEF TypeInv, SchedType, SchedState
    <2> QED BY <1>0, <2>1, <2>2, LaunchWakes
  <1>2. CASE ~(CanDispatch("bind") /\ BindRoots # {})
    <2>1. Spent("bind")
      BY <1>2, NoOfferRests DEF Spent, BindRoots, TypeInv
    <2>2. LeavePass(sched.cursor)
      BY <1>2 DEF BindPass
    <2> QED BY <1>0, <2>1, <2>2, LeavePassWakes
  <1> QED BY <1>1, <1>2

(* The other passes stop at the first root with an offer, or have none. *)
LEMMA RingPassWakes ==
  ASSUME WakeInv, TypeInv, RingPass
  PROVE  WakeInv'
  <1> DEFINE pass == sched.pc
             offers == {k \in 0 .. sched.left - 1 : Offer(ActorAt(k), pass) # {}}
  <1>0. pass \in Passes /\ RoundInv /\ CoverInv
    BY DEF RingPass, WakeInv
  <1>1. CASE ~CanDispatch(pass) \/ sched.left = 0
    <2>1. LeavePass(sched.cursor)
      BY <1>1 DEF RingPass
    <2>2. sched.progress \/ Spent(pass)
      <3>1. CASE ~CanDispatch(pass)
        BY <3>1 DEF Spent
      <3>2. CASE sched.left = 0
        <4>1. Len(sched.order) # 0
          BY <1>0 DEF TypeInv, SchedType, SchedState
        <4> QED BY <1>0, <3>2, <4>1 DEF RoundInv
      <3> QED BY <1>1, <3>1, <3>2
    <2> QED BY <1>0, <2>1, <2>2, LeavePassWakes
  <1>2. CASE ~(~CanDispatch(pass) \/ sched.left = 0) /\ offers = {}
    <2>1. LeavePass(After(sched.left))
      BY <1>2 DEF RingPass
    <2>2. sched.progress \/ Spent(pass)
      BY <1>0, <1>2, LapSpent DEF RoundInv
    <2> QED BY <1>0, <2>1, <2>2, LeavePassWakes
  <1>3. CASE ~(~CanDispatch(pass) \/ sched.left = 0) /\ offers # {}
    <2>0. PICK k \in offers : \E j \in Offer(ActorAt(k), pass) :
            /\ Launch(j, pass)
            /\ sched' = [sched EXCEPT !.cursor = After(k + 1), !.left = @ - (k + 1), !.progress = TRUE]
      BY <1>3 DEF RingPass
    <2>1. PICK j \in Offer(ActorAt(k), pass) :
            /\ Launch(j, pass)
            /\ sched' = [sched EXCEPT !.cursor = After(k + 1), !.left = @ - (k + 1), !.progress = TRUE]
      BY <2>0
    <2>2. sched'.pc = sched.pc /\ sched'.progress /\ sched'.order = sched.order
      BY <2>1 DEF TypeInv, SchedType, SchedState
    <2> QED BY <1>0, <2>1, <2>2, LaunchWakes
  <1> QED BY <1>1, <1>2, <1>3

-----------------------------------------------------------------------------
(* Every step of the scheduler's thread. *)
LEMMA SchedulerWakes ==
  ASSUME WakeInv, TypeInv, JobsOK, Scheduler
  PROVE  WakeInv'
  BY TurnBegins, NextRoundWakes, BindPassWakes, RingPassWakes, CompleteWakes, RequeueWakes
     DEF Scheduler, BeginDispatch

(* Every step of the program. *)
LEMMA StepWakes ==
  ASSUME SafetyInv, WakeInv, [Next]_vars
  PROVE  WakeInv'
  <1>0. TypeInv /\ JobsOK /\ QueueInv /\ LineInv /\ JobType /\ QueueType
    BY DEF SafetyInv, PoolInv, WakeInv, TypeInv
  <1>1. CASE Scheduler
    BY <1>0, <1>1, SchedulerWakes
  <1>2. ASSUME NEW j \in Jobs, Worker(j) \/ Seal(j) \/ Panic(j) PROVE WakeInv'
    BY <1>0, <1>2, WorkerUnseen, UnseenKeeps
  <1>3. ASSUME NEW j \in Jobs, Caller(j) PROVE WakeInv'
    <2>1. ASSUME NEW seen, SubmitRefused(j, seen) \/ SubmitBackpressure(j, seen) PROVE WakeInv'
      BY <1>0, <2>1, RefusedUnseen, UnseenKeeps
    <2>2. ASSUME NEW seen, SubmitQueued(j, seen) PROVE WakeInv'
      BY <1>0, <2>2, QueuedWakes
    <2>3. CASE SignalCancel(j) \/ Recycle(j)
      BY <1>0, <2>3, CallerUnseen, UnseenKeeps
    <2>4. CASE ResolveCancel(j)
      <3>1. CASE job[j].phase = "queued"
        BY <1>0, <2>4, <3>1, RemovedWakes DEF ResolveCancel
      <3>2. CASE job[j].phase # "queued"
        BY <1>0, <2>4, <3>2, CallerUnseen, UnseenKeeps
      <3> QED BY <3>1, <3>2
    <2>5. CASE CancelBeforeExecution(j)
      <3>1. CASE job[j].token = "pending" /\ job[j].phase = "queued"
        BY <1>0, <2>5, <3>1, RemovedWakes DEF CancelBeforeExecution
      <3>2. CASE ~(job[j].token = "pending" /\ job[j].phase = "queued")
        BY <1>0, <2>5, <3>2, CallerUnseen, UnseenKeeps
      <3> QED BY <3>1, <3>2
    <2> QED BY <1>3, <2>1, <2>2, <2>3, <2>4, <2>5 DEF Caller
  <1>4. ASSUME NEW j \in Jobs, Age(j) \/ Stick(j) \/ RetryDue(j) PROVE WakeInv'
    BY <1>0, <1>4, ClockUnseen, UnseenKeeps, RetryWakes
  <1>5. ASSUME NEW a \in Actors, Register(a) \/ Quiesce(a) PROVE WakeInv'
    BY <1>0, <1>5, RegisterWakes, QuiesceWakes
  <1>6. ASSUME NEW a \in Actors, RemoveActor(a) \/ RetireIdleActor(a) PROVE WakeInv'
    BY <1>0, <1>6, DropWakes DEF RemoveActor, RetireIdleActor
  <1>7. ASSUME NEW a \in Actors,
               \/ MarkUnbound(a) \/ MarkBound(a) \/ DeleteRoot(a)
               \/ PublisherParks(a) \/ PublisherEnters(a) \/ PublisherLeaves(a)
        PROVE  WakeInv'
    BY <1>0, <1>7, RootUnseen, UnseenKeeps
  <1>8. CASE UNCHANGED vars
    <2>1. Unseen
      BY <1>0, <1>8, RootUnseen
    <2> QED BY <1>0, <2>1, UnseenKeeps
  <1> QED BY <1>1, <1>2, <1>3, <1>4, <1>5, <1>6, <1>7, <1>8 DEF Next

(* At the start nothing waits. *)
LEMMA InitWakes ==
  ASSUME Init
  PROVE  WakeInv
  <1>1. \A k \in Jobs : job[k].phase = "idle" /\ ahead[k] = {}
    BY DEF Init, FreshJob
  <1>2. LineInv
    BY <1>1 DEF LineInv
  <1>3. sched.pc = "idle" /\ sched.order = InitOrder
    BY DEF Init
  <1>4. CoverInv
    BY <1>3 DEF CoverInv, Init, FreshActor
  <1>5. TimerInv /\ RoundInv
    BY <1>1, <1>3 DEF TimerInv, RetryPending, HasRetryTime, RoundInv, Passes
  <1>5a. JobType
    BY DEF Init, FreshJob, JobType, JobState, Phases, RunPhases, Tokens, Answers, Outcomes
  <1>6. NothingLeftBehind
    <2>1. \A a, p : Offer(a, p) = {}
      BY <1>1, CandidateQueued DEF Offer
    <2> QED BY <1>5a, <2>1, NoOfferRests DEF NothingLeftBehind
  <1> QED BY <1>2, <1>4, <1>5, <1>6 DEF WakeInv

(* NothingLeftBehind: whenever the scheduler sleeps with no event on its     *)
(* way, no queued job of any root could be given a worker.  Every change     *)
(* that makes a job runnable is followed by an event (submission, completion,*)
(* removal from a queue, registration, retry time), and a turn ends only     *)
(* after a round in which every pass asked every root.  Only time raises no  *)
(* event: a writer that grows old, or readers that hang before it, change    *)
(* which of its two choices a root would be asked about next, and the one    *)
(* it was asked about was refused.                                           *)
THEOREM NothingForgotten == Spec => []NothingLeftBehind
  <1>1. Init => SafetyInv /\ WakeInv
    BY InitSafe, InitWakes
  <1>2. (SafetyInv /\ WakeInv) /\ [Next]_vars => (SafetyInv /\ WakeInv)'
    BY StepSafe, StepWakes
  <1>3. WakeInv => NothingLeftBehind
    BY DEF WakeInv
  <1> QED BY <1>1, <1>2, <1>3, PTL DEF Spec

(* A queue that is not empty, and a lane's part of it that is not empty, has *)
(* a first job: what NothingLeftBehind says of the job that a pass looks at  *)
(* is said of some job wherever one waits (ClassQueues' pop and front).      *)
QueueHasHead(a) ==
  \A c \in Classes :
    /\ Queued(a, c) # {} => First(Queued(a, c)) # {}
    /\ \A l \in Lanes : LaneQueue(a, c, l) # {} => First(LaneQueue(a, c, l)) # {}

(* Whatever was withdrawn from the middle or put back at the front.          *)
THEOREM QueuesHaveHeads == Spec => [](\A a \in Actors : QueueHasHead(a))
  <1>1. Init => SafetyInv /\ WakeInv
    BY InitSafe, InitWakes
  <1>2. (SafetyInv /\ WakeInv) /\ [Next]_vars => (SafetyInv /\ WakeInv)'
    BY StepSafe, StepWakes
  <1>3. SafetyInv /\ WakeInv => \A a \in Actors : QueueHasHead(a)
    <2> SUFFICES ASSUME SafetyInv, WakeInv, NEW a \in Actors, NEW c \in Classes
                 PROVE  /\ Queued(a, c) # {} => First(Queued(a, c)) # {}
                        /\ \A l \in Lanes : LaneQueue(a, c, l) # {} => First(LaneQueue(a, c, l)) # {}
      BY DEF QueueHasHead
    <2>1. QueueType /\ LineInv
      BY DEF SafetyInv, PoolInv, TypeInv, WakeInv
    <2>2. Queued(a, c) \in SUBSET Jobs /\ \A l \in Lanes : LaneQueue(a, c, l) \in SUBSET Jobs
      BY DEF Queued, LaneQueue
    <2> QED BY <2>1, <2>2, FirstExists
  <1> QED BY <1>1, <1>2, <1>3, PTL DEF Spec
=============================================================================
