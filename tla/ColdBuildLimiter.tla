-------------------------- MODULE ColdBuildLimiter --------------------------
(***************************************************************************)
(* The process-wide limiter of cold builds,                                *)
(* crates/aft/src/cold_build_limiter.rs: Limit slots, requests of three    *)
(* classes that take turns on the last free slot, oldest waiter first      *)
(* within a class, and one shared permit per root.                         *)
(*                                                                         *)
(* Every request is a thread that asks, holds its permit and asks again.   *)
(* A step is what the code does under one acquisition of `admission_state',*)
(* or one access to an atomic (`available', `waiting_by_class').  An       *)
(* attempt under the lock is two steps: between its look at `available'    *)
(* and its compare-and-swap a slot may be returned, or taken by an         *)
(* unclassified caller (try_acquire), who asks for the lock only after it  *)
(* has its slot.                                                           *)
(*                                                                         *)
(* A lease (the Arc all sharers of a permit hold) is named by the request  *)
(* that installed it.  Tickets and turn numbers only ever grow and are only*)
(* compared, so the queue and the turns are sequences in their order.      *)
(***************************************************************************)
EXTENDS Integers, Sequences, FiniteSets, SequencesExt

CONSTANTS
  Request,     \* threads that ask for a permit
  Blocking,    \* those that register a waiter and poll until admitted
  Class,       \* [Request -> Classes or Unclassified]
  Root,        \* the roots some requests name
  RootOf,      \* [Request -> Root or NoRoot]: the root whose permit it shares
  NoRoot,
  NoLease,
  Limit

Inspect == "inspect"
Maintenance == "maintenance"
Standing == "standing"
Classes == {Inspect, Maintenance, Standing}

(* The domain of the callers of try_acquire, who have neither a waiter nor a *)
(* root (the import of a legacy view by a configure).                        *)
Unclassified == "unclassified"

(* Only the blocking call passes a Standing request, and new() takes         *)
(* max(limit, 1).                                                            *)
ASSUME LimiterAssumption ==
  /\ IsFiniteSet(Request)
  /\ Blocking \subseteq Request
  /\ Class \in [Request -> Classes \cup {Unclassified}]
  /\ \A r \in Request : Class[r] = Standing => r \in Blocking
  /\ NoRoot \notin Root
  /\ RootOf \in [Request -> Root \cup {NoRoot}]
  /\ \A r \in Request : Class[r] = Unclassified => r \notin Blocking /\ RootOf[r] = NoRoot
  /\ NoLease \notin Request
  /\ Limit \in Nat \ {0}

VARIABLES
  available,   \* free slots (atomic)
  waiting,     \* waiting_by_class (atomics)
  queued,      \* registered waiters, oldest ticket first
  byRoot,      \* holders_by_root: the lease listed for a root
  ref,         \* the lease whose Arc each request holds, or is dropping
  turns,       \* class turns in order: the pending ones and the settled one
  seen,        \* `available' as the attempt under the lock loaded it
  pc,
  before,      \* ghost: the waiters a pending admission goes before
  passed       \* ghost: how often each waiter was passed on the last free slot,
               \* counted up to 2

ghost == <<before, passed>>
vars == <<available, waiting, queued, byRoot, ref, turns, seen, pc, before, passed>>

PCs == {"idle", "registering", "polling", "checked", "installing", "taken",
        "deciding", "settling", "removing", "returning", "exiting",
        "unqueueing", "holding"}

Classified == {r \in Request : Class[r] # Unclassified}

Turn == [req : Classified, settled : BOOLEAN]

TypeOK ==
  /\ available \in 0..Limit
  /\ waiting \in [Classes -> 0..Cardinality(Request)]
  /\ queued \in Seq(Request)
  /\ byRoot \in [Root -> Request \cup {NoLease}]
  /\ ref \in [Request -> Request \cup {NoLease}]
  /\ turns \in Seq(Turn)
  /\ seen \in 0..Limit
  /\ pc \in [Request -> PCs]
  /\ before \in [Request -> SUBSET Request]
  /\ passed \in [Request -> 0..2]

Init ==
  /\ available = Limit
  /\ waiting = [c \in Classes |-> 0]
  /\ queued = <<>>
  /\ byRoot = [x \in Root |-> NoLease]
  /\ ref = [r \in Request |-> NoLease]
  /\ turns = <<>>
  /\ seen = 0
  /\ pc = [r \in Request |-> "idle"]
  /\ before = [r \in Request |-> {}]
  /\ passed = [r \in Request |-> 0]

-----------------------------------------------------------------------------
Goto(r, p) == pc' = [pc EXCEPT ![r] = p]

(* An attempt keeps `admission_state' locked from its checks to the install. *)
Unlocked == \A r \in Request : pc[r] # "installing"

(* Weak::upgrade succeeds while some request holds the Arc: one that runs    *)
(* the lease's Drop no longer does.                                          *)
Sharers(l) == {r \in Request : ref[r] = l /\ pc[r] \notin {"removing", "returning"}}

HasNonStandingWaiters == waiting[Inspect] > 0 \/ waiting[Maintenance] > 0

HasWaiterFromAnotherClass(c) == \E d \in Classes \ {c} : waiting[d] > 0

LastAdmittedClassIs(c) == turns # <<>> /\ Class[Last(turns).req] = c

Queued(r) == r \in Range(queued)

OlderSameClass(r) ==
  {i \in DOMAIN queued : Class[queued[i]] = Class[r] /\ \A j \in 1..i : queued[j] # r}

(* Ghost: w no longer waits.                                                 *)
StopsWaiting(w) ==
  /\ before' = [q \in Request |-> before[q] \ {w}]
  /\ passed' = [passed EXCEPT ![w] = 0]

-----------------------------------------------------------------------------
(* AdmissionWaiter::register counts the waiter first and queues it under the *)
(* lock.                                                                     *)
RegisterCount(r) ==
  /\ r \in Blocking
  /\ pc[r] = "idle"
  /\ waiting' = [waiting EXCEPT ![Class[r]] = @ + 1]
  /\ Goto(r, "registering")
  /\ UNCHANGED <<available, queued, byRoot, ref, turns, seen, ghost>>

RegisterQueue(r) ==
  /\ pc[r] = "registering"
  /\ Unlocked
  /\ queued' = Append(queued, r)
  /\ Goto(r, "polling")
  /\ UNCHANGED <<available, waiting, byRoot, ref, turns, seen, ghost>>

(* The top of the polling loop: the request was cancelled or is no longer    *)
(* admitted, or it is Standing and sees another class waiting.               *)
Decline(r) ==
  /\ pc[r] = "polling"
  /\ Goto(r, "exiting")
  /\ StopsWaiting(r)
  /\ UNCHANGED <<available, waiting, queued, byRoot, ref, turns, seen>>

(* A Standing request that sees no other waiter goes on to its attempt; it   *)
(* may miss one that registers before the attempt.                           *)
CheckStanding(r) ==
  /\ Class[r] = Standing
  /\ pc[r] = "polling"
  /\ ~HasNonStandingWaiters
  /\ Goto(r, "checked")
  /\ UNCHANGED <<available, waiting, queued, byRoot, ref, turns, seen, ghost>>

(* A request may start an attempt: a ticketless caller at once, a waiter at  *)
(* the top of its loop.                                                      *)
Asking(r) ==
  \/ r \in Classified \ Blocking /\ pc[r] = "idle"
  \/ r \in Blocking /\ Class[r] # Standing /\ pc[r] = "polling"
  \/ pc[r] = "checked"

(* mutation: an entry whose last sharer is dropping counts as none           *)
ListedLeaseUpgradable(r) ==
  IF RootOf[r] = NoRoot THEN NoLease
  ELSE IF Sharers(byRoot[RootOf[r]]) = {} THEN NoLease ELSE byRoot[RootOf[r]]

ListedLease(r) == IF RootOf[r] = NoRoot THEN NoLease ELSE byRoot[RootOf[r]]

(* install_classified_permit: the root's permit is shared while its last     *)
(* sharer is not dropping it; sharing takes no turn.                         *)
ShareRoot(r) ==
  /\ Asking(r)
  /\ Unlocked
  /\ ListedLease(r) # NoLease
  /\ Sharers(ListedLease(r)) # {}
  /\ ref' = [ref EXCEPT ![r] = ListedLease(r)]
  /\ Goto(r, "deciding")
  /\ StopsWaiting(r)
  /\ UNCHANGED <<available, waiting, queued, byRoot, turns, seen>>

(* mutation: classes do not take turns                                       *)
EligibleByRank(r) ==
  /\ ListedLease(r) = NoLease
  /\ r \in Blocking => Cardinality(OlderSameClass(r)) < available

(* mutation: a class gives way whether or not it had the last turn           *)
EligibleGivingWay(r) ==
  /\ ListedLease(r) = NoLease
  /\ r \in Blocking => Cardinality(OlderSameClass(r)) < available
  /\ ~(available <= 1 /\ HasWaiterFromAnotherClass(Class[r]))

(* The checks of an attempt for a new slot, made on one load of `available': *)
(* queue rank within the class, then the classes' turns on the last slot.    *)
Eligible(r) ==
  /\ ListedLease(r) = NoLease
  /\ r \in Blocking => Cardinality(OlderSameClass(r)) < available
  /\ ~ /\ available <= 1
       /\ HasWaiterFromAnotherClass(Class[r])
       /\ LastAdmittedClassIs(Class[r])

(* Ghost.  When r is given a slot on seeing one free, it goes before the     *)
(* waiters of the other classes and the older ones of its own class; for the *)
(* others of its class the turn has come, and their count starts again.      *)
(* The waiters it went before have been passed once the permit is accepted.  *)
StillWaiting(w) ==
  w \in Blocking /\ pc[w] \in {"polling", "installing"} /\ Class[w] # Standing

StandingPending == \E i \in DOMAIN turns : ~turns[i].settled /\ Class[turns[i].req] = Standing

GoesBefore(r, w, free) ==
  /\ w # r
  /\ StillWaiting(w)
  /\ free <= 1
  /\ ~StandingPending
  /\ Class[w] = Class[r] => r \in Blocking /\ OlderSameClass(w) \subseteq OlderSameClass(r)

Overtakes(r, free) ==
  LET mates == {w \in Request : Class[w] = Class[r] /\ ~GoesBefore(r, w, free)}
  IN  /\ before' = [q \in Request |->
           IF q = r THEN {w \in Request : GoesBefore(r, w, free)} ELSE before[q] \ mates]
      /\ passed' = [w \in Request |-> IF w \in mates THEN 0 ELSE passed[w]]

Overtaken(r) ==
  /\ before' = [before EXCEPT ![r] = {}]
  /\ passed' = [w \in Request |-> IF w \in before[r] /\ passed[w] < 2 THEN passed[w] + 1 ELSE passed[w]]

(* The slot is taken and install_permit_locked lists the permit; the class's *)
(* turn is pending.  `free' is what the attempt loaded from `available'.     *)
Installed(r, free) ==
  /\ available' = available - 1
  /\ ref' = [ref EXCEPT ![r] = r]
  /\ byRoot' = [x \in Root |-> IF x = RootOf[r] THEN r ELSE byRoot[x]]
  /\ turns' = Append(turns, [req |-> r, settled |-> FALSE])
  /\ Overtakes(r, free)
  /\ Goto(r, "deciding")

(* An attempt that passes the checks goes on to its compare-and-swap.  A     *)
(* ticketless one has no rank to check: it may have seen no free slot, and   *)
(* still take the one returned meanwhile.                                    *)
BeginTry(r) ==
  /\ Asking(r)
  /\ Unlocked
  /\ Eligible(r)
  /\ seen' = available
  /\ Goto(r, "installing")
  /\ UNCHANGED <<available, waiting, queued, byRoot, ref, turns, ghost>>

(* Whoever finds no slot left gives up, or polls again if it waits.          *)
EndTry(r) ==
  /\ pc[r] = "installing"
  /\ seen' = 0
  /\ \/ /\ available = 0
        /\ Goto(r, IF r \in Blocking THEN "polling" ELSE "idle")
        /\ UNCHANGED <<available, byRoot, ref, turns, ghost>>
     \/ /\ available > 0
        /\ Installed(r, seen)
  /\ UNCHANGED <<waiting, queued>>

(* try_acquire: the slot is taken without the lock, past queue and turns ... *)
TakeUnclassified(r) ==
  /\ Class[r] = Unclassified
  /\ pc[r] = "idle"
  /\ available > 0
  /\ available' = available - 1
  /\ Goto(r, "taken")
  /\ UNCHANGED <<waiting, queued, byRoot, ref, turns, seen, ghost>>

(* ... and its permit is installed under the lock, for no root.              *)
InstallUnclassified(r) ==
  /\ pc[r] = "taken"
  /\ Unlocked
  /\ ref' = [ref EXCEPT ![r] = r]
  /\ Goto(r, "holding")
  /\ UNCHANGED <<available, waiting, queued, byRoot, turns, seen, ghost>>

(* A Standing attempt that is refused sleeps and looks again.                *)
Recheck(r) ==
  /\ pc[r] = "checked"
  /\ Unlocked
  /\ ~Eligible(r)
  /\ ListedLease(r) = NoLease \/ Sharers(ListedLease(r)) = {}
  /\ Goto(r, "polling")
  /\ UNCHANGED <<available, waiting, queued, byRoot, ref, turns, seen, ghost>>

PendingTurn(r) == \E i \in DOMAIN turns : turns[i].req = r /\ ~turns[i].settled

TurnOf(r) == CHOOSE i \in DOMAIN turns : turns[i].req = r /\ ~turns[i].settled

(* A waiter whose permit is in hand returns and drops its AdmissionWaiter.   *)
Admitted(r) == IF r \in Blocking THEN "exiting" ELSE "holding"

(* The predicate runs without the lock.  It is the caller's: it may refuse a *)
(* waiter whenever it likes, ticketless callers pass `|| true', and only a   *)
(* Standing request's looks at the limiter, for other waiters.               *)
AcceptStanding(r) ==
  /\ pc[r] = "deciding"
  /\ Class[r] = Standing
  /\ ~HasNonStandingWaiters
  /\ Goto(r, IF PendingTurn(r) THEN "settling" ELSE Admitted(r))
  /\ UNCHANGED <<available, waiting, queued, byRoot, ref, turns, seen, ghost>>

AcceptShared(r) ==
  /\ pc[r] = "deciding"
  /\ Class[r] # Standing
  /\ ~PendingTurn(r)
  /\ Goto(r, Admitted(r))
  /\ UNCHANGED <<available, waiting, queued, byRoot, ref, turns, seen, ghost>>

(* mutation: the turn that settles last is taken for the newest              *)
SettledTurnsLast(r) ==
  SelectSeq(turns, LAMBDA t : ~t.settled /\ t.req # r) \o <<[req |-> r, settled |-> TRUE]>>

(* ClassTurnReservation::settle: the turn leaves the pending ones and is     *)
(* kept as the settled one unless a newer turn has already settled.          *)
SettledTurns(r) ==
  LET mine == TurnOf(r)
      kept == {j \in DOMAIN turns : turns[j].settled}
      settled == [turns EXCEPT ![mine] = [req |-> r, settled |-> TRUE]]
  IN  IF \E j \in kept : j > mine THEN RemoveAt(turns, mine)
      ELSE IF kept = {} THEN settled
      ELSE RemoveAt(settled, CHOOSE j \in kept : TRUE)

Settle(r) ==
  /\ \/ pc[r] = "settling"
     \/ pc[r] = "deciding" /\ Class[r] # Standing
  /\ PendingTurn(r)
  /\ Unlocked
  /\ turns' = SettledTurns(r)
  /\ Overtaken(r)
  /\ Goto(r, Admitted(r))
  /\ UNCHANGED <<available, waiting, queued, byRoot, ref, seen>>

-----------------------------------------------------------------------------
(* Dropping an unsettled reservation; a shared permit has none.              *)
WithdrawnTurns(r) == IF PendingTurn(r) THEN RemoveAt(turns, TurnOf(r)) ELSE turns

(* A refused waiter still has its AdmissionWaiter to drop.                   *)
Dropped(r) == IF Queued(r) THEN "exiting" ELSE "idle"

(* mutation: every sharer that drops the permit returns the slot             *)
DropPermitOfAll(r) == Goto(r, "removing") /\ UNCHANGED ref

(* The request drops its permit; the last sharer runs the lease's Drop.      *)
DropPermit(r) ==
  IF Sharers(ref[r]) = {r}
    THEN Goto(r, "removing") /\ UNCHANGED ref
    ELSE Goto(r, Dropped(r)) /\ ref' = [ref EXCEPT ![r] = NoLease]

Refuse(r) ==
  /\ pc[r] = "deciding"
  /\ r \in Blocking
  /\ Unlocked
  /\ turns' = WithdrawnTurns(r)
  /\ before' = [before EXCEPT ![r] = {}]
  /\ DropPermit(r)
  /\ UNCHANGED <<available, waiting, queued, byRoot, seen, passed>>

Release(r) ==
  /\ pc[r] = "holding"
  /\ DropPermit(r)
  /\ UNCHANGED <<available, waiting, queued, byRoot, turns, seen, ghost>>

(* ColdBuildPermitLease::drop: the listings go under the lock ...            *)
RemoveListing(r) ==
  /\ pc[r] = "removing"
  /\ Unlocked
  /\ byRoot' = [x \in Root |-> IF x = RootOf[ref[r]] /\ byRoot[x] = ref[r] THEN NoLease ELSE byRoot[x]]
  /\ Goto(r, "returning")
  /\ UNCHANGED <<available, waiting, queued, ref, turns, seen, ghost>>

(* ... and the slot goes back after it is released.                          *)
ReturnSlot(r) ==
  /\ pc[r] = "returning"
  /\ available' = available + 1
  /\ ref' = [ref EXCEPT ![r] = NoLease]
  /\ Goto(r, Dropped(r))
  /\ UNCHANGED <<waiting, queued, byRoot, turns, seen, ghost>>

(* AdmissionWaiter::drop: the counter first, the queue under the lock.       *)
ExitCount(r) ==
  /\ pc[r] = "exiting"
  /\ waiting' = [waiting EXCEPT ![Class[r]] = @ - 1]
  /\ Goto(r, "unqueueing")
  /\ UNCHANGED <<available, queued, byRoot, ref, turns, seen, ghost>>

ExitQueue(r) ==
  /\ pc[r] = "unqueueing"
  /\ Unlocked
  /\ queued' = RemoveAt(queued, CHOOSE i \in DOMAIN queued : queued[i] = r)
  /\ Goto(r, IF ref[r] = NoLease THEN "idle" ELSE "holding")
  /\ UNCHANGED <<available, waiting, byRoot, ref, turns, seen, ghost>>

(* WeakColdBuildPermit::upgrade by another request of the root, with no lock *)
(* of the limiter held (acquire_interactive_tier2_permit_slot).              *)
UpgradeWeak(r) ==
  /\ pc[r] = "idle"
  /\ Class[r] = Inspect
  /\ RootOf[r] # NoRoot
  /\ \E l \in Request :
       /\ RootOf[l] = RootOf[r]
       /\ Sharers(l) # {}
       /\ ref' = [ref EXCEPT ![r] = l]
  /\ Goto(r, "holding")
  /\ UNCHANGED <<available, waiting, queued, byRoot, turns, seen, ghost>>

-----------------------------------------------------------------------------
Next == \E r \in Request :
  \/ RegisterCount(r) \/ RegisterQueue(r) \/ Decline(r)
  \/ CheckStanding(r) \/ Recheck(r)
  \/ ShareRoot(r) \/ BeginTry(r) \/ EndTry(r)
  \/ TakeUnclassified(r) \/ InstallUnclassified(r)
  \/ AcceptStanding(r) \/ AcceptShared(r) \/ Settle(r) \/ Refuse(r)
  \/ Release(r) \/ RemoveListing(r) \/ ReturnSlot(r)
  \/ ExitCount(r) \/ ExitQueue(r) \/ UpgradeWeak(r)

Spec == Init /\ [][Next]_vars

(* What the thread of a request goes on to do: everything but asking anew,   *)
(* being cancelled before it has a permit, and trying without a ticket.  A   *)
(* build that has its permit ends.                                           *)
YieldStanding(r) == Class[r] = Standing /\ HasNonStandingWaiters /\ Decline(r)

Progress(r) ==
  \/ RegisterQueue(r) \/ CheckStanding(r) \/ Recheck(r) \/ YieldStanding(r)
  \/ r \in Blocking /\ (ShareRoot(r) \/ BeginTry(r))
  \/ EndTry(r) \/ InstallUnclassified(r)
  \/ AcceptStanding(r) \/ AcceptShared(r) \/ Settle(r) \/ Refuse(r)
  \/ Release(r) \/ RemoveListing(r) \/ ReturnSlot(r)
  \/ ExitCount(r) \/ ExitQueue(r)

(* The steps for which a thread blocks on the mutex until it has it.         *)
Locks(r) ==
  \/ RegisterQueue(r) \/ InstallUnclassified(r) \/ Settle(r) \/ Refuse(r)
  \/ RemoveListing(r) \/ ExitQueue(r)

(* Weak fairness of the threads: a waiter polls every 100 ms, and may well   *)
(* poll each time just after somebody else took the slot.  Whoever blocks on *)
(* the mutex gets it in the end.                                             *)
LiveSpec == Spec /\ \A r \in Request : WF_vars(Progress(r)) /\ SF_vars(Locks(r))

-----------------------------------------------------------------------------
(* No slot is lost and none is made up: the free slots, those an             *)
(* unclassified caller has taken without a permit yet, the leases somebody   *)
(* shares and the leases whose Drop is still running are always the limit,   *)
(* through refused predicates, lost races for a slot, sharers that leave in  *)
(* any order and a Drop that returns the slot only after it has let go of    *)
(* the lock.                                                                 *)
SlotsConserved ==
  available + Cardinality({r \in Request : pc[r] = "taken"})
            + Cardinality({l \in Request : Sharers(l) # {}})
            + Cardinality({r \in Request : pc[r] \in {"removing", "returning"}}) = Limit

(* A root never has two leases whose listing is still there, not even while  *)
(* the last sharer of one is dropping it: what install_classified_permit     *)
(* gives up an attempt for ("rather than briefly double-owning capacity").   *)
OneLeasePerRoot ==
  \A r, q \in Request :
    /\ ref[r] # NoLease /\ pc[r] # "returning"
    /\ ref[q] # NoLease /\ pc[q] # "returning"
    /\ RootOf[ref[r]] = RootOf[ref[q]]
    /\ RootOf[ref[r]] # NoRoot
    => ref[r] = ref[q]

(* A waiter is passed at most once by classified requests that saw one slot  *)
(* free, of another class or younger ones of its own, before its class has   *)
(* its turn, in whatever order the admissions settle or are withdrawn and    *)
(* whoever loses the race for the slot.  Two kinds of admission are not      *)
(* counted: those made while a Standing request's turn awaits its second     *)
(* look, and the unclassified ones, which ask for no turn and may pass a     *)
(* waiter as often as they come.                                             *)
NeverPassedTwice == \A w \in Request : passed[w] <= 1

(* A step that cancels a waiter, refuses its permit, brings a Standing one or*)
(* takes a slot past the queue.                                              *)
Disturbs(r) ==
  \/ TakeUnclassified(r)
  \/ IF Class[r] = Standing THEN RegisterCount(r) ELSE Decline(r) \/ Refuse(r)

(* With one slot, every waiter that is not Standing gets a permit, even if   *)
(* its polls are always unlucky, provided that cancellations, Standing       *)
(* requests and unclassified callers (one per configure of a view without a  *)
(* generation, until its legacy import is recorded) stop coming and that no  *)
(* root's permit is handed from sharer to sharer forever.                    *)
EveryWaiterServed ==
  /\ <>[][\A r \in Request : ~Disturbs(r)]_vars
  /\ \A l \in Request : []<>(Sharers(l) = {})
  => \A r \in Blocking :
       Class[r] # Standing /\ pc[r] = "registering" ~> pc[r] \in {"idle", "holding"}
=============================================================================
