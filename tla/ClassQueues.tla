----------------------------- MODULE ClassQueues -----------------------------
(***************************************************************************)
(* ClassQueues of crates/aft/src/executor/mod.rs: one deque of jobs per    *)
(* lane, and `order', one lane name per queued job.  The k-th occurrence   *)
(* of a lane in `order' stands for the k-th job of its deque; every        *)
(* operation must remove the occurrence that belongs to the job it takes.  *)
(* A root has two such pairs; `class' says which one this is.  The module  *)
(* takes the structure by itself: its operations come in any order, and    *)
(* drains with one key may both be queued, which the executor's submit     *)
(* does not let happen.                                                    *)
(***************************************************************************)
EXTENDS Naturals, Sequences, FiniteSets, SequencesExt, Retain

CONSTANTS Jobs, Info   \* Info[j]: class, lane, coalescing key ("none": no key), is it a bind

VARIABLES class, order, queue

vars == <<class, order, queue>>

Lanes == {"PureRead", "SerialLspStatus", "HeavyInit", "Mutating",
          "MaintenanceCommit", "ProviderMetadata", "CallLedger"}

ASSUME ClassQueuesAssumption ==
  /\ IsFiniteSet(Jobs)
  /\ \A j \in Jobs :
       /\ Info[j].lane \in Lanes /\ Info[j].bind \in BOOLEAN
       /\ Info[j].class \in {"Interactive", "Maintenance"}
       /\ Info[j].bind => Info[j].class = "Interactive" /\ Info[j].lane = "Mutating"

Lane(j) == Info[j].lane
Key(j)  == Info[j].key

Queued == UNION {Range(queue[l]) : l \in Lanes}

Init ==
  /\ class \in {"Interactive", "Maintenance"}
  /\ order = <<>> /\ queue = [l \in Lanes |-> <<>>]

-----------------------------------------------------------------------------
Arrives(j) == j \notin Queued /\ Info[j].class = class

push_job(j) ==
  /\ Arrives(j)
  /\ order' = Append(order, Lane(j))
  /\ queue' = [queue EXCEPT ![Lane(j)] = Append(@, j)]

(* Only a bind that comes back is put at the front. *)
push_front_job(j) ==
  /\ Arrives(j) /\ Info[j].bind
  /\ order' = <<Lane(j)>> \o order
  /\ queue' = [queue EXCEPT ![Lane(j)] = <<j>> \o @]

(* The place in `order' of the k-th job of a lane: the closures that count   *)
(* occurrences in remove_first_bind_job and remove_cancellable.              *)
Entries(l) == {i \in DOMAIN order : order[i] = l}
Occurrence(i) == Rank(Entries(order[i]), i)

PlaceOfFirst(l, k) ==             \* mutation: the first entry of the lane
  CHOOSE i \in DOMAIN order : order[i] = l /\ Occurrence(i) = 1

PlaceOf(l, k) == CHOOSE i \in DOMAIN order : order[i] = l /\ Occurrence(i) = k

(* The k-th job of lane l leaves. *)
RemoveNth(l, k) ==
  /\ order' = RemoveAt(order, PlaceOf(l, k))
  /\ queue' = [queue EXCEPT ![l] = RemoveAt(@, k)]

pop_front_job_at_head(l) ==       \* mutation: the head of `order' goes, whatever its lane
  /\ queue[l] # <<>>
  /\ order' = Tail(order)
  /\ queue' = [queue EXCEPT ![l] = Tail(@)]

pop_front_job(l) == queue[l] # <<>> /\ RemoveNth(l, 1)

(* front_lane: how maintenance is admitted. *)
PopFrontLane == class = "Maintenance" /\ order # <<>> /\ pop_front_job(order[1])

(* next_interactive_lane, with the starved writer as a choice: its age is    *)
(* the Executor's business.                                                  *)
PopStarvedWriter == class = "Interactive" /\ pop_front_job("Mutating")

PopRead == class = "Interactive" /\ pop_front_job("PureRead")

Skipped == {"PureRead", "ProviderMetadata", "CallLedger"}

PopInteractive ==
  /\ class = "Interactive" /\ queue["PureRead"] = <<>>
  /\ \E i \in DOMAIN order :
       /\ order[i] \notin Skipped /\ \A k \in 1..(i - 1) : order[k] \in Skipped
       /\ pop_front_job(order[i])

(* The provider and ledger passes. *)
PopReserved == \E l \in {"ProviderMetadata", "CallLedger"} : pop_front_job(l)

remove_first_bind_job ==
  \E k \in DOMAIN queue["Mutating"] :
    /\ Info[queue["Mutating"][k]].bind
    /\ \A i \in 1..(k - 1) : ~Info[queue["Mutating"][i]].bind
    /\ RemoveNth("Mutating", k)

remove_cancellable(j) ==
  \E k \in DOMAIN queue[Lane(j)] : queue[Lane(j)][k] = j /\ RemoveNth(Lane(j), k)

-----------------------------------------------------------------------------
(* The job that an entry of `order' stands for. *)
At(i) == queue[order[i]][Occurrence(i)]

(* remove_duplicate_maintenance_jobs: the entries of `order' whose key has   *)
(* been seen, removed from `order' and from their lanes.                     *)
Duplicates ==
  {i \in DOMAIN order : Key(At(i)) # "none" /\ \E k \in 1..(i - 1) : Key(At(k)) = Key(At(i))}

remove_duplicate_maintenance_jobs ==
  /\ Duplicates # {}
  /\ order' = Kept(order, Duplicates)
  /\ queue' = [l \in Lanes |-> Kept(queue[l], {Occurrence(i) : i \in Duplicates \cap Entries(l)})]

(* fail_queued_jobs and cancel_queued_jobs *)
ClearAll == order # <<>> /\ order' = <<>> /\ queue' = [l \in Lanes |-> <<>>]

cancel_queued_provider_jobs_entries_left ==   \* mutation: `order' is not purged
  /\ queue["ProviderMetadata"] # <<>>
  /\ queue' = [queue EXCEPT !["ProviderMetadata"] = <<>>]
  /\ UNCHANGED order

cancel_queued_provider_jobs ==
  /\ queue["ProviderMetadata"] # <<>>
  /\ order' = Kept(order, Entries("ProviderMetadata"))
  /\ queue' = [queue EXCEPT !["ProviderMetadata"] = <<>>]

Operation ==
  \/ \E j \in Jobs : push_job(j) \/ push_front_job(j) \/ remove_cancellable(j)
  \/ PopFrontLane \/ PopStarvedWriter \/ PopRead \/ PopInteractive \/ PopReserved
  \/ remove_first_bind_job \/ remove_duplicate_maintenance_jobs
  \/ ClearAll \/ cancel_queued_provider_jobs

Next == Operation /\ UNCHANGED class

Spec == Init /\ [][Next]_vars

-----------------------------------------------------------------------------
(* `order' has one entry of a lane per job of that lane, whatever was taken  *)
(* from the middle: has_queued_jobs, queued_count and MAINTENANCE_QUEUE_CAP  *)
(* go by `order' alone, and an entry without a job would keep an empty       *)
(* root's lane at the head of the line for good.                             *)
Paired ==
  \A l \in Lanes : Cardinality(Entries(l)) = Len(queue[l])

(* The pair behaves as one list in arrival order.  "Removing the FIRST       *)
(* matching order entry for a job deeper in its lane queue would shift the   *)
(* pairing and reorder the survivors" (mod.rs:3267-3270).                    *)
Merged == [i \in DOMAIN order |-> IF Occurrence(i) <= Len(queue[order[i]]) THEN At(i) ELSE "nobody"]

IsBindJob(j) == Info[j].bind

Arrival == INSTANCE ArrivalQueue WITH
  Jobs <- Jobs, LaneOf <- Lane, KeyOf <- Key, IsBindJob <- IsBindJob, NoKeyOf <- "none", list <- Merged

KeepsArrivalOrder == Arrival!Spec

(* Admission from the middle of the line takes the oldest job that it may    *)
(* take: maintenance in strict arrival order; a read before the rest, then   *)
(* the rest in arrival order; a promoted writer or a bind the oldest of its  *)
(* kind, also after binds went back to the front and jobs were withdrawn     *)
(* (next_interactive_lane's comment, mod.rs:3092-3099).                      *)
AdmitsOldest ==
  [][/\ PopFrontLane => Arrival!TakeOldest
     /\ PopRead => Arrival!TakeRead
     /\ PopInteractive => Arrival!TakeOther
     /\ PopStarvedWriter => Arrival!TakeInLane("Mutating")
     /\ remove_first_bind_job => Arrival!TakeBind]_vars
=============================================================================
