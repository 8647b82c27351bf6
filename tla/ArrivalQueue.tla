---------------------------- MODULE ArrivalQueue ----------------------------
(***************************************************************************)
(* What the queue of one class of one root promises: the queued jobs in    *)
(* the order of their arrival, and admission that takes, of the jobs it    *)
(* may take, the one that arrived first.  A bind that comes back goes to   *)
(* the front.                                                              *)
(***************************************************************************)
EXTENDS Sequences, SequencesExt, Retain

CONSTANTS Jobs, LaneOf(_), KeyOf(_), IsBindJob(_), NoKeyOf

VARIABLE list       \* the queued jobs, the oldest first

Fits(S) == {i \in DOMAIN list : list[i] \in S}

(* The oldest queued job of S is taken. *)
TakeFrom(S) ==
  \E i \in Fits(S) : (\A k \in Fits(S) : i <= k) /\ list' = RemoveAt(list, i)

InLane(l) == {j \in Jobs : LaneOf(j) = l}

Arrive(j) == j \in Jobs \ Range(list) /\ list' = Append(list, j)
ComeBack(j) == j \in Jobs \ Range(list) /\ list' = <<j>> \o list

TakeOldest == TakeFrom(Jobs)
TakeInLane(l) == TakeFrom(InLane(l))
TakeRead == TakeFrom(InLane("PureRead"))
TakeOther ==
  /\ Fits(InLane("PureRead")) = {}
  /\ TakeFrom(Jobs \ (InLane("ProviderMetadata") \cup InLane("CallLedger")))
TakeBind == TakeFrom({j \in Jobs : IsBindJob(j)})
Withdraw(j) == TakeFrom({j})

(* The later one of two jobs with one key goes. *)
Repeated == {j \in Range(list) : KeyOf(j) # NoKeyOf /\
               \E k \in Fits({j}), i \in DOMAIN list : i < k /\ KeyOf(list[i]) = KeyOf(j)}

Forget(S) == list' = Kept(list, Fits(S))

Init == list = <<>>

Next ==
  \/ \E j \in Jobs : Arrive(j) \/ ComeBack(j) \/ Withdraw(j)
  \/ \E j \in Jobs : TakeInLane(LaneOf(j))
  \/ TakeOldest \/ TakeRead \/ TakeOther \/ TakeBind
  \/ Forget(Repeated) \/ Forget(InLane("ProviderMetadata")) \/ Forget(Jobs)

Spec == Init /\ [][Next]_list
=============================================================================
