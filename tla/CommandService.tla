--------------------------- MODULE CommandService ---------------------------
(***************************************************************************)
(* What the executor promises a caller about its request, and the callers  *)
(* of one root about each other.  Nothing is said here about queues, lanes *)
(* or workers: a request is accepted or refused, runs if nobody revoked it,*)
(* may be taken back before it is sealed to run again, and gets exactly    *)
(* one answer that agrees with what happened to it.  A root may be closed  *)
(* and opened again while requests of the earlier session still run.       *)
(***************************************************************************)
EXTENDS Naturals

CONSTANTS Jobs, RootOf(_)
VARIABLE svc   \* per request: its stage, its use of the root and in which
               \* session of the root, its verdict, its answer

Stages   == {"idle", "accepted", "running", "over"}
Uses     == {"none", "free", "shared", "exclusive"}
Verdicts == {"open", "revoked", "sealed"}
Replies  == {"none", "ok", "panic", "cancelled", "rejected", "fatal", "removed"}

Request == [stage : Stages, use : Uses, session : Nat, verdict : Verdicts, answer : Replies]

NotYet == [stage |-> "idle", use |-> "none", session |-> 0, verdict |-> "open", answer |-> "none"]

Init == svc = [j \in Jobs |-> NotYet]

-----------------------------------------------------------------------------
(* The steps of one request, from state r to state n. *)
Accept(r, n) == r.stage = "idle" /\ n = [NotYet EXCEPT !.stage = "accepted"]

Refuse(r, n) ==
  /\ r.stage = "idle"
  /\ \E ans \in {"rejected", "fatal"} : n = [NotYet EXCEPT !.stage = "over", !.answer = ans]

(* A revoked request never begins; some are sealed as they begin.  It runs   *)
(* in one session to the end.                                                *)
Begin(r, n) ==
  /\ r.stage = "accepted" /\ r.verdict = "open"
  /\ \E u \in Uses \ {"none"}, v \in {"open", "sealed"} :
       n = [r EXCEPT !.stage = "running", !.use = u, !.session = n.session, !.verdict = v]

(* Sealing and revoking exclude each other, and are final. *)
Seal(r, n)   == r.stage = "running" /\ r.verdict = "open" /\ n = [r EXCEPT !.verdict = "sealed"]
Revoke(r, n) == r.stage # "idle" /\ r.verdict = "open" /\ n = [r EXCEPT !.verdict = "revoked"]

(* Only a shared, unsealed run is taken back to run again. *)
Withdraw(r, n) ==
  /\ r.stage = "running" /\ r.use = "shared" /\ r.verdict # "sealed"
  /\ n = [r EXCEPT !.stage = "accepted", !.use = "none", !.session = 0]

(* A request that ran is told how it ended; one that did not is never told   *)
(* that it did, and a sealed one never that it did not.                      *)
Reply(r, n) ==
  /\ r.stage = "running"
  /\ \E ans \in {"ok", "panic"} :
       n = [r EXCEPT !.stage = "over", !.use = "none", !.session = 0, !.answer = ans]

GiveUp(r, n) ==
  /\ r.stage = "accepted" /\ r.verdict # "sealed"
  /\ \E ans \in {"cancelled", "rejected", "fatal", "removed"}, v \in {r.verdict, "revoked"} :
       n = [r EXCEPT !.stage = "over", !.answer = ans, !.verdict = v]

Reuse(r, n) == r.stage = "over" /\ n = NotYet

Step(r, n) ==
  \/ n = r
  \/ Accept(r, n) \/ Refuse(r, n) \/ Begin(r, n) \/ Seal(r, n) \/ Revoke(r, n)
  \/ Withdraw(r, n) \/ Reply(r, n) \/ GiveUp(r, n) \/ Reuse(r, n)

(* A request that uses its root exclusively shares the session with nobody   *)
(* who uses it at all; some use no part of it that matters ("free").         *)
Compatible ==
  \A j, k \in Jobs :
    /\ j # k /\ RootOf(j) = RootOf(k) /\ svc[j].session = svc[k].session
    /\ svc[j].use = "exclusive"
    => svc[k].use \in {"none", "free"}

(* One step may move several requests: a root's end answers all it had.      *)
Next ==
  /\ svc' \in [Jobs -> Request]
  /\ \A j \in Jobs : Step(svc[j], svc'[j])
  /\ Compatible'

Spec == Init /\ [][Next]_svc
=============================================================================
