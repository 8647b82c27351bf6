--------------------------- MODULE EffectiveConfig ---------------------------
(***************************************************************************)
(* ExecutorConfig::effective (crates/aft/src/executor/mod.rs), which turns *)
(* whatever was configured into the caps the scheduler works with, and the *)
(* deficit counter of the round robin, which those caps keep from ever     *)
(* refusing a job: the Executor module leaves the deficit out because of   *)
(* it, and takes the bounds on the caps as assumptions.  Configurations    *)
(* are arbitrary numbers, so this module is proved about and not run.      *)
(***************************************************************************)
EXTENDS Integers

VARIABLES requested,  \* the ExecutorConfig
          deficit     \* one actor's deficit

vars == <<requested, deficit>>

Larger(a, b)  == IF a >= b THEN a ELSE b
Smaller(a, b) == IF a <= b THEN a ELSE b
Clamp(n, lo, hi) == IF n < lo THEN lo ELSE IF n > hi THEN hi ELSE n

BindReserve     == 2    \* BIND_RESERVE_WORKERS
ProviderReserve == 2    \* PROVIDER_RESERVE_WORKERS
JobCost         == 1    \* JOB_COST

ExecutorConfig ==
  [pool_size : Nat, read_cap : Nat, actor_cap : Nat, heavy_permits : Nat, drr_quantum : Int]

PoolSize == Clamp(requested.pool_size, 2, 8)
ActorCap == Smaller(Larger(requested.actor_cap, 1), Larger(PoolSize - 1, 1))
ReadCap  == Smaller(Smaller(Larger(requested.read_cap, 1), ActorCap), 4)

HeavyPermits == Smaller(Smaller(Larger(requested.heavy_permits, 1), Larger(PoolSize - 1, 1)), 3)

InteractiveReserve == IF PoolSize >= 4 THEN 2 ELSE 1

MaintenanceCap == Larger(PoolSize - InteractiveReserve, 1)

Quantum == Larger(requested.drr_quantum, 1)

DeficitCap == Larger(ActorCap, 1) * 4

TotalWorkers == PoolSize + BindReserve + ProviderReserve

-----------------------------------------------------------------------------
Init == requested \in ExecutorConfig /\ deficit = 0

(* dispatch_runnable_class visits an actor that has jobs of the class: it    *)
(* earns a quantum, and pays for a job that is admitted (dispatch_runnable_  *)
(* class, try_admit_actor).                                                  *)
Credit == Smaller(deficit + Quantum, DeficitCap)

Visit(admitted) ==
  /\ deficit' = IF Credit >= JobCost /\ admitted THEN Credit - JobCost ELSE Credit
  /\ UNCHANGED requested

(* An actor with nothing queued starts again from zero. *)
VisitEmpty == deficit' = 0 /\ UNCHANGED requested

Next == (\E admitted \in BOOLEAN : Visit(admitted)) \/ VisitEmpty

Spec == Init /\ [][Next]_vars

-----------------------------------------------------------------------------
(* Whatever was configured, the caps leave room for one another: one root    *)
(* cannot fill the general pool, neither can heavy initialisation nor        *)
(* maintenance, reads of a root stay within its cap, and every lane can run  *)
(* at all.                                                                   *)
CapsLeaveRoom ==
  /\ 1 <= ReadCap /\ ReadCap <= ActorCap /\ ActorCap < PoolSize
  /\ 1 <= HeavyPermits /\ HeavyPermits < PoolSize
  /\ 1 <= InteractiveReserve
  /\ 1 <= MaintenanceCap /\ MaintenanceCap + InteractiveReserve <= PoolSize
  /\ BindReserve + ProviderReserve < TotalWorkers

(* The round robin never refuses a queued job for want of credit, however    *)
(* long the actor went unserved or served before.                            *)
DeficitNeverRefuses == deficit \in Int /\ 0 <= deficit /\ deficit <= DeficitCap /\ Credit >= JobCost
=============================================================================
