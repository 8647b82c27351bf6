------------------------- MODULE MCColdBuildLimiter -------------------------
(* Requests for the instances: inspections i1 and i2 that share the permit   *)
(* of root x, a maintenance waiter m1, a maintenance request t without a     *)
(* ticket, a Standing request s and an unclassified caller u.                *)
EXTENDS ColdBuildLimiter

CONSTANTS i1, i2, m1, s, t, u, x

MCClass == [r \in Request |->
  IF r \in {i1, i2} THEN Inspect ELSE IF r = s THEN Standing
  ELSE IF r = u THEN Unclassified ELSE Maintenance]
MCRootOf == [r \in Request |-> IF r \in {i1, i2} THEN x ELSE NoRoot]
=============================================================================
