CONSTANTS
  Callers = {c1, c2, c3}
  Gens <- MCGens
SPECIFICATION Spec
INVARIANTS TypeOK NeverStale MarkerHasBuilder
PROPERTIES NoReadyDowngrade EveryCallReturns
