------------------------ MODULE SingleFlightProofs --------------------------
(* Proofs about the generation-aware single-flight cache. *)
EXTENDS SingleFlight, TLAPS

(* Every state of the cache and of its callers has its type. *)
THEOREM TypeCorrect == Spec => []TypeOK
<1>1. Init => TypeOK
  BY SingleFlightAssumption DEF Init, TypeOK, PCs, Absent, Building, Ready
<1>2. TypeOK /\ [Next]_vars => TypeOK'
  <2> SUFFICES ASSUME TypeOK, [Next]_vars PROVE TypeOK'
    OBVIOUS
  <2> USE SingleFlightAssumption DEF TypeOK, PCs, Absent, Building, Ready
  <2>1. ASSUME NEW c \in Callers, Call(c) PROVE TypeOK'
    BY <2>1 DEF Call, Move
  <2>2. ASSUME NEW c \in Callers, Ask(c) PROVE TypeOK'
    BY <2>2 DEF Ask, Move
  <2>3. ASSUME NEW c \in Callers, BuildOk(c) PROVE TypeOK'
    BY <2>3 DEF BuildOk, Move
  <2>4. ASSUME NEW c \in Callers, BuildFails(c) PROVE TypeOK'
    BY <2>4 DEF BuildFails, Move
  <2>5. ASSUME NEW c \in Callers, InstallWaits(c) PROVE TypeOK'
    BY <2>5 DEF InstallWaits, Move
  <2>8. ASSUME NEW c \in Callers, InstallTakesReady(c) PROVE TypeOK'
    BY <2>8 DEF InstallTakesReady, NotifyAll
  <2>9. ASSUME NEW c \in Callers, InstallOwn(c) PROVE TypeOK'
    BY <2>9 DEF InstallOwn, NotifyAll
  <2>6. ASSUME NEW c \in Callers, ClearBuilding(c) PROVE TypeOK'
    BY <2>6 DEF ClearBuilding, NotifyAll
  <2>7. CASE UNCHANGED vars
    BY <2>7 DEF vars
  <2> QED
    BY <2>1, <2>2, <2>3, <2>4, <2>5, <2>6, <2>7, <2>8, <2>9 DEF Next, Step, AllDone
<1> QED
  BY <1>1, <1>2, PTL DEF Spec

(* No call ever returns a value older than the generation it asked for: the *)
(* arms of get_or_build that return a cached value, a value built by        *)
(* somebody else, or the caller's own build all respect it.                 *)
THEOREM ReturnsFresh == Spec => []NeverStale
<1>1. Init => NeverStale
  BY DEF Init, NeverStale
<1>2. TypeOK /\ NeverStale /\ [Next]_vars => NeverStale'
  <2> SUFFICES ASSUME TypeOK, NeverStale, [Next]_vars PROVE NeverStale'
    OBVIOUS
  <2> USE SingleFlightAssumption DEF TypeOK, NeverStale, PCs, Absent, Building, Ready
  <2>1. ASSUME NEW c \in Callers, Call(c) \/ BuildOk(c) \/ BuildFails(c) PROVE NeverStale'
    BY <2>1 DEF Call, BuildOk, BuildFails, Move
  <2>2. ASSUME NEW c \in Callers, Ask(c) PROVE NeverStale'
    BY <2>2 DEF Ask, Move
  <2>3. ASSUME NEW c \in Callers, InstallWaits(c) PROVE NeverStale'
    BY <2>3 DEF InstallWaits, Move
  <2>6. ASSUME NEW c \in Callers, InstallTakesReady(c) PROVE NeverStale'
    BY <2>6 DEF InstallTakesReady, NotifyAll
  <2>7. ASSUME NEW c \in Callers, InstallOwn(c) PROVE NeverStale'
    <3>1. ASSUME NEW d \in Callers, pc'[d] = "returned" PROVE result'[d] >= call'[d]
      <4>1. CASE d = c
        <5>1. result'[d] = call[d] /\ call'[d] = call[d]
          BY <4>1, <2>7 DEF InstallOwn
        <5>2. call[d] \in Nat
          OBVIOUS
        <5> QED
          BY <5>1, <5>2
      <4>2. CASE d # c
        BY <4>2, <3>1, <2>7 DEF InstallOwn, NotifyAll
      <4> QED
        BY <4>1, <4>2
    <3> QED
      BY <3>1
  <2>4. ASSUME NEW c \in Callers, ClearBuilding(c) PROVE NeverStale'
    BY <2>4 DEF ClearBuilding, NotifyAll
  <2>5. CASE UNCHANGED vars
    BY <2>5 DEF vars
  <2> QED
    BY <2>1, <2>2, <2>3, <2>4, <2>5, <2>6, <2>7 DEF Next, Step, AllDone
<1> QED
  BY <1>1, <1>2, TypeCorrect, PTL DEF Spec
(* MarkerHasBuilder is not inductive: a caller that was overtaken would do    *)
(* as the builder of a later marker of its own generation, and leaves it     *)
(* behind when it returns.  The builder a marker stands for is one that was  *)
(* never superseded, and only a caller past its build can have been.         *)
OwnBuilder(c) == pc[c] \in {"build", "install", "failed"} /\ ~superseded[c]

MarkerInv ==
  /\ \A c \in Callers : superseded[c] => pc[c] \in {"install", "waitinstall", "returned"}
  /\ entry.state = "building" => \E c \in Callers : call[c] = entry.gen /\ OwnBuilder(c)

LEMMA MarkerKept ==
  ASSUME MarkerInv, entry' = entry, call' = call,
         \A d \in Callers : call[d] = entry.gen /\ OwnBuilder(d) /\ entry.state = "building"
                             => OwnBuilder(d)'
  PROVE  entry'.state = "building" => \E c \in Callers : call'[c] = entry'.gen /\ OwnBuilder(c)'
  BY DEF MarkerInv

LEMMA MarkerStep ==
  ASSUME TypeOK, MarkerInv, [Next]_vars
  PROVE  MarkerInv'
  <1> USE DEF TypeOK, PCs
  <1> DEFINE First == \A c \in Callers : superseded'[c] => pc'[c] \in {"install", "waitinstall", "returned"}
             Second == entry'.state = "building" =>
                         \E c \in Callers : call'[c] = entry'.gen /\ OwnBuilder(c)'
  <1>0. \A c \in Callers : call[c] \in Nat
    BY SingleFlightAssumption
  <1>1. ASSUME NEW c \in Callers, Call(c) \/ BuildOk(c) \/ BuildFails(c) PROVE First /\ Second
    <2>1. First
      BY <1>1 DEF Call, BuildOk, BuildFails, Move, MarkerInv
    <2>2. \A d \in Callers : OwnBuilder(d) => OwnBuilder(d)'
      BY <1>1 DEF Call, BuildOk, BuildFails, Move, OwnBuilder
    <2> QED BY <1>1, <2>1, <2>2, MarkerKept DEF Call, BuildOk, BuildFails
  <1>2. ASSUME NEW c \in Callers, Ask(c) PROVE First /\ Second
    <2>1. First
      BY <1>2 DEF Ask, Move, MarkerInv
    <2>2. CASE entry' = entry
      <3>1. \A d \in Callers : OwnBuilder(d) => OwnBuilder(d)'
        BY <1>2 DEF Ask, Move, OwnBuilder
      <3> QED BY <1>2, <2>1, <2>2, <3>1, MarkerKept DEF Ask
    <2>3. CASE entry' = Building(call[c]) /\ pc'[c] = "build"
      <3>1. call'[c] = entry'.gen /\ OwnBuilder(c)'
        BY <1>2, <2>3 DEF Ask, Building, OwnBuilder, MarkerInv
      <3> QED BY <2>1, <3>1
    <2> QED BY <1>2, <2>2, <2>3 DEF Ask, Move
  <1>3. ASSUME NEW c \in Callers, InstallWaits(c) PROVE First /\ Second
    <2>1. First
      BY <1>3 DEF InstallWaits, Move, MarkerInv
    <2>2. call[c] # entry.gen
      BY <1>0, <1>3 DEF InstallWaits
    <2>3. \A d \in Callers : d # c /\ OwnBuilder(d) => OwnBuilder(d)'
      BY <1>3 DEF InstallWaits, Move, OwnBuilder
    <2> QED BY <1>3, <2>1, <2>2, <2>3, MarkerKept DEF InstallWaits
  <1>4. ASSUME NEW c \in Callers, InstallTakesReady(c) PROVE First /\ Second
    BY <1>4 DEF InstallTakesReady, NotifyAll, MarkerInv
  <1>5. ASSUME NEW c \in Callers, InstallOwn(c) PROVE First /\ Second
    <2>1. First
      BY <1>5 DEF InstallOwn, NotifyAll, MarkerInv
    <2>2. CASE superseded[c]
      <3>1. \A d \in Callers : OwnBuilder(d) => OwnBuilder(d)'
        BY <1>5, <2>2 DEF InstallOwn, NotifyAll, OwnBuilder
      <3> QED BY <1>5, <2>1, <2>2, <3>1, MarkerKept DEF InstallOwn
    <2>3. CASE ~superseded[c]
      BY <1>5, <2>1, <2>3 DEF InstallOwn, Ready
    <2> QED BY <2>2, <2>3
  <1>6. ASSUME NEW c \in Callers, ClearBuilding(c) PROVE First /\ Second
    <2>1. First
      BY <1>6 DEF ClearBuilding, NotifyAll, MarkerInv
    <2>2. CASE entry = Building(call[c])
      BY <1>6, <2>1, <2>2 DEF ClearBuilding, Absent
    <2>3. CASE entry # Building(call[c])
      <3>1. entry.state = "building" => call[c] # entry.gen
        BY <2>3 DEF Building
      <3>2. \A d \in Callers : d # c /\ OwnBuilder(d) => OwnBuilder(d)'
        BY <1>6 DEF ClearBuilding, NotifyAll, OwnBuilder
      <3> QED BY <1>6, <2>1, <2>3, <3>1, <3>2, MarkerKept DEF ClearBuilding
    <2> QED BY <2>2, <2>3
  <1>7. CASE UNCHANGED vars
    BY <1>7 DEF vars, MarkerInv, OwnBuilder
  <1> QED
    BY <1>1, <1>2, <1>3, <1>4, <1>5, <1>6, <1>7 DEF Next, Step, AllDone, MarkerInv

(* A marker always has a live builder behind it, whoever overtakes whom: a   *)
(* builder that returns or fails takes the marker of its generation with it  *)
(* (InstallOwn, BuildingCleanup::drop).                                      *)
THEOREM MarkersBuilt == Spec => []MarkerHasBuilder
<1>1. Init => MarkerInv
  BY DEF Init, MarkerInv, Absent
<1>2. TypeOK /\ MarkerInv /\ [Next]_vars => MarkerInv'
  BY MarkerStep
<1>3. MarkerInv => MarkerHasBuilder
  BY DEF MarkerInv, OwnBuilder, MarkerHasBuilder
<1> QED
  BY <1>1, <1>2, <1>3, TypeCorrect, PTL DEF Spec

(* No step of any caller replaces a ready value by an older one: a build     *)
(* that was overtaken while it ran either waits, or takes the newer value,   *)
(* or remembers that it was superseded and installs nothing.                 *)
THEOREM ReadyOnlyGrows == Spec => NoReadyDowngrade
<1> DEFINE Grows == entry.state = "ready" /\ entry'.state = "ready" => entry'.gen >= entry.gen
<1>1. TypeOK /\ [Next]_vars => [Grows]_vars
  <2> SUFFICES ASSUME TypeOK, Next PROVE Grows
    OBVIOUS
  <2> USE SingleFlightAssumption DEF TypeOK
  <2>0. entry.state = "ready" => entry.gen \in Nat
    OBVIOUS
  <2>1. CASE entry' = entry
    BY <2>0, <2>1
  <2>2. ASSUME NEW c \in Callers, Ask(c), entry' # entry PROVE Grows
    BY <2>2 DEF Ask, Building
  <2>3. ASSUME NEW c \in Callers, InstallOwn(c), entry' # entry PROVE Grows
    <3>1. entry' = Ready(call[c]) /\ call[c] \in Nat
      BY <2>3 DEF InstallOwn
    <3>2. entry'.gen = call[c] /\ (entry.state = "ready" => ~(entry.gen >= call[c]))
      BY <2>3, <3>1 DEF InstallOwn, Ready
    <3> QED BY <2>0, <3>1, <3>2
  <2>4. ASSUME NEW c \in Callers, ClearBuilding(c), entry' # entry PROVE Grows
    BY <2>4 DEF ClearBuilding, Absent
  <2> QED BY <2>1, <2>2, <2>3, <2>4 DEF Next, Step, AllDone, vars, Call, BuildOk, BuildFails,
             InstallWaits, InstallTakesReady
<1> QED
  BY <1>1, TypeCorrect, PTL DEF Spec, NoReadyDowngrade
=============================================================================
