------------------------ MODULE ColdBuildLimiterProofs ------------------------
(* No slot is lost, no root has two listed leases, and no waiter is passed   *)
(* twice by the other class, whatever the requests, their classes and roots  *)
(* and the limit.                                                            *)
EXTENDS ColdBuildLimiter, FiniteSetTheorems, TLAPS

WithoutPermit == {"idle", "registering", "polling", "checked", "installing",
                  "taken"}
WithPermit == {"deciding", "settling", "removing", "returning", "holding"}
Leaving == {"removing", "returning"}

Live == {l \in Request : Sharers(l) # {}}
Dropping == {r \in Request : pc[r] \in Leaving}
Taken == {r \in Request : pc[r] = "taken"}

LeaseTypes ==
  /\ available \in Int
  /\ byRoot \in [Root -> Request \cup {NoLease}]
  /\ ref \in [Request -> Request \cup {NoLease}]
  /\ pc \in [Request -> PCs]

(* A request has a lease while it has a permit, and only then.               *)
PermitInv ==
  \A r \in Request : /\ pc[r] \in WithoutPermit => ref[r] = NoLease
                     /\ pc[r] \in WithPermit => ref[r] # NoLease

(* A lease without a root is not shared.                                     *)
PrivateInv ==
  \A r \in Request : ref[r] # NoLease /\ RootOf[ref[r]] = NoRoot => ref[r] = r

(* A lease somebody holds is the one listed for its root ...                 *)
ListedInv ==
  \A r \in Request :
    ref[r] # NoLease /\ pc[r] # "returning" /\ RootOf[ref[r]] # NoRoot
      => byRoot[RootOf[ref[r]]] = ref[r]

(* ... and a root lists leases of its own only.                              *)
ListingInv == \A x \in Root : byRoot[x] # NoLease => RootOf[byRoot[x]] = x

(* The lease's Drop runs once, and nobody takes the lease meanwhile.         *)
DropInv ==
  \A r, q \in Request :
    pc[r] = "removing" /\ q # r /\ ref[q] = ref[r] => pc[q] = "returning"

(* What an attempt checked holds until it ends: it has the lock.             *)
AttemptInv ==
  \A r \in Request : pc[r] = "installing" =>
    /\ ListedLease(r) = NoLease
    /\ \A q \in Request : pc[q] = "installing" => q = r

(* Only unclassified callers have a slot without a permit.                   *)
TakenInv == \A r \in Taken : Class[r] = Unclassified

IInv ==
  /\ LeaseTypes /\ PermitInv /\ PrivateInv /\ ListedInv /\ ListingInv /\ DropInv
  /\ AttemptInv /\ TakenInv /\ SlotsConserved

-----------------------------------------------------------------------------

LEMMA Finite ==
  /\ IsFiniteSet(Live) /\ IsFiniteSet(Dropping) /\ IsFiniteSet(Taken)
  /\ Cardinality(Live) \in Nat /\ Cardinality(Dropping) \in Nat /\ Cardinality(Taken) \in Nat
  <1>1. Live \subseteq Request /\ Dropping \subseteq Request /\ Taken \subseteq Request
    BY DEF Live, Dropping, Taken
  <1> QED BY <1>1, LimiterAssumption, FS_Subset, FS_CardinalityType

LEMMA Conserved ==
  /\ SlotsConserved <=>
       available + Cardinality(Taken) + Cardinality(Live) + Cardinality(Dropping) = Limit
  /\ SlotsConserved' <=>
       available' + Cardinality(Taken') + Cardinality(Live') + Cardinality(Dropping') = Limit
  BY DEF SlotsConserved, Live, Dropping, Leaving, Taken

LEMMA InitInv == ASSUME Init PROVE IInv
  <1> USE LimiterAssumption
  <1>1. LeaseTypes
    BY DEF Init, LeaseTypes, PCs
  <1>2. PermitInv /\ PrivateInv /\ ListedInv /\ ListingInv /\ DropInv /\ AttemptInv
    BY DEF Init, PermitInv, PrivateInv, ListedInv, ListingInv, DropInv, AttemptInv,
           WithoutPermit, WithPermit
  <1>3. Live = {} /\ Dropping = {} /\ Taken = {}
    BY DEF Init, Live, Dropping, Leaving, Taken, Sharers
  <1>4. SlotsConserved /\ TakenInv
    BY <1>3, FS_EmptySet, Conserved DEF Init, TakenInv
  <1> QED BY <1>1, <1>2, <1>4 DEF IInv

(* A step that moves no lease.                                               *)
LEMMA QuietStep ==
  ASSUME IInv, NEW r \in Request, NEW p \in PCs, Goto(r, p),
         pc[r] \notin Leaving \cup {"taken"}, p \notin Leaving \cup {"taken"},
         p \in WithoutPermit => ref[r] = NoLease,
         p \in WithPermit => ref[r] # NoLease,
         p = "installing" => ListedLease(r) = NoLease /\ Unlocked,
         UNCHANGED <<available, byRoot, ref>>
  PROVE  IInv'
  <1> USE LimiterAssumption
  <1>0. LeaseTypes /\ pc' = [pc EXCEPT ![r] = p]
    BY DEF IInv, Goto
  <1>1. LeaseTypes'
    BY <1>0 DEF LeaseTypes
  <1>2. PermitInv'
    BY <1>0 DEF IInv, LeaseTypes, PermitInv
  <1>3. PrivateInv' /\ ListingInv'
    BY DEF IInv, PrivateInv, ListingInv
  <1>4. ListedInv' /\ DropInv'
    BY <1>0 DEF IInv, LeaseTypes, ListedInv, DropInv, Leaving
  <1>5. AttemptInv'
    BY <1>0 DEF IInv, LeaseTypes, AttemptInv, ListedLease, Unlocked
  <1>6. \A l : Sharers(l)' = Sharers(l)
    BY <1>0 DEF Sharers, LeaseTypes, Leaving
  <1>7. Live' = Live /\ Dropping' = Dropping /\ Taken' = Taken
    BY <1>0, <1>6 DEF Live, Dropping, Taken, LeaseTypes
  <1>8. SlotsConserved' /\ TakenInv'
    BY <1>7, Conserved DEF IInv, TakenInv
  <1> QED BY <1>1, <1>2, <1>3, <1>4, <1>5, <1>8 DEF IInv

(* A request joins a lease that has a sharer.                                *)
LEMMA JoinStep ==
  ASSUME IInv, NEW r \in Request, NEW l \in Request, NEW p \in {"deciding", "holding"},
         Goto(r, p), pc[r] \in WithoutPermit \ {"taken"}, Sharers(l) # {}, RootOf[l] # NoRoot,
         ref' = [ref EXCEPT ![r] = l],
         UNCHANGED <<available, byRoot>>
  PROVE  IInv'
  <1> USE LimiterAssumption
  <1>0. LeaseTypes /\ pc' = [pc EXCEPT ![r] = p] /\ ref[r] = NoLease
    BY DEF IInv, Goto, PermitInv
  <1>1. PICK s \in Request : ref[s] = l /\ pc[s] \notin Leaving
    BY DEF Sharers, Leaving
  <1>2. LeaseTypes'
    BY <1>0 DEF LeaseTypes, PCs
  <1>3. PermitInv' /\ PrivateInv' /\ ListingInv'
    BY <1>0 DEF IInv, LeaseTypes, PermitInv, PrivateInv, ListingInv, WithoutPermit, WithPermit
  <1>4. ListedInv'
    BY <1>0, <1>1 DEF IInv, LeaseTypes, ListedInv, Leaving
  <1>5. DropInv'
    BY <1>0, <1>1 DEF IInv, LeaseTypes, DropInv, Leaving
  <1>6. AttemptInv'
    BY <1>0 DEF IInv, LeaseTypes, AttemptInv, ListedLease
  <1>7. Live' = Live
    <2>1. \A k \in Request : Sharers(k) \subseteq Sharers(k)'
      BY <1>0 DEF Sharers, LeaseTypes, WithoutPermit
    <2>2. \A k \in Request : k # l => Sharers(k)' = Sharers(k)
      BY <1>0 DEF Sharers, LeaseTypes, WithoutPermit
    <2> QED BY <2>1, <2>2 DEF Live
  <1>8. Dropping' = Dropping /\ Taken' = Taken
    BY <1>0 DEF Dropping, Taken, LeaseTypes, Leaving, WithoutPermit
  <1>9. SlotsConserved' /\ TakenInv'
    BY <1>7, <1>8, Conserved DEF IInv, TakenInv
  <1> QED BY <1>2, <1>3, <1>4, <1>5, <1>6, <1>9 DEF IInv

(* A request installs a lease of its own: nobody holds one of its root, and  *)
(* an older one of the same name can only be on its way out.                 *)
LEMMA InstallStep ==
  ASSUME IInv, NEW r \in Request, NEW p \in {"deciding", "holding"}, Goto(r, p),
         ref' = [ref EXCEPT ![r] = r],
         byRoot' = [x \in Root |-> IF x = RootOf[r] THEN r ELSE byRoot[x]],
         pc[r] = "taken" => available' = available,
         pc[r] # "taken" => available' = available - 1,
         pc[r] \in WithoutPermit, ListedLease(r) = NoLease,
         \A q \in Request : pc[q] = "installing" => q = r
  PROVE  IInv'
  <1> USE LimiterAssumption
  <1>0. /\ LeaseTypes /\ ref[r] = NoLease
        /\ pc' = [pc EXCEPT ![r] = p]
        /\ ref' = [ref EXCEPT ![r] = r]
        /\ byRoot' = [x \in Root |-> IF x = RootOf[r] THEN r ELSE byRoot[x]]
    BY DEF IInv, Goto, PermitInv
  <1>1. ASSUME NEW q \in Request, ref[q] # NoLease, pc[q] # "returning",
               RootOf[ref[q]] # NoRoot
        PROVE  RootOf[ref[q]] # RootOf[r] /\ ref[q] # r
    BY <1>1 DEF IInv, ListedInv, ListedLease
  <1>2. ASSUME NEW q \in Request, ref[q] = r PROVE pc[q] = "returning"
    <2>1. CASE RootOf[r] = NoRoot
      BY <1>0, <1>2, <2>1 DEF IInv, PrivateInv
    <2>2. CASE RootOf[r] # NoRoot
      BY <1>1, <1>2, <2>2
    <2> QED BY <2>1, <2>2
  <1>3. LeaseTypes'
    BY <1>0 DEF LeaseTypes, PCs
  <1>4. PermitInv' /\ PrivateInv'
    BY <1>0 DEF IInv, LeaseTypes, PermitInv, PrivateInv, WithoutPermit, WithPermit
  <1>5. ListingInv'
    BY <1>0 DEF IInv, LeaseTypes, ListingInv
  <1>6. ListedInv'
    <2> SUFFICES ASSUME NEW q \in Request, ref'[q] # NoLease, pc'[q] # "returning",
                        RootOf[ref'[q]] # NoRoot
                 PROVE  byRoot'[RootOf[ref'[q]]] = ref'[q]
      BY DEF ListedInv
    <2>1. CASE q = r
      BY <1>0, <2>1 DEF LeaseTypes
    <2>2. CASE q # r
      <3>1. ref'[q] = ref[q] /\ pc'[q] = pc[q]
        BY <1>0, <2>2 DEF LeaseTypes
      <3>2. byRoot[RootOf[ref[q]]] = ref[q] /\ RootOf[ref[q]] # RootOf[r]
        BY <1>1, <3>1 DEF IInv, ListedInv
      <3>3. RootOf[ref[q]] \in Root
        BY <1>0, <3>1 DEF LeaseTypes
      <3> QED BY <1>0, <3>1, <3>2, <3>3
    <2> QED BY <2>1, <2>2
  <1>7. DropInv'
    BY <1>0, <1>2 DEF IInv, LeaseTypes, DropInv
  <1>8. AttemptInv'
    BY <1>0 DEF LeaseTypes, AttemptInv
  <1>9. Live' = Live \cup {r} /\ r \notin Live /\ Dropping' = Dropping
    <2>1. Sharers(r) = {} /\ r \in Sharers(r)'
      BY <1>0, <1>2 DEF Sharers, LeaseTypes
    <2>2. \A k \in Request : k # r => Sharers(k)' = Sharers(k)
      BY <1>0 DEF Sharers, LeaseTypes
    <2>3. Dropping' = Dropping
      BY <1>0 DEF Dropping, LeaseTypes, Leaving, WithoutPermit
    <2> QED BY <2>1, <2>2, <2>3 DEF Live
  <1>10. SlotsConserved' /\ TakenInv'
    <2>1. Cardinality(Live') = Cardinality(Live) + 1
      BY <1>9, Finite, FS_AddElement
    <2>2. CASE pc[r] = "taken"
      <3>1. Taken' = Taken \ {r} /\ r \in Taken
        BY <1>0, <2>2 DEF Taken, LeaseTypes
      <3>2. Cardinality(Taken') = Cardinality(Taken) - 1
        BY <3>1, Finite, FS_RemoveElement
      <3> QED BY <1>9, <2>1, <2>2, <3>1, <3>2, Conserved, Finite DEF IInv, LeaseTypes, TakenInv
    <2>3. CASE pc[r] # "taken"
      <3>1. Taken' = Taken
        BY <1>0, <2>3 DEF Taken, LeaseTypes
      <3> QED BY <1>9, <2>1, <2>3, <3>1, Conserved, Finite DEF IInv, LeaseTypes, TakenInv
    <2> QED BY <2>2, <2>3
  <1> QED BY <1>3, <1>4, <1>5, <1>6, <1>7, <1>8, <1>10 DEF IInv

(* An unclassified caller takes a slot.                                      *)
LEMMA TakeStep ==
  ASSUME IInv, NEW r \in Request, TakeUnclassified(r)
  PROVE  IInv'
  <1> USE LimiterAssumption
  <1>0. /\ LeaseTypes /\ pc[r] = "idle" /\ Class[r] = Unclassified
        /\ pc' = [pc EXCEPT ![r] = "taken"]
        /\ available' = available - 1
        /\ UNCHANGED <<byRoot, ref>>
    BY DEF IInv, TakeUnclassified, Goto
  <1>1. LeaseTypes'
    BY <1>0 DEF LeaseTypes, PCs
  <1>2. PermitInv' /\ PrivateInv' /\ ListedInv' /\ ListingInv' /\ DropInv'
    BY <1>0 DEF IInv, LeaseTypes, PermitInv, PrivateInv, ListedInv, ListingInv, DropInv,
                WithoutPermit, WithPermit
  <1>3. AttemptInv'
    BY <1>0 DEF IInv, LeaseTypes, AttemptInv, ListedLease
  <1>4. \A l : Sharers(l)' = Sharers(l)
    BY <1>0 DEF Sharers, LeaseTypes
  <1>5. Live' = Live /\ Dropping' = Dropping
    BY <1>0, <1>4 DEF Live, Dropping, LeaseTypes, Leaving
  <1>6. Taken' = Taken \cup {r} /\ r \notin Taken
    BY <1>0 DEF Taken, LeaseTypes
  <1>7. SlotsConserved' /\ TakenInv'
    <2>1. Cardinality(Taken') = Cardinality(Taken) + 1
      BY <1>6, Finite, FS_AddElement
    <2> QED BY <1>0, <1>5, <1>6, <2>1, Conserved, Finite DEF IInv, LeaseTypes, TakenInv
  <1> QED BY <1>1, <1>2, <1>3, <1>7 DEF IInv

(* A request drops its permit, or its share of it.                           *)
LEMMA DropStep ==
  ASSUME IInv, NEW r \in Request, DropPermit(r), pc[r] \in {"deciding", "holding"},
         UNCHANGED <<available, byRoot>>
  PROVE  IInv'
  <1> USE LimiterAssumption
  <1>0. LeaseTypes /\ ref[r] \in Request /\ r \in Sharers(ref[r])
    BY DEF IInv, LeaseTypes, PermitInv, WithPermit, Sharers
  <1>1. CASE Sharers(ref[r]) = {r}
    <2>1. pc' = [pc EXCEPT ![r] = "removing"] /\ ref' = ref
      BY <1>1 DEF DropPermit, Goto
    <2>2. ASSUME NEW q \in Request, q # r, ref[q] = ref[r] PROVE pc[q] = "returning"
      <3>1. pc[q] \in Leaving
        BY <1>1, <2>2 DEF Sharers, Leaving
      <3> QED BY <2>2, <3>1 DEF IInv, DropInv, Leaving
    <2>3. LeaseTypes'
      BY <1>0, <2>1 DEF LeaseTypes, PCs
    <2>4. PermitInv' /\ PrivateInv' /\ ListedInv' /\ ListingInv'
      BY <1>0, <2>1 DEF IInv, LeaseTypes, PermitInv, PrivateInv, ListedInv, ListingInv,
                        WithoutPermit, WithPermit
    <2>5. DropInv'
      BY <1>0, <2>1, <2>2 DEF IInv, LeaseTypes, DropInv
    <2>6. AttemptInv'
      BY <1>0, <2>1 DEF IInv, LeaseTypes, AttemptInv, ListedLease
    <2>7. Live' = Live \ {ref[r]} /\ ref[r] \in Live
      <3>1. Sharers(ref[r])' = {}
        BY <1>0, <1>1, <2>1 DEF Sharers, LeaseTypes
      <3>2. \A k \in Request : k # ref[r] => Sharers(k)' = Sharers(k)
        BY <1>0, <2>1 DEF Sharers, LeaseTypes
      <3>3. \A k \in Request : k \in Live' <=> k \in Live /\ k # ref[r]
        BY <2>1, <3>1, <3>2 DEF Live
      <3> QED BY <1>0, <3>3 DEF Live
    <2>8. Dropping' = Dropping \cup {r} /\ r \notin Dropping /\ Taken' = Taken
      BY <1>0, <2>1 DEF Dropping, Taken, LeaseTypes, Leaving
    <2>9. SlotsConserved' /\ TakenInv'
      <3>1. Cardinality(Live') = Cardinality(Live) - 1
        BY <2>7, Finite, FS_RemoveElement
      <3>2. Cardinality(Dropping') = Cardinality(Dropping) + 1
        BY <2>8, Finite, FS_AddElement
      <3> QED BY <2>8, <3>1, <3>2, Conserved, Finite DEF IInv, LeaseTypes, TakenInv
    <2> QED BY <2>3, <2>4, <2>5, <2>6, <2>9 DEF IInv
  <1>2. CASE Sharers(ref[r]) # {r}
    <2>1. /\ pc' = [pc EXCEPT ![r] = Dropped(r)]
          /\ ref' = [ref EXCEPT ![r] = NoLease]
          /\ Dropped(r) \in {"exiting", "idle"}
      BY <1>2 DEF DropPermit, Goto, Dropped
    <2>2. PICK s \in Sharers(ref[r]) : s # r
      BY <1>0, <1>2
    <2>3. LeaseTypes'
      BY <1>0, <2>1 DEF LeaseTypes, PCs
    <2>4. PermitInv' /\ PrivateInv' /\ ListedInv' /\ ListingInv'
      BY <1>0, <2>1 DEF IInv, LeaseTypes, PermitInv, PrivateInv, ListedInv, ListingInv,
                        WithoutPermit, WithPermit
    <2>5. DropInv'
      <3> SUFFICES ASSUME NEW d \in Request, NEW q \in Request, pc'[d] = "removing",
                          q # d, ref'[q] = ref'[d]
                   PROVE  pc'[q] = "returning"
        BY DEF DropInv
      <3>1. d # r /\ pc[d] = "removing" /\ ref'[d] = ref[d] /\ ref[d] # NoLease
        BY <1>0, <2>1 DEF LeaseTypes, IInv, PermitInv, WithPermit
      <3>2. q # r
        BY <1>0, <2>1, <3>1 DEF LeaseTypes
      <3>3. ref'[q] = ref[q] /\ pc'[q] = pc[q]
        BY <1>0, <2>1, <3>2 DEF LeaseTypes
      <3> QED BY <3>1, <3>3 DEF IInv, DropInv
    <2>6. AttemptInv'
      BY <1>0, <2>1 DEF IInv, LeaseTypes, AttemptInv, ListedLease
    <2>7. Live' = Live
      <3>1. \A k \in Request : k # ref[r] => Sharers(k)' = Sharers(k)
        BY <1>0, <2>1 DEF Sharers, LeaseTypes
      <3>2. \A k \in Request : k = ref[r] => k \in Live' /\ k \in Live
        <4> SUFFICES ref[r] \in Live' /\ ref[r] \in Live
          OBVIOUS
        <4>1. \E k \in Request : k = ref[r] /\ s \in Sharers(k)'
          <5>1. s \in Request /\ ref'[s] = ref[r] /\ pc'[s] \notin {"removing", "returning"}
            BY <1>0, <2>1, <2>2 DEF Sharers, LeaseTypes
          <5> QED BY <1>0, <5>1 DEF Sharers
        <4> QED BY <1>0, <4>1 DEF Live
      <3> QED BY <3>1, <3>2 DEF Live
    <2>8. Dropping' = Dropping /\ Taken' = Taken
      BY <1>0, <2>1 DEF Dropping, Taken, LeaseTypes, Leaving
    <2>9. SlotsConserved' /\ TakenInv'
      BY <2>7, <2>8, Conserved DEF IInv, TakenInv
    <2> QED BY <2>3, <2>4, <2>5, <2>6, <2>9 DEF IInv
  <1> QED BY <1>1, <1>2

(* The last sharer unlists the lease; nobody else holds it.                  *)
LEMMA RemoveListingStep ==
  ASSUME IInv, NEW r \in Request, RemoveListing(r)
  PROVE  IInv'
  <1> USE LimiterAssumption
  <1>0. /\ LeaseTypes /\ pc[r] = "removing" /\ Unlocked
        /\ pc' = [pc EXCEPT ![r] = "returning"]
        /\ byRoot' = [x \in Root |->
             IF x = RootOf[ref[r]] /\ byRoot[x] = ref[r] THEN NoLease ELSE byRoot[x]]
        /\ UNCHANGED <<available, ref>>
    BY DEF IInv, RemoveListing, Goto
  <1>1. LeaseTypes'
    BY <1>0 DEF LeaseTypes, PCs
  <1>2. PermitInv' /\ PrivateInv'
    BY <1>0 DEF IInv, LeaseTypes, PermitInv, PrivateInv, WithoutPermit, WithPermit
  <1>3. ListingInv'
    BY <1>0 DEF IInv, LeaseTypes, ListingInv
  <1>4. ListedInv'
    <2> SUFFICES ASSUME NEW q \in Request, ref[q] # NoLease, pc'[q] # "returning",
                        RootOf[ref[q]] # NoRoot
                 PROVE  byRoot'[RootOf[ref[q]]] = ref[q]
      BY <1>0 DEF ListedInv
    <2>1. q # r /\ pc[q] # "returning" /\ RootOf[ref[q]] \in Root
      BY <1>0 DEF LeaseTypes
    <2>2. byRoot[RootOf[ref[q]]] = ref[q] /\ ref[q] # ref[r]
      BY <1>0, <2>1 DEF IInv, ListedInv, DropInv
    <2> QED BY <1>0, <2>1, <2>2
  <1>5. DropInv' /\ AttemptInv'
    BY <1>0 DEF IInv, LeaseTypes, DropInv, AttemptInv, Unlocked
  <1>6. \A l : Sharers(l)' = Sharers(l)
    BY <1>0 DEF Sharers, LeaseTypes
  <1>7. Live' = Live /\ Dropping' = Dropping /\ Taken' = Taken
    BY <1>0, <1>6 DEF Live, Dropping, Taken, LeaseTypes, Leaving
  <1>8. SlotsConserved' /\ TakenInv'
    BY <1>0, <1>7, Conserved DEF IInv, TakenInv
  <1> QED BY <1>1, <1>2, <1>3, <1>4, <1>5, <1>8 DEF IInv

LEMMA ReturnSlotStep ==
  ASSUME IInv, NEW r \in Request, ReturnSlot(r)
  PROVE  IInv'
  <1> USE LimiterAssumption
  <1>0. /\ LeaseTypes /\ pc[r] = "returning"
        /\ available' = available + 1
        /\ ref' = [ref EXCEPT ![r] = NoLease]
        /\ pc' = [pc EXCEPT ![r] = Dropped(r)]
        /\ Dropped(r) \in {"exiting", "idle"}
        /\ byRoot' = byRoot
    BY DEF IInv, ReturnSlot, Goto, Dropped
  <1>1. LeaseTypes'
    BY <1>0 DEF LeaseTypes, PCs
  <1>2. PermitInv' /\ PrivateInv' /\ ListedInv' /\ ListingInv'
    BY <1>0 DEF IInv, LeaseTypes, PermitInv, PrivateInv, ListedInv, ListingInv,
                WithoutPermit, WithPermit
  <1>3. DropInv'
    <2> SUFFICES ASSUME NEW d \in Request, NEW q \in Request, pc'[d] = "removing",
                        q # d, ref'[q] = ref'[d]
                 PROVE  pc'[q] = "returning"
      BY DEF DropInv
    <2>1. d # r /\ pc[d] = "removing" /\ ref'[d] = ref[d] /\ ref[d] # NoLease
      BY <1>0 DEF LeaseTypes, IInv, PermitInv, WithPermit
    <2>2. q # r
      BY <1>0, <2>1 DEF LeaseTypes
    <2>3. ref'[q] = ref[q] /\ pc'[q] = pc[q]
      BY <1>0, <2>2 DEF LeaseTypes
    <2> QED BY <2>1, <2>3 DEF IInv, DropInv
  <1>4. AttemptInv'
    BY <1>0 DEF IInv, LeaseTypes, AttemptInv, ListedLease
  <1>5. \A l \in Request : Sharers(l)' = Sharers(l)
    BY <1>0 DEF Sharers, LeaseTypes
  <1>6. Live' = Live
    BY <1>5 DEF Live
  <1>7. Dropping' = Dropping \ {r} /\ r \in Dropping /\ Taken' = Taken
    BY <1>0 DEF Dropping, Taken, LeaseTypes, Leaving
  <1>8. SlotsConserved' /\ TakenInv'
    <2>1. Cardinality(Dropping') = Cardinality(Dropping) - 1
      BY <1>7, Finite, FS_RemoveElement
    <2> QED BY <1>0, <1>6, <1>7, <2>1, Conserved, Finite DEF IInv, LeaseTypes, TakenInv
  <1> QED BY <1>1, <1>2, <1>3, <1>4, <1>8 DEF IInv

-----------------------------------------------------------------------------

LEMMA InvInductive ==
  ASSUME IInv, [Next]_vars
  PROVE  IInv'
  <1> USE LimiterAssumption
  <1>0. LeaseTypes /\ PermitInv
    BY DEF IInv
  <1>1. CASE UNCHANGED vars
    <2>1. UNCHANGED <<available, byRoot, ref, pc>>
      BY <1>1 DEF vars
    <2>2. LeaseTypes' /\ PermitInv' /\ PrivateInv' /\ ListedInv' /\ ListingInv'
          /\ DropInv' /\ AttemptInv'
      BY <2>1 DEF IInv, LeaseTypes, PermitInv, PrivateInv, ListedInv, ListingInv, DropInv,
                  AttemptInv, ListedLease
    <2>3. SlotsConserved' /\ TakenInv'
      BY <2>1 DEF IInv, SlotsConserved, Sharers, TakenInv, Taken
    <2> QED BY <2>2, <2>3 DEF IInv
  <1>2. ASSUME NEW r \in Request,
               RegisterCount(r) \/ RegisterQueue(r) \/ Decline(r) \/ CheckStanding(r)
               \/ Recheck(r) \/ ExitCount(r)
        PROVE  IInv'
    <2>1. PICK p \in {"registering", "polling", "exiting", "checked", "unqueueing"} :
            /\ Goto(r, p) /\ UNCHANGED <<available, byRoot, ref>>
            /\ pc[r] \in {"idle", "registering", "polling", "checked", "exiting"}
            /\ pc[r] = "exiting" => p = "unqueueing"
      BY <1>2 DEF RegisterCount, RegisterQueue, Decline, CheckStanding, Recheck, ExitCount
    <2>2. /\ p \in PCs /\ pc[r] \notin Leaving \cup {"taken"} /\ p \notin Leaving \cup {"taken"}
          /\ p \in WithoutPermit => ref[r] = NoLease
          /\ p \notin WithPermit /\ p # "installing"
      BY <1>0, <2>1 DEF PCs, PermitInv, Leaving, WithoutPermit, WithPermit
    <2> QED BY <2>1, <2>2, QuietStep
  <1>3. ASSUME NEW r \in Request, AcceptStanding(r) \/ AcceptShared(r) \/ Settle(r)
        PROVE  IInv'
    <2>1. PICK p \in {"settling", "exiting", "holding"} :
            /\ Goto(r, p) /\ UNCHANGED <<available, byRoot, ref>>
            /\ pc[r] \in {"deciding", "settling"}
      BY <1>3 DEF AcceptStanding, AcceptShared, Settle, Admitted
    <2>2. /\ p \in PCs /\ pc[r] \notin Leaving \cup {"taken"} /\ p \notin Leaving \cup {"taken"}
          /\ ref[r] # NoLease
          /\ p \notin WithoutPermit /\ p # "installing"
      BY <1>0, <2>1 DEF PCs, PermitInv, Leaving, WithoutPermit, WithPermit
    <2> QED BY <2>1, <2>2, QuietStep
  <1>4. ASSUME NEW r \in Request, ExitQueue(r)
        PROVE  IInv'
    <2>1. PICK p \in {"idle", "holding"} :
            /\ Goto(r, p) /\ UNCHANGED <<available, byRoot, ref>>
            /\ pc[r] = "unqueueing"
            /\ p = "idle" <=> ref[r] = NoLease
      BY <1>4 DEF ExitQueue
    <2>2. /\ p \in PCs /\ pc[r] \notin Leaving \cup {"taken"} /\ p \notin Leaving \cup {"taken"}
          /\ p # "installing"
          /\ p \in WithoutPermit => ref[r] = NoLease
          /\ p \in WithPermit => ref[r] # NoLease
      BY <2>1 DEF PCs, Leaving, WithoutPermit, WithPermit
    <2> QED BY <2>1, <2>2, QuietStep
  <1>5. ASSUME NEW r \in Request, ShareRoot(r)
        PROVE  IInv'
    <2>1. /\ pc[r] \in WithoutPermit \ {"taken"} /\ Goto(r, "deciding")
          /\ ListedLease(r) # NoLease /\ Sharers(ListedLease(r)) # {}
          /\ ref' = [ref EXCEPT ![r] = ListedLease(r)]
          /\ UNCHANGED <<available, byRoot>>
      BY <1>5 DEF ShareRoot, Asking, WithoutPermit
    <2>2. ListedLease(r) \in Request /\ RootOf[ListedLease(r)] # NoRoot
      BY <1>0, <2>1 DEF ListedLease, LeaseTypes, IInv, ListingInv
    <2> QED BY <2>1, <2>2, JoinStep
  <1>6. ASSUME NEW r \in Request, UpgradeWeak(r)
        PROVE  IInv'
    <2>1. PICK l \in Request : /\ RootOf[l] = RootOf[r]
                               /\ Sharers(l) # {}
                               /\ ref' = [ref EXCEPT ![r] = l]
      BY <1>6 DEF UpgradeWeak
    <2>2. /\ pc[r] \in WithoutPermit \ {"taken"} /\ Goto(r, "holding") /\ RootOf[r] # NoRoot
          /\ UNCHANGED <<available, byRoot>>
      BY <1>6 DEF UpgradeWeak, WithoutPermit
    <2> QED BY <2>1, <2>2, JoinStep
  <1>7. ASSUME NEW r \in Request, InstallUnclassified(r)
        PROVE  IInv'
    <2>1. /\ pc[r] = "taken" /\ Unlocked /\ Goto(r, "holding")
          /\ ref' = [ref EXCEPT ![r] = r] /\ UNCHANGED <<available, byRoot>>
      BY <1>7 DEF InstallUnclassified
    <2>2. RootOf[r] = NoRoot
      BY <2>1 DEF IInv, TakenInv, Taken
    <2>3. byRoot' = [x \in Root |-> IF x = RootOf[r] THEN r ELSE byRoot[x]]
      BY <1>0, <2>1, <2>2 DEF LeaseTypes
    <2>4. pc[r] \in WithoutPermit /\ ListedLease(r) = NoLease
          /\ \A q \in Request : pc[q] # "installing"
      BY <2>1, <2>2 DEF WithoutPermit, ListedLease, Unlocked
    <2> QED BY <2>1, <2>3, <2>4, InstallStep
  <1>8. ASSUME NEW r \in Request, BeginTry(r)
        PROVE  IInv'
    <2>1. /\ pc[r] \in {"idle", "polling", "checked"} /\ Goto(r, "installing")
          /\ Unlocked /\ ListedLease(r) = NoLease
          /\ UNCHANGED <<available, byRoot, ref>>
      BY <1>8 DEF BeginTry, Asking, Eligible
    <2>2. /\ "installing" \in PCs
          /\ pc[r] \notin Leaving \cup {"taken"} /\ "installing" \notin Leaving \cup {"taken"}
          /\ ref[r] = NoLease /\ "installing" \notin WithPermit
      BY <1>0, <2>1 DEF PCs, PermitInv, Leaving, WithoutPermit, WithPermit
    <2> QED BY <2>1, <2>2, QuietStep
  <1>9. ASSUME NEW r \in Request, EndTry(r)
        PROVE  IInv'
    <2>1. ASSUME NEW p \in {"polling", "idle"}, Goto(r, p), UNCHANGED <<available, byRoot, ref>>
          PROVE  IInv'
      <3>1. /\ p \in PCs /\ p # "installing"
            /\ pc[r] \notin Leaving \cup {"taken"} /\ p \notin Leaving \cup {"taken"}
            /\ ref[r] = NoLease /\ p \notin WithPermit
        BY <1>0, <1>9 DEF EndTry, PCs, PermitInv, Leaving, WithoutPermit, WithPermit
      <3> QED BY <2>1, <3>1, QuietStep
    <2>2. CASE Installed(r, seen)
      <3>1. /\ pc[r] = "installing" /\ pc[r] \in WithoutPermit /\ ListedLease(r) = NoLease
            /\ \A q \in Request : pc[q] = "installing" => q = r
        BY <1>9 DEF EndTry, IInv, AttemptInv, WithoutPermit
      <3> QED BY <2>2, <3>1, InstallStep DEF Installed
    <2> QED BY <1>9, <2>1, <2>2 DEF EndTry
  <1>10. ASSUME NEW r \in Request, Refuse(r) \/ Release(r)
         PROVE  IInv'
    BY <1>10, DropStep DEF Refuse, Release
  <1> QED BY <1>1, <1>2, <1>3, <1>4, <1>5, <1>6, <1>7, <1>8, <1>9, <1>10,
             TakeStep, RemoveListingStep, ReturnSlotStep DEF Next

(* No slot of cold_build_limiter.rs is lost or made up, for any set of       *)
(* requests, any classes, roots and limit: refused predicates, sharers that  *)
(* leave in any order, Drops in progress and slots an unclassified caller    *)
(* has taken before its permit is installed included.                        *)
THEOREM SlotsAreConserved == Spec => []SlotsConserved
  <1>1. Init => IInv
    BY InitInv
  <1>2. IInv /\ [Next]_vars => IInv'
    BY InvInductive
  <1>3. IInv => SlotsConserved
    BY DEF IInv
  <1> QED BY <1>1, <1>2, <1>3, PTL DEF Spec

(* install_classified_permit and the lease's Drop keep at most one listed    *)
(* lease per root, for any set of requests and roots.                        *)
THEOREM RootsShareOneLease == Spec => []OneLeasePerRoot
  <1>1. Init => IInv
    BY InitInv
  <1>2. IInv /\ [Next]_vars => IInv'
    BY InvInductive
  <1>3. IInv => OneLeasePerRoot
    BY LimiterAssumption DEF IInv, ListedInv, OneLeasePerRoot
  <1> QED BY <1>1, <1>2, <1>3, PTL DEF Spec

-----------------------------------------------------------------------------
(* The queue, the counters and the turns                                     *)

RestTypes ==
  /\ available \in Nat
  /\ waiting \in [Classes -> Int]
  /\ queued \in Seq(Request)
  /\ turns \in Seq(Turn)
  /\ seen \in 0..Limit
  /\ before \in [Request -> SUBSET Request]
  /\ passed \in [Request -> 0..2]

(* A waiter is queued once, from its registration until its AdmissionWaiter  *)
(* is dropped; a ticketless request never is.                                *)
QueueInv ==
  /\ \A i, j \in DOMAIN queued : queued[i] = queued[j] => i = j
  /\ \A r \in Request :
       /\ pc[r] \in {"polling", "checked", "exiting", "unqueueing"} => Queued(r)
       /\ pc[r] \in {"idle", "registering", "taken", "holding"} => ~Queued(r)
       /\ pc[r] \in {"installing", "deciding", "settling"} /\ r \in Blocking => Queued(r)
       /\ Queued(r) \/ pc[r] = "registering" => r \in Blocking
       /\ pc[r] = "installing" => r \in Classified

(* waiting_by_class counts the waiters from before they are queued until     *)
(* just before they leave the queue.                                         *)
Counts(r) == pc[r] = "registering" \/ (Queued(r) /\ pc[r] # "unqueueing")

Counted(c) == {r \in Request : Class[r] = c /\ Counts(r)}

CountInv == \A c \in Classes : waiting[c] = Cardinality(Counted(c))

FullInv == IInv /\ RestTypes /\ QueueInv /\ CountInv

LEMMA CountedFinite ==
  ASSUME NEW c
  PROVE  /\ IsFiniteSet(Counted(c)) /\ Cardinality(Counted(c)) \in Nat
         /\ Cardinality(Counted(c)) <= Cardinality(Request)
  <1>1. Counted(c) \subseteq Request
    BY DEF Counted
  <1> QED BY <1>1, LimiterAssumption, FS_Subset, FS_CardinalityType

LEMMA SlotBound == ASSUME FullInv PROVE available <= Limit
  <1>1. available + Cardinality(Taken) + Cardinality(Live) + Cardinality(Dropping) = Limit
    BY Conserved DEF FullInv, IInv
  <1> QED BY <1>1, Finite, LimiterAssumption DEF FullInv, RestTypes

LEMMA FullTypes == ASSUME FullInv PROVE TypeOK
  <1>1. available \in 0..Limit
    BY SlotBound, LimiterAssumption DEF FullInv, RestTypes
  <1>2. waiting \in [Classes -> 0..Cardinality(Request)]
    <2>1. Cardinality(Request) \in Nat
      BY LimiterAssumption, FS_CardinalityType
    <2>2. ASSUME NEW c \in Classes PROVE waiting[c] \in 0..Cardinality(Request)
      BY <2>1, CountedFinite DEF FullInv, CountInv
    <2> QED BY <2>2 DEF FullInv, RestTypes
  <1> QED BY <1>1, <1>2 DEF FullInv, RestTypes, IInv, LeaseTypes, TypeOK

LEMMA InitFull == ASSUME Init PROVE FullInv
  <1> USE LimiterAssumption
  <1>1. RestTypes
    BY DEF Init, RestTypes
  <1>2. QueueInv
    BY DEF Init, QueueInv, Queued, Range
  <1>3. \A c \in Classes : Counted(c) = {}
    BY DEF Init, Counted, Counts, Queued, Range
  <1>4. CountInv
    BY <1>3, FS_EmptySet DEF Init, CountInv
  <1> QED BY <1>1, <1>2, <1>4, InitInv DEF FullInv

LEMMA RemovedAt ==
  ASSUME NEW S, NEW s \in Seq(S), NEW i \in DOMAIN s
  PROVE  /\ RemoveAt(s, i) \in Seq(S)
         /\ Len(RemoveAt(s, i)) = Len(s) - 1
         /\ \A j \in 1..(Len(s) - 1) : RemoveAt(s, i)[j] = IF j < i THEN s[j] ELSE s[j + 1]
  <1> DEFINE a == SubSeq(s, 1, i - 1)
             b == SubSeq(s, i + 1, Len(s))
  <1>0. Len(s) \in Nat /\ i \in 1..Len(s)
    OBVIOUS
  <1>1. a \in Seq(S) /\ Len(a) = i - 1 /\ \A j \in 1..(i - 1) : a[j] = s[j]
    BY <1>0
  <1>2. b \in Seq(S) /\ Len(b) = Len(s) - i /\ \A j \in 1..(Len(s) - i) : b[j] = s[i + j]
    BY <1>0
  <1>3. RemoveAt(s, i) = a \o b
    BY DEF RemoveAt
  <1> HIDE DEF a, b
  <1>4. RemoveAt(s, i) \in Seq(S) /\ Len(RemoveAt(s, i)) = Len(s) - 1
    BY <1>0, <1>1, <1>2, <1>3
  <1>5. ASSUME NEW j \in 1..(Len(s) - 1)
        PROVE  RemoveAt(s, i)[j] = IF j < i THEN s[j] ELSE s[j + 1]
    <2>1. CASE j < i
      BY <1>0, <1>1, <1>2, <1>3, <2>1
    <2>2. CASE j >= i
      <3>1. (a \o b)[j] = b[j - (i - 1)] /\ j - (i - 1) \in 1..(Len(s) - i)
        BY <1>0, <1>1, <1>2, <2>2
      <3>2. b[j - (i - 1)] = s[i + (j - (i - 1))] /\ i + (j - (i - 1)) = j + 1
        BY <1>0, <1>2, <3>1
      <3> QED BY <1>0, <1>3, <2>2, <3>1, <3>2
    <2> QED BY <1>0, <2>1, <2>2
  <1> QED BY <1>4, <1>5

LEMMA PendingClassified ==
  ASSUME turns \in Seq(Turn), NEW r, PendingTurn(r)
  PROVE  r \in Classified
  <1>1. PICK i \in DOMAIN turns : turns[i].req = r
    BY DEF PendingTurn
  <1>2. turns[i] \in Turn
    OBVIOUS
  <1> QED BY <1>1, <1>2 DEF Turn

LEMMA SettledTyped ==
  ASSUME turns \in Seq(Turn), NEW r \in Request, PendingTurn(r)
  PROVE  SettledTurns(r) \in Seq(Turn) /\ RemoveAt(turns, TurnOf(r)) \in Seq(Turn)
  <1> DEFINE mine == TurnOf(r)
             kept == {j \in DOMAIN turns : turns[j].settled}
             settled == [turns EXCEPT ![mine] = [req |-> r, settled |-> TRUE]]
  <1>1. mine \in DOMAIN turns
    BY DEF PendingTurn, TurnOf
  <1>2. [req |-> r, settled |-> TRUE] \in Turn
    BY PendingClassified DEF Turn
  <1>3. settled \in Seq(Turn) /\ DOMAIN settled = DOMAIN turns
    BY <1>1, <1>2
  <1>4. RemoveAt(turns, mine) \in Seq(Turn)
    BY <1>1, RemovedAt
  <1>5. ASSUME kept # {} PROVE RemoveAt(settled, CHOOSE j \in kept : TRUE) \in Seq(Turn)
    <2>1. (CHOOSE j \in kept : TRUE) \in DOMAIN settled
      BY <1>3, <1>5
    <2> QED BY <1>3, <2>1, RemovedAt
  <1>6. SettledTurns(r) = IF \E j \in kept : j > mine THEN RemoveAt(turns, mine)
                          ELSE IF kept = {} THEN settled
                          ELSE RemoveAt(settled, CHOOSE j \in kept : TRUE)
    BY DEF SettledTurns
  <1> HIDE DEF mine, kept, settled
  <1> QED BY <1>3, <1>4, <1>5, <1>6 DEF mine

(* A step of a request that does not register, and leaves no queue.          *)
LEMMA QueueKept ==
  ASSUME FullInv, IInv', NEW r \in Request, NEW p \in PCs, Goto(r, p),
         pc[r] \notin {"registering", "unqueueing"}, p \notin {"registering", "unqueueing"},
         p \in {"polling", "checked", "exiting"} => Queued(r),
         p \in {"idle", "taken", "holding"} => ~Queued(r),
         p \in {"installing", "deciding", "settling"} /\ r \in Blocking => Queued(r),
         p = "installing" => r \in Classified,
         UNCHANGED <<waiting, queued>>,
         available' \in Nat, turns' \in Seq(Turn), seen' \in 0..Limit,
         before' \in [Request -> SUBSET Request], passed' \in [Request -> 0..2]
  PROVE  FullInv'
  <1>0. pc \in [Request -> PCs] /\ pc' = [pc EXCEPT ![r] = p] /\ RestTypes
    BY DEF FullInv, IInv, LeaseTypes, Goto
  <1>1. RestTypes'
    BY <1>0 DEF RestTypes
  <1>2. \A q : Queued(q)' = Queued(q)
    BY DEF Queued
  <1>3. QueueInv'
    BY <1>0, <1>2 DEF FullInv, QueueInv
  <1>4. \A q \in Request : Counts(q)' <=> Counts(q)
    BY <1>0, <1>2 DEF Counts
  <1>5. \A c : Counted(c)' = Counted(c)
    BY <1>4 DEF Counted
  <1>6. CountInv'
    BY <1>5 DEF FullInv, CountInv
  <1> QED BY <1>1, <1>3, <1>6 DEF FullInv

LEMMA RegisterCountFull ==
  ASSUME FullInv, IInv', NEW r \in Request, RegisterCount(r)
  PROVE  FullInv'
  <1> USE LimiterAssumption
  <1>0. /\ pc \in [Request -> PCs] /\ pc' = [pc EXCEPT ![r] = "registering"] /\ RestTypes
        /\ pc[r] = "idle" /\ r \in Blocking /\ ~Queued(r)
        /\ waiting' = [waiting EXCEPT ![Class[r]] = @ + 1]
        /\ UNCHANGED <<available, queued, turns, seen, before, passed>>
        /\ Class[r] \in Classes
    BY DEF FullInv, IInv, LeaseTypes, QueueInv, RegisterCount, Goto, ghost
  <1>1. RestTypes'
    BY <1>0 DEF RestTypes
  <1>2. \A q : Queued(q)' = Queued(q)
    BY <1>0 DEF Queued
  <1>3. QueueInv'
    BY <1>0, <1>2 DEF FullInv, QueueInv
  <1>4. \A q \in Request : q # r => (Counts(q)' <=> Counts(q))
    BY <1>0, <1>2 DEF Counts
  <1>5. Counts(r)' /\ ~Counts(r)
    BY <1>0 DEF Counts
  <1>6. /\ \A c : c # Class[r] => Counted(c)' = Counted(c)
        /\ Counted(Class[r])' = Counted(Class[r]) \cup {r} /\ r \notin Counted(Class[r])
    BY <1>4, <1>5 DEF Counted
  <1>7. Cardinality(Counted(Class[r])') = Cardinality(Counted(Class[r])) + 1
    BY <1>6, CountedFinite, FS_AddElement
  <1>8. CountInv'
    <2> SUFFICES ASSUME NEW c \in Classes PROVE waiting'[c] = Cardinality(Counted(c)')
      BY DEF CountInv
    <2>1. waiting[c] = Cardinality(Counted(c))
      BY DEF FullInv, CountInv
    <2>2. CASE c = Class[r]
      BY <1>0, <1>7, <2>1, <2>2 DEF RestTypes
    <2>3. CASE c # Class[r]
      BY <1>0, <1>6, <2>1, <2>3 DEF RestTypes
    <2> QED BY <2>2, <2>3
  <1> QED BY <1>1, <1>3, <1>8 DEF FullInv

LEMMA ExitCountFull ==
  ASSUME FullInv, IInv', NEW r \in Request, ExitCount(r)
  PROVE  FullInv'
  <1> USE LimiterAssumption
  <1>0. /\ pc \in [Request -> PCs] /\ pc' = [pc EXCEPT ![r] = "unqueueing"] /\ RestTypes
        /\ pc[r] = "exiting" /\ Queued(r)
        /\ waiting' = [waiting EXCEPT ![Class[r]] = @ - 1]
        /\ UNCHANGED <<available, queued, turns, seen, before, passed>>
        /\ Class[r] \in Classes
    BY DEF FullInv, IInv, LeaseTypes, QueueInv, ExitCount, Goto, ghost
  <1>1. RestTypes'
    BY <1>0 DEF RestTypes
  <1>2. \A q : Queued(q)' = Queued(q)
    BY <1>0 DEF Queued
  <1>3. QueueInv'
    BY <1>0, <1>2 DEF FullInv, QueueInv
  <1>4. \A q \in Request : q # r => (Counts(q)' <=> Counts(q))
    BY <1>0, <1>2 DEF Counts
  <1>5. ~Counts(r)' /\ Counts(r)
    BY <1>0 DEF Counts
  <1>6. /\ \A c : c # Class[r] => Counted(c)' = Counted(c)
        /\ Counted(Class[r])' = Counted(Class[r]) \ {r} /\ r \in Counted(Class[r])
    BY <1>4, <1>5 DEF Counted
  <1>7. Cardinality(Counted(Class[r])') = Cardinality(Counted(Class[r])) - 1
    <2> DEFINE K == Counted(Class[r])
    <2>1. IsFiniteSet(K) /\ r \in K /\ Counted(Class[r])' = K \ {r}
      BY <1>6, CountedFinite
    <2> HIDE DEF K
    <2>2. Cardinality(K \ {r}) = Cardinality(K) - 1
      BY <2>1, FS_RemoveElement
    <2> QED BY <2>1, <2>2 DEF K
  <1>8. CountInv'
    <2> SUFFICES ASSUME NEW c \in Classes PROVE waiting'[c] = Cardinality(Counted(c)')
      BY DEF CountInv
    <2>1. waiting[c] = Cardinality(Counted(c))
      BY DEF FullInv, CountInv
    <2>2. CASE c = Class[r]
      BY <1>0, <1>7, <2>1, <2>2 DEF RestTypes
    <2>3. CASE c # Class[r]
      BY <1>0, <1>6, <2>1, <2>3 DEF RestTypes
    <2> QED BY <2>2, <2>3
  <1> QED BY <1>1, <1>3, <1>8 DEF FullInv

LEMMA RegisterQueueFull ==
  ASSUME FullInv, IInv', NEW r \in Request, RegisterQueue(r)
  PROVE  FullInv'
  <1>0. /\ pc \in [Request -> PCs] /\ pc' = [pc EXCEPT ![r] = "polling"] /\ RestTypes
        /\ pc[r] = "registering" /\ ~Queued(r) /\ r \in Blocking
        /\ queued' = Append(queued, r)
        /\ UNCHANGED <<available, waiting, turns, seen, before, passed>>
    BY DEF FullInv, IInv, LeaseTypes, QueueInv, RegisterQueue, Goto, ghost
  <1>1. RestTypes'
    BY <1>0 DEF RestTypes
  <1>2. \A q : Queued(q)' <=> Queued(q) \/ q = r
    <2>1. /\ DOMAIN queued' = DOMAIN queued \cup {Len(queued) + 1}
          /\ \A i \in DOMAIN queued : queued'[i] = queued[i]
          /\ queued'[Len(queued) + 1] = r
      BY <1>0 DEF RestTypes
    <2> QED BY <2>1 DEF Queued, Range
  <1>3. \A i, j \in DOMAIN queued' : queued'[i] = queued'[j] => i = j
    BY <1>0 DEF RestTypes, FullInv, QueueInv, Queued, Range
  <1>4. QueueInv'
    BY <1>0, <1>2, <1>3 DEF FullInv, QueueInv
  <1>5. \A q \in Request : Counts(q)' <=> Counts(q)
    BY <1>0, <1>2 DEF Counts
  <1>6. \A c : Counted(c)' = Counted(c)
    BY <1>5 DEF Counted
  <1>7. CountInv'
    BY <1>0, <1>6 DEF FullInv, CountInv
  <1> QED BY <1>1, <1>4, <1>7 DEF FullInv

LEMMA ExitQueueFull ==
  ASSUME FullInv, IInv', NEW r \in Request, ExitQueue(r)
  PROVE  FullInv'
  <1> DEFINE place == CHOOSE i \in DOMAIN queued : queued[i] = r
             p == IF ref[r] = NoLease THEN "idle" ELSE "holding"
  <1>0. /\ pc \in [Request -> PCs] /\ pc' = [pc EXCEPT ![r] = p] /\ RestTypes
        /\ p \in {"idle", "holding"}
        /\ pc[r] = "unqueueing" /\ Queued(r)
        /\ queued' = RemoveAt(queued, place)
        /\ UNCHANGED <<available, waiting, turns, seen, before, passed>>
    BY DEF FullInv, IInv, LeaseTypes, QueueInv, ExitQueue, Goto, ghost
  <1>1. place \in DOMAIN queued /\ queued[place] = r
    BY <1>0 DEF Queued, Range
  <1> HIDE DEF place, p
  <1>2. /\ queued' \in Seq(Request)
        /\ Len(queued') = Len(queued) - 1
        /\ \A j \in 1..(Len(queued) - 1) :
             queued'[j] = IF j < place THEN queued[j] ELSE queued[j + 1]
    BY <1>0, <1>1, RemovedAt DEF RestTypes
  <1>3. RestTypes'
    BY <1>0, <1>2 DEF RestTypes
  <1>4. \A i, j \in DOMAIN queued : queued[i] = queued[j] => i = j
    BY DEF FullInv, QueueInv
  <1>d. /\ DOMAIN queued = 1..Len(queued) /\ DOMAIN queued' = 1..(Len(queued) - 1)
        /\ Len(queued) \in Nat /\ place \in 1..Len(queued)
    BY <1>0, <1>1, <1>2 DEF RestTypes
  <1>5. \A i, j \in DOMAIN queued' : queued'[i] = queued'[j] => i = j
    <2> SUFFICES ASSUME NEW i \in 1..(Len(queued) - 1), NEW j \in 1..(Len(queued) - 1),
                        queued'[i] = queued'[j]
                 PROVE  i = j
      BY <1>d
    <2> DEFINE at(k) == IF k < place THEN k ELSE k + 1
    <2>1. at(i) \in 1..Len(queued) /\ at(j) \in 1..Len(queued)
      BY <1>d
    <2>2. queued'[i] = queued[at(i)] /\ queued'[j] = queued[at(j)]
      BY <1>2
    <2>3. at(i) = at(j)
      BY <1>4, <1>d, <2>1, <2>2
    <2> QED BY <1>d, <2>3
  <1>6. ASSUME NEW q PROVE Queued(q)' <=> Queued(q) /\ q # r
    <2>1. ASSUME Queued(q)' PROVE Queued(q) /\ q # r
      <3>1. PICK j \in DOMAIN queued' : queued'[j] = q
        BY <2>1 DEF Queued, Range
      <3>2. PICK i \in DOMAIN queued : queued[i] = q /\ i # place
        <4> DEFINE at == IF j < place THEN j ELSE j + 1
        <4>1. at \in 1..Len(queued) /\ at # place
          BY <1>d, <3>1
        <4>2. queued'[j] = queued[at]
          BY <1>2, <1>d, <3>1
        <4> QED BY <1>d, <3>1, <4>1, <4>2
      <3> QED BY <1>1, <1>4, <3>2 DEF Queued, Range
    <2>2. ASSUME Queued(q), q # r PROVE Queued(q)'
      <3>1. PICK i \in DOMAIN queued : queued[i] = q
        BY <2>2 DEF Queued, Range
      <3>2. i # place
        BY <1>1, <2>2, <3>1
      <3>3. CASE i < place
        <4>1. i \in DOMAIN queued' /\ queued'[i] = q
          BY <1>2, <1>d, <3>1, <3>3
        <4> QED BY <4>1 DEF Queued, Range
      <3>4. CASE i > place
        <4>1. i - 1 \in DOMAIN queued' /\ queued'[i - 1] = q
          BY <1>0, <1>1, <1>2, <3>1, <3>4 DEF RestTypes
        <4> QED BY <4>1 DEF Queued, Range
      <3> QED BY <1>0, <1>1, <3>1, <3>2, <3>3, <3>4 DEF RestTypes
    <2> QED BY <2>1, <2>2
  <1>7. QueueInv'
    BY <1>0, <1>5, <1>6 DEF FullInv, QueueInv
  <1>8. \A q \in Request : Counts(q)' <=> Counts(q)
    BY <1>0, <1>6 DEF Counts
  <1>9. \A c : Counted(c)' = Counted(c)
    BY <1>8 DEF Counted
  <1>10. CountInv'
    BY <1>0, <1>9 DEF FullInv, CountInv
  <1> QED BY <1>3, <1>7, <1>10 DEF FullInv

(* The ghosts keep their types.                                              *)
LEMMA GhostsTyped ==
  ASSUME RestTypes, NEW r \in Request
  PROVE  /\ StopsWaiting(r) => before' \in [Request -> SUBSET Request] /\ passed' \in [Request -> 0..2]
         /\ \A free : Overtakes(r, free) =>
              before' \in [Request -> SUBSET Request] /\ passed' \in [Request -> 0..2]
         /\ Overtaken(r) => before' \in [Request -> SUBSET Request] /\ passed' \in [Request -> 0..2]
  <1>1. StopsWaiting(r) => before' \in [Request -> SUBSET Request] /\ passed' \in [Request -> 0..2]
    BY DEF RestTypes, StopsWaiting
  <1>2. ASSUME NEW free, Overtakes(r, free)
        PROVE  before' \in [Request -> SUBSET Request] /\ passed' \in [Request -> 0..2]
    <2> DEFINE mates == {w \in Request : Class[w] = Class[r] /\ ~GoesBefore(r, w, free)}
               ahead == {w \in Request : GoesBefore(r, w, free)}
    <2>1. before' = [q \in Request |-> IF q = r THEN ahead ELSE before[q] \ mates]
          /\ passed' = [w \in Request |-> IF w \in mates THEN 0 ELSE passed[w]]
      BY <1>2 DEF Overtakes
    <2>2. ahead \subseteq Request
      OBVIOUS
    <2> HIDE DEF ahead, mates
    <2> QED BY <2>1, <2>2 DEF RestTypes
  <1>3. Overtaken(r) => before' \in [Request -> SUBSET Request] /\ passed' \in [Request -> 0..2]
    BY DEF RestTypes, Overtaken
  <1> QED BY <1>1, <1>2, <1>3

(* An install takes a free slot: its compare-and-swap saw one.               *)
LEMMA InstalledFull ==
  ASSUME FullInv, IInv', NEW r \in Request, NEW free, Installed(r, free),
         available > 0, pc[r] \notin {"registering", "unqueueing"},
         r \in Blocking => Queued(r), r \in Classified,
         seen' \in 0..Limit, UNCHANGED <<waiting, queued>>
  PROVE  FullInv'
  <1>0. RestTypes /\ "deciding" \in PCs /\ Goto(r, "deciding")
    BY DEF FullInv, Installed, PCs
  <1>1. available' \in Nat
    BY <1>0 DEF Installed, RestTypes
  <1>2. turns' \in Seq(Turn)
    <2>1. [req |-> r, settled |-> FALSE] \in Turn
      BY DEF Turn
    <2> QED BY <1>0, <2>1 DEF Installed, RestTypes
  <1>3. before' \in [Request -> SUBSET Request] /\ passed' \in [Request -> 0..2]
    BY <1>0, GhostsTyped DEF Installed
  <1> QED BY <1>0, <1>1, <1>2, <1>3, QueueKept

LEMMA FullStep ==
  ASSUME FullInv, [Next]_vars
  PROVE  FullInv'
  <1> USE LimiterAssumption
  <1>0. IInv /\ IInv' /\ RestTypes /\ QueueInv
    BY InvInductive DEF FullInv
  <1>s. available \in 0..Limit
    BY <1>0, SlotBound DEF RestTypes
  <1>1. CASE UNCHANGED vars
    <2>1. RestTypes' /\ QueueInv' /\ CountInv'
      BY <1>1 DEF vars, FullInv, RestTypes, QueueInv, CountInv, Counted, Counts, Queued
    <2> QED BY <1>0, <2>1 DEF FullInv
  <1>2. ASSUME NEW r \in Request, CheckStanding(r) \/ Recheck(r)
        PROVE  FullInv'
    <2>1. PICK p \in {"checked", "polling"} :
            /\ Goto(r, p) /\ pc[r] \in {"polling", "checked"}
            /\ UNCHANGED <<available, waiting, queued, turns, seen, before, passed>>
      BY <1>2 DEF CheckStanding, Recheck, ghost
    <2>2. Queued(r) /\ p \in PCs
      BY <1>0, <2>1 DEF QueueInv, PCs
    <2> QED BY <1>0, <2>1, <2>2, QueueKept DEF RestTypes
  <1>3. ASSUME NEW r \in Request, Decline(r)
        PROVE  FullInv'
    <2>1. /\ Goto(r, "exiting") /\ pc[r] = "polling" /\ StopsWaiting(r)
          /\ UNCHANGED <<available, waiting, queued, turns, seen>>
      BY <1>3 DEF Decline
    <2>2. Queued(r) /\ "exiting" \in PCs
      BY <1>0, <2>1 DEF QueueInv, PCs
    <2> QED BY <1>0, <2>1, <2>2, QueueKept, GhostsTyped DEF RestTypes
  <1>4. ASSUME NEW r \in Request, ShareRoot(r)
        PROVE  FullInv'
    <2>1. /\ Goto(r, "deciding") /\ StopsWaiting(r)
          /\ pc[r] \in {"idle", "polling", "checked"} /\ (pc[r] = "idle" => r \notin Blocking)
          /\ UNCHANGED <<available, waiting, queued, turns, seen>>
      BY <1>4 DEF ShareRoot, Asking
    <2>2. (r \in Blocking => Queued(r)) /\ "deciding" \in PCs
      BY <1>0, <2>1 DEF QueueInv, PCs
    <2> QED BY <1>0, <2>1, <2>2, QueueKept, GhostsTyped DEF RestTypes
  <1>5. ASSUME NEW r \in Request, TakeUnclassified(r) \/ InstallUnclassified(r)
        PROVE  FullInv'
    <2>1. PICK p \in {"taken", "holding"} :
            /\ Goto(r, p) /\ pc[r] \in {"idle", "taken"}
            /\ UNCHANGED <<waiting, queued, turns, seen, before, passed>>
            /\ \/ available' = available
               \/ available > 0 /\ available' = available - 1
      BY <1>5 DEF TakeUnclassified, InstallUnclassified, ghost
    <2>2. ~Queued(r) /\ p \in PCs /\ available' \in Nat
      BY <1>0, <2>1 DEF QueueInv, PCs, RestTypes
    <2> QED BY <1>0, <2>1, <2>2, QueueKept DEF RestTypes
  <1>6. ASSUME NEW r \in Request, BeginTry(r)
        PROVE  FullInv'
    <2>1. /\ Goto(r, "installing") /\ pc[r] \in {"idle", "polling", "checked"}
          /\ (pc[r] = "idle" => r \in Classified \ Blocking)
          /\ seen' = available
          /\ UNCHANGED <<available, waiting, queued, turns, before, passed>>
      BY <1>6 DEF BeginTry, Asking, ghost
    <2>2. (r \in Blocking => Queued(r)) /\ r \in Classified /\ "installing" \in PCs
      BY <1>0, <2>1 DEF QueueInv, PCs, Classified
    <2> QED BY <1>0, <1>s, <2>1, <2>2, QueueKept DEF RestTypes
  <1>7. ASSUME NEW r \in Request, EndTry(r)
        PROVE  FullInv'
    <2>1. /\ pc[r] = "installing" /\ r \in Classified /\ (Queued(r) <=> r \in Blocking)
          /\ seen' = 0 /\ seen' \in 0..Limit
          /\ UNCHANGED <<waiting, queued>>
      BY <1>0, <1>7 DEF EndTry, QueueInv
    <2>2. ASSUME NEW p \in {"polling", "idle"}, Goto(r, p), p = "polling" <=> r \in Blocking,
                 UNCHANGED <<available, turns, before, passed>>
          PROVE  FullInv'
      <3>1. p \in PCs
        BY DEF PCs
      <3> QED BY <1>0, <2>1, <2>2, <3>1, QueueKept DEF RestTypes
    <2>3. CASE available > 0 /\ Installed(r, seen)
      BY <1>0, <2>1, <2>3, InstalledFull
    <2> QED BY <1>7, <2>2, <2>3 DEF EndTry, ghost
  <1>8. ASSUME NEW r \in Request, AcceptStanding(r) \/ AcceptShared(r)
        PROVE  FullInv'
    <2>1. PICK p \in {"settling", "exiting", "holding"} :
            /\ Goto(r, p) /\ pc[r] = "deciding"
            /\ p = "exiting" => r \in Blocking
            /\ p = "holding" => r \notin Blocking
            /\ UNCHANGED <<available, waiting, queued, turns, seen, before, passed>>
      BY <1>8 DEF AcceptStanding, AcceptShared, Admitted, ghost
    <2>2. (Queued(r) <=> r \in Blocking) /\ p \in PCs
      BY <1>0, <2>1 DEF QueueInv, PCs
    <2> QED BY <1>0, <2>1, <2>2, QueueKept DEF RestTypes
  <1>9. ASSUME NEW r \in Request, Settle(r)
        PROVE  FullInv'
    <2>1. PICK p \in {"exiting", "holding"} :
            /\ Goto(r, p) /\ pc[r] \in {"deciding", "settling"}
            /\ p = "exiting" => r \in Blocking
            /\ p = "holding" => r \notin Blocking
            /\ UNCHANGED <<available, waiting, queued, seen>>
      BY <1>9 DEF Settle, Admitted
    <2>2. (Queued(r) <=> r \in Blocking) /\ p \in PCs
      BY <1>0, <2>1 DEF QueueInv, PCs
    <2>3. /\ turns' \in Seq(Turn)
          /\ before' \in [Request -> SUBSET Request] /\ passed' \in [Request -> 0..2]
      BY <1>0, <1>9, SettledTyped, GhostsTyped DEF Settle, RestTypes
    <2> QED BY <1>0, <2>1, <2>2, <2>3, QueueKept DEF RestTypes
  <1>10. ASSUME NEW r \in Request, Refuse(r) \/ Release(r)
         PROVE  FullInv'
    <2>1. PICK p \in {"removing", "exiting", "idle"} :
            /\ Goto(r, p) /\ pc[r] \in {"deciding", "holding"}
            /\ p = "exiting" => Queued(r)
            /\ p = "idle" => ~Queued(r)
            /\ UNCHANGED <<available, waiting, queued, seen>>
      BY <1>10 DEF Refuse, Release, DropPermit, Dropped
    <2>2. turns' \in Seq(Turn)
      BY <1>0, <1>10, SettledTyped DEF Refuse, Release, WithdrawnTurns, RestTypes
    <2>3. before' \in [Request -> SUBSET Request] /\ passed' \in [Request -> 0..2]
      BY <1>0, <1>10 DEF Refuse, Release, ghost, RestTypes
    <2>4. p \in PCs
      BY DEF PCs
    <2> QED BY <1>0, <2>1, <2>2, <2>3, <2>4, QueueKept DEF RestTypes
  <1>11. ASSUME NEW r \in Request, RemoveListing(r) \/ ReturnSlot(r) \/ UpgradeWeak(r)
         PROVE  FullInv'
    <2>1. PICK p \in {"returning", "exiting", "idle", "holding"} :
            /\ Goto(r, p) /\ pc[r] \in {"removing", "returning", "idle"}
            /\ p = "exiting" => Queued(r)
            /\ p = "idle" => ~Queued(r)
            /\ p = "holding" => pc[r] = "idle"
            /\ UNCHANGED <<waiting, queued, turns, seen, before, passed>>
            /\ available' \in {available, available + 1}
      BY <1>11 DEF RemoveListing, ReturnSlot, UpgradeWeak, Dropped, ghost
    <2>2. p \in PCs /\ available' \in Nat /\ (p = "holding" => ~Queued(r))
      BY <1>0, <2>1 DEF PCs, RestTypes, QueueInv
    <2> QED BY <1>0, <2>1, <2>2, QueueKept DEF RestTypes
  <1> QED BY <1>0, <1>1, <1>2, <1>3, <1>4, <1>5, <1>6, <1>7, <1>8, <1>9, <1>10, <1>11,
             RegisterCountFull, RegisterQueueFull, ExitCountFull, ExitQueueFull DEF Next

(* Neither the free slots nor the waiter counters of cold_build_limiter.rs   *)
(* ever underflow or exceed their bounds: the fetch_sub of                   *)
(* AdmissionWaiter::drop finds its own waiter counted ("previous > 0"), and  *)
(* an attempt takes only a slot that is there.                               *)
THEOREM TypeCorrect == Spec => []TypeOK
  <1>1. Init => FullInv
    BY InitFull
  <1>2. FullInv /\ [Next]_vars => FullInv'
    BY FullStep
  <1>3. FullInv => TypeOK
    BY FullTypes
  <1> QED BY <1>1, <1>2, <1>3, PTL DEF Spec

-----------------------------------------------------------------------------
(* The classes take turns                                                    *)

(* Turns that may be newer than the one a waiter of class C was passed in:   *)
(* those of the other class, and a Standing one whose second look will find  *)
(* the waiter and refuse it.                                                 *)
Benign(C) ==
  {t \in Turn : \/ Class[t.req] \notin {C, Standing}
                \/ Class[t.req] = Standing /\ ~t.settled /\ pc[t.req] = "deciding"}

After(s, i, B) == \A j \in DOMAIN s : j > i => s[j] \in B

(* Pending turns belong to requests that await their predicate, one each,    *)
(* and one settled turn is kept.                                             *)
TurnInv ==
  /\ \A i \in DOMAIN turns : ~turns[i].settled => pc[turns[i].req] \in {"deciding", "settling"}
  /\ \A i, j \in DOMAIN turns : turns[i].settled /\ turns[j].settled => i = j
  /\ \A i, j \in DOMAIN turns :
       ~turns[i].settled /\ ~turns[j].settled /\ turns[i].req = turns[j].req => i = j

(* Only those who still wait are passed, and a Standing request that got     *)
(* through its second look passes nobody.                                    *)
WaitInv ==
  /\ \A q, w \in Request : w \in before[q] => StillWaiting(w)
  /\ \A w \in Request : passed[w] > 0 => StillWaiting(w)
  /\ \A q \in Request : pc[q] = "settling" => Class[q] = Standing /\ before[q] = {}

(* What an attempt found about the turns and its rank holds until it ends.   *)
SeenInv ==
  \A r \in Request : pc[r] = "installing" /\ seen <= 1 =>
    /\ r \in Blocking => OlderSameClass(r) = {}
    /\ \A w \in Request :
         StillWaiting(w) /\ Class[w] # Class[r] => ~LastAdmittedClassIs(Class[r])

Passing(q, w) == Class[q] # Standing /\ w \in before[q]

(* The turn of an admission that goes before w ...                           *)
Mark(i, q, w) ==
  /\ turns[i] = [req |-> q, settled |-> FALSE]
  /\ Class[q] # Class[w]
  /\ After(turns, i, Benign(Class[w]))

(* ... and the one in which w was passed: the next turn is of w's class.     *)
Debt(i, w) ==
  /\ turns[i].settled
  /\ Class[turns[i].req] \notin {Class[w], Standing}
  /\ After(turns, i, Benign(Class[w]))

PassInv ==
  \A w \in Request :
    /\ passed[w] <= 1
    /\ passed[w] = 1 => \E i \in DOMAIN turns : Debt(i, w)
    /\ \A q \in Request : Passing(q, w) =>
         /\ passed[w] = 0
         /\ \A p \in Request : Passing(p, w) => p = q
         /\ \E i \in DOMAIN turns : Mark(i, q, w)

(* A waiter is counted.                                                      *)
LEMMA Waited ==
  ASSUME FullInv, NEW w \in Request, StillWaiting(w)
  PROVE  /\ HasNonStandingWaiters
         /\ \A c \in Classes : c # Class[w] => HasWaiterFromAnotherClass(c)
  <1>1. w \in Counted(Class[w]) /\ Class[w] \in Classes /\ Class[w] # Standing
    BY LimiterAssumption DEF StillWaiting, Counted, Counts, FullInv, QueueInv
  <1>2. Cardinality(Counted(Class[w])) > 0
    <2> DEFINE K == Counted(Class[w])
    <2>1. IsFiniteSet(K) /\ Cardinality(K) \in Nat /\ K # {}
      BY <1>1, CountedFinite
    <2> HIDE DEF K
    <2>2. Cardinality(K) # 0
      BY <2>1, FS_EmptySet
    <2> QED BY <2>1, <2>2 DEF K
  <1>3. waiting[Class[w]] > 0
    BY <1>1, <1>2 DEF FullInv, CountInv
  <1> QED BY <1>1, <1>3 DEF HasNonStandingWaiters, HasWaiterFromAnotherClass, Classes,
                            Inspect, Maintenance, Standing

LEMMA AfterRemove ==
  ASSUME NEW S, NEW s \in Seq(S), NEW i \in DOMAIN s, NEW k \in DOMAIN s, i # k,
         NEW B, After(s, i, B)
  PROVE  \E m \in DOMAIN RemoveAt(s, k) :
           RemoveAt(s, k)[m] = s[i] /\ After(RemoveAt(s, k), m, B)
  <1> DEFINE t == RemoveAt(s, k)
             m == IF k < i THEN i - 1 ELSE i
  <1>1. /\ Len(s) \in Nat /\ i \in 1..Len(s) /\ k \in 1..Len(s) /\ DOMAIN s = 1..Len(s)
        /\ DOMAIN t = 1..(Len(s) - 1)
        /\ \A j \in 1..(Len(s) - 1) : t[j] = IF j < k THEN s[j] ELSE s[j + 1]
    BY RemovedAt
  <1> HIDE DEF t
  <1>2. m \in DOMAIN t /\ t[m] = s[i]
    BY <1>1
  <1>3. ASSUME NEW j \in DOMAIN t, j > m PROVE t[j] \in B
    <2> DEFINE n == IF j < k THEN j ELSE j + 1
    <2>1. n \in DOMAIN s /\ n > i /\ t[j] = s[n]
      BY <1>1, <1>3
    <2> QED BY <2>1 DEF After
  <1>4. After(t, m, B)
    BY <1>3 DEF After
  <1> HIDE DEF m
  <1> QED BY <1>2, <1>4 DEF t

(* What a shorter sequence of turns has was in the longer one.               *)
LEMMA Thinned ==
  ASSUME NEW S, NEW s \in Seq(S), NEW k \in DOMAIN s
  PROVE  \E at \in [DOMAIN RemoveAt(s, k) -> DOMAIN s] :
           /\ \A j \in DOMAIN RemoveAt(s, k) : at[j] # k /\ RemoveAt(s, k)[j] = s[at[j]]
           /\ \A i, j \in DOMAIN RemoveAt(s, k) : at[i] = at[j] => i = j
  <1> DEFINE t == RemoveAt(s, k)
             at == [j \in DOMAIN t |-> IF j < k THEN j ELSE j + 1]
  <1>1. /\ Len(s) \in Nat /\ k \in 1..Len(s) /\ DOMAIN s = 1..Len(s)
        /\ DOMAIN t = 1..(Len(s) - 1)
        /\ \A j \in 1..(Len(s) - 1) : t[j] = IF j < k THEN s[j] ELSE s[j + 1]
    BY RemovedAt
  <1> HIDE DEF t
  <1>2. at \in [DOMAIN t -> DOMAIN s]
    BY <1>1
  <1>3. /\ \A j \in DOMAIN t : at[j] # k /\ t[j] = s[at[j]]
        /\ \A i, j \in DOMAIN t : at[i] = at[j] => i = j
    BY <1>1
  <1> HIDE DEF at
  <1> QED BY <1>2, <1>3 DEF t

(* A request's pending turn, if it has one, is where TurnOf finds it.        *)
LEMMA Mine ==
  ASSUME TurnInv, NEW r \in Request, PendingTurn(r)
  PROVE  /\ TurnOf(r) \in DOMAIN turns
         /\ turns[TurnOf(r)].req = r /\ ~turns[TurnOf(r)].settled
         /\ \A i \in DOMAIN turns : turns[i].req = r /\ ~turns[i].settled => i = TurnOf(r)
  BY DEF PendingTurn, TurnOf, TurnInv

(* Turns that are withdrawn leave the others in order.                       *)
LEMMA TurnsRemoved ==
  ASSUME TurnInv, turns \in Seq(Turn), NEW r \in Request, NEW p, pc \in [Request -> PCs],
         pc' = [pc EXCEPT ![r] = p], NEW k \in DOMAIN turns,
         turns[k].req = r /\ ~turns[k].settled,
         turns' = RemoveAt(turns, k)
  PROVE  TurnInv'
  <1>1. PICK at \in [DOMAIN turns' -> DOMAIN turns] :
          /\ \A j \in DOMAIN turns' : at[j] # k /\ turns'[j] = turns[at[j]]
          /\ \A i, j \in DOMAIN turns' : at[i] = at[j] => i = j
    BY Thinned
  <1>2. ASSUME NEW j \in DOMAIN turns', ~turns'[j].settled
        PROVE  pc'[turns'[j].req] \in {"deciding", "settling"}
    <2>1. at[j] \in DOMAIN turns /\ turns'[j] = turns[at[j]] /\ at[j] # k
      BY <1>1
    <2>t. turns[at[j]] \in Turn
      BY <2>1
    <2>2. turns[at[j]].req # r /\ turns[at[j]].req \in Request
      BY <1>2, <2>1, <2>t DEF TurnInv, Turn, Classified
    <2> QED BY <1>2, <2>1, <2>2 DEF TurnInv
  <1>3. \A i, j \in DOMAIN turns' : turns'[i].settled /\ turns'[j].settled => i = j
    BY <1>1 DEF TurnInv
  <1>4. \A i, j \in DOMAIN turns' :
          ~turns'[i].settled /\ ~turns'[j].settled /\ turns'[i].req = turns'[j].req => i = j
    BY <1>1 DEF TurnInv
  <1> QED BY <1>2, <1>3, <1>4 DEF TurnInv

(* ClassTurnReservation::settle, case by case: a newer turn has settled, no  *)
(* turn has, or an older one gives way.                                      *)
LEMMA SettleCases ==
  ASSUME TurnInv, turns \in Seq(Turn), NEW r \in Request, PendingTurn(r)
  PROVE  \/ \E n \in DOMAIN turns :
              /\ turns[n].settled /\ n > TurnOf(r)
              /\ SettledTurns(r) = RemoveAt(turns, TurnOf(r))
         \/ /\ \A n \in DOMAIN turns : ~turns[n].settled
            /\ SettledTurns(r) = [turns EXCEPT ![TurnOf(r)] = [req |-> r, settled |-> TRUE]]
         \/ \E n \in DOMAIN turns :
              /\ turns[n].settled /\ n < TurnOf(r)
              /\ SettledTurns(r) =
                   RemoveAt([turns EXCEPT ![TurnOf(r)] = [req |-> r, settled |-> TRUE]], n)
  <1> DEFINE mine == TurnOf(r)
             kept == {j \in DOMAIN turns : turns[j].settled}
             settled == [turns EXCEPT ![mine] = [req |-> r, settled |-> TRUE]]
             old == CHOOSE j \in kept : TRUE
  <1>1. SettledTurns(r) = IF \E j \in kept : j > mine THEN RemoveAt(turns, mine)
                          ELSE IF kept = {} THEN settled ELSE RemoveAt(settled, old)
    BY DEF SettledTurns
  <1>2. mine \in DOMAIN turns /\ ~turns[mine].settled /\ DOMAIN turns \subseteq Nat
    BY Mine
  <1>3. kept # {} => old \in kept
    OBVIOUS
  <1>4. CASE \E j \in kept : j > mine
    BY <1>1, <1>4
  <1>5. CASE kept = {}
    BY <1>1, <1>5
  <1>6. CASE kept # {} /\ ~ \E j \in kept : j > mine
    <2>1. old \in DOMAIN turns /\ turns[old].settled /\ old < mine
      BY <1>2, <1>3, <1>6
    <2>2. SettledTurns(r) = RemoveAt(settled, old)
      BY <1>1, <1>6
    <2> QED BY <2>1, <2>2
  <1> QED BY <1>4, <1>5, <1>6

LEMMA TurnsSettled ==
  ASSUME TurnInv, turns \in Seq(Turn), NEW r \in Request, NEW p, pc \in [Request -> PCs],
         pc' = [pc EXCEPT ![r] = p], PendingTurn(r), turns' = SettledTurns(r)
  PROVE  TurnInv'
  <1> DEFINE mine == TurnOf(r)
             settled == [turns EXCEPT ![mine] = [req |-> r, settled |-> TRUE]]
  <1>1. /\ mine \in DOMAIN turns /\ turns[mine].req = r /\ ~turns[mine].settled
        /\ \A i \in DOMAIN turns : turns[i].req = r /\ ~turns[i].settled => i = mine
    BY Mine
  <1>2. CASE turns' = RemoveAt(turns, mine)
    BY <1>1, <1>2, TurnsRemoved
  <1>3. /\ settled \in Seq(Turn) /\ DOMAIN settled = DOMAIN turns
        /\ settled[mine] = [req |-> r, settled |-> TRUE]
        /\ \A j \in DOMAIN turns : j # mine => settled[j] = turns[j]
    <2>1. [req |-> r, settled |-> TRUE] \in Turn
      BY <1>1, PendingClassified DEF Turn
    <2> QED BY <1>1, <2>1
  <1> HIDE DEF mine, settled
  <1>4. ASSUME NEW j \in DOMAIN turns, ~settled[j].settled
        PROVE  j # mine /\ settled[j] = turns[j] /\ settled[j].req # r
               /\ pc'[settled[j].req] \in {"deciding", "settling"}
    <2>1. j # mine
      BY <1>3, <1>4
    <2>t. turns[j] \in Turn
      OBVIOUS
    <2>2. settled[j] = turns[j] /\ turns[j].req # r /\ turns[j].req \in Request
      BY <1>1, <1>3, <1>4, <2>1, <2>t DEF Turn, Classified
    <2> QED BY <1>4, <2>1, <2>2 DEF TurnInv
  <1>5. CASE turns' = settled /\ \A n \in DOMAIN turns : ~turns[n].settled
    <2>1. \A i, j \in DOMAIN turns : settled[i].settled /\ settled[j].settled => i = j
      BY <1>3, <1>5
    <2>2. \A i, j \in DOMAIN turns :
            ~settled[i].settled /\ ~settled[j].settled /\ settled[i].req = settled[j].req => i = j
      BY <1>4 DEF TurnInv
    <2> QED BY <1>3, <1>4, <1>5, <2>1, <2>2 DEF TurnInv
  <1>6. ASSUME NEW n \in DOMAIN turns, turns[n].settled, n < mine, turns' = RemoveAt(settled, n)
        PROVE  TurnInv'
    <2>1. PICK at \in [DOMAIN turns' -> DOMAIN turns] :
            /\ \A j \in DOMAIN turns' : at[j] # n /\ turns'[j] = settled[at[j]]
            /\ \A i, j \in DOMAIN turns' : at[i] = at[j] => i = j
      <3>1. n \in DOMAIN settled
        BY <1>3
      <3>2. \E at \in [DOMAIN RemoveAt(settled, n) -> DOMAIN settled] :
              /\ \A j \in DOMAIN RemoveAt(settled, n) :
                   at[j] # n /\ RemoveAt(settled, n)[j] = settled[at[j]]
              /\ \A i, j \in DOMAIN RemoveAt(settled, n) : at[i] = at[j] => i = j
        BY <1>3, <3>1, Thinned
      <3> QED BY <1>3, <1>6, <3>2
    <2>2. \A j \in DOMAIN turns : settled[j].settled => j \in {mine, n}
      BY <1>3, <1>6 DEF TurnInv
    <2>3. \A i, j \in DOMAIN turns' : turns'[i].settled /\ turns'[j].settled => i = j
      BY <2>1, <2>2
    <2>4. \A i, j \in DOMAIN turns :
            ~settled[i].settled /\ ~settled[j].settled /\ settled[i].req = settled[j].req => i = j
      BY <1>4 DEF TurnInv
    <2>5. \A i, j \in DOMAIN turns' :
            ~turns'[i].settled /\ ~turns'[j].settled /\ turns'[i].req = turns'[j].req => i = j
      BY <2>1, <2>4
    <2>6. \A j \in DOMAIN turns' : ~turns'[j].settled =>
            pc'[turns'[j].req] \in {"deciding", "settling"}
      BY <1>4, <2>1
    <2> QED BY <2>3, <2>5, <2>6 DEF TurnInv
  <1> QED BY <1>2, <1>5, <1>6, SettleCases DEF mine, settled

(* A step that takes, settles or withdraws no turn and passes nobody.        *)
Quiet(r) ==
  \E p \in PCs :
    /\ pc' = [pc EXCEPT ![r] = p]
    /\ UNCHANGED <<turns, before, passed>>
    /\ StillWaiting(r) => p \in {"polling", "installing"}
    /\ pc[r] \in {"deciding", "settling"} => p = "settling" \/ ~PendingTurn(r)
    /\ p = "settling" => Class[r] = Standing /\ ~HasNonStandingWaiters

(* A waiter gives up or shares its root's permit.                            *)
Leaves(r) ==
  \E p \in {"exiting", "deciding"} :
    /\ pc' = [pc EXCEPT ![r] = p]
    /\ pc[r] \in {"idle", "polling", "checked"}
    /\ turns' = turns
    /\ StopsWaiting(r)

(* A request takes a turn having seen `free' slots.                          *)
Takes(r, free) ==
  /\ Installed(r, free)
  /\ pc[r] \in WithoutPermit
  /\ r \in Classified
  /\ r \in Blocking /\ free <= 1 => OlderSameClass(r) = {} /\ Queued(r)
  /\ \A w \in Request :
       free <= 1 /\ StillWaiting(w) /\ Class[w] # Class[r] => ~LastAdmittedClassIs(Class[r])

LEMMA QuietCases ==
  ASSUME FullInv, NEW r \in Request,
         \/ RegisterCount(r) \/ RegisterQueue(r) \/ CheckStanding(r) \/ Recheck(r)
         \/ BeginTry(r) \/ (EndTry(r) /\ available = 0)
         \/ TakeUnclassified(r) \/ InstallUnclassified(r)
         \/ AcceptStanding(r) \/ AcceptShared(r) \/ Release(r) \/ RemoveListing(r)
         \/ ReturnSlot(r) \/ ExitCount(r) \/ ExitQueue(r) \/ UpgradeWeak(r)
  PROVE  Quiet(r)
  <1> USE DEF Goto, PCs, StillWaiting, ghost
  <1>1. CASE RegisterCount(r) \/ RegisterQueue(r) \/ CheckStanding(r) \/ Recheck(r) \/ BeginTry(r)
    <2>1. PICK p \in {"registering", "polling", "checked", "installing"} :
            /\ pc' = [pc EXCEPT ![r] = p]
            /\ UNCHANGED <<turns, before, passed>>
            /\ pc[r] \in {"idle", "registering", "polling", "checked"}
            /\ StillWaiting(r) => p \in {"polling", "installing"}
      BY <1>1 DEF RegisterCount, RegisterQueue, CheckStanding, Recheck, BeginTry, Asking
    <2> QED BY <2>1 DEF Quiet
  <1>2. CASE EndTry(r) /\ available = 0
    <2>1. PICK p \in {"polling", "idle"} :
            /\ pc' = [pc EXCEPT ![r] = p]
            /\ UNCHANGED <<turns, before, passed>>
            /\ pc[r] = "installing"
            /\ StillWaiting(r) => p = "polling"
      BY <1>2 DEF EndTry
    <2> QED BY <2>1 DEF Quiet
  <1>3. CASE AcceptStanding(r) \/ AcceptShared(r)
    <2>1. PICK p \in {"settling", "exiting", "holding"} :
            /\ pc' = [pc EXCEPT ![r] = p]
            /\ UNCHANGED <<turns, before, passed>>
            /\ pc[r] = "deciding"
            /\ p = "settling" \/ ~PendingTurn(r)
            /\ p = "settling" => Class[r] = Standing /\ ~HasNonStandingWaiters
      BY <1>3 DEF AcceptStanding, AcceptShared, Admitted
    <2> QED BY <2>1 DEF Quiet
  <1>4. CASE \/ Release(r) \/ RemoveListing(r) \/ ReturnSlot(r) \/ ExitCount(r)
             \/ ExitQueue(r) \/ UpgradeWeak(r) \/ TakeUnclassified(r) \/ InstallUnclassified(r)
    <2>1. PICK p \in {"removing", "returning", "exiting", "idle", "unqueueing", "holding", "taken"} :
            /\ pc' = [pc EXCEPT ![r] = p]
            /\ UNCHANGED <<turns, before, passed>>
            /\ pc[r] \in {"holding", "removing", "returning", "exiting", "unqueueing", "idle", "taken"}
      BY <1>4 DEF TakeUnclassified, InstallUnclassified, Release, RemoveListing, ReturnSlot, ExitCount, ExitQueue, UpgradeWeak,
                  DropPermit, Dropped
    <2> QED BY <2>1 DEF Quiet
  <1> QED BY <1>1, <1>2, <1>3, <1>4

LEMMA LeavesCases ==
  ASSUME NEW r \in Request, Decline(r) \/ ShareRoot(r)
  PROVE  Leaves(r)
  BY DEF Decline, ShareRoot, Asking, Leaves, Goto

LEMMA TakesCases ==
  ASSUME FullInv, SeenInv, NEW r \in Request, EndTry(r), available # 0
  PROVE  \E free \in Nat : Takes(r, free)
  <1>1. Installed(r, seen) /\ pc[r] = "installing" /\ seen \in Nat
    BY LimiterAssumption DEF EndTry, FullInv, RestTypes
  <1>2. r \in Blocking /\ seen <= 1 => OlderSameClass(r) = {} /\ Queued(r)
    BY <1>1 DEF SeenInv, FullInv, QueueInv
  <1>3. \A w \in Request :
          seen <= 1 /\ StillWaiting(w) /\ Class[w] # Class[r] => ~LastAdmittedClassIs(Class[r])
    BY <1>1 DEF SeenInv
  <1>4. r \in Classified
    BY <1>1 DEF FullInv, QueueInv
  <1> QED BY <1>1, <1>2, <1>3, <1>4 DEF Takes, WithoutPermit

(* Every step is one of these, or settles or withdraws a turn.               *)
LEMMA StepKinds ==
  ASSUME FullInv, SeenInv, Next
  PROVE  \E r \in Request :
           \/ Quiet(r) \/ Leaves(r) \/ Settle(r) \/ Refuse(r)
           \/ \E free \in Nat : Takes(r, free)
  <1>1. PICK r \in Request :
          \/ RegisterCount(r) \/ RegisterQueue(r) \/ Decline(r)
          \/ CheckStanding(r) \/ Recheck(r)
          \/ ShareRoot(r) \/ BeginTry(r) \/ EndTry(r)
          \/ TakeUnclassified(r) \/ InstallUnclassified(r)
          \/ AcceptStanding(r) \/ AcceptShared(r) \/ Settle(r) \/ Refuse(r)
          \/ Release(r) \/ RemoveListing(r) \/ ReturnSlot(r)
          \/ ExitCount(r) \/ ExitQueue(r) \/ UpgradeWeak(r)
    BY DEF Next
  <1>2. CASE EndTry(r) /\ available # 0
    BY <1>2, TakesCases
  <1>3. CASE Decline(r) \/ ShareRoot(r)
    BY <1>3, LeavesCases
  <1>4. CASE Settle(r) \/ Refuse(r)
    BY <1>4
  <1>5. CASE \/ RegisterCount(r) \/ RegisterQueue(r) \/ CheckStanding(r) \/ Recheck(r)
             \/ BeginTry(r) \/ (EndTry(r) /\ available = 0)
             \/ TakeUnclassified(r) \/ InstallUnclassified(r)
             \/ AcceptStanding(r) \/ AcceptShared(r) \/ Release(r) \/ RemoveListing(r)
             \/ ReturnSlot(r) \/ ExitCount(r) \/ ExitQueue(r) \/ UpgradeWeak(r)
    BY <1>5, QuietCases
  <1> QED BY <1>1, <1>2, <1>3, <1>4, <1>5

LEMMA SettleMoves ==
  ASSUME NEW r \in Request, Settle(r)
  PROVE  /\ \E p \in {"exiting", "holding"} : pc' = [pc EXCEPT ![r] = p]
         /\ pc[r] \in {"deciding", "settling"} /\ (Class[r] = Standing => pc[r] = "settling")
         /\ PendingTurn(r) /\ turns' = SettledTurns(r)
         /\ before' = [before EXCEPT ![r] = {}]
         /\ passed' = [w \in Request |->
              IF w \in before[r] /\ passed[w] < 2 THEN passed[w] + 1 ELSE passed[w]]
  BY DEF Settle, Overtaken, Goto, Admitted

LEMMA RefuseMoves ==
  ASSUME NEW r \in Request, Refuse(r)
  PROVE  /\ \E p \in {"removing", "exiting", "idle"} : pc' = [pc EXCEPT ![r] = p]
         /\ pc[r] = "deciding"
         /\ turns' = WithdrawnTurns(r)
         /\ before' = [before EXCEPT ![r] = {}] /\ passed' = passed
  BY DEF Refuse, DropPermit, Dropped, Goto

LEMMA TurnStep ==
  ASSUME FullInv, SeenInv, TurnInv, [Next]_vars
  PROVE  TurnInv'
  <1>0. pc \in [Request -> PCs] /\ turns \in Seq(Turn)
    BY DEF FullInv, IInv, LeaseTypes, RestTypes
  <1>1. CASE UNCHANGED vars
    BY <1>1 DEF vars, TurnInv
  <1>2. ASSUME NEW r \in Request, NEW p, pc' = [pc EXCEPT ![r] = p], turns' = turns,
               p = "settling" \/ p = "deciding" \/ ~PendingTurn(r)
        PROVE  TurnInv'
    <2>1. ASSUME NEW i \in DOMAIN turns, ~turns[i].settled
          PROVE  pc'[turns[i].req] \in {"deciding", "settling"}
      <3>1. turns[i] \in Turn
        BY <1>0
      <3>2. turns[i].req \in Request
        BY <3>1 DEF Turn, Classified
      <3> QED BY <1>0, <1>2, <2>1, <3>2 DEF TurnInv, PendingTurn
    <2> QED BY <1>2, <2>1 DEF TurnInv
  <1>3. ASSUME NEW r \in Request, pc[r] \notin {"deciding", "settling"} PROVE ~PendingTurn(r)
    BY <1>3 DEF TurnInv, PendingTurn
  <1>4. ASSUME NEW r \in Request, Quiet(r) PROVE TurnInv'
    BY <1>2, <1>3, <1>4 DEF Quiet
  <1>5. ASSUME NEW r \in Request, Leaves(r) PROVE TurnInv'
    BY <1>2, <1>3, <1>5 DEF Leaves
  <1>6. ASSUME NEW r \in Request, NEW free \in Nat, Takes(r, free) PROVE TurnInv'
    <2>1. /\ turns' = Append(turns, [req |-> r, settled |-> FALSE])
          /\ pc' = [pc EXCEPT ![r] = "deciding"] /\ ~PendingTurn(r)
      BY <1>3, <1>6 DEF Takes, Installed, Goto, WithoutPermit
    <2>2. /\ DOMAIN turns = 1..Len(turns) /\ DOMAIN turns' = 1..(Len(turns) + 1)
          /\ Len(turns) \in Nat
          /\ \A i \in 1..Len(turns) : turns'[i] = turns[i]
          /\ turns'[Len(turns) + 1] = [req |-> r, settled |-> FALSE]
      BY <1>0, <2>1
    <2>3. ASSUME NEW i \in DOMAIN turns', ~turns'[i].settled
          PROVE  /\ pc'[turns'[i].req] \in {"deciding", "settling"}
                 /\ i # Len(turns) + 1 => turns'[i].req # r
      <3>1. CASE i = Len(turns) + 1
        BY <1>0, <2>1, <2>2, <3>1
      <3>2. CASE i # Len(turns) + 1
        <4>1. i \in DOMAIN turns /\ turns'[i] = turns[i]
          BY <2>2, <3>2
        <4>2. turns[i] \in Turn
          BY <1>0, <4>1
        <4>3. turns[i].req # r /\ turns[i].req \in Request
          BY <2>1, <2>3, <4>1, <4>2 DEF PendingTurn, Turn, Classified
        <4> QED BY <1>0, <2>1, <2>3, <4>1, <4>3 DEF TurnInv
      <3> QED BY <3>1, <3>2
    <2>4. \A i \in DOMAIN turns' : turns'[i].settled => i \in DOMAIN turns /\ turns'[i] = turns[i]
      BY <2>2
    <2>5. \A i, j \in DOMAIN turns' : turns'[i].settled /\ turns'[j].settled => i = j
      BY <2>4 DEF TurnInv
    <2>6. ASSUME NEW i \in DOMAIN turns', NEW j \in DOMAIN turns',
                 ~turns'[i].settled, ~turns'[j].settled, turns'[i].req = turns'[j].req
          PROVE  i = j
      <3>1. CASE i # Len(turns) + 1 /\ j # Len(turns) + 1
        <4>1. i \in DOMAIN turns /\ turns'[i] = turns[i] /\ j \in DOMAIN turns /\ turns'[j] = turns[j]
          BY <2>2, <3>1
        <4> QED BY <2>6, <4>1 DEF TurnInv
      <3>2. CASE i = Len(turns) + 1
        <4>1. turns'[i].req = r
          BY <2>2, <3>2
        <4> QED BY <2>3, <2>6, <3>2, <4>1
      <3>3. CASE j = Len(turns) + 1
        <4>1. turns'[j].req = r
          BY <2>2, <3>3
        <4> QED BY <2>3, <2>6, <3>3, <4>1
      <3> QED BY <3>1, <3>2, <3>3
    <2> QED BY <2>3, <2>5, <2>6 DEF TurnInv
  <1>7. ASSUME NEW r \in Request, Settle(r) PROVE TurnInv'
    BY <1>0, <1>7, SettleMoves, TurnsSettled
  <1>8. ASSUME NEW r \in Request, Refuse(r) PROVE TurnInv'
    <2>1. PICK p \in {"removing", "exiting", "idle"} : pc' = [pc EXCEPT ![r] = p]
      BY <1>8, RefuseMoves
    <2>2. CASE PendingTurn(r)
      <3>1. turns' = RemoveAt(turns, TurnOf(r))
        BY <1>8, <2>2, RefuseMoves DEF WithdrawnTurns
      <3> QED BY <1>0, <2>1, <2>2, <3>1, Mine, TurnsRemoved
    <2>3. CASE ~PendingTurn(r)
      BY <1>2, <1>8, <2>1, <2>3, RefuseMoves DEF WithdrawnTurns
    <2> QED BY <2>2, <2>3
  <1> QED BY <1>1, <1>4, <1>5, <1>6, <1>7, <1>8, StepKinds

LEMMA WaitStep ==
  ASSUME FullInv, SeenInv, WaitInv, [Next]_vars
  PROVE  WaitInv'
  <1> USE LimiterAssumption
  <1>0. /\ pc \in [Request -> PCs]
        /\ before \in [Request -> SUBSET Request] /\ passed \in [Request -> 0..2]
    BY DEF FullInv, IInv, LeaseTypes, RestTypes
  <1>1. CASE UNCHANGED vars
    BY <1>1 DEF vars, WaitInv, StillWaiting
  <1>2. ASSUME NEW r \in Request, NEW p, pc' = [pc EXCEPT ![r] = p],
               \A q, w \in Request : w \in before'[q] => StillWaiting(w) /\ (w = r => StillWaiting(r)'),
               \A w \in Request : passed'[w] > 0 => StillWaiting(w) /\ (w = r => StillWaiting(r)'),
               \A q \in Request : q # r /\ before[q] = {} => before'[q] = {},
               p = "settling" => Class[r] = Standing /\ before'[r] = {}
        PROVE  WaitInv'
    <2>1. \A w \in Request : w # r /\ StillWaiting(w) => StillWaiting(w)'
      BY <1>0, <1>2 DEF StillWaiting
    <2>2. \A q \in Request : pc'[q] = "settling" => Class[q] = Standing /\ before'[q] = {}
      BY <1>0, <1>2 DEF WaitInv
    <2> QED BY <1>2, <2>1, <2>2 DEF WaitInv
  <1>3. ASSUME NEW r \in Request, Quiet(r) PROVE WaitInv'
    <2>1. PICK p \in PCs :
            /\ pc' = [pc EXCEPT ![r] = p]
            /\ UNCHANGED <<turns, before, passed>>
            /\ StillWaiting(r) => p \in {"polling", "installing"}
            /\ p = "settling" => Class[r] = Standing /\ ~HasNonStandingWaiters
      BY <1>3 DEF Quiet
    <2>2. p = "settling" => before[r] = {}
      BY <1>0, <2>1, Waited DEF WaitInv
    <2>3. StillWaiting(r) => StillWaiting(r)'
      BY <1>0, <2>1 DEF StillWaiting
    <2> QED BY <1>2, <2>1, <2>2, <2>3 DEF WaitInv
  <1>4. ASSUME NEW r \in Request, Leaves(r) PROVE WaitInv'
    <2>1. PICK p \in {"exiting", "deciding"} : pc' = [pc EXCEPT ![r] = p]
      BY <1>4 DEF Leaves
    <2>2. /\ before' = [q \in Request |-> before[q] \ {r}]
          /\ passed' = [passed EXCEPT ![r] = 0]
      BY <1>4 DEF Leaves, StopsWaiting
    <2>3. \A q, w \in Request : w \in before'[q] => w # r /\ StillWaiting(w)
      BY <1>0, <2>2 DEF WaitInv
    <2>4. \A w \in Request : passed'[w] > 0 => w # r /\ StillWaiting(w)
      BY <1>0, <2>2 DEF WaitInv
    <2>5. \A q \in Request : q # r /\ before[q] = {} => before'[q] = {}
      BY <2>2
    <2> QED BY <1>2, <2>1, <2>3, <2>4, <2>5
  <1>5. ASSUME NEW r \in Request, NEW free \in Nat, Takes(r, free) PROVE WaitInv'
    <2> DEFINE mates == {w \in Request : Class[w] = Class[r] /\ ~GoesBefore(r, w, free)}
               ahead == {w \in Request : GoesBefore(r, w, free)}
    <2>1. /\ pc' = [pc EXCEPT ![r] = "deciding"]
          /\ before' = [q \in Request |-> IF q = r THEN ahead ELSE before[q] \ mates]
          /\ passed' = [w \in Request |-> IF w \in mates THEN 0 ELSE passed[w]]
      BY <1>5 DEF Takes, Installed, Goto, Overtakes
    <2>2. r \in mates /\ \A w \in ahead : w # r /\ StillWaiting(w)
      BY DEF GoesBefore
    <2> HIDE DEF mates, ahead
    <2>3. \A q, w \in Request : w \in before'[q] => w # r /\ StillWaiting(w)
      BY <1>0, <2>1, <2>2 DEF WaitInv
    <2>4. \A w \in Request : passed'[w] > 0 => w # r /\ StillWaiting(w)
      BY <1>0, <2>1, <2>2 DEF WaitInv
    <2>5. \A q \in Request : q # r /\ before[q] = {} => before'[q] = {}
      BY <2>1
    <2> QED BY <1>2, <2>1, <2>3, <2>4, <2>5
  <1>6. ASSUME NEW r \in Request, Settle(r) \/ Refuse(r) PROVE WaitInv'
    <2>1. PICK p \in {"exiting", "holding", "removing", "idle"} : pc' = [pc EXCEPT ![r] = p]
      BY <1>6, SettleMoves, RefuseMoves
    <2>2. /\ pc[r] \in {"deciding", "settling"}
          /\ before' = [before EXCEPT ![r] = {}]
          /\ \A w \in Request : passed'[w] > 0 => passed[w] > 0 \/ w \in before[r]
      BY <1>6, SettleMoves, RefuseMoves
    <2>3. ~StillWaiting(r)
      BY <2>2 DEF StillWaiting
    <2>4. \A q, w \in Request : w \in before'[q] => w # r /\ StillWaiting(w)
      BY <1>0, <2>2, <2>3 DEF WaitInv
    <2>5. \A w \in Request : passed'[w] > 0 => w # r /\ StillWaiting(w)
      BY <1>0, <2>2, <2>3 DEF WaitInv
    <2>6. \A q \in Request : q # r /\ before[q] = {} => before'[q] = {}
      BY <1>0, <2>2
    <2> QED BY <1>2, <2>1, <2>4, <2>5, <2>6
  <1> QED BY <1>1, <1>3, <1>4, <1>5, <1>6, StepKinds

(* Under the lock of an attempt nobody is queued or leaves the queue, and    *)
(* the turns stay.                                                           *)
LEMMA SeenStep ==
  ASSUME FullInv, SeenInv, [Next]_vars
  PROVE  SeenInv'
  <1> USE LimiterAssumption
  <1>0. pc \in [Request -> PCs] /\ AttemptInv
    BY DEF FullInv, IInv, LeaseTypes
  <1>1. CASE UNCHANGED vars
    BY <1>1 DEF vars, SeenInv, StillWaiting, LastAdmittedClassIs, OlderSameClass
  <1>2. CASE Next
    <2> SUFFICES ASSUME NEW x \in Request, pc'[x] = "installing", seen' <= 1
                 PROVE  /\ x \in Blocking => OlderSameClass(x)' = {}
                        /\ \A w \in Request : StillWaiting(w)' /\ Class[w] # Class[x]
                             => ~LastAdmittedClassIs(Class[x])'
      BY DEF SeenInv
    <2>1. PICK r \in Request :
            \/ RegisterCount(r) \/ RegisterQueue(r) \/ Decline(r)
            \/ CheckStanding(r) \/ Recheck(r)
            \/ ShareRoot(r) \/ BeginTry(r) \/ EndTry(r)
            \/ TakeUnclassified(r) \/ InstallUnclassified(r)
            \/ AcceptStanding(r) \/ AcceptShared(r) \/ Settle(r) \/ Refuse(r)
            \/ Release(r) \/ RemoveListing(r) \/ ReturnSlot(r)
            \/ ExitCount(r) \/ ExitQueue(r) \/ UpgradeWeak(r)
      BY <1>2 DEF Next
    <2>2. CASE BeginTry(r)
      <3>1. /\ pc' = [pc EXCEPT ![r] = "installing"] /\ Unlocked /\ Eligible(r)
            /\ seen' = available /\ turns' = turns /\ queued' = queued /\ Asking(r)
        BY <2>2 DEF BeginTry, Goto
      <3>2. x = r
        BY <1>0, <3>1 DEF Unlocked
      <3>3. ASSUME r \in Blocking PROVE OlderSameClass(r) = {}
        <4>1. DOMAIN queued = 1..Len(queued) /\ Len(queued) \in Nat /\ available \in Nat
          BY DEF FullInv, RestTypes
        <4>2. IsFiniteSet(1..Len(queued))
          BY <4>1, FS_Interval
        <4>3. OlderSameClass(r) \subseteq 1..Len(queued)
          BY <4>1 DEF OlderSameClass
        <4> DEFINE K == OlderSameClass(r)
        <4>4. IsFiniteSet(K) /\ Cardinality(K) \in Nat /\ Cardinality(K) < available
          BY <3>1, <3>3, <4>2, <4>3, FS_Subset, FS_CardinalityType DEF Eligible
        <4> HIDE DEF K
        <4>5. Cardinality(K) = 0
          BY <3>1, <4>1, <4>4
        <4>6. K = {}
          BY <4>4, <4>5, FS_EmptySet
        <4> QED BY <4>6 DEF K
      <3>4. OlderSameClass(r)' = OlderSameClass(r)
        BY <3>1 DEF OlderSameClass
      <3>5. ASSUME NEW w \in Request, StillWaiting(w)', Class[w] # Class[r]
            PROVE  ~LastAdmittedClassIs(Class[r])'
        <4>1. StillWaiting(w) /\ r \in Classified
          BY <1>0, <3>1, <3>5 DEF StillWaiting, Asking, FullInv, QueueInv, Classified
        <4>2. HasWaiterFromAnotherClass(Class[r])
          BY <3>5, <4>1, Waited DEF Classified
        <4> QED BY <3>1, <4>2 DEF Eligible, LastAdmittedClassIs
      <3> QED BY <3>2, <3>3, <3>4, <3>5
    <2>3. CASE ~BeginTry(r)
      <3>1. PICK p \in PCs \ {"installing"} : pc' = [pc EXCEPT ![r] = p]
        <4>1. CASE \/ RegisterCount(r) \/ RegisterQueue(r) \/ Decline(r) \/ CheckStanding(r)
                   \/ Recheck(r) \/ ShareRoot(r) \/ EndTry(r)
                   \/ TakeUnclassified(r) \/ InstallUnclassified(r)
          BY <4>1 DEF RegisterCount, RegisterQueue, Decline, CheckStanding, Recheck, ShareRoot,
                      TakeUnclassified, InstallUnclassified, EndTry, Installed, Goto, PCs
        <4>2. CASE AcceptStanding(r) \/ AcceptShared(r) \/ Settle(r) \/ Refuse(r) \/ Release(r)
          BY <4>2 DEF AcceptStanding, AcceptShared, Settle, Refuse, Release, DropPermit,
                      Dropped, Admitted, Goto, PCs
        <4>3. CASE \/ RemoveListing(r) \/ ReturnSlot(r) \/ ExitCount(r)
                   \/ ExitQueue(r) \/ UpgradeWeak(r)
          BY <4>3 DEF RemoveListing, ReturnSlot, ExitCount, ExitQueue, UpgradeWeak,
                      Dropped, Goto, PCs
        <4> QED BY <2>1, <2>3, <4>1, <4>2, <4>3
      <3>2. x # r /\ pc[x] = "installing" /\ ~Unlocked
        BY <1>0, <3>1 DEF Unlocked
      <3>3. pc[r] # "installing"
        BY <3>2 DEF FullInv, IInv, AttemptInv
      <3>4. \/ RegisterCount(r) \/ Decline(r) \/ CheckStanding(r) \/ TakeUnclassified(r)
            \/ AcceptStanding(r) \/ AcceptShared(r) \/ Release(r) \/ ReturnSlot(r)
            \/ ExitCount(r) \/ UpgradeWeak(r)
        BY <2>1, <2>3, <3>2, <3>3
           DEF RegisterQueue, Recheck, ShareRoot, InstallUnclassified, EndTry, Settle, Refuse,
               RemoveListing, ExitQueue
      <3>5. turns' = turns /\ seen' = seen /\ queued' = queued
        BY <3>4 DEF RegisterCount, Decline, CheckStanding, TakeUnclassified, AcceptStanding,
                    AcceptShared, Release, ReturnSlot, ExitCount, UpgradeWeak
      <3>6. pc'[r] # "polling"
        BY <1>0, <3>4 DEF RegisterCount, Decline, CheckStanding, TakeUnclassified,
             AcceptStanding, AcceptShared, Release, ReturnSlot, ExitCount, UpgradeWeak,
             Goto, DropPermit, Dropped, Admitted
      <3>7. \A w \in Request : StillWaiting(w)' => StillWaiting(w)
        BY <1>0, <3>1, <3>6 DEF StillWaiting
      <3>8. OlderSameClass(x)' = OlderSameClass(x)
        BY <3>5 DEF OlderSameClass
      <3> QED BY <3>2, <3>5, <3>7, <3>8 DEF SeenInv, LastAdmittedClassIs
    <2> QED BY <2>2, <2>3
  <1> QED BY <1>1, <1>2

(* A turn that was harmless stays harmless while its request awaits its      *)
(* predicate.                                                                *)
LEMMA BenignKept ==
  ASSUME pc \in [Request -> PCs], turns' \in Seq(Turn), TurnInv',
         NEW r \in Request, NEW p, pc' = [pc EXCEPT ![r] = p], p # "settling",
         NEW C, NEW j \in DOMAIN turns', turns'[j] \in Benign(C)
  PROVE  turns'[j] \in Benign(C)'
  <1> DEFINE t == turns'[j]
  <1>1. t \in Turn /\ t.req \in Request
    <2>1. t \in Turn
      OBVIOUS
    <2> QED BY <2>1 DEF Turn, Classified
  <1>2. CASE Class[t.req] \notin {C, Standing}
    BY <1>1, <1>2 DEF Benign
  <1>3. CASE Class[t.req] \in {C, Standing}
    <2>1. Class[t.req] = Standing /\ ~t.settled /\ pc[t.req] = "deciding"
      BY <1>3 DEF Benign
    <2>2. pc'[t.req] \in {"deciding", "settling"}
      BY <2>1 DEF TurnInv
    <2>3. pc'[t.req] = "deciding"
      BY <1>1, <2>1, <2>2
    <2> QED BY <1>1, <2>1, <2>3 DEF Benign
  <1> QED BY <1>2, <1>3

(* A step that passes nobody and takes no turn keeps the order.              *)
LEMMA PassKept ==
  ASSUME PassInv, pc \in [Request -> PCs], turns \in Seq(Turn), turns' \in Seq(Turn), TurnInv',
         NEW r \in Request, NEW p, pc' = [pc EXCEPT ![r] = p], p # "settling",
         passed \in [Request -> 0..2],
         \A w \in Request : passed'[w] \in {0, passed[w]},
         \A q \in Request : before'[q] \subseteq before[q],
         \/ turns' = turns
         \/ \E k \in DOMAIN turns :
              ~turns[k].settled /\ before'[turns[k].req] = {} /\ turns' = RemoveAt(turns, k)
  PROVE  PassInv'
  <1>1. ASSUME NEW i \in DOMAIN turns, NEW C, After(turns, i, Benign(C)),
               turns[i].settled \/ before'[turns[i].req] # {}
        PROVE  \E m \in DOMAIN turns' : turns'[m] = turns[i] /\ After(turns', m, Benign(C)')
    <2>1. PICK m \in DOMAIN turns' : turns'[m] = turns[i] /\ After(turns', m, Benign(C))
      <3>1. CASE turns' = turns
        BY <1>1, <3>1
      <3>2. ASSUME NEW k \in DOMAIN turns, ~turns[k].settled, before'[turns[k].req] = {},
                   turns' = RemoveAt(turns, k)
            PROVE  \E m \in DOMAIN turns' : turns'[m] = turns[i] /\ After(turns', m, Benign(C))
        <4>1. i # k
          BY <1>1, <3>2
        <4> QED BY <1>1, <3>2, <4>1, AfterRemove
      <3> QED BY <3>1, <3>2
    <2>2. ASSUME NEW j \in DOMAIN turns', j > m PROVE turns'[j] \in Benign(C)'
      <3>1. turns'[j] \in Benign(C)
        BY <2>1, <2>2 DEF After
      <3> QED BY <3>1, BenignKept
    <2>3. After(turns', m, Benign(C)')
      BY <2>2 DEF After
    <2> QED BY <2>1, <2>3
  <1> SUFFICES ASSUME NEW w \in Request
               PROVE  /\ passed'[w] <= 1
                      /\ passed'[w] = 1 => \E i \in DOMAIN turns' : Debt(i, w)'
                      /\ \A q \in Request : Passing(q, w)' =>
                           /\ passed'[w] = 0
                           /\ \A x \in Request : Passing(x, w)' => x = q
                           /\ \E i \in DOMAIN turns' : Mark(i, q, w)'
    BY DEF PassInv
  <1>2. /\ passed[w] <= 1
        /\ passed[w] = 1 => \E i \in DOMAIN turns : Debt(i, w)
        /\ \A q \in Request : Passing(q, w) =>
             /\ passed[w] = 0
             /\ \A x \in Request : Passing(x, w) => x = q
             /\ \E i \in DOMAIN turns : Mark(i, q, w)
    BY DEF PassInv
  <1>3. passed'[w] <= 1 /\ passed'[w] \in {0, passed[w]}
    BY <1>2
  <1>4. ASSUME passed'[w] = 1 PROVE \E i \in DOMAIN turns' : Debt(i, w)'
    <2>1. PICK i \in DOMAIN turns : Debt(i, w)
      BY <1>2, <1>3, <1>4
    <2>2. PICK m \in DOMAIN turns' :
            turns'[m] = turns[i] /\ After(turns', m, Benign(Class[w])')
      BY <1>1, <2>1 DEF Debt
    <2>3. Debt(m, w)'
      BY <2>1, <2>2 DEF Debt
    <2> QED BY <2>3
  <1>5. \A q \in Request : Passing(q, w)' => Passing(q, w)
    BY DEF Passing
  <1>6. ASSUME NEW q \in Request, Passing(q, w)' PROVE \E i \in DOMAIN turns' : Mark(i, q, w)'
    <2>1. PICK i \in DOMAIN turns : Mark(i, q, w)
      BY <1>2, <1>5, <1>6
    <2>2. turns[i].req = q /\ before'[q] # {}
      BY <1>6, <2>1 DEF Mark, Passing
    <2>3. PICK m \in DOMAIN turns' :
            turns'[m] = turns[i] /\ After(turns', m, Benign(Class[w])')
      BY <1>1, <2>1, <2>2 DEF Mark
    <2>4. Mark(m, q, w)'
      BY <2>1, <2>3 DEF Mark
    <2> QED BY <2>4
  <1> QED BY <1>2, <1>3, <1>4, <1>5, <1>6

(* Nobody of its own class waits ahead of a request that takes the last slot.*)
LEMMA NoMatePassed ==
  ASSUME FullInv, NEW r \in Request, NEW free \in Nat, Takes(r, free),
         NEW w \in Request, Class[w] = Class[r]
  PROVE  ~GoesBefore(r, w, free)
  <1> SUFFICES ASSUME GoesBefore(r, w, free) PROVE FALSE
    OBVIOUS
  <1>1. w # r /\ pc[w] \in {"polling", "installing"} /\ w \in Blocking
        /\ free <= 1 /\ r \in Blocking
        /\ OlderSameClass(w) \subseteq OlderSameClass(r)
    BY DEF GoesBefore, StillWaiting
  <1>2. OlderSameClass(r) = {} /\ Queued(r)
    BY <1>1 DEF Takes
  <1>3. Queued(w)
    BY <1>1 DEF FullInv, QueueInv
  <1>4. queued \in Seq(Request)
    BY DEF FullInv, RestTypes
  <1>5. PICK i \in DOMAIN queued : queued[i] = r
    BY <1>2 DEF Queued, Range
  <1>6. PICK j \in DOMAIN queued : queued[j] = w
    BY <1>3 DEF Queued, Range
  <1>7. \A a, b \in DOMAIN queued : queued[a] = queued[b] => a = b
    BY DEF FullInv, QueueInv
  <1>8. i \in Nat /\ j \in Nat /\ DOMAIN queued = 1..Len(queued) /\ Len(queued) \in Nat
    BY <1>4
  <1>9. PICK a \in 1..i : queued[a] = w
    <2>1. i \notin OlderSameClass(w)
      BY <1>1, <1>2
    <2> QED BY <1>5, <2>1 DEF OlderSameClass
  <1>10. PICK b \in 1..j : queued[b] = r
    <2>1. j \notin OlderSameClass(r)
      BY <1>2
    <2> QED BY <1>6, <2>1 DEF OlderSameClass
  <1>11. a \in DOMAIN queued /\ b \in DOMAIN queued
    BY <1>8, <1>9, <1>10
  <1>12. a = j /\ b = i
    BY <1>5, <1>6, <1>7, <1>9, <1>10, <1>11
  <1>13. i = j
    BY <1>8, <1>9, <1>10, <1>12
  <1> QED BY <1>1, <1>5, <1>6, <1>13

(* A turn taken on the last slot goes before a waiter of another class only  *)
(* if that waiter was not passed since its class had its turn.               *)
LEMMA PassTakes ==
  ASSUME FullInv, TurnInv, WaitInv, PassInv, TurnInv',
         NEW r \in Request, NEW free \in Nat, Takes(r, free)
  PROVE  PassInv'
  <1> USE LimiterAssumption
  <1> DEFINE mates == {w \in Request : Class[w] = Class[r] /\ ~GoesBefore(r, w, free)}
             ahead == {w \in Request : GoesBefore(r, w, free)}
             new == [req |-> r, settled |-> FALSE]
             last == Len(turns) + 1
  <1>0. /\ pc \in [Request -> PCs] /\ turns \in Seq(Turn)
        /\ before \in [Request -> SUBSET Request] /\ passed \in [Request -> 0..2]
    BY DEF FullInv, IInv, LeaseTypes, RestTypes
  <1>1. /\ pc' = [pc EXCEPT ![r] = "deciding"]
        /\ turns' = Append(turns, new)
        /\ before' = [q \in Request |-> IF q = r THEN ahead ELSE before[q] \ mates]
        /\ passed' = [w \in Request |-> IF w \in mates THEN 0 ELSE passed[w]]
    BY DEF Takes, Installed, Goto, Overtakes
  <1>2. new \in Turn
    BY DEF Turn, Takes
  <1>3. /\ turns' \in Seq(Turn) /\ Len(turns) \in Nat
        /\ DOMAIN turns = 1..Len(turns) /\ DOMAIN turns' = 1..last
        /\ \A i \in 1..Len(turns) : turns'[i] = turns[i]
        /\ turns'[last] = new
    BY <1>0, <1>1, <1>2
  <1>4. ASSUME NEW i \in DOMAIN turns, NEW C, C # Class[r], After(turns, i, Benign(C))
        PROVE  i \in DOMAIN turns' /\ turns'[i] = turns[i] /\ After(turns', i, Benign(C)')
    <2>1. ASSUME NEW j \in DOMAIN turns', j > i PROVE turns'[j] \in Benign(C)'
      <3>1. CASE j = last
        <4>1. pc'[r] = "deciding"
          BY <1>0, <1>1
        <4>2. turns'[j] = new /\ new.req = r /\ ~new.settled
          BY <1>3, <3>1
        <4> QED BY <1>2, <1>4, <4>1, <4>2 DEF Benign
      <3>2. CASE j # last
        <4>1. j \in DOMAIN turns /\ turns'[j] = turns[j]
          BY <1>3, <3>2
        <4>2. turns'[j] \in Benign(C)
          BY <1>4, <2>1, <4>1 DEF After
        <4> QED BY <1>0, <1>1, <1>3, <4>2, BenignKept
      <3> QED BY <3>1, <3>2
    <2> QED BY <1>3, <2>1 DEF After
  <1> HIDE DEF new, last
  <1> SUFFICES ASSUME NEW w \in Request
               PROVE  /\ passed'[w] <= 1
                      /\ passed'[w] = 1 => \E i \in DOMAIN turns' : Debt(i, w)'
                      /\ \A q \in Request : Passing(q, w)' =>
                           /\ passed'[w] = 0
                           /\ \A x \in Request : Passing(x, w)' => x = q
                           /\ \E i \in DOMAIN turns' : Mark(i, q, w)'
    BY DEF PassInv
  <1>5. CASE Class[w] = Class[r]
    <2>1. w \in mates /\ w \notin ahead
      BY <1>5, NoMatePassed
    <2> HIDE DEF mates, ahead
    <2>2. passed'[w] = 0 /\ \A q \in Request : w \notin before'[q]
      BY <1>1, <2>1
    <2> QED BY <2>2 DEF Passing
  <1>6. CASE Class[w] # Class[r]
    <2>1. w \notin mates
      BY <1>6
    <2> HIDE DEF mates
    <2>2. /\ passed'[w] = passed[w]
          /\ \A q \in Request : q # r => (w \in before'[q] <=> w \in before[q])
          /\ w \in before'[r] <=> GoesBefore(r, w, free)
      BY <1>1, <2>1
    <2>3. /\ passed[w] <= 1
          /\ passed[w] = 1 => \E i \in DOMAIN turns : Debt(i, w)
          /\ \A q \in Request : Passing(q, w) =>
               /\ passed[w] = 0
               /\ \A x \in Request : Passing(x, w) => x = q
               /\ \E i \in DOMAIN turns : Mark(i, q, w)
      BY DEF PassInv
    <2>4. ASSUME passed'[w] = 1 PROVE \E i \in DOMAIN turns' : Debt(i, w)'
      <3>1. PICK i \in DOMAIN turns : Debt(i, w)
        BY <2>2, <2>3, <2>4
      <3>2. i \in DOMAIN turns' /\ turns'[i] = turns[i] /\ After(turns', i, Benign(Class[w])')
        BY <1>4, <1>6, <3>1 DEF Debt
      <3>3. Debt(i, w)'
        BY <3>1, <3>2 DEF Debt
      <3> QED BY <3>2, <3>3
    <2>5. ASSUME NEW q \in Request, Passing(q, w) PROVE \E i \in DOMAIN turns' : Mark(i, q, w)'
      <3>1. PICK i \in DOMAIN turns : Mark(i, q, w)
        BY <2>3, <2>5
      <3>2. i \in DOMAIN turns' /\ turns'[i] = turns[i] /\ After(turns', i, Benign(Class[w])')
        BY <1>4, <1>6, <3>1 DEF Mark
      <3>3. Mark(i, q, w)'
        BY <3>1, <3>2 DEF Mark
      <3> QED BY <3>2, <3>3
    <2>6. ASSUME Passing(r, w)'
          PROVE  passed[w] = 0 /\ \A q \in Request : ~Passing(q, w)
      <3>1. Class[r] # Standing /\ GoesBefore(r, w, free)
        BY <2>2, <2>6 DEF Passing
      <3>2. StillWaiting(w) /\ free <= 1 /\ ~StandingPending
        BY <3>1 DEF GoesBefore
      <3>3. ~LastAdmittedClassIs(Class[r])
        BY <1>6, <3>2 DEF Takes
      <3>4. ASSUME NEW i \in DOMAIN turns, Class[turns[i].req] \notin {Class[w], Standing},
                   After(turns, i, Benign(Class[w]))
            PROVE  FALSE
        <4> DEFINE n == Len(turns)
        <4>1. n \in DOMAIN turns /\ turns # <<>> /\ Last(turns) = turns[n] /\ n >= i
          BY <1>3, <3>4 DEF Last
        <4>2. turns[n] \in Turn
          BY <1>0, <4>1
        <4>3. turns[n].req \in Classified
          BY <4>2 DEF Turn
        <4>4. Class[turns[n].req] \notin {Class[w], Standing}
          <5>1. CASE n = i
            BY <3>4, <5>1
          <5>2. CASE n # i
            <6>1. turns[n] \in Benign(Class[w])
              BY <1>3, <3>4, <4>1, <5>2 DEF After
            <6> QED BY <3>2, <4>1, <6>1 DEF Benign, StandingPending
          <5> QED BY <5>1, <5>2
        <4>5. Class[turns[n].req] = Class[r]
          <5>1. Class[turns[n].req] \in Classes /\ Class[r] \in Classes /\ Class[w] \in Classes
            <6>1. r \in Classified /\ w \in Blocking
              BY <3>2 DEF Takes, StillWaiting
            <6>2. w \in Classified
              BY <6>1, LimiterAssumption DEF Classified
            <6> QED BY <4>3, <6>1, <6>2, LimiterAssumption DEF Classified
          <5> QED BY <1>6, <3>1, <3>2, <4>4, <5>1 DEF Classes, StillWaiting
        <4> QED BY <3>3, <4>1, <4>5 DEF LastAdmittedClassIs
      <3>5. ASSUME NEW i \in DOMAIN turns, Debt(i, w) PROVE FALSE
        BY <3>4, <3>5 DEF Debt
      <3>6. ASSUME NEW q \in Request, Passing(q, w) PROVE FALSE
        <4>1. PICK i \in DOMAIN turns : Mark(i, q, w)
          BY <2>3, <3>6
        <4>2. turns[i].req = q /\ Class[q] # Standing /\ Class[q] # Class[w]
          BY <3>6, <4>1 DEF Mark, Passing
        <4> QED BY <3>4, <4>1, <4>2 DEF Mark
      <3> QED BY <1>0, <2>3, <3>5, <3>6
    <2>7. ASSUME Passing(r, w)' PROVE \E i \in DOMAIN turns' : Mark(i, r, w)'
      <3>1. PICK m \in DOMAIN turns' :
              /\ turns'[m] = [req |-> r, settled |-> FALSE]
              /\ \A j \in DOMAIN turns' : ~(j > m)
        BY <1>3 DEF last, new
      <3>2. Mark(m, r, w)'
        BY <1>6, <3>1 DEF Mark, After
      <3> QED BY <3>2
    <2>8. \A q \in Request : q # r => (Passing(q, w)' <=> Passing(q, w))
      BY <2>2 DEF Passing
    <2> QED BY <2>2, <2>3, <2>4, <2>5, <2>6, <2>7, <2>8
  <1> QED BY <1>5, <1>6

(* Settling a turn: those it went before are passed, and what was owed to a  *)
(* waiter is owed by the newest settled turn.                                *)
LEMMA PassSettles ==
  ASSUME FullInv, TurnInv, WaitInv, PassInv, TurnInv', turns' \in Seq(Turn),
         NEW r \in Request, Settle(r)
  PROVE  PassInv'
  <1> DEFINE mine == TurnOf(r)
             done == [req |-> r, settled |-> TRUE]
             settled == [turns EXCEPT ![mine] = done]
  <1>0. /\ pc \in [Request -> PCs] /\ turns \in Seq(Turn)
        /\ before \in [Request -> SUBSET Request] /\ passed \in [Request -> 0..2]
    BY DEF FullInv, IInv, LeaseTypes, RestTypes
  <1>1. /\ pc[r] \in {"deciding", "settling"} /\ (Class[r] = Standing => pc[r] = "settling")
        /\ PendingTurn(r) /\ turns' = SettledTurns(r)
        /\ before' = [before EXCEPT ![r] = {}]
        /\ passed' = [w \in Request |->
             IF w \in before[r] /\ passed[w] < 2 THEN passed[w] + 1 ELSE passed[w]]
    BY SettleMoves
  <1>2. PICK p \in {"exiting", "holding"} : pc' = [pc EXCEPT ![r] = p]
    BY SettleMoves
  <1>3. /\ mine \in DOMAIN turns /\ turns[mine].req = r /\ ~turns[mine].settled
        /\ \A i \in DOMAIN turns : turns[i].req = r /\ ~turns[i].settled => i = mine
    BY <1>1, Mine
  <1>4. done \in Turn
    BY <1>0, <1>1, PendingClassified DEF Turn
  <1>5. /\ settled \in Seq(Turn) /\ DOMAIN settled = DOMAIN turns
        /\ settled[mine] = done
        /\ \A j \in DOMAIN turns : j # mine => settled[j] = turns[j]
    BY <1>0, <1>3, <1>4
  <1>6. PICK M : M = mine
    OBVIOUS
  <1>7. PICK S : S = settled
    OBVIOUS
  <1>8. \/ \E n \in DOMAIN turns : turns[n].settled /\ n > M /\ turns' = RemoveAt(turns, M)
        \/ (\A n \in DOMAIN turns : ~turns[n].settled) /\ turns' = S
        \/ \E n \in DOMAIN turns : turns[n].settled /\ n < M /\ turns' = RemoveAt(S, n)
    BY <1>0, <1>1, <1>6, <1>7, SettleCases
  <1>9. /\ M \in DOMAIN turns /\ turns[M].req = r /\ ~turns[M].settled
        /\ \A i \in DOMAIN turns : turns[i].req = r /\ ~turns[i].settled => i = M
        /\ S \in Seq(Turn) /\ DOMAIN S = DOMAIN turns
        /\ S[M].req = r /\ S[M].settled
        /\ \A j \in DOMAIN turns : j # M => S[j] = turns[j]
    BY <1>3, <1>5, <1>6, <1>7
  <1>w. DOMAIN turns \subseteq Nat
    BY <1>0
  <1> HIDE DEF mine, done, settled
  <1>10. ASSUME NEW C, turns[M] \in Benign(C) PROVE Class[r] \notin {C, Standing} /\ S[M] \in Benign(C)
    <2>1. Class[r] \notin {C, Standing}
      BY <1>1, <1>9, <1>10 DEF Benign
    <2>2. S[M] \in Turn
      BY <1>9
    <2> QED BY <1>9, <2>1, <2>2 DEF Benign
  <1>11. ASSUME NEW i \in DOMAIN turns, NEW C, After(turns, i, Benign(C))
         PROVE  After(S, i, Benign(C))
    BY <1>9, <1>10, <1>11 DEF After
  <1>12. ASSUME NEW m \in DOMAIN turns', NEW C, After(turns', m, Benign(C))
         PROVE  After(turns', m, Benign(C)')
    <2>1. ASSUME NEW j \in DOMAIN turns', j > m PROVE turns'[j] \in Benign(C)'
      <3>1. turns'[j] \in Benign(C)
        BY <1>12, <2>1 DEF After
      <3> QED BY <1>0, <1>2, <3>1, BenignKept
    <2> QED BY <2>1 DEF After
  (* A pending turn of another request is still there.                       *)
  <1>13. ASSUME NEW i \in DOMAIN turns, NEW C, After(turns, i, Benign(C)),
                ~turns[i].settled, i # M
         PROVE  \E m \in DOMAIN turns' : turns'[m] = turns[i] /\ After(turns', m, Benign(C)')
    <2>1. S[i] = turns[i] /\ After(S, i, Benign(C)) /\ i \in DOMAIN S
      BY <1>9, <1>11, <1>13
    <2>2. \E m \in DOMAIN turns' : turns'[m] = turns[i] /\ After(turns', m, Benign(C))
      <3>1. CASE turns' = RemoveAt(turns, M)
        BY <1>0, <1>9, <1>13, <3>1, AfterRemove
      <3>2. CASE turns' = S
        BY <2>1, <3>2
      <3>3. ASSUME NEW n \in DOMAIN turns, turns[n].settled, turns' = RemoveAt(S, n)
            PROVE  \E m \in DOMAIN turns' : turns'[m] = turns[i] /\ After(turns', m, Benign(C))
        <4>1. i # n /\ n \in DOMAIN S
          BY <1>9, <1>13, <3>3
        <4> QED BY <1>9, <2>1, <3>3, <4>1, AfterRemove
      <3> QED BY <1>8, <3>1, <3>2, <3>3
    <2> QED BY <1>12, <2>2
  (* What r's turn or the settled one owes, the settled one owes afterwards. *)
  <1>14. ASSUME NEW i \in DOMAIN turns, NEW C, After(turns, i, Benign(C)),
                i = M \/ turns[i].settled,
                Class[turns[i].req] \notin {C, Standing}
         PROVE  \E m \in DOMAIN turns' :
                  /\ turns'[m].settled /\ Class[turns'[m].req] \notin {C, Standing}
                  /\ After(turns', m, Benign(C)')
    <2>1. ASSUME NEW n \in DOMAIN turns, turns[n].settled, n > M, turns' = RemoveAt(turns, M)
          PROVE  \E m \in DOMAIN turns' :
                   /\ turns'[m].settled /\ Class[turns'[m].req] \notin {C, Standing}
                   /\ After(turns', m, Benign(C))
      <3>1. Class[turns[n].req] \notin {C, Standing} /\ After(turns, n, Benign(C))
        <4>1. CASE i = n
          BY <1>14, <4>1
        <4>2. CASE i # n
          <5>1. i = M
            BY <1>14, <2>1, <4>2 DEF TurnInv
          <5>2. turns[n] \in Benign(C)
            BY <1>14, <2>1, <5>1 DEF After
          <5>3. After(turns, n, Benign(C))
            BY <1>w, <1>14, <2>1, <5>1 DEF After
          <5> QED BY <2>1, <5>2, <5>3 DEF Benign
        <4> QED BY <4>1, <4>2
      <3>2. n # M
        BY <1>9, <2>1
      <3> QED BY <1>0, <1>9, <2>1, <3>1, <3>2, AfterRemove
    <2>2. ASSUME i = M \/ i < M
          PROVE  Class[S[M].req] \notin {C, Standing} /\ After(S, M, Benign(C))
      <3>1. CASE i = M
        BY <1>9, <1>11, <1>14, <3>1
      <3>2. CASE i < M
        <4>1. turns[M] \in Benign(C)
          BY <1>9, <1>14, <3>2 DEF After
        <4>2. After(turns, M, Benign(C))
          BY <1>w, <1>9, <1>14, <3>2 DEF After
        <4> QED BY <1>9, <1>10, <1>11, <4>1, <4>2
      <3> QED BY <2>2, <3>1, <3>2
    <2>3. CASE (\A n \in DOMAIN turns : ~turns[n].settled) /\ turns' = S
      <3>1. i = M
        BY <1>14, <2>3
      <3> QED BY <1>9, <1>12, <2>2, <2>3, <3>1
    <2>4. ASSUME NEW n \in DOMAIN turns, turns[n].settled, n < M, turns' = RemoveAt(S, n)
          PROVE  \E m \in DOMAIN turns' :
                   /\ turns'[m].settled /\ Class[turns'[m].req] \notin {C, Standing}
                   /\ After(turns', m, Benign(C))
      <3>1. i = M \/ i < M
        BY <1>14, <2>4 DEF TurnInv
      <3>2. Class[S[M].req] \notin {C, Standing} /\ After(S, M, Benign(C))
        BY <2>2, <3>1
      <3>3. M \in DOMAIN S /\ n \in DOMAIN S /\ M # n
        BY <1>9, <2>4
      <3> QED BY <1>9, <2>4, <3>2, <3>3, AfterRemove
    <2> QED BY <1>8, <1>12, <2>1, <2>3, <2>4
  <1> SUFFICES ASSUME NEW w \in Request
               PROVE  /\ passed'[w] <= 1
                      /\ passed'[w] = 1 => \E i \in DOMAIN turns' : Debt(i, w)'
                      /\ \A q \in Request : Passing(q, w)' =>
                           /\ passed'[w] = 0
                           /\ \A x \in Request : Passing(x, w)' => x = q
                           /\ \E i \in DOMAIN turns' : Mark(i, q, w)'
    BY DEF PassInv
  <1>15. /\ passed[w] <= 1
         /\ passed[w] = 1 => \E i \in DOMAIN turns : Debt(i, w)
         /\ \A q \in Request : Passing(q, w) =>
              /\ passed[w] = 0
              /\ \A x \in Request : Passing(x, w) => x = q
              /\ \E i \in DOMAIN turns : Mark(i, q, w)
    BY DEF PassInv
  <1>16. \A q \in Request : Passing(q, w)' => q # r /\ Passing(q, w)
    BY <1>0, <1>1 DEF Passing
  <1>17. ASSUME NEW i \in DOMAIN turns, After(turns, i, Benign(Class[w])),
                i = M \/ turns[i].settled,
                Class[turns[i].req] \notin {Class[w], Standing}
         PROVE  \E m \in DOMAIN turns' : Debt(m, w)'
    <2>1. PICK m \in DOMAIN turns' :
            /\ turns'[m].settled /\ Class[turns'[m].req] \notin {Class[w], Standing}
            /\ After(turns', m, Benign(Class[w])')
      BY <1>14, <1>17
    <2>2. Debt(m, w)'
      BY <2>1 DEF Debt
    <2> QED BY <2>2
  <1>18. CASE w \in before[r]
    <2>1. Class[r] # Standing
      BY <1>1, <1>18 DEF WaitInv
    <2>2. Passing(r, w)
      BY <1>18, <2>1 DEF Passing
    <2>3. passed[w] = 0 /\ \A q \in Request : ~Passing(q, w)'
      BY <1>15, <1>16, <2>2
    <2>4. passed'[w] = 1
      BY <1>1, <1>18, <2>3
    <2>5. PICK i \in DOMAIN turns : Mark(i, r, w)
      BY <1>15, <2>2
    <2>6. turns[i].req = r /\ ~turns[i].settled /\ Class[r] # Class[w]
      BY <2>5 DEF Mark
    <2>7. i = M
      BY <1>9, <2>6
    <2>8. \E m \in DOMAIN turns' : Debt(m, w)'
      BY <1>17, <2>1, <2>5, <2>6, <2>7 DEF Mark
    <2> QED BY <2>3, <2>4, <2>8
  <1>19. CASE w \notin before[r]
    <2>1. passed'[w] = passed[w]
      BY <1>1, <1>19
    <2>2. ASSUME passed[w] = 1 PROVE \E m \in DOMAIN turns' : Debt(m, w)'
      <3>1. PICK i \in DOMAIN turns : Debt(i, w)
        BY <1>15, <2>2
      <3> QED BY <1>17, <3>1 DEF Debt
    <2>3. ASSUME NEW q \in Request, Passing(q, w)' PROVE \E m \in DOMAIN turns' : Mark(m, q, w)'
      <3>1. q # r /\ Passing(q, w)
        BY <1>16, <2>3
      <3>2. PICK i \in DOMAIN turns : Mark(i, q, w)
        BY <1>15, <3>1
      <3>3. turns[i].req = q /\ ~turns[i].settled /\ i # M
        BY <1>9, <3>1, <3>2 DEF Mark
      <3>4. PICK m \in DOMAIN turns' :
              turns'[m] = turns[i] /\ After(turns', m, Benign(Class[w])')
        BY <1>13, <3>2, <3>3 DEF Mark
      <3>5. Mark(m, q, w)'
        BY <3>2, <3>4 DEF Mark
      <3> QED BY <3>5
    <2> QED BY <1>15, <1>16, <2>1, <2>2, <2>3
  <1> QED BY <1>18, <1>19

LEMMA PassStep ==
  ASSUME FullInv, TurnInv, WaitInv, SeenInv, PassInv, [Next]_vars
  PROVE  PassInv'
  <1>0. /\ pc \in [Request -> PCs] /\ turns \in Seq(Turn)
        /\ before \in [Request -> SUBSET Request] /\ passed \in [Request -> 0..2]
    BY DEF FullInv, IInv, LeaseTypes, RestTypes
  <1>1. TurnInv' /\ turns' \in Seq(Turn)
    BY TurnStep, FullStep DEF FullInv, RestTypes
  <1>2. CASE UNCHANGED vars
    BY <1>2 DEF vars, PassInv, Passing, Mark, Debt, After, Benign
  <1>3. ASSUME NEW r \in Request, Quiet(r) PROVE PassInv'
    <2>1. PICK p \in PCs :
            /\ pc' = [pc EXCEPT ![r] = p]
            /\ UNCHANGED <<turns, before, passed>>
            /\ p = "settling" => ~HasNonStandingWaiters
      BY <1>3 DEF Quiet
    <2>2. CASE p = "settling"
      <3>1. \A w \in Request : ~StillWaiting(w)
        BY <2>1, <2>2, Waited
      <3>2. \A w \in Request : passed'[w] = 0 /\ \A q \in Request : w \notin before'[q]
        BY <1>0, <2>1, <3>1 DEF WaitInv
      <3> QED BY <3>2 DEF PassInv, Passing
    <2>3. CASE p # "settling"
      BY <1>0, <1>1, <2>1, <2>3, PassKept
    <2> QED BY <2>2, <2>3
  <1>4. ASSUME NEW r \in Request, Leaves(r) PROVE PassInv'
    <2>1. PICK p \in {"exiting", "deciding"} : pc' = [pc EXCEPT ![r] = p]
      BY <1>4 DEF Leaves
    <2>2. /\ turns' = turns
          /\ before' = [q \in Request |-> before[q] \ {r}]
          /\ passed' = [passed EXCEPT ![r] = 0]
      BY <1>4 DEF Leaves, StopsWaiting
    <2>3. /\ \A w \in Request : passed'[w] \in {0, passed[w]}
          /\ \A q \in Request : before'[q] \subseteq before[q]
      BY <1>0, <2>2
    <2> QED BY <1>0, <1>1, <2>1, <2>2, <2>3, PassKept
  <1>5. ASSUME NEW r \in Request, Refuse(r) PROVE PassInv'
    <2>1. PICK p \in {"removing", "exiting", "idle"} : pc' = [pc EXCEPT ![r] = p]
      BY <1>5, RefuseMoves
    <2>2. /\ turns' = WithdrawnTurns(r)
          /\ before' = [before EXCEPT ![r] = {}] /\ passed' = passed
      BY <1>5, RefuseMoves
    <2>3. /\ \A w \in Request : passed'[w] \in {0, passed[w]}
          /\ \A q \in Request : before'[q] \subseteq before[q]
      BY <1>0, <2>2
    <2>4. \/ turns' = turns
          \/ \E k \in DOMAIN turns :
               ~turns[k].settled /\ before'[turns[k].req] = {} /\ turns' = RemoveAt(turns, k)
      <3>1. CASE PendingTurn(r)
        <4>1. before'[turns[TurnOf(r)].req] = {}
          BY <1>0, <2>2, <3>1, Mine
        <4> QED BY <2>2, <3>1, <4>1, Mine DEF WithdrawnTurns
      <3>2. CASE ~PendingTurn(r)
        BY <2>2, <3>2 DEF WithdrawnTurns
      <3> QED BY <3>1, <3>2
    <2> QED BY <1>0, <1>1, <2>1, <2>3, <2>4, PassKept
  <1>6. ASSUME NEW r \in Request, Settle(r) PROVE PassInv'
    BY <1>1, <1>6, PassSettles
  <1>7. ASSUME NEW r \in Request, NEW free \in Nat, Takes(r, free) PROVE PassInv'
    BY <1>1, <1>7, PassTakes
  <1> QED BY <1>2, <1>3, <1>4, <1>5, <1>6, <1>7, StepKinds

OrderInv == FullInv /\ TurnInv /\ WaitInv /\ SeenInv /\ PassInv

LEMMA InitOrder == ASSUME Init PROVE OrderInv
  <1>1. FullInv
    BY InitFull
  <1>2. turns = <<>> /\ DOMAIN turns = {}
    BY DEF Init
  <1>3. \A r \in Request : pc[r] = "idle" /\ before[r] = {} /\ passed[r] = 0
    BY DEF Init
  <1> QED BY <1>1, <1>2, <1>3
          DEF OrderInv, TurnInv, WaitInv, SeenInv, PassInv, Passing

(* For any requests, classes, roots and limit: a waiter is passed at most    *)
(* once by classified requests that saw one slot free before its class has   *)
(* its turn, although turns settle and are withdrawn in any order without    *)
(* regard to when they were taken (ClassTurnReservation::settle and its Drop)*)
(* and unclassified callers take slots between an attempt's checks and its   *)
(* compare-and-swap.  Admissions beside a pending Standing turn and the      *)
(* unclassified ones are not counted.                                        *)
THEOREM PassedAtMostOnce == Spec => []NeverPassedTwice
  <1>1. Init => OrderInv
    BY InitOrder
  <1>2. OrderInv /\ [Next]_vars => OrderInv'
    BY FullStep, TurnStep, WaitStep, SeenStep, PassStep DEF OrderInv
  <1>3. OrderInv => NeverPassedTwice
    BY DEF OrderInv, PassInv, NeverPassedTwice
  <1> QED BY <1>1, <1>2, <1>3, PTL DEF Spec
=============================================================================
