------------------------- MODULE ArtifactOwnerProofs -------------------------
(* What holds of the owner manifest for every number of processes, hosts and *)
(* checkouts.                                                                *)
EXTENDS ArtifactOwner, TLAPS

(* While a context creates the file it has the lock, and the file is what    *)
(* create_new left.                                                          *)
LockInv == \A c \in Context : pc[c] = "creating" => holder = c /\ file = Partial

(* A decision to reclaim stands as long as the file is unchanged: time and   *)
(* crashes only make its manifest easier to take.                            *)
JudgedInv ==
  \A c \in Context :
    pc[c] = "reclaim" /\ c \in unchanged /\ HasManifest => ~Unassailable(file)

SweptInv ==
  \A p \in Process :
    sweep[p] = "reclaim" /\ p \in unchanged /\ HasManifest => ~Unassailable(file)

IInv == TypeOK /\ LockInv /\ JudgedInv /\ SweptInv

(* The steps of the module, one by one.                                      *)
ContextStep(c) ==
  \/ StartClaim(c) \/ Read(c) \/ RecreateDir(c) \/ WriteOwner(c) \/ CreateFile(c)
  \/ FillFile(c) \/ Repair(c) \/ Reclaim(c) \/ Commit(c) \/ AbandonClaim(c)
  \/ Release(c) \/ CopyLease(c) \/ Heartbeat(c)

ProcessStep(p) ==
  BeginSweep(p) \/ SweepReclaim(p) \/ RemoveDir(p) \/ Crash(p) \/ Restart(p)

LEMMA NextCases ==
  ASSUME Next
  PROVE  \/ \E c \in Context : ContextStep(c)
         \/ \E p \in Process : ProcessStep(p)
         \/ GoStale \/ GoOld
         \/ \E k \in Checkout : DeleteCheckout(k)
  BY DEF Next, ClaimStep, ContextStep, ProcessStep

LEMMA NewManifest ==
  ASSUME NEW c \in Context
  PROVE  new_manifest(c) \in Manifest /\ new_manifest(c) \notin {NoFile, Partial}
  <1>1. new_manifest(c) \in Manifest
    BY DEF new_manifest, Manifest
  <1> QED BY <1>1, OwnerAssumption

LEMMA InitInv == Init => IInv
  <1> SUFFICES ASSUME Init PROVE IInv
    OBVIOUS
  <1>1. hostOf \in [Process -> Host] /\ faults \in 0..MaxFaults
    BY OwnerAssumption DEF Init
  <1>2. /\ pc \in [Context -> {"idle", "top", "write", "create", "creating", "repair",
                              "reclaim", "claimed", "borrowed"}]
        /\ sweep \in [Process -> {"idle", "reclaim", "rmdir"}]
    BY DEF Init
  <1>3. TypeOK
    BY <1>1, <1>2 DEF Init, TypeOK
  <1> QED BY <1>3 DEF Init, IInv, LockInv, JudgedInv, SweptInv

-----------------------------------------------------------------------------
LEMMA TypeStep == TypeOK /\ LockInv /\ [Next]_vars => TypeOK'
  <1> SUFFICES ASSUME TypeOK, LockInv, [Next]_vars PROVE TypeOK'
    OBVIOUS
  <1> USE OwnerAssumption
  <1>1. ASSUME NEW c \in Context, ContextStep(c) PROVE TypeOK'
    <2>1. CASE StartClaim(c)
      BY <2>1 DEF StartClaim, Goto, TypeOK
    <2>2. CASE Read(c)
      BY <2>2 DEF Read, Goto, TypeOK
    <2>3. CASE RecreateDir(c)
      BY <2>3 DEF RecreateDir, Goto, TypeOK
    <2>4. CASE WriteOwner(c)
      BY <2>4, NewManifest DEF WriteOwner, Goto, Put, TypeOK
    <2>5. CASE CreateFile(c)
      BY <2>5 DEF CreateFile, Goto, Put, TypeOK
    <2>6. CASE FillFile(c)
      BY <2>6, NewManifest DEF FillFile, Goto, Put, TypeOK, LockInv
    <2>7. CASE Repair(c)
      BY <2>7 DEF Repair, Goto, Put, TypeOK
    <2>8. CASE Reclaim(c)
      BY <2>8 DEF Reclaim, Removes, Goto, Put, TypeOK
    <2>9. CASE Commit(c)
      BY <2>9 DEF Commit, Goto, TypeOK
    <2>10. CASE AbandonClaim(c)
      BY <2>10 DEF AbandonClaim, Goto, TypeOK
    <2>11. CASE Release(c)
      BY <2>11 DEF Release, TypeOK
    <2>12. CASE CopyLease(c)
      BY <2>12 DEF CopyLease, TypeOK
    <2>13. CASE Heartbeat(c)
      BY <2>13, NewManifest DEF Heartbeat, Put, TypeOK
    <2> QED
      BY <1>1, <2>1, <2>2, <2>3, <2>4, <2>5, <2>6, <2>7, <2>8, <2>9, <2>10, <2>11,
         <2>12, <2>13 DEF ContextStep
  <1>2. ASSUME NEW p \in Process, ProcessStep(p) PROVE TypeOK'
    <2>1. CASE BeginSweep(p)
      BY <2>1 DEF BeginSweep, TypeOK
    <2>2. CASE SweepReclaim(p)
      BY <2>2 DEF SweepReclaim, Removes, Put, TypeOK
    <2>3. CASE RemoveDir(p)
      BY <2>3 DEF RemoveDir, TypeOK
    <2>4. CASE Crash(p)
      <3>1. file' \in Manifest \cup {NoFile, Partial} /\ (file' # NoFile => dir)
        BY <2>4 DEF Crash, HasManifest, Manifest, TypeOK
      <3>2. pc' \in [Context -> {"idle", "top", "write", "create", "creating", "repair",
                                 "reclaim", "claimed", "borrowed"}]
        BY <2>4 DEF Crash, TypeOK
      <3> QED BY <2>4, <3>1, <3>2 DEF Crash, Fault, TypeOK
    <2>5. CASE Restart(p)
      BY <2>5 DEF Restart, TypeOK
    <2> QED BY <1>2, <2>1, <2>2, <2>3, <2>4, <2>5 DEF ProcessStep
  <1>3. CASE GoStale
    BY <1>3 DEF GoStale, Fault, HasManifest, Manifest, TypeOK
  <1>4. CASE GoOld
    BY <1>4 DEF GoOld, HasManifest, Manifest, TypeOK
  <1>5. ASSUME NEW k \in Checkout, DeleteCheckout(k) PROVE TypeOK'
    BY <1>5 DEF DeleteCheckout, TypeOK
  <1>6. CASE UNCHANGED vars
    BY <1>6 DEF vars, TypeOK
  <1> QED BY <1>1, <1>2, <1>3, <1>4, <1>5, <1>6, NextCases

LEMMA LockStep == TypeOK /\ LockInv /\ [Next]_vars => LockInv'
  <1> SUFFICES ASSUME TypeOK, LockInv, [Next]_vars, NEW d \in Context, pc'[d] = "creating"
               PROVE  holder' = d /\ file' = Partial
    BY DEF LockInv
  <1> USE OwnerAssumption DEF TypeOK, LockInv
  <1>1. ASSUME NEW c \in Context, ContextStep(c) PROVE holder' = d /\ file' = Partial
    <2>1. CASE CreateFile(c)
      BY <2>1 DEF CreateFile, Goto, Put
    <2>2. CASE Read(c)
      BY <2>2 DEF Read, Goto
    <2>3. CASE FillFile(c)
      BY <2>3 DEF FillFile, Goto
    <2>4. CASE WriteOwner(c) \/ Repair(c) \/ Reclaim(c) \/ RecreateDir(c)
      BY <2>4 DEF WriteOwner, Repair, Reclaim, RecreateDir, Goto, Put
    <2>5. CASE StartClaim(c) \/ Commit(c) \/ AbandonClaim(c) \/ Release(c) \/ CopyLease(c)
      BY <2>5 DEF StartClaim, Commit, AbandonClaim, Release, CopyLease, Goto
    <2>6. CASE Heartbeat(c)
      BY <2>6 DEF Heartbeat, Put
    <2> QED BY <1>1, <2>1, <2>2, <2>3, <2>4, <2>5, <2>6 DEF ContextStep
  <1>2. ASSUME NEW p \in Process, ProcessStep(p) PROVE holder' = d /\ file' = Partial
    <2>1. CASE Crash(p)
      BY <2>1 DEF Crash, HasManifest
    <2>2. CASE SweepReclaim(p)
      BY <2>2 DEF SweepReclaim, Put
    <2>3. CASE BeginSweep(p) \/ RemoveDir(p) \/ Restart(p)
      BY <2>3 DEF BeginSweep, RemoveDir, Restart
    <2> QED BY <1>2, <2>1, <2>2, <2>3 DEF ProcessStep
  <1>3. CASE GoStale \/ GoOld
    BY <1>3 DEF GoStale, GoOld, HasManifest
  <1>4. ASSUME NEW k \in Checkout, DeleteCheckout(k) PROVE holder' = d /\ file' = Partial
    BY <1>4 DEF DeleteCheckout
  <1>5. CASE UNCHANGED vars
    BY <1>5 DEF vars
  <1> QED BY <1>1, <1>2, <1>3, <1>4, <1>5, NextCases

-----------------------------------------------------------------------------
(* Readers hold on to nothing once the file is written or removed.           *)
LEMMA JudgedStep == TypeOK /\ JudgedInv /\ [Next]_vars => JudgedInv'
  <1> SUFFICES ASSUME TypeOK, JudgedInv, [Next]_vars, NEW d \in Context,
                      pc'[d] = "reclaim", d \in unchanged', HasManifest'
               PROVE  ~Unassailable(file)'
    BY DEF JudgedInv
  <1> USE OwnerAssumption DEF TypeOK, JudgedInv
  <1>1. ASSUME NEW c \in Context, ContextStep(c) PROVE ~Unassailable(file)'
    <2>1. CASE Read(c)
      <3>1. file' = file /\ hostOf' = hostOf /\ HasManifest
        BY <2>1 DEF Read, HasManifest
      <3>2. CASE c = d
        <4>1. PICK recycled \in BOOLEAN :
                ~manifest_owner_alive(ProcessOf[c], file, recycled)
          BY <2>1, <3>1, <3>2 DEF Read, Goto, HasManifest
        <4>2. ProcessOf[c] \in Process
          OBVIOUS
        <4> QED BY <3>1, <4>1, <4>2 DEF manifest_owner_alive, ProcessAlive, Unassailable
      <3>3. CASE c # d
        BY <2>1, <3>1, <3>3 DEF Read, Goto, Unassailable
      <3> QED BY <3>2, <3>3
    <2>2. CASE WriteOwner(c) \/ FillFile(c) \/ Heartbeat(c)
      BY <2>2 DEF WriteOwner, FillFile, Heartbeat, Put, Goto, Unassailable, HasManifest
    <2>3. CASE CreateFile(c) \/ Repair(c) \/ Reclaim(c)
      BY <2>3 DEF CreateFile, Repair, Reclaim, Put, Goto, Unassailable, HasManifest
    <2>4. CASE StartClaim(c) \/ RecreateDir(c) \/ Commit(c) \/ AbandonClaim(c)
      BY <2>4 DEF StartClaim, RecreateDir, Commit, AbandonClaim, Goto, Unassailable,
                  HasManifest
    <2>5. CASE Release(c) \/ CopyLease(c)
      BY <2>5 DEF Release, CopyLease, Unassailable, HasManifest
    <2> QED BY <1>1, <2>1, <2>2, <2>3, <2>4, <2>5 DEF ContextStep
  <1>2. ASSUME NEW p \in Process, ProcessStep(p) PROVE ~Unassailable(file)'
    <2>1. CASE Crash(p)
      BY <2>1 DEF Crash, Unassailable, HasManifest, Manifest, Owner
    <2>2. CASE SweepReclaim(p)
      BY <2>2 DEF SweepReclaim, Put, Unassailable, HasManifest
    <2>3. CASE BeginSweep(p) \/ RemoveDir(p) \/ Restart(p)
      BY <2>3 DEF BeginSweep, RemoveDir, Restart, Unassailable, HasManifest
    <2> QED BY <1>2, <2>1, <2>2, <2>3 DEF ProcessStep
  <1>3. CASE GoStale \/ GoOld
    BY <1>3 DEF GoStale, GoOld, HasManifest, Manifest, Unassailable, Owner
  <1>4. ASSUME NEW k \in Checkout, DeleteCheckout(k) PROVE ~Unassailable(file)'
    BY <1>4 DEF DeleteCheckout, HasManifest, Unassailable
  <1>5. CASE UNCHANGED vars
    BY <1>5 DEF vars, HasManifest, Unassailable
  <1> QED BY <1>1, <1>2, <1>3, <1>4, <1>5, NextCases

LEMMA SweptStep == TypeOK /\ SweptInv /\ [Next]_vars => SweptInv'
  <1> SUFFICES ASSUME TypeOK, SweptInv, [Next]_vars, NEW s \in Process,
                      sweep'[s] = "reclaim", s \in unchanged', HasManifest'
               PROVE  ~Unassailable(file)'
    BY DEF SweptInv
  <1> USE OwnerAssumption DEF TypeOK, SweptInv
  <1>1. ASSUME NEW c \in Context, ContextStep(c) PROVE ~Unassailable(file)'
    <2>1. CASE Read(c)
      BY <2>1 DEF Read, HasManifest, Unassailable
    <2>2. CASE WriteOwner(c) \/ FillFile(c) \/ Heartbeat(c)
      BY <2>2 DEF WriteOwner, FillFile, Heartbeat, Put, Unassailable, HasManifest
    <2>3. CASE CreateFile(c) \/ Repair(c) \/ Reclaim(c)
      BY <2>3 DEF CreateFile, Repair, Reclaim, Put, Unassailable, HasManifest
    <2>4. CASE StartClaim(c) \/ RecreateDir(c) \/ Commit(c) \/ AbandonClaim(c)
      BY <2>4 DEF StartClaim, RecreateDir, Commit, AbandonClaim, Unassailable, HasManifest
    <2>5. CASE Release(c) \/ CopyLease(c)
      BY <2>5 DEF Release, CopyLease, Unassailable, HasManifest
    <2> QED BY <1>1, <2>1, <2>2, <2>3, <2>4, <2>5 DEF ContextStep
  <1>2. ASSUME NEW p \in Process, ProcessStep(p) PROVE ~Unassailable(file)'
    <2>1. CASE Crash(p)
      BY <2>1 DEF Crash, Unassailable, HasManifest, Manifest, Owner
    <2>2. CASE SweepReclaim(p)
      BY <2>2 DEF SweepReclaim, Put, Unassailable, HasManifest
    <2>3. CASE BeginSweep(p)
      BY <2>3 DEF BeginSweep, owner_manifest_is_orphaned, ProcessAlive, Unassailable,
                  HasManifest
    <2>4. CASE RemoveDir(p) \/ Restart(p)
      BY <2>4 DEF RemoveDir, Restart, Unassailable, HasManifest
    <2> QED BY <1>2, <2>1, <2>2, <2>3, <2>4 DEF ProcessStep
  <1>3. CASE GoStale \/ GoOld
    BY <1>3 DEF GoStale, GoOld, HasManifest, Manifest, Unassailable, Owner
  <1>4. ASSUME NEW k \in Checkout, DeleteCheckout(k) PROVE ~Unassailable(file)'
    BY <1>4 DEF DeleteCheckout, HasManifest, Unassailable
  <1>5. CASE UNCHANGED vars
    BY <1>5 DEF vars, HasManifest, Unassailable
  <1> QED BY <1>1, <1>2, <1>3, <1>4, <1>5, NextCases

LEMMA InvInductive == IInv /\ [Next]_vars => IInv'
  BY TypeStep, LockStep, JudgedStep, SweptStep DEF IInv

-----------------------------------------------------------------------------
(* Every state is well typed, and there is no manifest without its           *)
(* directory: a sweep never removes the directory under a claim.             *)
THEOREM TypeCorrect == Spec => []TypeOK
  <1>1. IInv => TypeOK
    BY DEF IInv
  <1> QED BY <1>1, InitInv, InvInductive, PTL DEF Spec

(* The steps that remove the file, or leave it partial, do it to a manifest  *)
(* that its owner has lost.                                                  *)
LEMMA RemovalSpares ==
  ASSUME IInv, [Next]_vars, HasManifest, Unassailable(file)
  PROVE  file' \notin {NoFile, Partial}
  <1> USE OwnerAssumption DEF IInv, TypeOK, HasManifest
  <1>1. ASSUME NEW c \in Context, ContextStep(c) PROVE file' \notin {NoFile, Partial}
    <2>1. CASE WriteOwner(c) \/ FillFile(c) \/ Heartbeat(c)
      BY <2>1, NewManifest DEF WriteOwner, FillFile, Heartbeat, Put
    <2>2. CASE Reclaim(c)
      BY <2>2 DEF Reclaim, Removes, Put, JudgedInv
    <2>3. CASE CreateFile(c) \/ Repair(c)
      BY <2>3 DEF CreateFile, Repair, Put
    <2>4. CASE StartClaim(c) \/ Read(c) \/ RecreateDir(c) \/ Commit(c) \/ AbandonClaim(c)
      BY <2>4 DEF StartClaim, Read, RecreateDir, Commit, AbandonClaim
    <2>5. CASE Release(c) \/ CopyLease(c)
      BY <2>5 DEF Release, CopyLease
    <2> QED BY <1>1, <2>1, <2>2, <2>3, <2>4, <2>5 DEF ContextStep
  <1>2. ASSUME NEW p \in Process, ProcessStep(p) PROVE file' \notin {NoFile, Partial}
    <2>1. CASE Crash(p)
      <3>1. file' \in Manifest
        BY <2>1 DEF Crash, Manifest
      <3> QED BY <3>1
    <2>2. CASE SweepReclaim(p)
      BY <2>2 DEF SweepReclaim, Removes, Put, SweptInv
    <2>3. CASE BeginSweep(p) \/ RemoveDir(p) \/ Restart(p)
      BY <2>3 DEF BeginSweep, RemoveDir, Restart
    <2> QED BY <1>2, <2>1, <2>2, <2>3 DEF ProcessStep
  <1>3. CASE GoStale \/ GoOld
    <2>1. file' \in Manifest
      BY <1>3 DEF GoStale, GoOld, Manifest
    <2> QED BY <2>1
  <1>4. ASSUME NEW k \in Checkout, DeleteCheckout(k) PROVE file' \notin {NoFile, Partial}
    BY <1>4 DEF DeleteCheckout
  <1>5. CASE UNCHANGED vars
    BY <1>5 DEF vars
  <1> QED BY <1>1, <1>2, <1>3, <1>4, <1>5, NextCases

(* The manifest of a running owner is never removed: not by a claim that     *)
(* judged an older one dead, not by a sweep, not by the repair of a file     *)
(* seen half written (claim_or_open_read_only, reclaim_manifest_if_unchanged,*)
(* reap_owner_manifests_pass).                                               *)
THEOREM OwnersSpared == Spec => LivingNeverRemoved
  <1>1. IInv /\ [Next]_vars =>
          [HasManifest /\ Unassailable(file) => file' \notin {NoFile, Partial}]_vars
    BY RemovalSpares
  <1> QED BY <1>1, InitInv, InvInductive, PTL DEF Spec, LivingNeverRemoved
=============================================================================
