---------------------------- MODULE ArtifactOwner ----------------------------
(***************************************************************************)
(* Who may write the artifacts that several checkouts share,               *)
(* crates/aft/src/artifact_owner.rs: one manifest file per project key,    *)
(* claimed, refreshed and reclaimed by the contexts of several processes.  *)
(*                                                                         *)
(* Every change of the file is made under the mutation lock, an advisory   *)
(* lock that dies with its process, and is one step; only the creation of  *)
(* the file is two, because readers do not lock and a crash may come       *)
(* between them.  An unlocked read, with the look at the owner's process   *)
(* that judges it, is a step, and the change that follows is another.      *)
(*                                                                         *)
(* Manifests carry the time they were written, so two are equal exactly if *)
(* nothing was written or removed since one was read: `unchanged' are the  *)
(* readers that would find what they read.                                 *)
(***************************************************************************)
EXTENDS Naturals, FiniteSets

CONSTANTS
  Context,      \* checkouts as configured in a process
  Process,
  Host,
  Checkout,
  ProcessOf,    \* [Context -> Process]
  Placement,    \* the possible assignments of processes to hosts
  CheckoutOf,   \* [Context -> Checkout]
  GitOf,        \* [Checkout -> git common dir or NoGit]
  NoGit,
  NoContext,
  NoFile,
  Partial,      \* an empty or partial file
  MaxFaults     \* bound on crashes and lapses of heartbeats

(* `past': the process that wrote it has ended.                              *)
Manifest == [ctx : Context, past : BOOLEAN, age : {"fresh", "stale", "old"}]

ASSUME OwnerAssumption ==
  /\ Context \cap Process = {}
  /\ ProcessOf \in [Context -> Process]
  /\ Placement \subseteq [Process -> Host]
  /\ CheckoutOf \in [Context -> Checkout]
  /\ NoContext \notin Context
  /\ NoFile # Partial
  /\ {NoFile, Partial} \cap Manifest = {}
  /\ MaxFaults \in Nat

VARIABLES
  hostOf,     \* [Process -> Host], fixed from the start
  running,    \* processes that are up
  dir,        \* the key's directory exists
  file,       \* owner.json
  holder,     \* who holds the mutation lock between two steps
  unchanged,  \* contexts and sweeping processes that read what the file holds
  pc,         \* where a context's claim is
  lease,      \* contexts whose lease is registered for heartbeats
  beat,       \* leases the heartbeat thread has copied and not yet written
  sweep,      \* where a process's sweep of orphaned manifests is
  gone,       \* deleted checkouts
  faults

vars == <<hostOf, running, dir, file, holder, unchanged, pc, lease, beat, sweep,
          gone, faults>>

TypeOK ==
  /\ hostOf \in [Process -> Host]
  /\ running \subseteq Process
  /\ dir \in BOOLEAN
  /\ file \in Manifest \cup {NoFile, Partial}
  /\ file # NoFile => dir
  /\ holder \in Context \cup {NoContext}
  /\ unchanged \subseteq Context \cup Process
  /\ pc \in [Context -> {"idle", "top", "write", "create", "creating", "repair",
                         "reclaim", "claimed", "borrowed"}]
  /\ lease \subseteq Context
  /\ beat \subseteq Context
  /\ sweep \in [Process -> {"idle", "reclaim", "rmdir"}]
  /\ gone \subseteq Checkout
  /\ faults \in 0..MaxFaults

Init ==
  /\ hostOf \in Placement
  /\ running = Process
  /\ dir = FALSE
  /\ file = NoFile
  /\ holder = NoContext
  /\ unchanged = {}
  /\ pc = [c \in Context |-> "idle"]
  /\ lease = {}
  /\ beat = {}
  /\ sweep = [p \in Process |-> "idle"]
  /\ gone = {}
  /\ faults = 0

------------------------------------------------------------------------------
Goto(c, p) == pc' = [pc EXCEPT ![c] = p]

HasManifest == file \notin {NoFile, Partial}

Owner(m) == ProcessOf[m.ctx]

(* The file is written or removed: nobody holds what it has now.             *)
Put(f) ==
  /\ file' = f
  /\ unchanged' = {}

new_manifest(c) == [ctx |-> c, past |-> FALSE, age |-> "fresh"]

SameFamily(c, d) ==
  \/ CheckoutOf[c] = CheckoutOf[d]
  \/ /\ GitOf[CheckoutOf[c]] # NoGit
     /\ GitOf[CheckoutOf[c]] = GitOf[CheckoutOf[d]]

(* protected_for_retention for a process of the owner's host.  The pid of an *)
(* ended process may belong to a process that cannot be told from it.        *)
ProcessAlive(m, recycled) == ~m.past \/ recycled

manifest_owner_alive(p, m, recycled) ==
  IF hostOf[p] = hostOf[Owner(m)] THEN ProcessAlive(m, recycled) ELSE m.age = "fresh"

Fault ==
  /\ faults < MaxFaults
  /\ faults' = faults + 1

------------------------------------------------------------------------------
(* claim_or_open_read_only                                                   *)

StartClaim(c) ==
  /\ ProcessOf[c] \in running
  /\ CheckoutOf[c] \notin gone
  /\ pc[c] = "idle"
  /\ dir' = TRUE
  /\ Goto(c, "top")
  /\ UNCHANGED <<hostOf, running, file, holder, unchanged, lease, beat, sweep, gone, faults>>

(* One turn of the loop reads the file and decides what to do about it.      *)
Read(c) ==
  /\ pc[c] = "top"
  /\ unchanged' = unchanged \cup {c}
  /\ \E recycled \in BOOLEAN :
       Goto(c, CASE file = NoFile -> "create"
                 [] file = Partial -> "repair"
                 [] OTHER -> IF SameFamily(c, file.ctx) THEN "write"
                             ELSE IF manifest_owner_alive(ProcessOf[c], file, recycled)
                             THEN "borrowed"
                             ELSE "reclaim")
  /\ UNCHANGED <<hostOf, running, dir, file, holder, lease, beat, sweep, gone, faults>>

(* Mutant: the loop retries without the directory.                           *)
RetryWithoutDir(c) ==
  /\ pc[c] \in {"write", "create"}
  /\ holder = NoContext
  /\ ~dir
  /\ Goto(c, "top")
  /\ UNCHANGED <<hostOf, running, dir, file, holder, unchanged, lease, beat, sweep, gone, faults>>

(* A sweep that removed the directory sends the claim round the loop.        *)
RecreateDir(c) ==
  /\ pc[c] \in {"write", "create"}
  /\ holder = NoContext
  /\ ~dir
  /\ dir' = TRUE
  /\ Goto(c, "top")
  /\ UNCHANGED <<hostOf, running, file, holder, unchanged, lease, beat, sweep, gone, faults>>

(* write_owner_manifest replaces whatever the file holds by now.             *)
WriteOwner(c) ==
  /\ pc[c] = "write"
  /\ holder = NoContext
  /\ dir
  /\ Put(new_manifest(c))
  /\ Goto(c, "claimed")
  /\ UNCHANGED <<hostOf, running, dir, holder, lease, beat, sweep, gone, faults>>

(* create_owner_manifest: create_new, then the bytes, under the lock.        *)
CreateFile(c) ==
  /\ pc[c] = "create"
  /\ holder = NoContext
  /\ dir
  /\ IF file = NoFile
     THEN /\ Put(Partial)
          /\ holder' = c
          /\ Goto(c, "creating")
     ELSE /\ Goto(c, "top")
          /\ UNCHANGED <<file, unchanged, holder>>
  /\ UNCHANGED <<hostOf, running, dir, lease, beat, sweep, gone, faults>>

FillFile(c) ==
  /\ pc[c] = "creating"
  /\ Put(new_manifest(c))
  /\ holder' = NoContext
  /\ Goto(c, "claimed")
  /\ UNCHANGED <<hostOf, running, dir, lease, beat, sweep, gone, faults>>

(* Mutant: the file found malformed is removed without a second look.        *)
RepairBlindly(c) ==
  /\ pc[c] = "repair"
  /\ holder = NoContext
  /\ Put(NoFile)
  /\ Goto(c, "top")
  /\ UNCHANGED <<hostOf, running, dir, holder, lease, beat, sweep, gone, faults>>

(* A malformed file is removed if it still is under the lock.                *)
Repair(c) ==
  /\ pc[c] = "repair"
  /\ holder = NoContext
  /\ IF file = Partial THEN Put(NoFile) ELSE UNCHANGED <<file, unchanged>>
  /\ Goto(c, "top")
  /\ UNCHANGED <<hostOf, running, dir, holder, lease, beat, sweep, gone, faults>>

(* Mutant: the manifest judged dead is removed whatever became of it.        *)
RemovesBlindly(reader) == HasManifest

(* reclaim_manifest_if_unchanged reads the file again under the lock.        *)
Removes(reader) == HasManifest /\ reader \in unchanged

Reclaim(c) ==
  /\ pc[c] = "reclaim"
  /\ holder = NoContext
  /\ IF Removes(c) THEN Put(NoFile) ELSE UNCHANGED <<file, unchanged>>
  /\ Goto(c, "top")
  /\ UNCHANGED <<hostOf, running, dir, holder, lease, beat, sweep, gone, faults>>

(* The configure commits (set_artifact_owner) or is cancelled before it is   *)
(* sealed, which leaves the manifest behind and the former status in place.  *)
Commit(c) ==
  /\ pc[c] \in {"claimed", "borrowed"}
  /\ Goto(c, "idle")
  /\ lease' = IF pc[c] = "claimed" THEN lease \cup {c} ELSE lease \ {c}
  /\ UNCHANGED <<hostOf, running, dir, file, holder, unchanged, beat, sweep, gone, faults>>

AbandonClaim(c) ==
  /\ pc[c] \in {"claimed", "borrowed"}
  /\ Goto(c, "idle")
  /\ UNCHANGED <<hostOf, running, dir, file, holder, unchanged, lease, beat, sweep, gone, faults>>

(* The context is dropped; a heartbeat that was copied may still be written. *)
Release(c) ==
  /\ pc[c] = "idle"
  /\ c \in lease
  /\ lease' = lease \ {c}
  /\ UNCHANGED <<hostOf, running, dir, file, holder, unchanged, pc, beat, sweep, gone, faults>>

------------------------------------------------------------------------------
(* The heartbeat thread copies the registered leases, then writes each one.  *)

CopyLease(c) ==
  /\ c \in lease \ beat
  /\ beat' = beat \cup {c}
  /\ UNCHANGED <<hostOf, running, dir, file, holder, unchanged, pc, lease, sweep, gone, faults>>

(* Mutant: a beat is only written over the lease's own manifest.             *)
HeartbeatOwnOnly(c) ==
  /\ c \in beat
  /\ holder = NoContext
  /\ beat' = beat \ {c}
  /\ IF HasManifest /\ file.ctx = c
     THEN Put(new_manifest(c)) ELSE UNCHANGED <<file, unchanged>>
  /\ UNCHANGED <<hostOf, running, dir, holder, pc, lease, sweep, gone, faults>>

(* heartbeat_manifest refreshes the lease's own manifest in place and        *)
(* replaces anything else; without the directory it fails.                   *)
Heartbeat(c) ==
  /\ c \in beat
  /\ holder = NoContext
  /\ beat' = beat \ {c}
  /\ IF dir THEN Put(new_manifest(c)) ELSE UNCHANGED <<file, unchanged>>
  /\ UNCHANGED <<hostOf, running, dir, holder, pc, lease, sweep, gone, faults>>

------------------------------------------------------------------------------
(* reap_owner_manifests_pass, for this key's directory                       *)

owner_manifest_is_orphaned(p) ==
  /\ HasManifest
  /\ CheckoutOf[file.ctx] \in gone
  /\ file.age = "old"
  /\ hostOf[p] = hostOf[Owner(file)] /\ ~ProcessAlive(file, FALSE)

BeginSweep(p) ==
  /\ p \in running
  /\ sweep[p] = "idle"
  /\ owner_manifest_is_orphaned(p)
  /\ unchanged' = unchanged \cup {p}
  /\ sweep' = [sweep EXCEPT ![p] = "reclaim"]
  /\ UNCHANGED <<hostOf, running, dir, file, holder, pc, lease, beat, gone, faults>>

SweepReclaim(p) ==
  /\ sweep[p] = "reclaim"
  /\ holder = NoContext
  /\ IF Removes(p)
     THEN /\ Put(NoFile)
          /\ sweep' = [sweep EXCEPT ![p] = "rmdir"]
     ELSE /\ sweep' = [sweep EXCEPT ![p] = "idle"]
          /\ UNCHANGED <<file, unchanged>>
  /\ UNCHANGED <<hostOf, running, dir, holder, pc, lease, beat, gone, faults>>

(* Mutant: the directory is removed with what is in it.                      *)
RemoveDirAll(p) ==
  /\ sweep[p] = "rmdir"
  /\ dir' = FALSE
  /\ sweep' = [sweep EXCEPT ![p] = "idle"]
  /\ UNCHANGED <<hostOf, running, file, holder, unchanged, pc, lease, beat, gone, faults>>

(* Without the lock; it fails if the directory is not empty.                 *)
RemoveDir(p) ==
  /\ sweep[p] = "rmdir"
  /\ dir' = (dir /\ file # NoFile)
  /\ sweep' = [sweep EXCEPT ![p] = "idle"]
  /\ UNCHANGED <<hostOf, running, file, holder, unchanged, pc, lease, beat, gone, faults>>

------------------------------------------------------------------------------
(* The environment                                                           *)

Crash(p) ==
  /\ p \in running
  /\ Fault
  /\ running' = running \ {p}
  /\ LET mine == {c \in Context : ProcessOf[c] = p}
     IN  /\ pc' = [c \in Context |-> IF c \in mine THEN "idle" ELSE pc[c]]
         /\ lease' = lease \ mine
         /\ beat' = beat \ mine
         /\ holder' = IF holder \in mine THEN NoContext ELSE holder
         /\ unchanged' = unchanged \ (mine \cup {p})
  /\ file' = IF HasManifest /\ Owner(file) = p
             THEN [file EXCEPT !.past = TRUE] ELSE file
  /\ sweep' = [sweep EXCEPT ![p] = "idle"]
  /\ UNCHANGED <<hostOf, dir, gone>>

Restart(p) ==
  /\ p \notin running
  /\ running' = running \cup {p}
  /\ UNCHANGED <<hostOf, dir, file, holder, unchanged, pc, lease, beat, sweep, gone, faults>>

(* The manifest goes without a heartbeat for the 75 s after which another    *)
(* host takes it for dead, although its owner may only be slow.              *)
GoStale ==
  /\ HasManifest
  /\ file.age = "fresh"
  /\ Fault
  /\ file' = [file EXCEPT !.age = "stale"]
  /\ UNCHANGED <<hostOf, running, dir, holder, unchanged, pc, lease, beat, sweep, gone>>

(* A day without a heartbeat: no registered lease beat every 25 s.           *)
GoOld ==
  /\ HasManifest
  /\ file.age = "stale"
  /\ lease \cup beat = {}
  /\ file' = [file EXCEPT !.age = "old"]
  /\ UNCHANGED <<hostOf, running, dir, holder, unchanged, pc, lease, beat, sweep, gone, faults>>

DeleteCheckout(k) ==
  /\ k \notin gone
  /\ gone' = gone \cup {k}
  /\ UNCHANGED <<hostOf, running, dir, file, holder, unchanged, pc, lease, beat, sweep, faults>>

------------------------------------------------------------------------------
ClaimStep(c) ==
  \/ Read(c) \/ RecreateDir(c) \/ WriteOwner(c) \/ CreateFile(c) \/ FillFile(c)
  \/ Repair(c) \/ Reclaim(c)

Next ==
  \/ \E c \in Context :
       \/ StartClaim(c) \/ ClaimStep(c) \/ Commit(c) \/ AbandonClaim(c)
       \/ Release(c) \/ CopyLease(c) \/ Heartbeat(c)
  \/ \E p \in Process :
       \/ BeginSweep(p) \/ SweepReclaim(p) \/ RemoveDir(p) \/ Crash(p) \/ Restart(p)
  \/ GoStale \/ GoOld
  \/ \E k \in Checkout : DeleteCheckout(k)

Spec == Init /\ [][Next]_vars

(* A thread that claims goes on, and the heartbeat thread runs.              *)
LiveSpec ==
  /\ Spec
  /\ \A c \in Context : WF_vars(ClaimStep(c)) /\ WF_vars(CopyLease(c)) /\ WF_vars(Heartbeat(c))
  /\ \A p \in Process : WF_vars(SweepReclaim(p) \/ RemoveDir(p))

------------------------------------------------------------------------------
(* The manifest of a running owner is never removed, neither by claims nor   *)
(* by sweeps nor by the repair of a file seen half written, unless a process *)
(* of another host saw its heartbeats lapse; a reclaim that was decided on   *)
(* an older manifest spares the one that took its place.                     *)
Unassailable(m) ==
  /\ ~m.past
  /\ m.age = "fresh" \/ \A p \in Process : hostOf[p] = hostOf[Owner(m)]

LivingNeverRemoved ==
  [][HasManifest /\ Unassailable(file) => file' \notin {NoFile, Partial}]_vars

(* A claim returns: no mixture of crashes, half-written files, sweeps that   *)
(* remove the directory and rival claims sends its loop round forever.       *)
EveryClaimReturns ==
  \A c \in Context :
    pc[c] = "top" ~> pc[c] \in {"claimed", "borrowed"} \/ ProcessOf[c] \notin running

(* Whatever claims, crashes and sweeps of others did to the file, it names a *)
(* running process again while some context keeps a registered lease.        *)
RecordRestored ==
  \A c \in Context : c \in lease ~> c \notin lease \/ (HasManifest /\ ~file.past)
==============================================================================
