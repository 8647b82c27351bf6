---------------------------- MODULE SingleFlight ----------------------------
(***************************************************************************)
(* The generation-aware single-flight cache of                             *)
(* crates/aft/src/executor/single_flight.rs, for ONE key.  The map's keys  *)
(* share only the condition variable, and a wake-up meant for another key  *)
(* just makes a waiter look again, so one key loses nothing.               *)
(*                                                                         *)
(* A caller asks for a generation.  The cache holds nothing, a marker that *)
(* some generation is being built, or a ready value.  Callers run          *)
(* concurrently; `inner' is a mutex, so each critical section is one       *)
(* action, and the build function runs between two of them.                *)
(***************************************************************************)
EXTENDS Naturals, FiniteSets

CONSTANTS
  Callers,   \* threads that each make one call of get_or_build
  Gens       \* the generations they may ask for

ASSUME SingleFlightAssumption == Gens \subseteq Nat \ {0}

VARIABLES
  entry,     \* guard.get(&id): absent, building a generation, or ready
  call,      \* [Callers -> generation asked for], chosen when the call starts
  pc,        \* where each caller is
  superseded,\* the local flag of the install loop
  result     \* the generation of the value returned, 0 while there is none

vars == <<entry, call, pc, superseded, result>>

Absent      == [state |-> "absent", gen |-> 0]
Building(g) == [state |-> "building", gen |-> g]
Ready(g)    == [state |-> "ready", gen |-> g]

PCs == {"start", "ask", "wait", "build", "install", "waitinstall", "failed", "returned", "error"}

TypeOK ==
  /\ entry \in [state : {"absent", "building", "ready"}, gen : Gens \cup {0}]
  /\ entry.state # "absent" => entry.gen \in Gens
  /\ call \in [Callers -> Gens]
  /\ pc \in [Callers -> PCs]
  /\ superseded \in [Callers -> BOOLEAN]
  /\ result \in [Callers -> Gens \cup {0}]

Init ==
  /\ entry = Absent
  /\ call \in [Callers -> Gens]
  /\ pc = [c \in Callers |-> "start"]
  /\ superseded = [c \in Callers |-> FALSE]
  /\ result = [c \in Callers |-> 0]

-----------------------------------------------------------------------------
(* changed.notify_all(): every parked caller returns to the top of its loop, *)
(* and caller c itself moves to `next'.                                      *)
NotifyAll(c, next) ==
  pc' = [d \in Callers |-> IF d = c THEN next
                          ELSE IF pc[d] = "wait" THEN "ask"
                          ELSE IF pc[d] = "waitinstall" THEN "install"
                          ELSE pc[d]]

Move(c, next) == pc' = [pc EXCEPT ![c] = next]

(* Bug forms used to show what the properties catch. *)
AskAnyReady(c) ==
  /\ pc[c] = "ask"
  /\ \/ /\ entry.state = "ready"
        /\ Move(c, "returned")
        /\ result' = [result EXCEPT ![c] = entry.gen]
        /\ UNCHANGED entry
     \/ /\ entry.state = "building" /\ entry.gen >= call[c]
        /\ Move(c, "wait")
        /\ UNCHANGED <<entry, result>>
     \/ /\ entry.state = "absent" \/ (entry.state = "building" /\ entry.gen < call[c])
        /\ entry' = Building(call[c])
        /\ Move(c, "build")
        /\ UNCHANGED result
  /\ UNCHANGED <<call, superseded>>

(* One pass of the outer loop's critical section: return a ready value that *)
(* is new enough, wait for a build that is new enough, or start a build.    *)
Ask(c) ==
  /\ pc[c] = "ask"
  /\ \/ /\ entry.state = "ready" /\ entry.gen >= call[c]
        /\ Move(c, "returned")
        /\ result' = [result EXCEPT ![c] = entry.gen]
        /\ UNCHANGED entry
     \/ /\ entry.state = "building" /\ entry.gen >= call[c]
        /\ Move(c, "wait")
        /\ UNCHANGED <<entry, result>>
     \/ /\ entry.state = "absent" \/ entry.gen < call[c]
        /\ entry' = Building(call[c])
        /\ Move(c, "build")
        /\ UNCHANGED result
  /\ UNCHANGED <<call, superseded>>

Call(c) == pc[c] = "start" /\ Move(c, "ask") /\ UNCHANGED <<entry, call, superseded, result>>

(* build_fn() returns Ok. *)
BuildOk(c) == pc[c] = "build" /\ Move(c, "install") /\ UNCHANGED <<entry, call, superseded, result>>

(* build_fn() returns Err or panics; the cleanup guard has yet to run. *)
BuildFails(c) == pc[c] = "build" /\ Move(c, "failed") /\ UNCHANGED <<entry, call, superseded, result>>

(* The install loop's critical section has three arms.  The entry moved on   *)
(* to a newer generation that is still being built: remember that, and wait. *)
InstallWaits(c) ==
  /\ pc[c] = "install"
  /\ entry.state = "building" /\ entry.gen > call[c]
  /\ superseded' = [superseded EXCEPT ![c] = TRUE]
  /\ Move(c, "waitinstall")
  /\ UNCHANGED <<entry, call, result>>

(* Somebody installed a value at least as new: return theirs. *)
InstallTakesReady(c) ==
  /\ pc[c] = "install"
  /\ entry.state = "ready" /\ entry.gen >= call[c]
  /\ result' = [result EXCEPT ![c] = entry.gen]
  /\ NotifyAll(c, "returned")
  /\ UNCHANGED <<entry, call, superseded>>

(* Bug forms of the last arm. *)
InstallAlways(c) ==
  /\ pc[c] = "install"
  /\ entry' = Ready(call[c])
  /\ result' = [result EXCEPT ![c] = call[c]]
  /\ NotifyAll(c, "returned")
  /\ UNCHANGED <<call, superseded>>

InstallOffByOne(c) ==
  /\ pc[c] = "install"
  /\ entry' = Ready(call[c] + 1)
  /\ result' = [result EXCEPT ![c] = call[c]]
  /\ NotifyAll(c, "returned")
  /\ UNCHANGED <<call, superseded>>

(* Otherwise the build's own value is returned, and installed unless this    *)
(* call saw a newer generation start in the meantime.                        *)
InstallOwn(c) ==
  /\ pc[c] = "install"
  /\ ~(entry.state = "building" /\ entry.gen > call[c])
  /\ ~(entry.state = "ready" /\ entry.gen >= call[c])
  /\ entry' = IF superseded[c] THEN entry ELSE Ready(call[c])
  /\ result' = [result EXCEPT ![c] = call[c]]
  /\ NotifyAll(c, "returned")
  /\ UNCHANGED <<call, superseded>>

ClearNothing(c) ==
  /\ pc[c] = "failed"
  /\ NotifyAll(c, "error")
  /\ UNCHANGED <<entry, call, superseded, result>>

ClearWithoutNotify(c) ==
  /\ pc[c] = "failed"
  /\ entry' = IF entry = Building(call[c]) THEN Absent ELSE entry
  /\ Move(c, "error")
  /\ UNCHANGED <<call, superseded, result>>

(* BuildingCleanup::drop -> clear_building: remove the marker of this       *)
(* caller's generation, if it is the one in the entry, and wake everybody.  *)
ClearBuilding(c) ==
  /\ pc[c] = "failed"
  /\ entry' = IF entry = Building(call[c]) THEN Absent ELSE entry
  /\ NotifyAll(c, "error")
  /\ UNCHANGED <<call, superseded, result>>

AllDone == (\A c \in Callers : pc[c] \in {"returned", "error"}) /\ UNCHANGED vars

Step(c) ==
  \/ Ask(c) \/ BuildOk(c) \/ BuildFails(c) \/ ClearBuilding(c)
  \/ InstallWaits(c) \/ InstallTakesReady(c) \/ InstallOwn(c)

Next == (\E c \in Callers : Call(c) \/ Step(c)) \/ AllDone

(* A builder terminates and a thread that can take the mutex gets it. *)
Spec == Init /\ [][Next]_vars /\ \A c \in Callers : WF_vars(Step(c))

-----------------------------------------------------------------------------
(* A call never returns a value older than the generation it asked for,     *)
(* whichever builder or cache state it took the value from.                 *)
NeverStale == \A c \in Callers : pc[c] = "returned" => result[c] >= call[c]

(* A step never replaces a ready value by an older one: a build that was    *)
(* overtaken while it ran is not installed over the newer result.           *)
NoReadyDowngrade ==
  [][entry.state = "ready" /\ entry'.state = "ready" => entry'.gen >= entry.gen]_vars

(* A marker in the entry always has a live builder behind it, so nobody     *)
(* waits for a build that is not running.                                   *)
MarkerHasBuilder ==
  entry.state = "building" =>
    \E c \in Callers : call[c] = entry.gen /\ pc[c] \in {"build", "install", "failed"}

(* Every call that is made returns: no wake-up is lost. *)
EveryCallReturns == \A c \in Callers : pc[c] = "ask" ~> pc[c] \in {"returned", "error"}
=============================================================================
