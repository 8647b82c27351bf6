----------------------------- MODULE MCExecutor -----------------------------
(* Instances of Executor.  A job is named by a string; its record says what  *)
(* kind of request it is.                                                    *)
EXTENDS Executor

Request(r, c, l, k, tok, key) ==
  [root |-> r, class |-> c, lane |-> l, kind |-> k, token |-> tok, key |-> key]

Rebind(r) == Request(r, "Interactive", "Mutating", "rebind", TRUE, NoKey)
Bind(r)   == Request(r, "Interactive", "Mutating", "bind", TRUE, NoKey)
Edit(r)   == Request(r, "Interactive", "Mutating", "plain", FALSE, NoKey)
Cancellable(r) == Request(r, "Interactive", "Mutating", "plain", TRUE, NoKey)
Read(r)   == Request(r, "Interactive", "PureRead", "plain", FALSE, NoKey)
Commit(r, key) == Request(r, "Maintenance", "MaintenanceCommit", "plain", FALSE, key)

Heavy(r)    == Request(r, "Interactive", "HeavyInit", "plain", FALSE, NoKey)
Acquire(r)  == Request(r, "Maintenance", "HeavyInit", "acquire", FALSE, NoKey)
Provider(r) == Request(r, "Interactive", "ProviderMetadata", "plain", FALSE, NoKey)
Ledger(r)   == Request(r, "Interactive", "CallLedger", "plain", FALSE, NoKey)
Lsp(r)      == Request(r, "Interactive", "SerialLspStatus", "plain", FALSE, NoKey)

OneRoot == {"r"}
TwoRoots == {"r", "s"}
TwoOrder == <<"r", "s">>
OneOrder == <<"r">>

(* One root: a repeatable bind, a plain edit, a read, a drain and a detached *)
(* publication; the bind may be cancelled and either writer may panic.       *)
GateInfo == [bind |-> Rebind("r"), edit |-> Edit("r"), read |-> Read("r"),
             drain |-> Commit("r", "WatcherDrain")]
GateJobs == DOMAIN GateInfo
GateCancel == {"bind"}
GatePanic == {"bind", "edit"}

(* Two roots that compete for three workers, one general, one for binds and  *)
(* one for provider jobs, and for one heavy permit: fewer than the code's    *)
(* least pool, so that five jobs are more than it can run.                   *)
PoolInfo == [bindR |-> Rebind("r"), bindS |-> Bind("s"), provR |-> Provider("r"),
             heavyS |-> Heavy("s"), acqR |-> Acquire("r")]
PoolJobs == DOMAIN PoolInfo

(* A root that is unbound, bound again, deleted, retired and registered      *)
(* again, with the work that must not outlive its routes and whose tokens    *)
(* the root's own end signals.                                               *)
Inspect(r)  == Request(r, "Interactive", "SerialLspStatus", "inspect", FALSE, NoKey)
LifeInfo == [prov |-> Provider("r"), inspect |-> Inspect("r"), drain |-> Commit("r", "LspDrain")]
LifeJobs == DOMAIN LifeInfo

(* Readers that keep coming, and a bind that must get in between them and a  *)
(* publication.                                                              *)
LiveInfo == [bind |-> Rebind("r"), read1 |-> Read("r"), read2 |-> Read("r")]
LiveJobs == DOMAIN LiveInfo
LiveReads == {"read1", "read2"}
LiveAge == {"bind"}
=============================================================================
