--------------------------- MODULE MCClassQueues ---------------------------
(* One root's two queues: two binds and an edit in one lane between reads,   *)
(* provider and ledger jobs; and two drains of one key, a pass of another    *)
(* and a build.                                                              *)
EXTENDS ClassQueues

Interactive(l, b) == [class |-> "Interactive", lane |-> l, key |-> "none", bind |-> b]
Maintenance(l, k) == [class |-> "Maintenance", lane |-> l, key |-> k, bind |-> FALSE]

MCInfo ==
  [bind1 |-> Interactive("Mutating", TRUE),  bind2 |-> Interactive("Mutating", TRUE),
   edit  |-> Interactive("Mutating", FALSE), read  |-> Interactive("PureRead", FALSE),
   prov  |-> Interactive("ProviderMetadata", FALSE),
   call  |-> Interactive("CallLedger", FALSE),
   drain1 |-> Maintenance("MaintenanceCommit", "LspDrain"),
   drain2 |-> Maintenance("MaintenanceCommit", "LspDrain"),
   pass   |-> Maintenance("MaintenanceCommit", "StandingPass"),
   build  |-> Maintenance("HeavyInit", "none")]
MCJobs == DOMAIN MCInfo
=============================================================================
