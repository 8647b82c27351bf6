------------------------- MODULE MCExecutorRemoval -------------------------
(* A standing root that is removed, with whatever is queued and running on   *)
(* it, and registered again: two of its passes, which are interchangeable, a *)
(* session's edit that may be given up and grows old, and a request to the   *)
(* language server that hangs.                                               *)
EXTENDS MCExecutor, TLC

CONSTANTS pass1, pass2, edit, lsp

RemovalInfo == pass1 :> Commit("r", "StandingPass") @@ pass2 :> Commit("r", "StandingPass")
            @@ edit :> Cancellable("r") @@ lsp :> Lsp("r")
RemovalJobs == DOMAIN RemovalInfo

Passing == Permutations({pass1, pass2})
=============================================================================
