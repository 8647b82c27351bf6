--------------------------- MODULE MCArtifactOwner ---------------------------
(* A checkout in one process and an unrelated clone of the same project in   *)
(* another, on the same host or on another one.                              *)
EXTENDS ArtifactOwner

CONSTANTS p, q, main, clone

MCProcessOf == [c \in Context |-> IF c = main THEN p ELSE q]
MCPlacement == [Process -> Host] \ {[x \in Process |-> IF x = p THEN "there" ELSE h] : h \in Host}
MCCheckoutOf == [c \in Context |-> c]
MCGitOf == [k \in Checkout |-> IF k = main THEN "git" ELSE NoGit]
==============================================================================
