--------------------------- MODULE SentinelConfig ---------------------------
(***************************************************************************)
(* What the sentinel of a repo and its merge engine both read of the       *)
(* repo's RepoSentinelConfig.                                              *)
(***************************************************************************)
EXTENDS Integers

CONSTANT MaxAttempts  \* conflictPolicy.maxAttempts

ASSUME ConfigAssumption == MaxAttempts \in Nat \ {0}
=============================================================================
