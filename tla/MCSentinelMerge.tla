-------------------------- MODULE MCSentinelMerge --------------------------
(***************************************************************************)
(* Instances of SentinelMerge for TLC.                                     *)
(***************************************************************************)
EXTENDS SentinelMerge

(* DEFAULT_REPO_SENTINEL_CONFIG with automatic merging on.                  *)
Default == [autoMerge |-> TRUE, requireChecks |-> TRUE, requireAutoReview |-> TRUE,
            rebase |-> TRUE, remediation |-> TRUE]

(* Configs with and without a rebase and a remediation, and with each part   *)
(* of the gate turned off.                                                   *)
NoRebase == [Default EXCEPT !.rebase = FALSE]
EachPolicy == {Default, NoRebase,
               [Default EXCEPT !.remediation = FALSE],
               [NoRebase EXCEPT !.remediation = FALSE],
               [NoRebase EXCEPT !.requireChecks = FALSE],
               [NoRebase EXCEPT !.requireAutoReview = FALSE],
               [Default EXCEPT !.autoMerge = FALSE]}

OnlyDefault  == {Default}
OnlyNoRebase == {NoRebase}
=============================================================================
