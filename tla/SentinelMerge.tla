--------------------------- MODULE SentinelMerge ---------------------------
(***************************************************************************)
(* How the sentinel merges the review of its current task (sentinel.ts):   *)
(* SentinelRemediationEngine.runWithPolicy, which tries a merge up to      *)
(* maxAttempts times, and SentinelMergeEngine.attemptMerge, which asks the *)
(* host for the state of the review, evaluates the review gate on it and   *)
(* then has the host merge.  A call (one `engine` from Begin to Answer)    *)
(* ends with one of the outcomes that RunWithPolicy of Sentinel chooses    *)
(* from.                                                                   *)
(*                                                                         *)
(* Each request to the host is a step.  Between two of them people push,   *)
(* close and merge, checks report, and the automatic review of the run     *)
(* posts its findings, while the engine has the run as it was when the     *)
(* call began.                                                             *)
(***************************************************************************)
EXTENDS SentinelConfig

CONSTANTS
  Providers,    \* the scmProviders of repos: "github", "gitlab"
  MaxHeads,     \* bound: commits ever at the head of the review
  Policies      \* the repo's sentinel configs: one is in force at each call

Heads   == 1..MaxHeads
RunHead == 1    \* headSha of the run: what its executor pushed
NoHead  == 0

Policy == [autoMerge: BOOLEAN, requireChecks: BOOLEAN, requireAutoReview: BOOLEAN,
           rebase: BOOLEAN, remediation: BOOLEAN]

ASSUME MergeAssumption ==
  /\ Providers \subseteq {"github", "gitlab"}
  /\ MaxHeads \in Nat \ {0}
  /\ Policies \subseteq Policy

VARIABLES
  review,    \* the review and its host: state, head commit, mergeability, who merged it
  checks,    \* per head, what its checks come to
  findings,  \* the automatic review of the run, as the board has it
  engine,    \* the call under way, or the last one
  attempts   \* attempt_count of the sentinel's row

mergeVars == <<review, checks, findings, engine, attempts>>

Mergeability == {"yes", "no", "unknown"}
Findings     == {"pending", "clean", "open"}
Outcome      == {"none", "merged", "blocked", "exhausted", "failed"}

Review == [scmProvider: Providers, state: {"open", "closed", "merged", "missing"}, head: Heads,
           mergeable: Mergeability, by: {"nobody", "sentinel", "person"}]
Seen   == [head: 0..MaxHeads, mergeable: Mergeability, open: BOOLEAN]

(* Of `passed` only properties speak: the heads that passed the gate in the  *)
(* call.                                                                     *)
Engine == [at: {"idle", "look", "gate", "checks", "merge", "remedy"}, policy: Policy,
           findings: Findings, attempt: 0..MaxAttempts, rebase: BOOLEAN, seen: Seen,
           passed: SUBSET Heads, outcome: Outcome]

NoSeen == [head |-> NoHead, mergeable |-> "unknown", open |-> FALSE]
NoPolicy == [autoMerge |-> FALSE, requireChecks |-> FALSE, requireAutoReview |-> FALSE,
             rebase |-> FALSE, remediation |-> FALSE]

MergeInit ==
    /\ review \in {[scmProvider |-> provider, state |-> "open", head |-> RunHead,
                    mergeable |-> "unknown", by |-> "nobody"] : provider \in Providers}
    /\ checks = [h \in Heads |-> "none"]
    /\ findings = "pending"
    /\ engine = [at |-> "idle", policy |-> NoPolicy, findings |-> "pending", attempt |-> 0,
                 rebase |-> FALSE, seen |-> NoSeen, passed |-> {}, outcome |-> "none"]
    /\ attempts = 0

EngineAt(place) == engine.at = place

-----------------------------------------------------------------------------
(* runWithPolicy *)

(* The call ends; used-up attempts are counted on the row.                  *)
Answer(outcome) ==
    /\ engine' = [engine EXCEPT !.at = "idle", !.rebase = FALSE, !.seen = NoSeen,
                                !.passed = {}, !.outcome = outcome]
    /\ attempts' = IF outcome = "exhausted" THEN engine.attempt ELSE attempts

(* Mutant: attempts are not counted. *)
SameAttempt(attempt) == attempt
NextAttempt(attempt) == attempt + 1

(* A call begins, with the run as it is and the config as it is.            *)
Begin ==
    /\ EngineAt("idle")
    /\ \E policy \in Policies :
          IF attempts >= MaxAttempts
          THEN engine' = [engine EXCEPT !.policy = policy, !.findings = findings,
                                        !.attempt = attempts, !.outcome = "exhausted"]
          ELSE engine' = [engine EXCEPT !.policy = policy, !.findings = findings,
                                        !.attempt = NextAttempt(attempts),
                                        !.at = "look", !.outcome = "none"]
    /\ UNCHANGED <<review, checks, findings, attempts>>

(* attemptMerge is asked again: with the rebase method, ...                 *)
TryRebase == engine' = [engine EXCEPT !.at = "look", !.rebase = TRUE, !.seen = NoSeen]
(* ... after a look at the review, or at once, as the next attempt.         *)
TryRemedy == engine' = [engine EXCEPT !.at = "remedy", !.rebase = FALSE, !.seen = NoSeen]
TryAgain  == engine' = [engine EXCEPT !.at = "look", !.rebase = FALSE, !.seen = NoSeen,
                                      !.attempt = NextAttempt(@)]

(* Mutant: the last attempt is not made. *)
LastAttemptEarly(attempt) == attempt + 1 >= MaxAttempts
LastAttempt(attempt) == attempt >= MaxAttempts

(* The attempt has not merged.                                              *)
NotMerged ==
    LET remedies == engine.policy.remediation /\ TryRemedy
        again    == ~engine.policy.remediation /\ TryAgain
    IN IF engine.rebase THEN (remedies \/ again) /\ UNCHANGED attempts
       ELSE IF LastAttempt(engine.attempt) THEN Answer("exhausted")
       ELSE /\ UNCHANGED attempts
            /\ IF engine.policy.rebase THEN TryRebase ELSE (remedies \/ again)

(* It has not because of the gate, which ends the call, except of a rebase. *)
GateFails == IF engine.rebase THEN NotMerged ELSE Answer("blocked")

(* runRemediationPlan asks for the review and does nothing about it.        *)
RunRemediationPlan ==
    /\ EngineAt("remedy")
    /\ (TryAgain /\ UNCHANGED attempts) \/ Answer("failed")
    /\ UNCHANGED <<review, checks, findings>>

-----------------------------------------------------------------------------
(* attemptMerge: the rebase attempt asks nothing of checks and findings.    *)
AutoMerge      == engine.rebase \/ engine.policy.autoMerge
RequiresChecks == ~engine.rebase /\ engine.policy.requireChecks
RequiresReview == ~engine.rebase /\ engine.policy.requireAutoReview

(* Mutant: a review that is no longer open is none to merge. *)
NeverMerged == FALSE
IsMerged == review.state = "merged"

(* The first request: what has become of the review? Any request may fail.  *)
LookAtReview ==
    /\ EngineAt("look")
    /\ \/ Answer("failed")
       \/ IsMerged /\ Answer("merged")
       \/ ~IsMerged /\ review.state # "open" /\ NotMerged
       \/ review.state = "open" /\ ~AutoMerge /\ GateFails
       \/ /\ review.state = "open" /\ AutoMerge
          /\ engine' = [engine EXCEPT !.at = "gate"]
          /\ UNCHANGED attempts
    /\ UNCHANGED <<review, checks, findings>>

(* The gate is passed by what has been seen of the review.                  *)
Passes(seen) ==
    /\ seen.mergeable = "yes" /\ seen.open
    /\ RequiresReview => engine.findings # "open"

(* It merges next; what a rebase asks for is not the repo's gate.           *)
GatePasses(seen) ==
    /\ engine' = [engine EXCEPT !.at = "merge", !.seen = seen,
                                !.passed = IF engine.rebase THEN @ ELSE @ \cup {seen.head}]
    /\ UNCHANGED attempts

(* evaluateReviewGate: the second request, ...                              *)
EvaluateReviewGate ==
    /\ EngineAt("gate")
    /\ LET seen == [head |-> review.head, mergeable |-> review.mergeable,
                    open |-> review.state = "open"]
       IN \/ Answer("failed")
          \/ review.state = "missing" /\ GateFails
          \/ /\ review.state # "missing" /\ RequiresChecks
             /\ engine' = [engine EXCEPT !.at = "checks", !.seen = seen]
             /\ UNCHANGED attempts
          \/ review.state # "missing" /\ ~RequiresChecks
             /\ IF Passes(seen) THEN GatePasses(seen) ELSE GateFails
    /\ UNCHANGED <<review, checks, findings>>

(* ... and the third, for the checks of the head seen.                      *)
ListCommitChecks ==
    /\ EngineAt("checks")
    /\ \/ Answer("failed")
       \/ /\ checks[engine.seen.head] = "green" /\ Passes(engine.seen)
          /\ GatePasses(engine.seen)
       \/ ~(checks[engine.seen.head] = "green" /\ Passes(engine.seen)) /\ GateFails
    /\ UNCHANGED <<review, checks, findings>>

(* Mutant: GitHub is not told which commit to merge. *)
AnyHead == TRUE
(* GitHub is told the head the run pushed and merges no other.              *)
HeadAccepted == review.scmProvider = "github" => review.head = RunHead

(* mergeReview: the host merges, and its answer may be lost; or it refuses. *)
MergeReview ==
    /\ EngineAt("merge")
    /\ \/ /\ review.state = "open" /\ review.mergeable # "no" /\ HeadAccepted
          /\ review' = [review EXCEPT !.state = "merged", !.by = "sentinel"]
          /\ Answer("merged") \/ Answer("failed")
       \/ NotMerged /\ UNCHANGED review
       \/ Answer("failed") /\ UNCHANGED review
    /\ UNCHANGED <<checks, findings>>

Call == LookAtReview \/ EvaluateReviewGate \/ ListCommitChecks \/ MergeReview
        \/ RunRemediationPlan

-----------------------------------------------------------------------------
(* What happens to the review meanwhile. *)

IsOpen == review.state = "open"

(* A commit is pushed; the host has yet to find out whether it merges.      *)
Push ==
    /\ IsOpen /\ review.head < MaxHeads
    /\ review' = [review EXCEPT !.head = @ + 1, !.mergeable = "unknown"]
    /\ UNCHANGED <<checks, findings, engine, attempts>>

ReportChecks(h) ==
    /\ h <= review.head
    /\ \E result \in {"pending", "green", "red"} : checks' = [checks EXCEPT ![h] = result]
    /\ UNCHANGED <<review, findings, engine, attempts>>

(* The host finds out, or the target branch moves and it has to again.      *)
JudgeMergeability ==
    /\ IsOpen
    /\ \E mergeable \in Mergeability : review' = [review EXCEPT !.mergeable = mergeable]
    /\ UNCHANGED <<checks, findings, engine, attempts>>

(* executeRunReview of the run posts what it found.                         *)
PostFindings ==
    /\ findings = "pending"
    /\ findings' \in {"clean", "open"}
    /\ UNCHANGED <<review, checks, engine, attempts>>

(* People close, reopen, merge or (on GitLab) delete the review.            *)
ByHand ==
    /\ review.state \in {"open", "closed"}
    /\ \/ review' = [review EXCEPT !.state = "closed"]
       \/ review' = [review EXCEPT !.state = "open"]
       \/ IsOpen /\ review' = [review EXCEPT !.state = "merged", !.by = "person"]
       \/ review.scmProvider = "gitlab" /\ review' = [review EXCEPT !.state = "missing"]
    /\ UNCHANGED <<checks, findings, engine, attempts>>

Host == Push \/ (\E h \in Heads : ReportChecks(h)) \/ JudgeMergeability \/ PostFindings \/ ByHand

MergeNext == Begin \/ Call \/ Host

MergeSpec == MergeInit /\ [][MergeNext]_mergeVars

(* A call that has begun goes on. Nobody owes a call, a commit or a check.  *)
MergeFairSpec == MergeSpec /\ WF_mergeVars(Call)

-----------------------------------------------------------------------------
MergeTypeOK ==
    /\ review \in Review
    /\ checks \in [Heads -> {"none", "pending", "green", "red"}]
    /\ findings \in Findings
    /\ engine \in Engine
    /\ attempts \in 0..MaxAttempts

(* The step is one in which the host merges for the sentinel. *)
SentinelMerges == review.by # "sentinel" /\ review'.by = "sentinel"

(* docs/plans/current/p7-sentinel-orchestration.md: "Merge from `REVIEW`     *)
(* only after review completion gate passes". Whatever is pushed, reported   *)
(* and refused between the requests of a call, the commit merged is one that *)
(* passed the gate in this call. A rebase attempt does not keep to it, and   *)
(* GitLab is told no commit to merge.                                        *)
GateBeforeMerge == [][SentinelMerges => review.head \in engine.passed]_mergeVars

(* It holds where the config has no rebaseBeforeMerge and the host is told   *)
(* the commit.                                                               *)
GateBeforePlainMerge ==
    [][SentinelMerges /\ review.scmProvider = "github" /\ ~engine.policy.rebase
          => review.head \in engine.passed]_mergeVars

(* The same document: "Merge conflicts trigger remediation flow". To the     *)
(* gate a conflict is a review that is not mergeable, which ends the call.   *)
ConflictsRemediated ==
    [][engine.at = "checks" /\ engine'.outcome = "blocked" /\ engine.policy.remediation
         => \/ engine.seen.mergeable # "no"
            \/ ~engine.seen.open
            \/ checks[engine.seen.head] # "green"
            \/ engine.findings = "open"]_mergeVars

(* A merge whose answer is lost is found out by the next call, and never     *)
(* counted against the review.                                               *)
LandedNeverRefused == review.by = "sentinel" => engine.outcome \notin {"blocked", "exhausted"}

(* The row counts all attempts or none, which is all Sentinel tells apart:   *)
(* no call ends in between.                                                  *)
AttemptsAllOrNone ==
    /\ attempts \in {0, MaxAttempts}
    /\ engine.outcome = "exhausted" => attempts = MaxAttempts

(* Calls that merge, are refused, remedy and rebase count the attempts they  *)
(* made, no more than there are, and all of them or none.                    *)
AttemptsAreWhole == MergeTypeOK /\ AttemptsAllOrNone

(* A call ends, however often the host refuses.                              *)
CallEnds == ~EngineAt("idle") ~> EngineAt("idle")
=============================================================================
