--------------------------- MODULE DependencyState ---------------------------
(***************************************************************************)
(* What a task's dependencies say of it: which upstream tasks are ready,   *)
(* and which commit a run of it starts from.  Operators over one snapshot  *)
(* of a repo board: `T`, the tasks, and `R`, the runs.  Translated from    *)
(* shared/dependency-readiness.ts, shared/dependency-state.ts and          *)
(* shared/run-source-resolution.ts.                                        *)
(***************************************************************************)
EXTENDS RunStates, Integers

CONSTANTS
  MaxTasks,     \* bound: tasks ever created on the board of one repo
  MaxRuns,      \* bound: runs ever created on it
  ScmProvider   \* the repo's source-control provider

ASSUME TasksAssumption == MaxTasks \in Nat
ASSUME RunsAssumption  == MaxRuns \in Nat
ASSUME ScmAssumption   == ScmProvider \in {"github", "gitlab"}

(* Tasks and runs are numbered in the order they are created: state.tasks   *)
(* lists the larger number first, and a run with a larger number has a      *)
(* later startedAt. 0 stands for "no task" and "no run".                    *)
Tasks  == 1..MaxTasks
NoTask == 0
RunIds == 1..MaxRuns
NoRun  == 0

(* reviewState and landedOnDefaultBranch of a run, together: "unset" is a   *)
(* run that stored neither, "merged" one merged with landedOnDefaultBranch  *)
(* not true.                                                                *)
MergeState == {"unset", "open", "merged", "landed"}

(* Where a run's branch starts (dependencyContext.sourceMode).              *)
SourceMode == {"explicit_source_ref", "dependency_review_head", "default_branch"}

Run == [task: Tasks \cup {NoTask}, status: RunStatus, loop: LoopState,
        sandbox: BOOLEAN, head: BOOLEAN, review: BOOLEAN, merge: MergeState,
        base: 0..MaxRuns, source: SourceMode, upstream: 0..MaxRuns]

(* One upstream's part of dependencyState.reasons: its state, split by the  *)
(* two messages of "ready"; "none" is a task that is no dependency.         *)
Reason == {"none", "missing", "not_ready", "review_ready", "merged"}

Task == [life: {"unborn", "live", "deleted"}, status: TaskStatus,
         runId: 0..MaxRuns, deps: SUBSET Tasks, primary: Tasks \cup {NoTask},
         explicitSource: BOOLEAN, auto: {"unset", "off", "on"},
         autoStarted: BOOLEAN, reasons: [Tasks -> Reason]]

Live(T, t)      == T[t].life = "live"
Exists(R, r)    == R[r].task # NoTask
RunsOf(R, t)    == {r \in RunIds : R[r].task = t}
ActiveRun(R, r) == Exists(R, r) /\ ~IsTerminalRunStatus(R[r].status)

(* The run of t with the latest startedAt, or NoRun. *)
LatestRun(R, t) ==
    LET latest == {r \in RunsOf(R, t) : \A q \in RunsOf(R, t) : q <= r}
    IN IF latest = {} THEN NoRun ELSE CHOOSE r \in latest : TRUE

IsDependencyMergedToDefaultBranch(T, R, t) ==
    /\ T[t].status = "DONE"
    /\ \E r \in RunIds :
          /\ r = LatestRun(R, t)
          /\ R[r].review
          /\ \/ R[r].merge = "landed"
             \/ R[r].merge = "unset" /\ ScmProvider = "github"

IsDependencyReviewReady(T, R, t) ==
    \/ T[t].status \in {"REVIEW", "DONE"}
    \/ \E r \in RunIds :
          /\ r = LatestRun(R, t)
          /\ \/ R[r].status \in ReviewPhase \cup {"DONE"}
             \/ R[r].status = "FAILED" /\ R[r].review

ReasonFor(T, R, up) ==
    CASE ~Live(T, up) -> "missing"
      [] Live(T, up) /\ IsDependencyMergedToDefaultBranch(T, R, up) -> "merged"
      [] Live(T, up) /\ ~IsDependencyMergedToDefaultBranch(T, R, up) ->
            IF IsDependencyReviewReady(T, R, up) THEN "review_ready" ELSE "not_ready"

ReasonsFor(T, R, t) ==
    [up \in Tasks |-> IF up \in T[t].deps THEN ReasonFor(T, R, up) ELSE "none"]

(* Mutant: a task whose card has left the backlog is not refreshed. *)
RefreshWaitingTasks(T, R) ==
    [t \in Tasks |-> IF Live(T, t) /\ T[t].deps # {} /\ T[t].status \in {"INBOX", "READY"}
                     THEN [T[t] EXCEPT !.reasons = ReasonsFor(T, R, t)]
                     ELSE T[t]]

(* A task without dependencies keeps whatever dependencyState it had. *)
RefreshDependencyStates(T, R) ==
    [t \in Tasks |-> IF Live(T, t) /\ T[t].deps # {}
                     THEN [T[t] EXCEPT !.reasons = ReasonsFor(T, R, t)]
                     ELSE T[t]]

(* Mutant: only a new dependency state counts as a change. *)
ChangedReasons(T, R) ==
    {t \in Tasks : /\ Live(T, t) /\ T[t].deps # {}
                   /\ T[t].reasons # ReasonsFor(T, R, t)}

(* The tasks the refresh reports as changed. One with an automationState    *)
(* always is: its lastDependencyRefreshAt moves.                            *)
ChangedTasks(T, R) ==
    {t \in Tasks : /\ Live(T, t) /\ T[t].deps # {}
                   /\ \/ T[t].reasons # ReasonsFor(T, R, t)
                      \/ T[t].auto # "unset"}

(* dependencyState.blocked === false *)
Unblocked(T, t) ==
    /\ \E up \in Tasks : T[t].reasons[up] # "none"
    /\ \A up \in Tasks : T[t].reasons[up] \notin {"missing", "not_ready"}

-----------------------------------------------------------------------------
(* The dependency whose branch a run of the task would continue. `primary`  *)
(* is the one dependency marked so, if exactly one is.                      *)
PickDependencyForLineage(task) ==
    CASE \E up \in Tasks : task.deps = {up} -> CHOOSE up \in Tasks : task.deps = {up}
      [] ~\E up \in Tasks : task.deps = {up} ->
            IF task.primary \in task.deps THEN task.primary ELSE NoTask

(* Mutant: a review without a pushed commit will do. *)
HasReview(T, R, up) ==
    /\ up \in Tasks
    /\ Live(T, up)
    /\ ~IsDependencyMergedToDefaultBranch(T, R, up)
    /\ IsDependencyReviewReady(T, R, up)
    /\ \E r \in RunIds : r = LatestRun(R, up) /\ R[r].review

(* Whether that dependency's latest run has a pushed commit under review    *)
(* that the default branch lacks.                                           *)
HasReviewHead(T, R, up) ==
    /\ up \in Tasks
    /\ Live(T, up)
    /\ ~IsDependencyMergedToDefaultBranch(T, R, up)
    /\ IsDependencyReviewReady(T, R, up)
    /\ \E r \in RunIds : r = LatestRun(R, up) /\ R[r].head /\ R[r].review

(* resolveRunSource, for a task read with lineage `up` and, if `explicit`,  *)
(* a sourceRef of its own or an override.                                   *)
ResolveRunSource(T, R, up, explicit) ==
    CASE explicit -> [mode |-> "explicit_source_ref", upstream |-> NoRun]
      [] ~explicit /\ HasReviewHead(T, R, up) ->
            [mode |-> "dependency_review_head", upstream |-> LatestRun(R, up)]
      [] ~explicit /\ ~HasReviewHead(T, R, up) ->
            [mode |-> "default_branch", upstream |-> NoRun]
=============================================================================
