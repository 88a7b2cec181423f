------------------------------ MODULE RunStates ------------------------------
(***************************************************************************)
(* The state machines a run carries: its execution status, the column its  *)
(* task is shown in, and the integration loop state that Slack and GitLab  *)
(* drive.  Pure operators, translated from the helpers at the end of       *)
(* durable/repo-board.ts.                                                  *)
(***************************************************************************)

(* RunStatus and TaskStatus of ui/domain/types.ts. *)
ExecutionPhase == {"QUEUED", "BOOTSTRAPPING", "RUNNING_CODEX",
                   "OPERATOR_CONTROLLED", "RUNNING_TESTS", "PUSHING_BRANCH"}
ReviewPhase    == {"PR_OPEN", "WAITING_PREVIEW", "EVIDENCE_RUNNING"}
RunStatus      == ExecutionPhase \cup ReviewPhase \cup {"DONE", "FAILED"}
TaskStatus     == {"INBOX", "READY", "ACTIVE", "REVIEW", "DONE", "FAILED"}

IsTerminalRunStatus(status) == status \in {"DONE", "FAILED"}

(* The column of a task whose run has just reached `status`. `current` is   *)
(* the column before; a task marked DONE leaves it only for a run that is   *)
(* executing again.                                                         *)
DeriveTaskStatus(status, hasReview, current) ==
    CASE status \in ExecutionPhase                  -> "ACTIVE"
      [] status \notin ExecutionPhase /\ current = "DONE" -> "DONE"
      [] status \notin ExecutionPhase /\ current # "DONE" ->
            IF status = "FAILED" /\ ~hasReview THEN "FAILED" ELSE "REVIEW"

-----------------------------------------------------------------------------
LoopState == {"QUEUED", "RUNNING", "MR_OPEN", "REVIEW_PENDING",
              "DECISION_REQUIRED", "RERUN_QUEUED", "PAUSED", "DONE", "FAILED"}

IsTerminalLoopState(loop) == loop \in {"DONE", "FAILED", "PAUSED"}

(* The loop states a client may request next. *)
LoopSuccessors ==
    [QUEUED            |-> {"RUNNING", "PAUSED", "FAILED"},
     RUNNING           |-> {"MR_OPEN", "REVIEW_PENDING", "FAILED", "PAUSED"},
     MR_OPEN           |-> {"REVIEW_PENDING", "FAILED", "PAUSED"},
     REVIEW_PENDING    |-> {"DECISION_REQUIRED", "FAILED", "PAUSED"},
     DECISION_REQUIRED |-> {"RERUN_QUEUED", "FAILED", "PAUSED"},
     RERUN_QUEUED      |-> {"RUNNING", "FAILED", "PAUSED"},
     PAUSED            |-> {"RERUN_QUEUED", "RUNNING", "DONE", "FAILED"},
     DONE              |-> {"DONE"},
     FAILED            |-> {"FAILED"}]

CanPersistLoopTransition(current, next) ==
    current = next \/ next \in LoopSuccessors[current]

(* The loop state a run's status implies when the client names none. *)
InferLoopState(status, current) ==
    CASE status = "QUEUED" ->
            IF current = "RERUN_QUEUED" THEN "RERUN_QUEUED" ELSE "QUEUED"
      [] status = "DONE"   -> "DONE"
      [] status = "FAILED" -> IF current = "PAUSED" THEN "PAUSED" ELSE "FAILED"
      [] status \in RunStatus \ {"QUEUED", "DONE", "FAILED"} ->
            IF current \in {"REVIEW_PENDING", "DECISION_REQUIRED"} THEN current
            ELSE IF status \in ExecutionPhase \/ current = "RERUN_QUEUED"
                 THEN "RUNNING" ELSE "MR_OPEN"

NoRequest == "keep"

(* resolveLoopStateTransition: a request out of a terminal loop state, or   *)
(* one the table lacks, leaves the loop state as it is; with no request the *)
(* loop state follows the status, out of a terminal state too.              *)
ResolveLoopState(current, requested, status) ==
    IF requested = NoRequest THEN InferLoopState(status, current)
    ELSE IF ~IsTerminalLoopState(current) /\ CanPersistLoopTransition(current, requested)
         THEN requested ELSE current
=============================================================================
