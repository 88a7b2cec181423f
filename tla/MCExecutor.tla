---------------------------- MODULE MCExecutor ----------------------------
(***************************************************************************)
(* Instances of Executor for TLC.                                          *)
(***************************************************************************)
EXTENDS Executor, TLC

Plain == [local |-> FALSE, adapter |-> "codex", checkpoints |-> TRUE, notes |-> TRUE,
          squash |-> TRUE, rewrite |-> FALSE, changeRequest |-> FALSE, review |-> TRUE,
          preview |-> TRUE, evidence |-> TRUE]

(* A first run, a run for a change request, and the deployment without     *)
(* workflows, each with another adapter and other switches.                *)
Deployments ==
  {Plain,
   [Plain EXCEPT !.changeRequest = TRUE, !.adapter = "cursor_cli", !.rewrite = TRUE,
                 !.evidence = FALSE],
   [Plain EXCEPT !.changeRequest = TRUE, !.adapter = "claude_code", !.review = FALSE, !.preview = FALSE],
   [Plain EXCEPT !.local = TRUE, !.adapter = "claude_code", !.checkpoints = FALSE,
                 !.review = FALSE, !.preview = FALSE]}

WorkflowSymmetry == Permutations(Workflows)
=============================================================================
