---------------------------- MODULE MCRepoBoard ----------------------------
(***************************************************************************)
(* Instances of RepoBoard for TLC: what its clients pass it.               *)
(***************************************************************************)
EXTENDS RepoBoard, TLC

CallerSymmetry == Permutations(Callers)

-----------------------------------------------------------------------------
(* What the executor, the sentinel and the integrations pass transitionRun. *)

Bootstrapping == [NoteOnly EXCEPT !.status = "BOOTSTRAPPING", !.sandbox = TRUE]
CommitPushed  == [NoteOnly EXCEPT !.head = TRUE]
ReviewOpened  == [NoteOnly EXCEPT !.status = "PR_OPEN", !.review = TRUE, !.merge = "open"]
ReviewPending == [NoteOnly EXCEPT !.loop = "REVIEW_PENDING"]
AskDecision   == [NoteOnly EXCEPT !.loop = "DECISION_REQUIRED"]
QueueRerun    == [NoteOnly EXCEPT !.loop = "RERUN_QUEUED"]

(* An executing run, one with a review, and each step of the review loop.    *)
(* These runs end by failing.                                                *)
RunPatches == {Bootstrapping, ReviewOpened, ReviewPending, AskDecision, QueueRerun}

(* What lets a dependent task start: a commit pushed, and its review opened. *)
FanOutPatches == {CommitPushed, ReviewOpened}

-----------------------------------------------------------------------------
(* What clients pass createTask and updateTask. *)

PlainTask == [status |-> "READY", deps |-> {}, primary |-> NoTask,
              explicitSource |-> FALSE, auto |-> "unset"]
Follows(up)    == [PlainTask EXCEPT !.deps = {up}, !.auto = "on"]

OnlyPlain    == {PlainTask}
FollowFirst  == {Follows(1)}
=============================================================================
