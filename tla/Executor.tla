------------------------------ MODULE Executor ------------------------------
(***************************************************************************)
(* executeRunJob (run-orchestrator.ts): the executors that work on one     *)
(* run, the board's record of the run they write to (durable/repo-board.ts)*)
(* and the operators who act on the run meanwhile (router.ts).             *)
(*                                                                         *)
(* Every click schedules an executor of its own; nothing stops two of them *)
(* from working on the same run, or a takeover or a cancellation from      *)
(* arriving between any two of their steps.  An executor reads the run     *)
(* when it starts and then mostly writes; each call to the board, to the   *)
(* sandbox and to the SCM is an action, wf[w].at says which comes next.    *)
(* The code that records what the operator sees of a call (logs, events,   *)
(* commands, usage) changes nothing that is told apart here.               *)
(*                                                                         *)
(* The task column the run is shown in is in RepoBoard; what a review does *)
(* in detail is in ReviewLoop.                                             *)
(***************************************************************************)
EXTENDS Integers, Sequences, FiniteSets, RunStates

CONSTANTS
  Workflows,     \* the executors ever scheduled for the run
  NoProcess,
  Configs,       \* the deployments and repo configurations of this instance
  Commands,      \* what operators do in it
  Events,        \* what else happens in it
  MaxCommits,    \* bound: commits ever made for the run
  MaxWaits,      \* waits for LLM capacity: 4 in the code
  MaxPolls       \* looks for a preview: 12 in the code

ASSUME ExecutorAssumption ==
  /\ NoProcess \notin Workflows
  /\ {MaxCommits, MaxWaits, MaxPolls} \subseteq Nat \ {0}
  /\ Configs \subseteq
       [local: BOOLEAN, adapter: {"codex", "cursor_cli", "claude_code"},
        checkpoints: BOOLEAN, notes: BOOLEAN, squash: BOOLEAN, rewrite: BOOLEAN,
        changeRequest: BOOLEAN, review: BOOLEAN, preview: BOOLEAN, evidence: BOOLEAN]

VARIABLES
  config,   \* fixed: the deployment and the repo's configuration
  run,      \* the board's record of the run
  wf,       \* per executor, where it is and what it holds
  tree,     \* the working tree in the run's main sandbox
  noted,    \* the commits that hold a checkpoint's context notes
  remote,   \* per branch of the run, its head on the SCM; 0 while there is none
  reviews,  \* the branches the SCM has a pull request for
  taking,   \* a takeover has killed the process and has not been stored yet
  commits,  \* commits made so far
  held      \* history: executors whose LLM was running when the operator took over

vars == <<config, run, wf, tree, noted, remote, reviews, taking, commits, held>>
rest == <<config, taking>>
scm  == <<remote, reviews>>
git  == <<tree, noted, commits>>

Branch == {"own", "renamed"}
Mode   == {"full_run", "evidence_only", "preview_only", "review_only"}
Phase  == <<"bootstrap", "codex", "tests">>
Sha    == 0..MaxCommits

Over == {"none", "ended", "failed", "lost"}
Live == {"enter", "boot", "checkout", "cpRead", "cpCommit", "cpSave", "codex", "capacity",
         "wait", "launch", "record", "llm", "llmEnd", "llmCatch", "tests", "pushing",
         "prepare", "commit", "push", "head", "open", "create", "prNote", "rvRead",
         "rvNote", "rvWork", "rvEnd", "preview", "poll", "found", "noPreview", "evidence",
         "evNote", "capture", "comment", "evDone", "fail"}

Checkpoint == [phase: 1..3, sequence: 1..3, sha: Sha]

RunRecord ==
  [status: RunStatus, review: {"none", "running", "completed", "failed"}, round: Nat,
   process: Workflows \cup {NoProcess}, checkpoints: Seq(Checkpoint), head: Sha,
   branch: Branch, url: BOOLEAN, preview: BOOLEAN,
   evidence: {"NOT_STARTED", "RUNNING", "READY"}, sandbox: BOOLEAN]

Worker ==
  [at: Over \cup Live \cup {"asked", "queued"}, mode: Mode, branch: Branch, phase: 1..3,
   sequence: 0..3, sha: Sha, ok: BOOLEAN, round: Nat, count: Nat]

Tree == [made: BOOLEAN, dirty: BOOLEAN, note: BOOLEAN, log: Seq(Sha)]

TypeOK ==
  /\ config \in Configs
  /\ run \in RunRecord /\ wf \in [Workflows -> Worker]
  /\ tree \in Tree /\ noted \subseteq Sha /\ commits \in Sha
  /\ remote \in [Branch -> Sha] /\ reviews \subseteq Branch
  /\ taking \in BOOLEAN /\ held \subseteq Workflows

Idle == [at |-> "none", mode |-> "full_run", branch |-> "own", phase |-> 1,
         sequence |-> 0, sha |-> 0, ok |-> TRUE, round |-> 0, count |-> 0]

(* createRealRun, for a click whose executor is still to be scheduled; a   *)
(* run that answers a change request has the pull request and the branch   *)
(* of the run before it.                                                   *)
Init ==
  /\ config \in Configs
  /\ run = [status |-> "QUEUED", review |-> "none", round |-> 0, process |-> NoProcess,
            checkpoints |-> <<>>, head |-> 0, branch |-> "own", url |-> config.changeRequest,
            preview |-> FALSE, evidence |-> "NOT_STARTED", sandbox |-> FALSE]
  /\ \E first \in Workflows :
       wf = [w \in Workflows |-> IF w = first THEN [Idle EXCEPT !.at = "asked"] ELSE Idle]
  /\ tree = [made |-> FALSE, dirty |-> FALSE, note |-> FALSE, log |-> <<>>] /\ noted = {}
  /\ commits = IF config.changeRequest THEN 1 ELSE 0
  /\ remote = [b \in Branch |-> IF b = "own" THEN commits ELSE 0]
  /\ reviews = IF config.changeRequest THEN {"own"} ELSE {}
  /\ taking = FALSE /\ held = {}

-----------------------------------------------------------------------------
(* What the board does.                                                    *)

LlmRuns(w) == wf[w].at \in {"record", "llm", "llmEnd"}

Store(new) ==
  /\ run' = new
  /\ held' = IF new.status # "OPERATOR_CONTROLLED" THEN {}
             ELSE IF run.status = new.status THEN held
             ELSE {w \in Workflows : LlmRuns(w)}
Read == UNCHANGED <<run, held>>

(* Mutant: a finished run takes any status. *)
TransitionAlways(new) == Store(new)

(* transitionRun, for the record as the patch would have it: a finished    *)
(* run ignores a patch with another status, whatever else is in it.        *)
Transition(new) ==
  IF IsTerminalRunStatus(run.status) /\ new.status # run.status THEN Read ELSE Store(new)

(* markRunFailed asks for no status.                                       *)
MarkRunFailed == Store([run EXCEPT !.status = "FAILED"])

At(w, place) == wf[w].at = place
(* Executor w goes on at `place`: with what it holds and what it has just  *)
(* learned, or with its mode and branch alone; at the end with nothing.    *)
With(w, place, new) == wf' = [wf EXCEPT ![w] = [new EXCEPT !.at = place]]
Go(w, place) ==
  wf' = [wf EXCEPT ![w] =
           IF place \in Over THEN [Idle EXCEPT !.at = place]
           ELSE [Idle EXCEPT !.at = place, !.mode = wf[w].mode, !.branch = wf[w].branch]]

-----------------------------------------------------------------------------
(* Operators.                                                              *)

Quiet == UNCHANGED <<rest, git, scm>>

Ask(w, mode) == At(w, "none") /\ With(w, "asked", [wf[w] EXCEPT !.mode = mode])

(* handleRunTask: startRun returns the active run of the task.             *)
HandleRunTask(w) ==
  /\ "start" \in Commands /\ ~IsTerminalRunStatus(run.status)
  /\ Ask(w, "full_run")
  /\ Read /\ Quiet

HandleRetryEvidence(w) ==
  /\ "retryEvidence" \in Commands
  /\ Ask(w, IF run.preview THEN "evidence_only" ELSE "preview_only")
  /\ Store([run EXCEPT !.evidence = "RUNNING",
                       !.status = IF run.preview THEN "EVIDENCE_RUNNING" ELSE "WAITING_PREVIEW"])
  /\ Quiet

HandleRetryPreview(w) ==
  /\ "retryPreview" \in Commands
  /\ Ask(w, "preview_only")
  /\ Store([run EXCEPT !.status = "WAITING_PREVIEW", !.preview = FALSE,
                       !.evidence = "NOT_STARTED"])
  /\ Quiet

HandleRerunReview(w) ==
  /\ "rerunReview" \in Commands
  /\ run.url /\ run.review # "running"
  /\ Ask(w, "review_only")
  /\ Read /\ Quiet

HandleCancelRun ==
  /\ "cancel" \in Commands
  /\ MarkRunFailed
  /\ UNCHANGED wf /\ Quiet

(* scheduleLocalRun keeps one job per run: a later one replaces it.        *)
Overwritten(w) == {v \in Workflows \ {w} : At(v, "queued")}

(* scheduleRunJob *)
ScheduleRunJob(w) ==
  /\ At(w, "asked")
  /\ IF config.local
     THEN wf' = [v \in Workflows |->
                   IF v = w THEN [wf[v] EXCEPT !.at = "queued"]
                   ELSE IF v \in Overwritten(w) THEN [Idle EXCEPT !.at = "lost"] ELSE wf[v]]
     ELSE Go(w, "enter")
  /\ Read /\ Quiet

(* alarm: the jobs of a repo run one after the other.                      *)
Alarm(w) ==
  /\ At(w, "queued") /\ \A v \in Workflows : wf[v].at \notin Live
  /\ Go(w, "enter")
  /\ Read /\ Quiet

(* handleTakeoverRun stops the process the board knows of, when it can.    *)
KillProcess ==
  /\ "takeover" \in Commands /\ ~taking
  /\ run.sandbox
  /\ taking' = TRUE
  /\ \/ UNCHANGED wf
     \/ /\ run.process # NoProcess /\ At(run.process, "llm")
        /\ With(run.process, "llmEnd", [wf[run.process] EXCEPT !.ok = FALSE])
  /\ Read /\ UNCHANGED <<config, git, scm>>

TakeOverRun ==
  /\ taking /\ taking' = FALSE
  /\ Store([run EXCEPT !.status = "OPERATOR_CONTROLLED", !.process = NoProcess])
  /\ UNCHANGED <<config, wf, git, scm>>

(* An operator edits files in the terminal of the sandbox.                 *)
OperatorEdits ==
  /\ "edit" \in Commands
  /\ run.sandbox /\ tree.made /\ ~IsTerminalRunStatus(run.status)
  /\ ~tree.dirty /\ tree' = [tree EXCEPT !.dirty = TRUE]
  /\ Read /\ UNCHANGED <<rest, wf, noted, commits, scm>>

OperatorStep == \/ \E w \in Workflows : HandleRetryEvidence(w) \/ HandleRetryPreview(w)
                \/ TakeOverRun

-----------------------------------------------------------------------------
(* The executor.                                                           *)

Board(w, new, place) == Transition(new) /\ Go(w, place)
Fails(w) == Go(w, "fail") /\ Read

FailRun(w) ==
  /\ At(w, "fail")
  /\ MarkRunFailed /\ Go(w, "failed")
  /\ Quiet

(* getScmCredential finds no token: nobody catches what it throws.         *)
MissingCredential(mode) ==
  mode = "full_run" \/ (mode = "preview_only" /\ config.preview)

Enter(w) ==
  /\ At(w, "enter")
  /\ LET mode == wf[w].mode IN
     \/ /\ IsTerminalRunStatus(run.status) /\ mode # "review_only"
        /\ Go(w, "ended") /\ Read
     \/ /\ mode = "review_only"
        /\ Go(w, "rvRead") /\ Read
     \/ /\ ~IsTerminalRunStatus(run.status) /\ mode = "evidence_only"
        /\ IF config.evidence THEN Go(w, "evidence") /\ Read
           ELSE Board(w, [run EXCEPT !.status = "DONE", !.evidence = "NOT_STARTED"], "ended")
     \/ /\ ~IsTerminalRunStatus(run.status) /\ mode = "preview_only"
        /\ Go(w, "preview") /\ Read
     \/ /\ ~IsTerminalRunStatus(run.status) /\ mode = "full_run"
        /\ With(w, "boot", [wf[w] EXCEPT !.branch = run.branch]) /\ Read
     \/ /\ ~IsTerminalRunStatus(run.status) /\ MissingCredential(mode)
        /\ Go(w, "lost") /\ Read
  /\ Quiet

Bootstrap(w) ==
  /\ At(w, "boot")
  /\ Board(w, [run EXCEPT !.status = "BOOTSTRAPPING", !.sandbox = TRUE], "checkout")
  /\ Quiet

(* Mutant: what is there is removed, as in the review sandbox. *)
CanCloneAnyway == TRUE

(* git clones into an empty directory only.                                *)
CanClone == ~tree.made

(* prepareRunBranchFromTaskSource: the commits of the run there are on the *)
(* branch; every other source is a commit of somebody else, or, when its   *)
(* ref is missing, the default branch or the remote's HEAD instead.        *)
RunBranch == IF config.changeRequest THEN <<1>> ELSE <<>>

(* What comes before the first checkpoint: secrets, LLM auth, gitCheckout. *)
Checkout(w) ==
  /\ At(w, "checkout")
  /\ \/ /\ CanClone
        /\ tree' = [made |-> TRUE, dirty |-> FALSE, note |-> FALSE, log |-> RunBranch]
        /\ With(w, "cpRead", [wf[w] EXCEPT !.phase = 1]) /\ Read
     \/ Fails(w) /\ UNCHANGED tree
  /\ UNCHANGED <<rest, noted, commits, scm>>

AfterCheckpoint(w) == IF wf[w].phase = 1 THEN "codex"
                      ELSE IF wf[w].phase = 2 THEN "tests" ELSE "pushing"

HasPhase(w) == \E i \in DOMAIN run.checkpoints : run.checkpoints[i].phase = wf[w].phase

(* Mutant: a checkpoint is numbered by its phase, counted from the last. *)
NextSequenceByPhase(w) == 4 - wf[w].phase

NextSequence(w) == Len(run.checkpoints) + 1

(* createPhaseBoundaryCheckpoint, up to the commit                         *)
ReadForCheckpoint(w) ==
  /\ At(w, "cpRead")
  /\ \/ /\ config.checkpoints /\ ~HasPhase(w) /\ tree.dirty
        /\ With(w, "cpCommit", [wf[w] EXCEPT !.sequence = NextSequence(w)])
     \/ /\ config.checkpoints => HasPhase(w) \/ ~tree.dirty
        /\ Go(w, AfterCheckpoint(w))
  /\ Read /\ Quiet

(* One more commit of the tree as it is but for `note`.                    *)
Commit(note) ==
  /\ commits < MaxCommits /\ commits' = commits + 1
  /\ noted' = IF note THEN noted \cup {commits + 1} ELSE noted

CommitCheckpoint(w) ==
  /\ At(w, "cpCommit")
  /\ \/ /\ Commit(tree.note \/ config.notes)
        /\ tree' = [tree EXCEPT !.dirty = FALSE, !.note = tree.note \/ config.notes,
                                !.log = Append(@, commits + 1)]
        /\ With(w, "cpSave", [wf[w] EXCEPT !.sha = commits + 1]) /\ Read
     \/ Fails(w) /\ UNCHANGED git
  /\ UNCHANGED <<rest, scm>>

SaveCheckpoint(w) ==
  /\ At(w, "cpSave")
  /\ Go(w, AfterCheckpoint(w))
  /\ IF HasPhase(w) THEN Read
     ELSE Transition([run EXCEPT !.checkpoints =
            Append(@, [phase |-> wf[w].phase, sequence |-> wf[w].sequence,
                       sha |-> wf[w].sha])])
  /\ Quiet

StartCodex(w) ==
  /\ At(w, "codex")
  /\ Transition([run EXCEPT !.status = "RUNNING_CODEX"])
  /\ With(w, "capacity", [wf[w] EXCEPT !.count = 0])
  /\ Quiet

(* waitForCapacityIfNeeded, of the Codex adapter only                      *)
WaitForCapacity(w) ==
  /\ At(w, "capacity")
  /\ \/ /\ config.adapter = "codex" /\ wf[w].count < MaxWaits
        /\ Transition([run EXCEPT !.status = "BOOTSTRAPPING"])
        /\ With(w, "wait", [wf[w] EXCEPT !.count = @ + 1])
     \/ Go(w, "launch") /\ Read
     \/ Go(w, "llmCatch") /\ Read
  /\ Quiet

CapacityIsBack(w) ==
  /\ At(w, "wait")
  /\ Transition([run EXCEPT !.status = "RUNNING_CODEX"])
  /\ With(w, "capacity", wf[w])
  /\ Quiet

StartProcess(w) ==
  /\ At(w, "launch")
  /\ Go(w, IF config.adapter = "codex" THEN "record" ELSE "llm")
  /\ Read /\ Quiet

RecordProcess(w) ==
  /\ At(w, "record")
  /\ Board(w, [run EXCEPT !.process = w], "llm")
  /\ Quiet

(* The LLM ends, fails, or is killed for its silence; it has edited files, *)
(* and sometimes committed them.                                           *)
LlmEnds(w) ==
  /\ At(w, "llm")
  /\ \/ tree' = [tree EXCEPT !.dirty = TRUE] /\ UNCHANGED <<noted, commits>>
     \/ UNCHANGED git
     \/ /\ Commit(tree.note)
        /\ tree' = [tree EXCEPT !.log = Append(@, commits + 1)]
  /\ \E ok \in BOOLEAN : With(w, "llmEnd", [wf[w] EXCEPT !.ok = ok])
  /\ Read /\ UNCHANGED <<rest, scm>>

(* Mutant: the adapters do not look at the run again. *)
StoppedForTakeoverNever == FALSE

(* Codex and Cursor read the status of the run once more; Claude does not. *)
StoppedForTakeover ==
  config.adapter # "claude_code" /\ run.status = "OPERATOR_CONTROLLED"

LlmReturns(w) ==
  /\ At(w, "llmEnd")
  /\ IF StoppedForTakeover THEN Go(w, "ended")
     ELSE IF wf[w].ok THEN With(w, "cpRead", [wf[w] EXCEPT !.phase = 2])
     ELSE Go(w, "llmCatch")
  /\ IF config.adapter = "codex" THEN Transition([run EXCEPT !.process = NoProcess])
     ELSE Read
  /\ Quiet

LlmFails(w) ==
  /\ At(w, "llmCatch")
  /\ Go(w, IF run.status = "OPERATOR_CONTROLLED" THEN "ended" ELSE "fail")
  /\ Read /\ Quiet

StartTests(w) ==
  /\ At(w, "tests")
  /\ Transition([run EXCEPT !.status = "RUNNING_TESTS"])
  /\ With(w, "cpRead", [wf[w] EXCEPT !.phase = 3])
  /\ Quiet

StartPush(w) ==
  /\ At(w, "pushing")
  /\ Board(w, [run EXCEPT !.status = "PUSHING_BRANCH"], "prepare")
  /\ Quiet

Squashes ==
  /\ config.checkpoints /\ config.squash /\ run.checkpoints # <<>>
  /\ run.url /\ config.changeRequest => config.rewrite

(* Mutant: the notes are removed only where the checkpoints are squashed.  *)
CleanedOnSquash == config.notes /\ tree.note /\ Squashes

(* The context notes are removed, where git knows of them.                 *)
Cleaned == config.notes /\ tree.note

(* prepareReviewBranchForFirstReview: the checkpoints become edits again.  *)
PrepareReviewBranch(w) ==
  /\ At(w, "prepare")
  /\ \/ /\ tree' = [tree EXCEPT !.log = IF Squashes THEN <<>> ELSE @,
                                !.note = @ /\ ~Cleaned,
                                !.dirty = @ \/ Cleaned \/ (Squashes /\ tree.log # <<>>)]
        /\ Go(w, "commit") /\ Read
     \/ Fails(w) /\ UNCHANGED tree
  /\ UNCHANGED <<rest, noted, commits, scm>>

TreeHead == IF tree.log = <<>> THEN 0 ELSE tree.log[Len(tree.log)]

(* resolveCommitMessageForRun, for a repo that has a convention.           *)
CommitMessage == {"as it is", "reworded", "refused"}

(* With nothing to push the run fails (NO_CHANGES); the message of a       *)
(* commit that is there may have to be amended.                            *)
CommitForReview(w) ==
  /\ At(w, "commit")
  /\ \E message \in CommitMessage :
       \/ /\ message # "refused" /\ tree.dirty /\ Commit(tree.note)
          /\ tree' = [tree EXCEPT !.dirty = FALSE, !.log = Append(@, commits + 1)]
          /\ Go(w, "push") /\ Read
       \/ /\ message = "as it is" /\ ~tree.dirty /\ tree.log # <<>>
          /\ Go(w, "push") /\ Read /\ UNCHANGED git
       \/ /\ message = "reworded" /\ ~tree.dirty /\ tree.log # <<>> /\ Commit(tree.note)
          /\ tree' = [tree EXCEPT !.log[Len(tree.log)] = commits + 1]
          /\ Go(w, "push") /\ Read
       \/ /\ message = "refused" \/ (~tree.dirty /\ tree.log = <<>>)
          /\ Fails(w) /\ UNCHANGED git
  /\ UNCHANGED <<rest, scm>>

FastForward(b) == remote[b] = 0 \/ \E i \in DOMAIN tree.log : tree.log[i] = remote[b]

PushTo(b) == FastForward(b) /\ remote' = [remote EXCEPT ![b] = TreeHead]

(* proposePushBranchRemediation: the LLM's name when it is one, and a name *)
(* made from the run's id when it is not.                                  *)
ReplacementBranch == "renamed"

(* The branch of a pull request that is open keeps its name.               *)
MayRename == ~(config.changeRequest /\ run.url)

(* pushWithAdaptiveRecovery: a branch name the remote's policy refuses is  *)
(* replaced once.                                                          *)
Push(w) ==
  /\ At(w, "push")
  /\ \/ PushTo(wf[w].branch) /\ Go(w, "head")
     \/ /\ MayRename
        /\ PushTo(ReplacementBranch)
        /\ With(w, "head", [wf[w] EXCEPT !.branch = ReplacementBranch])
     \/ Go(w, "fail") /\ UNCHANGED remote
  /\ Read /\ UNCHANGED <<rest, git, reviews>>

(* What the board is told of the push.                                     *)
Pushed(w) == [run EXCEPT !.head = TreeHead, !.branch = wf[w].branch]

(* verifyContextFileAbsentFromHeadOrFail *)
NotesAreGone == config.checkpoints /\ config.notes => TreeHead \notin noted

RecordHead(w) ==
  /\ At(w, "head")
  /\ \/ NotesAreGone /\ Board(w, Pushed(w), "open")
     \/ Fails(w)
  /\ Quiet

OpenReview(w) ==
  /\ At(w, "open")
  /\ \/ run.url /\ Board(w, [run EXCEPT !.status = "PR_OPEN"], "rvRead")
     \/ ~run.url /\ With(w, "create", [wf[w] EXCEPT !.branch = run.branch]) /\ Read
  /\ Quiet

(* createReviewRequest: the SCM wants a branch without a pull request.     *)
CreateReviewRequest(w) ==
  /\ At(w, "create")
  /\ \/ /\ remote[wf[w].branch] # 0 /\ wf[w].branch \notin reviews
        /\ reviews' = reviews \cup {wf[w].branch}
        /\ Go(w, "prNote")
     \/ Go(w, "fail") /\ UNCHANGED reviews
  /\ Read /\ UNCHANGED <<rest, git, remote>>

RecordReview(w) ==
  /\ At(w, "prNote")
  /\ Board(w, [run EXCEPT !.status = "PR_OPEN", !.url = TRUE], "rvRead")
  /\ Quiet

-----------------------------------------------------------------------------
(* executeRunReview, as far as the run's other executors see it.           *)

AfterReview(w) == IF wf[w].mode = "review_only" THEN "ended" ELSE "preview"

ReadForReview(w) ==
  /\ At(w, "rvRead")
  /\ \/ run.review = "running" /\ Go(w, AfterReview(w)) /\ Read
     \/ /\ run.review # "running" /\ ~config.review
        /\ Board(w, [run EXCEPT !.review = "none"], AfterReview(w))
     \/ /\ run.review # "running" /\ config.review
        /\ With(w, "rvNote", [wf[w] EXCEPT !.round = run.round + 1]) /\ Read
  /\ Quiet

NoteReview(w) ==
  /\ At(w, "rvNote")
  /\ Transition([run EXCEPT !.review = "running", !.round = wf[w].round])
  /\ With(w, "rvWork", wf[w])
  /\ Quiet

ReviewWork(w) ==
  /\ At(w, "rvWork")
  /\ \E ok \in BOOLEAN : With(w, "rvEnd", [wf[w] EXCEPT !.ok = ok])
  /\ Read /\ Quiet

EndedReview(w) ==
    [run EXCEPT !.review = IF wf[w].ok THEN "completed" ELSE "failed",
                !.round = wf[w].round]

EndReview(w) ==
  /\ At(w, "rvEnd")
  /\ Board(w, EndedReview(w), AfterReview(w))
  /\ Quiet

-----------------------------------------------------------------------------
(* Preview and evidence.                                                   *)

(* Mutant: the run is left waiting for its preview. *)
GivenUp == [run EXCEPT !.evidence = "NOT_STARTED"]

WithoutPreview == [run EXCEPT !.status = "DONE", !.evidence = "NOT_STARTED"]

StartPreview(w) ==
  /\ At(w, "preview")
  /\ \/ ~config.preview /\ Board(w, WithoutPreview, "ended")
     \/ /\ config.preview
        /\ Transition([run EXCEPT !.status = "WAITING_PREVIEW"])
        /\ With(w, "poll", [wf[w] EXCEPT !.count = 0])
  /\ Quiet

(* waitForPreview; what listCommitChecks throws nobody catches.            *)
WaitForPreview(w) ==
  /\ At(w, "poll")
  /\ \/ run.head = 0 /\ Go(w, "noPreview")
     \/ /\ run.head # 0
        /\ \/ \E place \in {"found", "noPreview", "lost"} : Go(w, place)
           \/ /\ wf[w].count < MaxPolls
              /\ With(w, IF wf[w].count + 1 = MaxPolls THEN "noPreview" ELSE "poll",
                      [wf[w] EXCEPT !.count = @ + 1])
  /\ Read /\ Quiet

FoundPreview(w) ==
  /\ At(w, "found")
  /\ IF config.evidence
     THEN Board(w, [run EXCEPT !.status = "EVIDENCE_RUNNING", !.preview = TRUE,
                               !.evidence = "RUNNING"], "evidence")
     ELSE Board(w, [run EXCEPT !.status = "DONE", !.preview = TRUE,
                               !.evidence = "NOT_STARTED"], "ended")
  /\ Quiet

NoPreview(w) ==
  /\ At(w, "noPreview")
  /\ Board(w, WithoutPreview, "ended")
  /\ Quiet

(* runEvidence *)
ReadForEvidence(w) ==
  /\ At(w, "evidence")
  /\ Go(w, IF run.preview THEN "evNote" ELSE "fail")
  /\ Read /\ Quiet

StartEvidence(w) ==
  /\ At(w, "evNote")
  /\ Board(w, [run EXCEPT !.status = "EVIDENCE_RUNNING", !.evidence = "RUNNING"], "capture")
  /\ Quiet

CaptureEvidence(w) ==
  /\ At(w, "capture")
  /\ \E place \in {"comment", "fail"} : Go(w, place)
  /\ Read /\ Quiet

(* storeArtifactManifest, persistArtifactManifest and upsertRunComment;    *)
(* nobody catches an error.                                                *)
CommentOnReview(w) ==
  /\ At(w, "comment")
  /\ \E place \in {"evDone", "lost"} : Go(w, place)
  /\ Read /\ Quiet

EndEvidence(w) ==
  /\ At(w, "evDone")
  /\ Board(w, [run EXCEPT !.status = "DONE", !.evidence = "READY"], "ended")
  /\ Quiet

-----------------------------------------------------------------------------
(* An executor dies; nothing starts it again.                              *)
Crash(w) ==
  /\ "crash" \in Events
  /\ wf[w].at \in Live \cup {"asked"}
  /\ Go(w, "lost")
  /\ Read /\ Quiet

ExecutorStep(w) ==
  \/ FailRun(w) \/ Enter(w) \/ Bootstrap(w) \/ Checkout(w) \/ ReadForCheckpoint(w)
  \/ CommitCheckpoint(w) \/ SaveCheckpoint(w) \/ StartCodex(w) \/ WaitForCapacity(w)
  \/ CapacityIsBack(w) \/ StartProcess(w) \/ RecordProcess(w) \/ LlmEnds(w) \/ LlmReturns(w)
  \/ LlmFails(w) \/ StartTests(w) \/ StartPush(w) \/ PrepareReviewBranch(w)
  \/ CommitForReview(w) \/ Push(w) \/ RecordHead(w) \/ OpenReview(w)
  \/ CreateReviewRequest(w) \/ RecordReview(w) \/ ReadForReview(w) \/ NoteReview(w)
  \/ ReviewWork(w) \/ EndReview(w) \/ StartPreview(w) \/ WaitForPreview(w) \/ FoundPreview(w)
  \/ NoPreview(w) \/ ReadForEvidence(w) \/ StartEvidence(w) \/ CaptureEvidence(w)
  \/ CommentOnReview(w) \/ EndEvidence(w)

Next ==
  \/ \E w \in Workflows :
       \/ HandleRunTask(w) \/ HandleRetryEvidence(w) \/ HandleRetryPreview(w)
       \/ HandleRerunReview(w) \/ ScheduleRunJob(w) \/ Alarm(w) \/ Crash(w) \/ ExecutorStep(w)
  \/ HandleCancelRun \/ KillProcess \/ TakeOverRun \/ OperatorEdits

Spec == Init /\ [][Next]_vars

-----------------------------------------------------------------------------
(* Two executors of one run share its sandbox.  At most one of them gets   *)
(* past the checkout: no executor works in a tree another one changes.     *)
InTree == {"cpRead", "cpCommit", "cpSave", "codex", "capacity", "wait", "launch", "record",
           "llm", "llmEnd", "llmCatch", "tests", "pushing", "prepare", "commit", "push", "head"}
OneExecutorInTree ==
  \A v, w \in Workflows : wf[v].at \in InTree /\ wf[w].at \in InTree => v = w

(* The head a run records is the head of the branch it records: what the   *)
(* review checks out is what the preview and the evidence are made for.    *)
HeadIsOnBranch == run.head # 0 => remote[run.branch] = run.head

(* The notes an executor leaves for a later one are for the sandbox: no    *)
(* branch is ever pushed with them in its head, squashed or not (they are  *)
(* looked for only once they would have been pushed).                      *)
NotesStayHere == config.notes => \A b \in Branch : remote[b] \notin noted

(* What two workflows, a takeover and retries leave on the host: the       *)
(* branch a run records has the head it records, and no notes in it.       *)
BranchesAreRight == TypeOK /\ HeadIsOnBranch /\ NotesStayHere

(* A run that has not ended is in somebody's hands: of an executor that    *)
(* works or waits, or of an operator; or an executor was lost.             *)
NoStrandedRun ==
  (\A w \in Workflows : wf[w].at \in Over \ {"lost"})
     => IsTerminalRunStatus(run.status) \/ run.status = "OPERATOR_CONTROLLED"

(* A review the board calls running is one that somebody runs, unless an   *)
(* executor was lost; otherwise the run could never be reviewed again.     *)
NoStrandedReview ==
  run.review = "running" =>
     \E w \in Workflows : wf[w].at \in {"rvWork", "rvEnd", "lost"}

(* No run and no review is left under way with nobody at it, on whatever   *)
(* path an executor ends.                                                  *)
NothingStranded == NoStrandedRun /\ NoStrandedReview

(* An executor whose LLM was running when the operator took over does      *)
(* nothing more while the operator is in control (not so with Claude).     *)
TakeoverStopsLlm ==
  config.adapter # "claude_code" =>
     \A w \in held : LlmRuns(w) \/ wf[w].at \in Over

(* No executor, however late, brings a run back that has ended: only an    *)
(* operator does.                                                          *)
OnlyOperatorsReopen ==
  [][IsTerminalRunStatus(run.status) /\ run'.status # run.status
       => run'.status = "FAILED" \/ OperatorStep]_vars

(* selectLatestCheckpoint of retry-recovery.ts: what a retry starts from.  *)
RetryCheckpoint ==
  CHOOSE i \in DOMAIN run.checkpoints :
     \A j \in DOMAIN run.checkpoints :
        run.checkpoints[j].sequence <= run.checkpoints[i].sequence

(* The checkpoint a retry picks is the one made last, so it has all the    *)
(* work that was saved.                                                    *)
RetryTakesNewest ==
  run.checkpoints # <<>> =>
     \A j \in DOMAIN run.checkpoints :
        run.checkpoints[j].sha <= run.checkpoints[RetryCheckpoint].sha

-----------------------------------------------------------------------------
(* What makes these inductive.                                             *)

(* Commits are numbered as they are made, those of the run before first.   *)
CommitsKnown ==
  /\ config.changeRequest => commits >= 1 /\ 1 \notin noted
  /\ noted \subseteq 1..commits /\ run.head <= commits
  /\ \A b \in Branch : remote[b] <= commits
  /\ \A i \in DOMAIN tree.log : tree.log[i] <= commits

(* Whoever is past the checkout is in a tree that stays, so nobody comes   *)
(* after him, and what he has pushed is the last that is pushed.           *)
TreeIsTaken ==
  /\ \A w \in Workflows : wf[w].at \in InTree => tree.made
  /\ run.head # 0 => tree.made /\ \A w \in Workflows : wf[w].at \notin InTree
  /\ \A w \in Workflows : At(w, "head") => remote[wf[w].branch] = TreeHead

(* A tree without notes has a head without notes, but for edits that are   *)
(* still to be committed; notes are gone before the commit that is pushed. *)
NotesAreTracked ==
  config.notes =>
    /\ ~tree.note /\ ~tree.dirty => TreeHead \notin noted
    /\ \A w \in Workflows : At(w, "commit") => ~tree.note
    /\ \A w \in Workflows : wf[w].at \in {"push", "head"} => TreeHead \notin noted

(* How many checkpoints there may be where executor w is.                  *)
Saved(w) ==
  CASE wf[w].at \in {"cpRead", "cpCommit", "cpSave"} -> wf[w].phase - 1
    [] wf[w].at \in {"codex", "capacity", "wait", "launch", "record", "llm", "llmEnd",
                     "llmCatch"} -> 1
    [] wf[w].at = "tests" -> 2
    [] wf[w].at \in {"pushing", "prepare", "commit", "push", "head"} -> 3

(* Checkpoints are numbered in the order in which they are made, one for   *)
(* each phase at most.                                                     *)
CheckpointsInOrder ==
  LET made == run.checkpoints IN
  /\ \A i \in DOMAIN made : made[i].sequence = i /\ made[i].sha <= commits
  /\ \A i, j \in DOMAIN made : i <= j => made[i].sha <= made[j].sha
  /\ ~tree.made => made = <<>>
  /\ \A w \in Workflows :
       /\ wf[w].at \in InTree => Len(made) <= Saved(w)
       /\ wf[w].at \in {"cpCommit", "cpSave"} => wf[w].sequence = Len(made) + 1
       /\ At(w, "cpSave") => \A i \in DOMAIN made : made[i].sha <= wf[w].sha
       /\ At(w, "cpSave") => wf[w].sha <= commits

(* Who reviews only is at nothing else, and a run that has not ended is in *)
(* the hands of somebody who does more than that, or was.                  *)
ReviewersReview ==
  \A w \in Workflows : wf[w].mode = "review_only" =>
    wf[w].at \in Over \cup {"asked", "queued", "enter", "rvRead", "rvNote", "rvWork", "rvEnd"}
InHands ==
  \/ IsTerminalRunStatus(run.status) \/ run.status = "OPERATOR_CONTROLLED"
  \/ \E w \in Workflows :
       At(w, "lost") \/ (wf[w].at \notin Over /\ wf[w].mode # "review_only")

(* Whom an operator has stopped is at the LLM or has ended for good.       *)
HeldAreStopped ==
  /\ held # {} => run.status = "OPERATOR_CONTROLLED"
  /\ config.adapter # "claude_code" =>
       \A w \in held : LlmRuns(w) \/ wf[w].at \in {"ended", "failed", "lost"}

TreeInv == /\ OneExecutorInTree /\ TreeIsTaken /\ CommitsKnown /\ HeadIsOnBranch
           /\ NotesStayHere /\ NotesAreTracked /\ CheckpointsInOrder
HandsInv == ReviewersReview /\ InHands /\ NoStrandedReview /\ HeldAreStopped

=============================================================================
