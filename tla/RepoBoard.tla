------------------------------ MODULE RepoBoard ------------------------------
(***************************************************************************)
(* RepoBoardDO (durable/repo-board.ts): the durable object that owns the   *)
(* tasks and runs of one repo.                                             *)
(*                                                                         *)
(* A durable object runs one request at a time, except that a request      *)
(* awaiting another object lets others in.  Every operation below is       *)
(* therefore one action up to its first such await that later code depends *)
(* on: startRun awaits BoardIndexDO.getRepo between its checks and the     *)
(* creation of the run, and after persisting each operation awaits its     *)
(* events before it looks for dependent tasks to start.  `calls` holds     *)
(* what each caller still has to do, innermost frame first.                *)
(*                                                                         *)
(* An operation that throws before it assigns state, or that finds nothing *)
(* to change, is a stuttering step.                                        *)
(***************************************************************************)
EXTENDS DependencyState, Sequences, FiniteSets

CONSTANTS
  Callers,     \* the requests, workflows and controllers that call the board
  Operations,  \* the operations they call in this instance
  NewTasks,    \* the inputs createTask is called with
  Edits,       \* the inputs updateTask edits one with
  EditColumns, \* the columns updateTask moves a task to
  Patches,     \* the patches transitionRun is called with
  AutoRuns     \* bound: run numbers kept for automatic starts

TaskInput == [status: TaskStatus, deps: SUBSET Tasks, primary: Tasks \cup {NoTask},
              explicitSource: BOOLEAN, auto: {"unset", "off", "on"}]

(* RunTransitionPatch: "keep" is a field the patch leaves out. *)
Patch == [status: RunStatus \cup {NoRequest}, loop: LoopState \cup {NoRequest},
          sandbox: BOOLEAN, head: BOOLEAN, review: BOOLEAN,
          merge: MergeState \cup {NoRequest}]

ASSUME InputsAssumption ==
  /\ NewTasks \subseteq TaskInput
  /\ Edits \subseteq TaskInput
  /\ EditColumns \subseteq TaskStatus
  /\ Patches \subseteq Patch
  /\ AutoRuns \in Nat

VARIABLES
  tasks,    \* state.tasks, by task id
  runs,     \* state.runs, by run number
  created,  \* how many runs have been created
  calls,    \* per caller, the continuations of the operation it is in
  edited    \* history: the tasks whose column was last written by updateTask,
            \* or by a retried review phase of a run they do not point at

vars == <<tasks, runs, created, calls, edited>>

-----------------------------------------------------------------------------
(* Frames of a call in flight. *)

(* emitDependencyRefreshUpdates awaiting its events and getRepo. *)
ScanFrame == [op: {"scan"}, candidates: SUBSET Tasks]
(* autoStartRunnableDependencyTasks between two tasks of its loop, with what *)
(* it keeps of the snapshot it filtered: each task's lineage, and the tasks  *)
(* whose dependencies had all landed on the default branch.                  *)
LoopFrame == [op: {"loop"}, todo: SUBSET Tasks, lineage: [Tasks -> Tasks \cup {NoTask}],
              landed: SUBSET Tasks]
(* startRun awaiting getRepo, with the task as it read it. *)
StartFrame == [op: {"start"}, task: Tasks, lineage: Tasks \cup {NoTask},
               explicit: BOOLEAN, auto: BOOLEAN, base: 0..MaxRuns]
(* retryRun about to note the recovery it chose on the run it started. *)
NoteFrame == [op: {"note"}, run: RunIds]

Frame == ScanFrame \cup LoopFrame \cup StartFrame \cup NoteFrame

Idle(c)    == calls[c] = <<>>
At(c, op)  == calls[c] # <<>> /\ Head(calls[c]).op = op
Return(c)  == calls' = [calls EXCEPT ![c] = Tail(@)]
Replace(c, frames) == calls' = [calls EXCEPT ![c] = frames \o Tail(@)]
(* An exception leaves every frame of the call. *)
Throw(c)   == calls' = [calls EXCEPT ![c] = <<>>]

(* The end of every mutator: refresh the dependency states of the board it  *)
(* is about to store, persist, and go on to the tasks the refresh changed.  *)
Scan(T, R) ==
    IF ChangedTasks(T, R) = {} THEN <<>>
    ELSE <<[op |-> "scan", candidates |-> ChangedTasks(T, R)]>>

Store(T, R) ==
    /\ tasks' = RefreshDependencyStates(T, R)
    /\ runs' = R

Commit(c, T, R) ==
    /\ Store(T, R)
    /\ calls' = [calls EXCEPT ![c] = Scan(T, R)]

-----------------------------------------------------------------------------
NoReasons == [up \in Tasks |-> "none"]

VacantTask(life) ==
    [life |-> life, status |-> "INBOX", runId |-> NoRun, deps |-> {},
     primary |-> NoTask, explicitSource |-> FALSE, auto |-> "unset",
     autoStarted |-> FALSE, reasons |-> NoReasons]

VacantRun ==
    [task |-> NoTask, status |-> "QUEUED", loop |-> "QUEUED", sandbox |-> FALSE,
     head |-> FALSE, review |-> FALSE, merge |-> "unset", base |-> NoRun,
     source |-> "default_branch", upstream |-> NoRun]

Init ==
    /\ tasks = [t \in Tasks |-> VacantTask("unborn")]
    /\ runs = [r \in RunIds |-> VacantRun]
    /\ created = 0
    /\ calls = [c \in Callers |-> <<>>]
    /\ edited = {}

-----------------------------------------------------------------------------
(* Tasks *)

(* An id some client has been given. *)
Known(t) == tasks[t].life # "unborn"

NewTask(input) ==
    [VacantTask("live") EXCEPT !.status = input.status, !.deps = input.deps,
       !.primary = input.primary, !.explicitSource = input.explicitSource,
       !.auto = input.auto]

(* createTask, whose getRepo await comes before it reads the board. *)
CreateTask(c, input) ==
    /\ Idle(c)
    /\ \E t \in Tasks :
          /\ tasks[t].life = "unborn"
          /\ \A u \in 1..(t - 1) : Known(u)
          /\ \A up \in input.deps : Known(up)
          /\ Commit(c, [tasks EXCEPT ![t] = NewTask(input)], runs)
    /\ UNCHANGED <<created, edited>>

(* updateTask with a status in the patch: a card moved by hand. *)
MoveTask(c, t, column) ==
    /\ Idle(c)
    /\ Live(tasks, t)
    /\ Commit(c, [tasks EXCEPT ![t].status = column], runs)
    /\ edited' = edited \cup {t}
    /\ UNCHANGED created

Edited(task, input, started) ==
    [task EXCEPT !.deps = input.deps, !.primary = input.primary,
       !.explicitSource = task.explicitSource \/ input.explicitSource,
       !.auto = input.auto, !.autoStarted = started]

(* updateTask with dependencies, an automationState (whose autoStartedAt is  *)
(* the client's) or a sourceRef in the patch. A sourceRef is never cleared.  *)
EditTask(c, t, input, started) ==
    /\ Idle(c)
    /\ Live(tasks, t)
    /\ t \notin input.deps
    /\ \A up \in input.deps : Known(up)
    /\ Commit(c, [tasks EXCEPT ![t] = Edited(tasks[t], input, started)], runs)
    /\ UNCHANGED <<created, edited>>

(* deleteTask drops the task with its runs and refreshes nothing. *)
DeleteTask(c, t) ==
    /\ Idle(c)
    /\ Live(tasks, t)
    /\ tasks' = [tasks EXCEPT ![t] = VacantTask("deleted")]
    /\ runs' = [r \in RunIds |-> IF runs[r].task = t THEN VacantRun ELSE runs[r]]
    /\ edited' = edited \ {t}
    /\ UNCHANGED <<created, calls>>

-----------------------------------------------------------------------------
(* Starting a run *)

(* Bound: the run numbers left, those of the startRuns in flight counted    *)
(* off; the last AutoRuns of them are for automatic starts.                 *)
Pending == Cardinality({c \in Callers : At(c, "start")})
RoomFor(auto) == created + Pending < MaxRuns - IF auto THEN 0 ELSE AutoRuns

(* startRun up to getRepo. It hands back a run that is active already,      *)
(* unless forced to make a new one, and for an automatic start any run the  *)
(* task points at.                                                          *)
HandsBackRun(t, force, auto) ==
    \/ ~force /\ \E r \in RunsOf(runs, t) : ActiveRun(runs, r)
    \/ /\ auto
       /\ tasks[t].runId # NoRun
       /\ Exists(runs, tasks[t].runId) \/ RunsOf(runs, t) # {}

Starting(t, override, auto, base) ==
    [op |-> "start", task |-> t, lineage |-> PickDependencyForLineage(tasks[t]),
     explicit |-> override \/ tasks[t].explicitSource, auto |-> auto, base |-> base]

StartRun(c, t) ==
    /\ Idle(c)
    /\ Live(tasks, t)
    /\ ~HandsBackRun(t, FALSE, FALSE)
    /\ RoomFor(FALSE)
    /\ calls' = [calls EXCEPT ![c] = <<Starting(t, FALSE, FALSE, NoRun)>>]
    /\ UNCHANGED <<tasks, runs, created, edited>>

(* retryRun: from one of the run's checkpoints if it has any, whose commit  *)
(* overrides the source.                                                    *)
RetryRun(c, r, checkpoint) ==
    /\ Idle(c)
    /\ Exists(runs, r)
    /\ Live(tasks, runs[r].task)
    /\ RoomFor(FALSE)
    /\ calls' = [calls EXCEPT ![c] = <<Starting(runs[r].task, checkpoint, FALSE, r)>>]
    /\ UNCHANGED <<tasks, runs, created, edited>>

QueuedRun(t, base, source) ==
    [VacantRun EXCEPT !.task = t, !.base = base,
                      !.source = source.mode, !.upstream = source.upstream]

(* Mutant: the task is not pointed at its run. *)
StartedUnlinked(task, r, auto) ==
    [task EXCEPT !.status = "ACTIVE",
                 !.autoStarted = @ \/ (auto /\ task.auto # "unset")]

Started(task, r, auto) ==
    [task EXCEPT !.status = "ACTIVE", !.runId = r,
                 !.autoStarted = @ \/ (auto /\ task.auto # "unset")]

(* startRun after getRepo. Source and board are read again, the checks are  *)
(* not made again. With the task gone meanwhile, the run is stored and the  *)
(* call then fails on the task's event.                                     *)
CreateRun(c) ==
    /\ At(c, "start")
    /\ created < MaxRuns
    /\ created' = created + 1
    /\ LET f == Head(calls[c])
           t == f.task
           r == created + 1
           source == ResolveRunSource(tasks, runs, f.lineage, f.explicit)
           R == [runs EXCEPT ![r] = QueuedRun(t, f.base, source)]
           T == [tasks EXCEPT ![t] = IF Live(tasks, t) THEN Started(@, r, f.auto) ELSE @]
           note == IF f.base = NoRun THEN <<>> ELSE <<[op |-> "note", run |-> r]>>
       IN /\ Store(T, R)
          /\ IF Live(tasks, t) THEN Replace(c, Scan(T, R) \o note) ELSE Throw(c)
          /\ edited' = edited \ {t}

-----------------------------------------------------------------------------
(* Starting the tasks that a refresh has made runnable *)

IsRunnableDependencyAutoStartTask(t) ==
    /\ tasks[t].deps # {}
    /\ Unblocked(tasks, t)
    /\ tasks[t].auto = "on"
    /\ ~tasks[t].explicitSource
    /\ tasks[t].status \notin {"ACTIVE", "REVIEW", "DONE"}

(* The default branch has all that t, not begun yet, depends on. *)
LandedForNewWork(t) ==
    /\ tasks[t].status \in {"INBOX", "READY"}
    /\ \A up \in tasks[t].deps :
          Live(tasks, up) /\ IsDependencyMergedToDefaultBranch(tasks, runs, up)

(* canAutoStartFromResolvedDependencySource, and that no run is active. *)
CanAutoStart(t, lineage, landed) ==
    /\ ~\E r \in RunsOf(runs, t) : ActiveRun(runs, r)
    /\ \/ ResolveRunSource(tasks, runs, lineage, FALSE).mode = "dependency_review_head"
       \/ landed

(* The loop, newest task first, up to the next startRun that awaits getRepo. *)
(* Starting a task that has been deleted throws out of the loop.             *)
Loop(c, f) ==
    LET starts == {t \in f.todo : /\ CanAutoStart(t, f.lineage[t], t \in f.landed)
                                  /\ Live(tasks, t) => ~HandsBackRun(t, FALSE, TRUE)}
        after(t) == {u \in f.todo : u < t}
        rest(t) == IF after(t) = {} THEN <<>>
                   ELSE <<[f EXCEPT !.todo = after(t), !.landed = @ \cap after(t),
                             !.lineage = [u \in Tasks |-> IF u < t THEN @[u] ELSE NoTask]]>>
    IN IF starts = {} THEN Return(c)
       ELSE \E t \in starts :
              /\ \A u \in starts : u <= t
              /\ IF Live(tasks, t)
                 THEN /\ RoomFor(TRUE)
                      /\ Replace(c, <<Starting(t, FALSE, TRUE, NoRun)>> \o rest(t))
                 ELSE Throw(c)

(* autoStartRunnableDependencyTasks after getRepo: the tasks it will look at *)
(* come from the board as it finds it there.                                 *)
ScanTasks(c) ==
    /\ At(c, "scan")
    /\ LET todo == {t \in Head(calls[c]).candidates :
                      /\ Live(tasks, t)
                      /\ IsRunnableDependencyAutoStartTask(t)
                      /\ tasks[t].runId = NoRun
                      /\ RunsOf(runs, t) = {}
                      /\ ~tasks[t].autoStarted}
           landed == {t \in todo : LandedForNewWork(t)}
           lineage == [t \in Tasks |-> IF t \in todo
                                       THEN PickDependencyForLineage(tasks[t]) ELSE NoTask]
       IN Loop(c, [op |-> "loop", todo |-> todo, lineage |-> lineage, landed |-> landed])
    /\ UNCHANGED <<tasks, runs, created, edited>>

(* The loop once the startRun it awaited has returned. *)
AutoStartTask(c) ==
    /\ At(c, "loop")
    /\ Loop(c, Head(calls[c]))
    /\ UNCHANGED <<tasks, runs, created, edited>>

-----------------------------------------------------------------------------
(* Runs *)

(* Mutant: a patch that leaves the review out clears it. *)
PatchedWhole(run, p) ==
    LET status == IF p.status = NoRequest THEN run.status ELSE p.status
    IN [run EXCEPT !.status = status,
                   !.loop = ResolveLoopState(@, p.loop, status),
                   !.sandbox = @ \/ p.sandbox, !.head = @ \/ p.head, !.review = p.review,
                   !.merge = IF p.merge = NoRequest THEN @ ELSE p.merge]

(* applyRunTransition *)
Patched(run, p) ==
    LET status == IF p.status = NoRequest THEN run.status ELSE p.status
    IN [run EXCEPT !.status = status,
                   !.loop = ResolveLoopState(@, p.loop, status),
                   !.sandbox = @ \/ p.sandbox,
                   !.head = @ \/ p.head,
                   !.review = @ \/ p.review,
                   !.merge = IF p.merge = NoRequest THEN @ ELSE p.merge]

(* Mutant: nothing is dropped. *)
AcceptsAll(run, p) == TRUE

(* A patch that would move an ended run to another status is dropped whole. *)
Accepts(run, p) ==
    p.status \notin {NoRequest, run.status} => ~IsTerminalRunStatus(run.status)

(* The board once run r has become `run` and its task's column follows.     *)
ShowRun(r, run, column) ==
    [tasks EXCEPT ![run.task].status = column, ![run.task].runId = r]

Patching(r, p) == [runs EXCEPT ![r] = Patched(runs[r], p)]
ShowPatched(r, p) ==
    ShowRun(r, runs[r], DeriveTaskStatus(Patching(r, p)[r].status, Patching(r, p)[r].review,
                                         tasks[runs[r].task].status))

TransitionRun(c, r, p) ==
    /\ Idle(c)
    /\ Exists(runs, r)
    /\ Accepts(runs[r], p)
    /\ Live(tasks, runs[r].task)
    /\ Commit(c, ShowPatched(r, p), Patching(r, p))
    /\ edited' = edited \ {runs[r].task}
    /\ UNCHANGED created

(* transitionRunFromLoopState: the same, if the loop state is the expected. *)
TransitionRunFromLoopState(c, r, expected, p) ==
    /\ runs[r].loop = expected
    /\ TransitionRun(c, r, p)

NoteOnly == [status |-> NoRequest, loop |-> NoRequest, sandbox |-> FALSE,
             head |-> FALSE, review |-> FALSE, merge |-> NoRequest]

(* The end of retryRun: a transition of the new run that adds a note. *)
NoteRetry(c) ==
    /\ At(c, "note")
    /\ LET r == Head(calls[c]).run IN
       IF Exists(runs, r) /\ Live(tasks, runs[r].task)
       THEN /\ Commit(c, ShowPatched(r, NoteOnly), Patching(r, NoteOnly))
            /\ edited' = edited \ {runs[r].task}
       ELSE Throw(c) /\ UNCHANGED <<tasks, runs, edited>>
    /\ UNCHANGED created

(* markRunFailed: the executor's failRun, and an operator's cancel. *)
MarkRunFailed(c, r) ==
    /\ Idle(c)
    /\ Exists(runs, r)
    /\ Live(tasks, runs[r].task)
    /\ Commit(c, ShowRun(r, runs[r], IF runs[r].review THEN "REVIEW" ELSE "FAILED"),
              [runs EXCEPT ![r].status = "FAILED"])
    /\ edited' = edited \ {runs[r].task}
    /\ UNCHANGED created

(* requestRunChanges: a new run on the same review, whatever runs already.  *)
RequestRunChanges(c, r) ==
    /\ Idle(c)
    /\ Exists(runs, r)
    /\ Live(tasks, runs[r].task)
    /\ RoomFor(FALSE)
    /\ created < MaxRuns
    /\ created' = created + 1
    /\ Commit(c, ShowRun(created + 1, runs[r], "ACTIVE"),
              [runs EXCEPT ![created + 1] =
                 [VacantRun EXCEPT !.task = runs[r].task, !.loop = "RERUN_QUEUED",
                    !.review = runs[r].review, !.merge = runs[r].merge, !.base = r,
                    !.source = runs[r].source, !.upstream = runs[r].upstream]])
    /\ edited' = edited \ {runs[r].task}

(* retryEvidence and retryPreview: they move the run back to its review     *)
(* phase from any status, and its task to REVIEW, the run the task points   *)
(* at left as it is. Which of the two statuses depends on the preview URL.  *)
RetryReviewPhase(c, r, status) ==
    /\ Idle(c)
    /\ Exists(runs, r)
    /\ LET t == runs[r].task
       IN /\ Commit(c, [tasks EXCEPT ![t].status = IF Live(tasks, t) THEN "REVIEW" ELSE @],
                    [runs EXCEPT ![r].status = status])
          /\ edited' = IF Live(tasks, t) /\ tasks[t].runId # r
                       THEN edited \cup {t} ELSE edited \ {t}
    /\ UNCHANGED created

RetryEvidence(c, r) ==
    \E status \in {"EVIDENCE_RUNNING", "WAITING_PREVIEW"} : RetryReviewPhase(c, r, status)
RetryPreview(c, r) == RetryReviewPhase(c, r, "WAITING_PREVIEW")

(* takeOverRun *)
TakeOverRun(c, r) ==
    /\ Idle(c)
    /\ Exists(runs, r)
    /\ runs[r].sandbox
    /\ Live(tasks, runs[r].task)
    /\ Commit(c, ShowRun(r, runs[r], "ACTIVE"),
              [runs EXCEPT ![r].status = "OPERATOR_CONTROLLED"])
    /\ edited' = edited \ {runs[r].task}
    /\ UNCHANGED created

(* What a call awaits fails (BoardIndexDO.getRepo and notifyRepoEvent throw, *)
(* a persist fails) or the durable object restarts: what the call has stored *)
(* stays, the rest of it is lost.                                            *)
Interrupt(c) ==
    /\ ~Idle(c)
    /\ Throw(c)
    /\ UNCHANGED <<tasks, runs, created, edited>>

-----------------------------------------------------------------------------
(* The operations a caller may begin, and the end of one begun. *)
Operate(c) ==
    \/ "createTask" \in Operations /\ \E input \in NewTasks : CreateTask(c, input)
    \/ "moveTask" \in Operations
         /\ \E t \in Tasks, column \in EditColumns : MoveTask(c, t, column)
    \/ "editTask" \in Operations
         /\ \E t \in Tasks, input \in Edits, started \in BOOLEAN :
               EditTask(c, t, input, started)
    \/ "deleteTask" \in Operations /\ \E t \in Tasks : DeleteTask(c, t)
    \/ "startRun" \in Operations /\ \E t \in Tasks : StartRun(c, t)
    \/ "retryRun" \in Operations
         /\ \E r \in RunIds, checkpoint \in BOOLEAN : RetryRun(c, r, checkpoint)
    \/ "transitionRun" \in Operations
         /\ \E r \in RunIds, p \in Patches : TransitionRun(c, r, p)
    \/ "transitionRunFromLoopState" \in Operations
         /\ \E r \in RunIds, p \in Patches :
               TransitionRunFromLoopState(c, r, "DECISION_REQUIRED", p)
    \/ "markRunFailed" \in Operations /\ \E r \in RunIds : MarkRunFailed(c, r)
    \/ "requestRunChanges" \in Operations /\ \E r \in RunIds : RequestRunChanges(c, r)
    \/ "retryEvidence" \in Operations /\ \E r \in RunIds : RetryEvidence(c, r)
    \/ "retryPreview" \in Operations /\ \E r \in RunIds : RetryPreview(c, r)
    \/ "takeOverRun" \in Operations /\ \E r \in RunIds : TakeOverRun(c, r)
    \/ "interrupt" \in Operations /\ Interrupt(c)

(* The rest of an operation, once what it awaited has come back. *)
Continue(c) == CreateRun(c) \/ ScanTasks(c) \/ AutoStartTask(c) \/ NoteRetry(c)

Next == \E c \in Callers : Operate(c) \/ Continue(c)

Spec == Init /\ [][Next]_vars

(* The board goes on with every call it has begun; nobody has to call it. *)
FairSpec == Spec /\ \A c \in Callers : WF_vars(Continue(c))

-----------------------------------------------------------------------------
TypeOK ==
    /\ tasks \in [Tasks -> Task]
    /\ runs \in [RunIds -> Run]
    /\ created \in 0..MaxRuns
    /\ calls \in [Callers -> Seq(Frame)]
    /\ edited \subseteq Tasks

(* A live task points at a run of its own, and at one as soon as it has any: *)
(* deletions, starts that lost their task and late transitions of older runs *)
(* never leave it pointing nowhere or at another task's run.                 *)
RunPointerValid ==
    \A t \in Tasks :
       /\ Live(tasks, t) /\ tasks[t].runId # NoRun => runs[tasks[t].runId].task = t
       /\ tasks[t].runId = NoRun => \A r \in RunsOf(runs, t) : tasks[t].life = "deleted"

(* The columns a task may be in when it points at `run`.                    *)
FitsColumn(run, column) ==
    IF run.status \in ExecutionPhase THEN column = "ACTIVE"
    ELSE column = "DONE"
         \/ column = (IF run.status = "FAILED" /\ ~run.review THEN "FAILED" ELSE "REVIEW")

(* The board shows what happens: whoever wrote last - executor, cancel,      *)
(* takeover, retry, an older run's late transition - a task's column agrees  *)
(* with the run it points at, unless a person moved the card since.          *)
BoardShowsRun ==
    \A t \in Tasks \ edited :
       Live(tasks, t) /\ tasks[t].runId # NoRun
          => FitsColumn(runs[tasks[t].runId], tasks[t].status)

(* A run stored after its task was deleted (startRun was awaiting getRepo)   *)
(* is never driven: it waits as it was queued, or as a retry of its preview  *)
(* or evidence left it.                                                      *)
OrphanRunsInert ==
    \A r \in RunIds :
       Exists(runs, r) /\ ~Live(tasks, runs[r].task)
          => /\ runs[r].status \in {"QUEUED", "WAITING_PREVIEW", "EVIDENCE_RUNNING"}
             /\ ~runs[r].sandbox /\ ~runs[r].review /\ ~runs[r].head

(* Whichever operation changed an upstream task or its runs, a task's        *)
(* stored dependencyState is what a refresh now would compute, except about  *)
(* an upstream deleted since (deleteTask does not refresh).                  *)
DependencyStateFresh ==
    \A t \in Tasks : Live(tasks, t) /\ tasks[t].deps # {} =>
       \A up \in Tasks :
          \/ tasks[t].reasons[up] = ReasonsFor(tasks, runs, t)[up]
          \/ up \in tasks[t].deps /\ tasks[up].life = "deleted"

(* A run said to continue an upstream's review was created after that run    *)
(* had pushed a commit and opened its review, and that stays so.             *)
UpstreamHeadReviewed ==
    \A r \in RunIds : runs[r].source = "dependency_review_head"
       => /\ runs[r].upstream \in 1..(r - 1)
          /\ LET up == runs[runs[r].upstream] IN
             up.task # NoTask => up.head /\ up.review /\ up.task # runs[r].task

(* What makes pointers, columns and orphans inductive. *)
NumbersVacant == \A r \in RunIds : r > created => runs[r] = VacantRun
UnbornEmpty   == \A t \in Tasks : tasks[t].life = "unborn" => tasks[t].runId = NoRun
StartsKnown   == \A c \in Callers : \A i \in 1..Len(calls[c]) :
                    calls[c][i].op = "start" => Known(calls[c][i].task)
BoardInv == /\ NumbersVacant /\ UnbornEmpty /\ StartsKnown
            /\ RunPointerValid /\ BoardShowsRun /\ OrphanRunsInert

(* What makes UpstreamHeadReviewed inductive: no start continues its own task. *)
NoSelfDeps    == \A t \in Tasks : t \notin tasks[t].deps
Foreign(f)    == f.op = "start" => f.lineage # f.task
StartsForeign == \A c \in Callers : \A i \in 1..Len(calls[c]) : Foreign(calls[c][i])
LineageInv    == NoSelfDeps /\ StartsForeign /\ UpstreamHeadReviewed

(* An ended run is moved again only by a takeover, a retry of its evidence   *)
(* or preview, a second failure, or its task's deletion: no late message of  *)
(* its executor brings it back to life.                                      *)
EndedRunsStayEnded ==
    [][\A r \in RunIds :
          Exists(runs, r) /\ IsTerminalRunStatus(runs[r].status)
             => \/ ~Exists(runs', r)
                \/ runs'[r].status \in {runs[r].status, "FAILED", "OPERATOR_CONTROLLED",
                                        "WAITING_PREVIEW", "EVIDENCE_RUNNING"}]_vars

(* A rerun is queued on a run only out of a decision asked for, and a        *)
(* decision is asked for only out of a pending review.                       *)
LoopGate ==
    [][\A r \in RunIds :
          Exists(runs, r) /\ Exists(runs', r) /\ runs'[r].loop # runs[r].loop
             => /\ runs'[r].loop = "RERUN_QUEUED" => runs[r].loop = "DECISION_REQUIRED"
                /\ runs'[r].loop = "DECISION_REQUIRED" => runs[r].loop = "REVIEW_PENDING"]_vars

(* How a run may move, whatever executors, operators and the review loop     *)
(* ask of it and however late: an ended run stays ended, and a rerun is      *)
(* queued only out of a decision.                                            *)
RunsMoveOn == EndedRunsStayEnded /\ LoopGate

(* The board in one: whatever calls came and were interleaved, a task's      *)
(* pointer, its column and its runs agree, and runs without a task are inert.*)
TasksMatchRuns == TypeOK /\ RunPointerValid /\ BoardShowsRun /\ OrphanRunsInert

(* The board would start t now if it looked. *)
Eligible(t) ==
    /\ Live(tasks, t)
    /\ IsRunnableDependencyAutoStartTask(t)
    /\ tasks[t].runId = NoRun
    /\ ~tasks[t].autoStarted
    /\ CanAutoStart(t, PickDependencyForLineage(tasks[t]), LandedForNewWork(t))

(* No task is stranded: as long as no task is deleted, one that may start    *)
(* automatically is started, or stops being startable, whatever scans were   *)
(* under way when it became so. No client has to call again.                 *)
EligibleEventuallyStarted ==
    \A t \in Tasks :
       Eligible(t) ~> ~Eligible(t) \/ \E u \in Tasks : tasks[u].life = "deleted"

-----------------------------------------------------------------------------
(* The runs of the board, as a ledger: RunLedger is what the board's clients *)
(* may take for granted of them.                                             *)
Stage(r) == CASE r > created                     -> "absent"
              [] r <= created /\ ~Exists(runs, r) -> "dropped"
              [] r <= created /\ Exists(runs, r)  ->
                    IF IsTerminalRunStatus(runs[r].status) THEN "ended" ELSE "open"

Ledger == INSTANCE RunLedger WITH
            stage     <- [r \in RunIds |-> Stage(r)],
            owner     <- [r \in RunIds |-> runs[r].task],
            published <- {r \in RunIds : runs[r].review}

(* The board implements the ledger, whatever runs concurrently: a run number *)
(* is used once, a run never changes its task, an operation moves one run,   *)
(* a review once opened is kept, and only the task's deletion removes runs.  *)
LedgerSpec == Ledger!Spec

-----------------------------------------------------------------------------
(* What the documents promise and the code does not keep. *)

New(r) == ~Exists(runs, r) /\ Exists(runs', r)

(* docs/plans/archive/stage_2.md, idempotency contract: "starting a run for a *)
(* task with an active non-terminal run returns that run". startRun checks    *)
(* before it awaits getRepo, and not after.                                   *)
StartReturnsActiveRun ==
    [][\A r \in RunIds : New(r) /\ runs'[r].base = NoRun
          => ~\E q \in RunsOf(runs, runs'[r].task) : ActiveRun(runs, q)]_vars

(* An automatic start that creates its run in this step. *)
AutoCreates(c) == At(c, "start") /\ Head(calls[c]).auto /\ created' # created
                  /\ calls'[c] # calls[c]

(* docs/plans/archive/stage_3_1.md, source resolution: "use `default_branch`  *)
(* when dependencies are satisfied because the upstream work has landed on    *)
(* the repo default branch". The source is resolved again after getRepo and   *)
(* used whatever it is by then.                                               *)
AutoDefaultBranchHasLanded ==
    [][\A c \in Callers : AutoCreates(c) /\ runs'[created'].source = "default_branch"
          => \A up \in tasks[Head(calls[c]).task].deps :
                Live(tasks, up) /\ IsDependencyMergedToDefaultBranch(tasks, runs, up)]_vars
=============================================================================
