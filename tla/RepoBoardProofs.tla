--------------------------- MODULE RepoBoardProofs ---------------------------
(***************************************************************************)
(* Proofs about RepoBoard, for any number of tasks, runs and callers.      *)
(***************************************************************************)
EXTENDS RepoBoard, FiniteSetTheorems, TLAPS

(* What operations write into tasks and runs keeps them well-typed. *)
LEMMA TaskUpdates ==
  ASSUME NEW task \in Task, NEW column \in TaskStatus, NEW r \in 0..MaxRuns
  PROVE  /\ [task EXCEPT !.status = column] \in Task
         /\ [task EXCEPT !.status = column, !.runId = r] \in Task
BY DEF Task

LEMMA TaskStarts ==
  ASSUME NEW task \in Task, NEW column \in TaskStatus, NEW r \in 0..MaxRuns,
         NEW started \in BOOLEAN
  PROVE  [task EXCEPT !.status = column, !.runId = r, !.autoStarted = started] \in Task
BY DEF Task

LEMMA TaskEdits ==
  ASSUME NEW task \in Task, NEW input \in TaskInput, NEW started \in BOOLEAN,
         NEW explicit \in BOOLEAN
  PROVE  /\ [task EXCEPT !.status = input.status, !.deps = input.deps,
                !.primary = input.primary, !.explicitSource = explicit,
                !.auto = input.auto] \in Task
         /\ [task EXCEPT !.deps = input.deps, !.primary = input.primary,
                !.explicitSource = explicit, !.auto = input.auto,
                !.autoStarted = started] \in Task
<1>1. /\ input.status \in TaskStatus /\ input.deps \in SUBSET Tasks
      /\ input.primary \in Tasks \cup {NoTask} /\ input.auto \in {"unset", "off", "on"}
  BY DEF TaskInput
<1> QED BY <1>1 DEF Task

LEMMA RunUpdates ==
  ASSUME NEW run \in Run, NEW status \in RunStatus, NEW loop \in LoopState,
         NEW sandbox \in BOOLEAN, NEW head \in BOOLEAN, NEW review \in BOOLEAN,
         NEW merge \in MergeState
  PROVE  /\ [run EXCEPT !.status = status] \in Run
         /\ [run EXCEPT !.status = status, !.loop = loop, !.sandbox = sandbox,
                        !.head = head, !.review = review, !.merge = merge] \in Run
BY DEF Run

LEMMA RunTakesUp ==
  ASSUME NEW old \in Run, NEW run \in Run, NEW r \in 0..MaxRuns
  PROVE  [run EXCEPT !.task = old.task, !.loop = "RERUN_QUEUED", !.review = old.review,
             !.merge = old.merge, !.base = r, !.source = old.source,
             !.upstream = old.upstream] \in Run
BY DEF Run, LoopState

USE DEF Tasks, NoTask, RunIds, NoRun

-----------------------------------------------------------------------------
(* Dependency states *)

(* A refresh computes a reason of the declared kind for each upstream.       *)
LEMMA ReasonType ==
  ASSUME NEW T, NEW R, NEW t \in Tasks
  PROVE  ReasonsFor(T, R, t) \in [Tasks -> Reason]
<1> SUFFICES ASSUME NEW up \in Tasks
             PROVE  ReasonFor(T, R, up) \in Reason
  BY DEF ReasonsFor, Reason
<1> DEFINE merged == IsDependencyMergedToDefaultBranch(T, R, up)
<1>1. CASE ~Live(T, up)
  BY <1>1 DEF ReasonFor, Reason
<1>2. CASE Live(T, up) /\ merged
  BY <1>2 DEF ReasonFor, Reason
<1>3. CASE Live(T, up) /\ ~merged
  BY <1>3 DEF ReasonFor, Reason
<1> QED BY <1>1, <1>2, <1>3

(* A refresh keeps everything of a task but its reasons.                     *)
LEMMA RefreshKeeps ==
  ASSUME NEW T \in [Tasks -> Task], NEW R, NEW t \in Tasks
  PROVE  LET task == RefreshDependencyStates(T, R)[t]
         IN /\ task \in Task
            /\ task.life = T[t].life
            /\ task.status = T[t].status
            /\ task.runId = T[t].runId
            /\ task.deps = T[t].deps
<1> DEFINE F == ReasonsFor(T, R, t)
<1>1. F \in [Tasks -> Reason]
  BY ReasonType
<1>2. T[t] \in Task
  OBVIOUS
<1>3. RefreshDependencyStates(T, R)[t] \in {T[t], [T[t] EXCEPT !.reasons = F]}
  BY DEF RefreshDependencyStates
<1> HIDE DEF F
<1> QED BY <1>1, <1>2, <1>3 DEF Task

LEMMA RefreshType ==
  ASSUME NEW T \in [Tasks -> Task], NEW R
  PROVE  RefreshDependencyStates(T, R) \in [Tasks -> Task]
BY RefreshKeeps DEF RefreshDependencyStates

LEMMA ScanType ==
  ASSUME NEW T, NEW R
  PROVE  Scan(T, R) \in Seq(Frame)
<1>1. ChangedTasks(T, R) \in SUBSET Tasks
  BY DEF ChangedTasks
<1>2. [op |-> "scan", candidates |-> ChangedTasks(T, R)] \in Frame
  BY <1>1 DEF Frame, ScanFrame
<1> QED BY <1>2 DEF Scan

-----------------------------------------------------------------------------
(* Type correctness *)

LEMMA CommitType ==
  ASSUME TypeOK, NEW c \in Callers, NEW T \in [Tasks -> Task], NEW R \in [RunIds -> Run],
         Commit(c, T, R)
  PROVE  /\ tasks' \in [Tasks -> Task]
         /\ runs' \in [RunIds -> Run]
         /\ calls' \in [Callers -> Seq(Frame)]
BY RefreshType, ScanType DEF Commit, Store, TypeOK

(* A task put on the board by ShowRun is well-typed. *)
LEMMA ShowRunType ==
  ASSUME TypeOK, NEW r \in RunIds, NEW run \in Run, run.task # NoTask,
         NEW column \in TaskStatus
  PROVE  ShowRun(r, run, column) \in [Tasks -> Task]
<1>1. run.task \in Tasks
  BY DEF Run
<1>2. tasks[run.task] \in Task
  BY <1>1 DEF TypeOK
<1> DEFINE shown == [tasks[run.task] EXCEPT !.status = column, !.runId = r]
<1>3. shown \in Task
  <2>1. r \in 0..MaxRuns
    BY RunsAssumption
  <2> QED BY <1>2, <2>1, TaskUpdates, Zenon
<1>4. ShowRun(r, run, column) = [tasks EXCEPT ![run.task] = shown]
  BY <1>1, <1>2 DEF ShowRun, TypeOK, Task
<1> HIDE DEF shown
<1> QED BY <1>1, <1>3, <1>4 DEF TypeOK

LEMMA VacantTypes ==
  /\ VacantRun \in Run
  /\ \A life \in {"unborn", "live", "deleted"} : VacantTask(life) \in Task
BY TasksAssumption, RunsAssumption
   DEF VacantRun, Run, RunStatus, ExecutionPhase, LoopState, MergeState, SourceMode,
       VacantTask, NoReasons, Task, TaskStatus, Reason

(* A transition leaves a run well-typed: the loop state it resolves is one. *)
LEMMA ResolveType ==
  ASSUME NEW current \in LoopState, NEW requested \in LoopState \cup {NoRequest},
         NEW status \in RunStatus
  PROVE  ResolveLoopState(current, requested, status) \in LoopState
<1>1. InferLoopState(status, current) \in LoopState
  <2>1. CASE status = "QUEUED"
    BY <2>1 DEF InferLoopState, LoopState
  <2>2. CASE status = "DONE"
    BY <2>2 DEF InferLoopState, LoopState
  <2>3. CASE status = "FAILED"
    BY <2>3 DEF InferLoopState, LoopState
  <2>4. CASE status \in RunStatus \ {"QUEUED", "DONE", "FAILED"}
    BY <2>4 DEF InferLoopState, LoopState
  <2> QED BY <2>1, <2>2, <2>3, <2>4
<1> QED BY <1>1 DEF ResolveLoopState

LEMMA PatchedType ==
  ASSUME NEW run \in Run, NEW p \in Patch
  PROVE  Patched(run, p) \in Run
<1> DEFINE status == IF p.status = NoRequest THEN run.status ELSE p.status
<1>1. status \in RunStatus
  BY DEF Patch, Run
<1>2. ResolveLoopState(run.loop, p.loop, status) \in LoopState
  BY <1>1, ResolveType DEF Patch, Run
<1> DEFINE loop == ResolveLoopState(run.loop, p.loop, status)
           sandbox == run.sandbox \/ p.sandbox
           head == run.head \/ p.head
           review == run.review \/ p.review
           merge == IF p.merge = NoRequest THEN run.merge ELSE p.merge
<1>3. sandbox \in BOOLEAN /\ head \in BOOLEAN /\ review \in BOOLEAN
  OBVIOUS
<1>4. merge \in MergeState
  BY DEF Patch, Run
<1>5. Patched(run, p) = [run EXCEPT !.status = status, !.loop = loop, !.sandbox = sandbox,
                                    !.head = head, !.review = review, !.merge = merge]
  BY Zenon DEF Patched
<1>7. loop \in LoopState
  BY <1>2
<1> HIDE DEF status, loop, sandbox, head, review, merge
<1>6. [run EXCEPT !.status = status, !.loop = loop, !.sandbox = sandbox,
                  !.head = head, !.review = review, !.merge = merge] \in Run
  BY <1>1, <1>3, <1>4, <1>7, RunUpdates, Zenon
<1> QED BY <1>5, <1>6, Zenon

LEMMA DeriveType ==
  ASSUME NEW status, NEW hasReview, NEW current
  PROVE  DeriveTaskStatus(status, hasReview, current) \in TaskStatus
<1>1. CASE status \in ExecutionPhase
  BY <1>1 DEF DeriveTaskStatus, TaskStatus
<1>2. CASE status \notin ExecutionPhase /\ current = "DONE"
  BY <1>2 DEF DeriveTaskStatus, TaskStatus
<1>3. CASE status \notin ExecutionPhase /\ current # "DONE"
  BY <1>3 DEF DeriveTaskStatus, TaskStatus
<1> QED BY <1>1, <1>2, <1>3

LEMMA ShowPatchedType ==
  ASSUME TypeOK, NEW r \in RunIds, Exists(runs, r), NEW p \in Patch
  PROVE  /\ Patching(r, p) \in [RunIds -> Run]
         /\ ShowPatched(r, p) \in [Tasks -> Task]
<1>1. runs[r] \in Run /\ Patched(runs[r], p) \in Run
  BY PatchedType DEF TypeOK
<1>2. Patching(r, p) \in [RunIds -> Run]
  BY <1>1 DEF Patching, TypeOK
<1>3. ShowPatched(r, p) \in [Tasks -> Task]
  BY <1>1, DeriveType, ShowRunType DEF ShowPatched, Exists
<1> QED BY <1>2, <1>3

(* A run's source names a mode and, if any, the run it continues.            *)
LEMMA LatestRunType ==
  ASSUME NEW R, NEW t
  PROVE  LatestRun(R, t) \in 0..MaxRuns
BY RunsAssumption DEF LatestRun, RunsOf

LEMMA SourceType ==
  ASSUME NEW T, NEW R, NEW up, NEW explicit
  PROVE  /\ ResolveRunSource(T, R, up, explicit).mode \in SourceMode
         /\ ResolveRunSource(T, R, up, explicit).upstream \in 0..MaxRuns
<1>1. CASE explicit
  BY <1>1, RunsAssumption DEF ResolveRunSource, SourceMode
<1>2. CASE ~explicit /\ HasReviewHead(T, R, up)
  BY <1>2, LatestRunType DEF ResolveRunSource, SourceMode
<1>3. CASE ~explicit /\ ~HasReviewHead(T, R, up)
  BY <1>3, RunsAssumption DEF ResolveRunSource, SourceMode
<1> QED BY <1>1, <1>2, <1>3

LEMMA LineageType ==
  ASSUME NEW task \in Task
  PROVE  PickDependencyForLineage(task) \in Tasks \cup {NoTask}
<1>1. task.primary \in Tasks \cup {NoTask}
  BY DEF Task
<1>2. CASE \E up \in Tasks : task.deps = {up}
  BY <1>2 DEF PickDependencyForLineage
<1>3. CASE ~\E up \in Tasks : task.deps = {up}
  BY <1>1, <1>3 DEF PickDependencyForLineage
<1> QED BY <1>2, <1>3

(* The frame of a startRun under way. *)
LEMMA StartingType ==
  ASSUME TypeOK, NEW t \in Tasks, NEW override \in BOOLEAN, NEW auto \in BOOLEAN,
         NEW base \in 0..MaxRuns
  PROVE  Starting(t, override, auto, base) \in StartFrame
<1>1. tasks[t] \in Task /\ tasks[t].explicitSource \in BOOLEAN
  BY DEF TypeOK, Task
<1>2. PickDependencyForLineage(tasks[t]) \in Tasks \cup {NoTask}
  BY <1>1, LineageType
<1>3. (override \/ tasks[t].explicitSource) \in BOOLEAN
  OBVIOUS
<1> QED BY <1>2, <1>3 DEF Starting, StartFrame

-----------------------------------------------------------------------------
(* Type correctness, operation by operation *)

LEMMA CreateTaskType ==
  ASSUME TypeOK, NEW c \in Callers, NEW input \in NewTasks, CreateTask(c, input)
  PROVE  TypeOK'
<1> PICK t \in Tasks : Commit(c, [tasks EXCEPT ![t] = NewTask(input)], runs)
  BY DEF CreateTask
<1>1. NewTask(input) \in Task
  <2>1. input \in TaskInput /\ input.explicitSource \in BOOLEAN
    BY InputsAssumption DEF TaskInput
  <2> QED BY <2>1, VacantTypes, TaskEdits, Zenon DEF NewTask
<1>2. [tasks EXCEPT ![t] = NewTask(input)] \in [Tasks -> Task] /\ runs \in [RunIds -> Run]
  BY <1>1 DEF TypeOK
<1> QED BY <1>2, CommitType DEF CreateTask, TypeOK

LEMMA MoveTaskType ==
  ASSUME TypeOK, NEW c \in Callers, NEW t \in Tasks, NEW column \in EditColumns,
         MoveTask(c, t, column)
  PROVE  TypeOK'
<1> DEFINE moved == [tasks[t] EXCEPT !.status = column]
<1>1. moved \in Task
  <2>1. tasks[t] \in Task /\ column \in TaskStatus /\ 0 \in 0..MaxRuns
    BY InputsAssumption, RunsAssumption DEF TypeOK
  <2> QED BY <2>1, TaskUpdates, Zenon
<1>2. Commit(c, [tasks EXCEPT ![t] = moved], runs)
  BY DEF MoveTask
<1> HIDE DEF moved
<1>3. [tasks EXCEPT ![t] = moved] \in [Tasks -> Task] /\ runs \in [RunIds -> Run]
  BY <1>1 DEF TypeOK
<1> QED BY <1>2, <1>3, CommitType DEF MoveTask, TypeOK

LEMMA EditTaskType ==
  ASSUME TypeOK, NEW c \in Callers, NEW t \in Tasks, NEW input \in Edits,
         NEW started \in BOOLEAN, EditTask(c, t, input, started)
  PROVE  TypeOK'
<1> DEFINE new == Edited(tasks[t], input, started)
<1>1. new \in Task
  <2> DEFINE explicit == tasks[t].explicitSource \/ input.explicitSource
  <2>1. tasks[t] \in Task /\ input \in TaskInput /\ explicit \in BOOLEAN
    BY InputsAssumption DEF TypeOK
  <2>2. new = [tasks[t] EXCEPT !.deps = input.deps, !.primary = input.primary,
                  !.explicitSource = explicit, !.auto = input.auto, !.autoStarted = started]
    BY Zenon DEF Edited
  <2> HIDE DEF explicit, new
  <2>3. [tasks[t] EXCEPT !.deps = input.deps, !.primary = input.primary,
            !.explicitSource = explicit, !.auto = input.auto, !.autoStarted = started]
          \in Task
    BY <2>1, TaskEdits, Zenon
  <2> QED BY <2>2, <2>3, Zenon
<1>2. [tasks EXCEPT ![t] = new] \in [Tasks -> Task] /\ runs \in [RunIds -> Run]
  BY <1>1 DEF TypeOK
<1> QED BY <1>2, CommitType DEF EditTask, TypeOK

LEMMA DeleteTaskType ==
  ASSUME TypeOK, NEW c \in Callers, NEW t \in Tasks, DeleteTask(c, t)
  PROVE  TypeOK'
BY VacantTypes DEF DeleteTask, TypeOK

LEMMA OneFrame ==
  ASSUME NEW f \in Frame
  PROVE  <<f>> \in Seq(Frame)
OBVIOUS

LEMMA FramesJoin ==
  ASSUME NEW s \in Seq(Frame), NEW u \in Seq(Frame)
  PROVE  s \o u \in Seq(Frame)
OBVIOUS

LEMMA CallsSet ==
  ASSUME TypeOK, NEW c \in Callers, NEW s \in Seq(Frame),
         calls' = [calls EXCEPT ![c] = s], UNCHANGED <<tasks, runs, created, edited>>
  PROVE  TypeOK'
BY DEF TypeOK

LEMMA StartRunType ==
  ASSUME TypeOK, NEW c \in Callers, NEW t \in Tasks, StartRun(c, t)
  PROVE  TypeOK'
<1> DEFINE f == Starting(t, FALSE, FALSE, NoRun)
<1>1. NoRun \in 0..MaxRuns /\ FALSE \in BOOLEAN
  BY RunsAssumption
<1>2. f \in Frame
  BY <1>1, StartingType, Zenon DEF Frame
<1>3. calls' = [calls EXCEPT ![c] = <<f>>] /\ UNCHANGED <<tasks, runs, created, edited>>
  BY DEF StartRun
<1> HIDE DEF f
<1>4. <<f>> \in Seq(Frame)
  BY <1>2, OneFrame
<1> QED BY <1>3, <1>4, CallsSet, Zenon

LEMMA RetryRunType ==
  ASSUME TypeOK, NEW c \in Callers, NEW r \in RunIds, NEW checkpoint \in BOOLEAN,
         RetryRun(c, r, checkpoint)
  PROVE  TypeOK'
<1>1. runs[r].task \in Tasks
  BY DEF RetryRun, Exists, TypeOK, Run
<1> DEFINE f == Starting(runs[r].task, checkpoint, FALSE, r)
<1>2. r \in 0..MaxRuns /\ FALSE \in BOOLEAN
  BY RunsAssumption
<1>3. f \in Frame
  BY <1>1, <1>2, StartingType, Zenon DEF Frame
<1>4. calls' = [calls EXCEPT ![c] = <<f>>] /\ UNCHANGED <<tasks, runs, created, edited>>
  BY DEF RetryRun
<1> HIDE DEF f
<1>5. <<f>> \in Seq(Frame)
  BY <1>3, OneFrame
<1> QED BY <1>4, <1>5, CallsSet, Zenon

(* What Return, Replace and Throw leave of a call. *)
LEMMA CallsType ==
  ASSUME TypeOK, NEW c \in Callers, calls[c] # <<>>, NEW frames \in Seq(Frame),
         Return(c) \/ Replace(c, frames) \/ Throw(c)
  PROVE  calls' \in [Callers -> Seq(Frame)]
<1>1. Tail(calls[c]) \in Seq(Frame) /\ <<>> \in Seq(Frame)
  BY DEF TypeOK
<1>2. frames \o Tail(calls[c]) \in Seq(Frame)
  BY <1>1
<1>3. \E s \in Seq(Frame) : calls' = [calls EXCEPT ![c] = s]
  BY <1>1, <1>2, Zenon DEF Return, Replace, Throw
<1> QED BY <1>3 DEF TypeOK

LEMMA CreateRunType ==
  ASSUME TypeOK, NEW c \in Callers, CreateRun(c)
  PROVE  TypeOK'
<1> DEFINE f == Head(calls[c])
           t == f.task
           r == created + 1
           source == ResolveRunSource(tasks, runs, f.lineage, f.explicit)
           R == [runs EXCEPT ![r] = QueuedRun(t, f.base, source)]
           T == [tasks EXCEPT ![t] = IF Live(tasks, t) THEN Started(@, r, f.auto) ELSE @]
           note == IF f.base = NoRun THEN <<>> ELSE <<[op |-> "note", run |-> r]>>
<1>1. f \in StartFrame /\ calls[c] # <<>>
  BY DEF CreateRun, At, TypeOK, Frame, StartFrame, ScanFrame, LoopFrame, NoteFrame
<1>2. r \in RunIds
  BY RunsAssumption DEF CreateRun, TypeOK
<1>3. t \in Tasks /\ f.base \in 0..MaxRuns /\ f.auto \in BOOLEAN
  BY <1>1 DEF StartFrame
<1>4. R \in [RunIds -> Run]
  <2>1. QueuedRun(t, f.base, source) \in Run
    <3>1. source.mode \in SourceMode /\ source.upstream \in 0..MaxRuns
      BY SourceType
    <3> HIDE DEF source
    <3> QED BY <1>3, <3>1, VacantTypes DEF QueuedRun, Run
  <2> QED BY <1>2, <2>1 DEF TypeOK
<1>5. T \in [Tasks -> Task]
  <2>1. Started(tasks[t], r, f.auto) \in Task
    <3> DEFINE started == tasks[t].autoStarted \/ (f.auto /\ tasks[t].auto # "unset")
    <3>1. tasks[t] \in Task /\ "ACTIVE" \in TaskStatus /\ r \in 0..MaxRuns
      BY <1>2, <1>3, RunsAssumption DEF TypeOK, TaskStatus
    <3>3. started \in BOOLEAN
      OBVIOUS
    <3>2. Started(tasks[t], r, f.auto)
            = [tasks[t] EXCEPT !.status = "ACTIVE", !.runId = r, !.autoStarted = started]
      BY Zenon DEF Started
    <3> HIDE DEF started, f, t, r
    <3>4. [tasks[t] EXCEPT !.status = "ACTIVE", !.runId = r, !.autoStarted = started] \in Task
      BY <3>1, <3>3, TaskStarts, Zenon
    <3> QED BY <3>2, <3>4, Zenon
  <2> QED BY <1>3, <2>1 DEF TypeOK
<1>6. Scan(T, R) \o note \in Seq(Frame)
  <2>1. Scan(T, R) \in Seq(Frame)
    BY ScanType
  <2>2. [op |-> "note", run |-> r] \in Frame
    BY <1>2 DEF Frame, NoteFrame
  <2>3. note \in Seq(Frame)
    BY <2>2, OneFrame
  <2> HIDE DEF note
  <2> QED BY <2>1, <2>3
<1> HIDE DEF f, t, r, R, T, note
<1>7. /\ Store(T, R)
      /\ Replace(c, Scan(T, R) \o note) \/ Throw(c)
      /\ created' = created + 1
      /\ edited' = edited \ {t}
  BY Zenon DEF CreateRun, f, t, r, R, T, note
<1>8. tasks' \in [Tasks -> Task] /\ runs' \in [RunIds -> Run]
  BY <1>4, <1>5, <1>7, RefreshType DEF Store
<1>9. calls' \in [Callers -> Seq(Frame)]
  BY <1>1, <1>6, <1>7, CallsType
<1>10. created' \in 0..MaxRuns
  BY <1>7, RunsAssumption DEF CreateRun, TypeOK
<1> QED BY <1>7, <1>8, <1>9, <1>10 DEF TypeOK

(* The loop starts a live task, and keeps at most a loop to go on with.      *)
LEMMA LoopCalls ==
  ASSUME TypeOK, NEW c \in Callers, NEW f \in LoopFrame, f.op = "loop", Loop(c, f)
  PROVE  \/ Return(c) \/ Throw(c)
         \/ \E t \in Tasks, rest \in Seq(Frame) :
              /\ Live(tasks, t)
              /\ \A i \in 1..Len(rest) : rest[i].op # "start"
              /\ Replace(c, <<Starting(t, FALSE, TRUE, NoRun)>> \o rest)
<1> DEFINE after(t) == {u \in f.todo : u < t}
           rest(t) == IF after(t) = {} THEN <<>>
                      ELSE <<[f EXCEPT !.todo = after(t), !.landed = @ \cap after(t),
                                !.lineage = [u \in Tasks |-> IF u < t THEN @[u] ELSE NoTask]]>>
<1>1. Return(c) \/ Throw(c)
      \/ \E t \in f.todo : /\ Live(tasks, t)
                           /\ Replace(c, <<Starting(t, FALSE, TRUE, NoRun)>> \o rest(t))
  BY Zenon DEF Loop
<1>2. ASSUME NEW t \in f.todo
      PROVE  t \in Tasks /\ rest(t) \in Seq(Frame)
             /\ \A i \in 1..Len(rest(t)) : rest(t)[i].op # "start"
  <2> DEFINE lineage == [u \in Tasks |-> IF u < t THEN f.lineage[u] ELSE NoTask]
             left == [f EXCEPT !.todo = after(t), !.landed = f.landed \cap after(t),
                               !.lineage = lineage]
  <2>1. lineage \in [Tasks -> Tasks \cup {NoTask}]
    BY DEF LoopFrame
  <2>2. after(t) \in SUBSET Tasks /\ f.landed \cap after(t) \in SUBSET Tasks /\ t \in Tasks
    BY DEF LoopFrame
  <2>3. rest(t) = IF after(t) = {} THEN <<>> ELSE <<left>>
    OBVIOUS
  <2>4. left \in LoopFrame /\ left.op = "loop"
    <3> HIDE DEF lineage, after
    <3> QED BY <2>1, <2>2 DEF LoopFrame
  <2>5. <<left>> \in Seq(Frame)
    <3> HIDE DEF left
    <3> QED BY <2>4, OneFrame DEF Frame
  <2> HIDE DEF left, after, rest
  <2> QED BY <2>2, <2>3, <2>4, <2>5
<1> HIDE DEF rest
<1> QED BY <1>1, <1>2, Zenon

LEMMA LoopType ==
  ASSUME TypeOK, NEW c \in Callers, calls[c] # <<>>, NEW f \in LoopFrame, f.op = "loop",
         Loop(c, f)
  PROVE  calls' \in [Callers -> Seq(Frame)]
<1>1. CASE Return(c) \/ Throw(c)
  <2>1. <<>> \in Seq(Frame)
    OBVIOUS
  <2> QED BY <1>1, <2>1, CallsType
<1>2. ASSUME NEW t \in Tasks, NEW rest \in Seq(Frame),
             Replace(c, <<Starting(t, FALSE, TRUE, NoRun)>> \o rest)
      PROVE  calls' \in [Callers -> Seq(Frame)]
  <2>1. NoRun \in 0..MaxRuns /\ FALSE \in BOOLEAN /\ TRUE \in BOOLEAN
    BY RunsAssumption
  <2>2. Starting(t, FALSE, TRUE, NoRun) \in Frame
    BY <2>1, StartingType, Zenon DEF Frame
  <2>3. <<Starting(t, FALSE, TRUE, NoRun)>> \in Seq(Frame)
    BY <2>2, OneFrame, Zenon
  <2>4. <<Starting(t, FALSE, TRUE, NoRun)>> \o rest \in Seq(Frame)
    BY <2>3, FramesJoin, Zenon
  <2> QED BY <1>2, <2>4, CallsType, Zenon
<1> QED BY <1>1, <1>2, LoopCalls, Zenon

(* Both ways into the loop. *)
LEMMA IntoLoop ==
  ASSUME TypeOK, NEW c \in Callers, ScanTasks(c) \/ AutoStartTask(c)
  PROVE  /\ calls[c] # <<>> /\ UNCHANGED <<tasks, runs, created, edited>>
         /\ \E f \in LoopFrame : f.op = "loop" /\ Loop(c, f)
<1>1. CASE ScanTasks(c)
  <2>1. calls[c] # <<>> /\ UNCHANGED <<tasks, runs, created, edited>>
    BY <1>1 DEF ScanTasks, At
  <2>2. Head(calls[c]).candidates \in SUBSET Tasks
    BY <1>1 DEF ScanTasks, At, TypeOK, Frame, ScanFrame, LoopFrame, StartFrame, NoteFrame
  <2> DEFINE todo == {t \in Head(calls[c]).candidates :
                       /\ Live(tasks, t)
                       /\ IsRunnableDependencyAutoStartTask(t)
                       /\ tasks[t].runId = NoRun
                       /\ RunsOf(runs, t) = {}
                       /\ ~tasks[t].autoStarted}
             landed == {t \in todo : LandedForNewWork(t)}
             lineage == [t \in Tasks |-> IF t \in todo
                                         THEN PickDependencyForLineage(tasks[t]) ELSE NoTask]
             f == [op |-> "loop", todo |-> todo, lineage |-> lineage, landed |-> landed]
  <2>3. todo \in SUBSET Tasks /\ landed \in SUBSET Tasks
    BY <2>2
  <2>4. lineage \in [Tasks -> Tasks \cup {NoTask}]
    BY LineageType DEF TypeOK
  <2>5. Loop(c, f)
    BY <1>1, Zenon DEF ScanTasks
  <2> HIDE DEF todo, landed, lineage
  <2>6. f \in LoopFrame /\ f.op = "loop"
    BY <2>3, <2>4 DEF LoopFrame
  <2> QED BY <2>1, <2>5, <2>6
<1>2. CASE AutoStartTask(c)
  <2>1. calls[c] # <<>> /\ UNCHANGED <<tasks, runs, created, edited>>
        /\ Loop(c, Head(calls[c]))
    BY <1>2 DEF AutoStartTask, At
  <2>2. Head(calls[c]) \in LoopFrame /\ Head(calls[c]).op = "loop"
    BY <1>2 DEF AutoStartTask, At, TypeOK, Frame, ScanFrame, LoopFrame, StartFrame, NoteFrame
  <2> QED BY <2>1, <2>2
<1> QED BY <1>1, <1>2

LEMMA LoopStepType ==
  ASSUME TypeOK, NEW c \in Callers, ScanTasks(c) \/ AutoStartTask(c)
  PROVE  TypeOK'
BY IntoLoop, LoopType DEF TypeOK

LEMMA InterruptType ==
  ASSUME TypeOK, NEW c \in Callers, Interrupt(c)
  PROVE  TypeOK'
<1>1. <<>> \in Seq(Frame)
  OBVIOUS
<1> QED BY <1>1, CallsSet DEF Interrupt, Throw

LEMMA NoteOnlyType == NoteOnly \in Patch
BY DEF NoteOnly, Patch, NoRequest

LEMMA TransitionRunType ==
  ASSUME TypeOK, NEW c \in Callers, NEW r \in RunIds, NEW p \in Patch, TransitionRun(c, r, p)
  PROVE  TypeOK'
<1>1. Commit(c, ShowPatched(r, p), Patching(r, p)) /\ Exists(runs, r)
      /\ edited' \subseteq edited /\ created' = created
  BY DEF TransitionRun
<1> QED BY <1>1, ShowPatchedType, CommitType DEF TypeOK

LEMMA NoteRetryType ==
  ASSUME TypeOK, NEW c \in Callers, NoteRetry(c)
  PROVE  TypeOK'
<1> DEFINE r == Head(calls[c]).run
<1>1. r \in RunIds /\ calls[c] # <<>>
  BY DEF NoteRetry, At, TypeOK, Frame, ScanFrame, LoopFrame, StartFrame, NoteFrame
<1>2. CASE Exists(runs, r) /\ Live(tasks, runs[r].task)
  <2>1. Commit(c, ShowPatched(r, NoteOnly), Patching(r, NoteOnly))
        /\ edited' \subseteq edited /\ created' = created
    BY <1>2 DEF NoteRetry
  <2> QED BY <1>1, <1>2, <2>1, ShowPatchedType, NoteOnlyType, CommitType DEF TypeOK
<1>3. CASE ~(Exists(runs, r) /\ Live(tasks, runs[r].task))
  <2>1. Throw(c) /\ UNCHANGED <<tasks, runs, edited, created>>
    BY <1>3 DEF NoteRetry
  <2> QED BY <1>1, <2>1 DEF Throw, TypeOK
<1> QED BY <1>2, <1>3

(* A run put in another status, and its task shown accordingly. *)
LEMMA RestatusType ==
  ASSUME TypeOK, NEW c \in Callers, NEW r \in RunIds, Exists(runs, r),
         NEW column \in TaskStatus, NEW status \in RunStatus,
         Commit(c, ShowRun(r, runs[r], column), [runs EXCEPT ![r].status = status]),
         edited' \subseteq edited, created' = created
  PROVE  TypeOK'
<1>1. runs[r] \in Run /\ runs[r].task # NoTask
  BY DEF TypeOK, Exists
<1>2. [runs EXCEPT ![r].status = status] \in [RunIds -> Run]
  BY <1>1 DEF TypeOK, Run
<1>3. ShowRun(r, runs[r], column) \in [Tasks -> Task]
  BY <1>1, ShowRunType
<1> QED BY <1>2, <1>3, CommitType DEF TypeOK

LEMMA MarkRunFailedType ==
  ASSUME TypeOK, NEW c \in Callers, NEW r \in RunIds, MarkRunFailed(c, r)
  PROVE  TypeOK'
<1> DEFINE column == IF runs[r].review THEN "REVIEW" ELSE "FAILED"
<1>1. column \in TaskStatus /\ "FAILED" \in RunStatus
  BY DEF TaskStatus, RunStatus
<1>2. /\ Commit(c, ShowRun(r, runs[r], column), [runs EXCEPT ![r].status = "FAILED"])
      /\ Exists(runs, r) /\ edited' \subseteq edited /\ created' = created
  BY DEF MarkRunFailed
<1> HIDE DEF column
<1> QED BY <1>1, <1>2, RestatusType

LEMMA TakeOverRunType ==
  ASSUME TypeOK, NEW c \in Callers, NEW r \in RunIds, TakeOverRun(c, r)
  PROVE  TypeOK'
<1>1. "ACTIVE" \in TaskStatus /\ "OPERATOR_CONTROLLED" \in RunStatus
  BY DEF TaskStatus, RunStatus, ExecutionPhase
<1>2. /\ Commit(c, ShowRun(r, runs[r], "ACTIVE"),
                [runs EXCEPT ![r].status = "OPERATOR_CONTROLLED"])
      /\ Exists(runs, r) /\ edited' \subseteq edited /\ created' = created
  BY DEF TakeOverRun
<1> QED BY <1>1, <1>2, RestatusType

LEMMA RetryReviewPhaseType ==
  ASSUME TypeOK, NEW c \in Callers, NEW r \in RunIds, NEW status \in ReviewPhase,
         RetryReviewPhase(c, r, status)
  PROVE  TypeOK'
<1> DEFINE t == runs[r].task
           column == IF Live(tasks, t) THEN "REVIEW" ELSE tasks[t].status
           T == [tasks EXCEPT ![t].status = column]
           R == [runs EXCEPT ![r].status = status]
<1>1. runs[r] \in Run /\ t \in Tasks
  BY DEF RetryReviewPhase, Exists, TypeOK, Run
<1>2. tasks[t] \in Task /\ column \in TaskStatus
  BY <1>1 DEF TypeOK, Task, TaskStatus
<1>3. R \in [RunIds -> Run]
  BY <1>1 DEF TypeOK, Run, RunStatus
<1>4. T \in [Tasks -> Task]
  <2> HIDE DEF column, t
  <2>1. [tasks[t] EXCEPT !.status = column] \in Task
    BY <1>2 DEF Task
  <2> QED BY <1>1, <2>1 DEF TypeOK
<1>5. Commit(c, T, R) /\ created' = created
      /\ (edited' = edited \cup {t} \/ edited' = edited \ {t})
  BY Zenon DEF RetryReviewPhase
<1> HIDE DEF T, R, t
<1> QED BY <1>1, <1>3, <1>4, <1>5, CommitType DEF TypeOK

LEMMA RequestRunChangesType ==
  ASSUME TypeOK, NEW c \in Callers, NEW r \in RunIds, RequestRunChanges(c, r)
  PROVE  TypeOK'
<1> DEFINE n == created + 1
           new == [VacantRun EXCEPT !.task = runs[r].task, !.loop = "RERUN_QUEUED",
                     !.review = runs[r].review, !.merge = runs[r].merge, !.base = r,
                     !.source = runs[r].source, !.upstream = runs[r].upstream]
<1>1. runs[r] \in Run /\ runs[r].task # NoTask
  BY DEF RequestRunChanges, Exists, TypeOK
<1>2. n \in RunIds /\ n \in 0..MaxRuns
  BY RunsAssumption DEF RequestRunChanges, TypeOK
<1>3. new \in Run
  <2>1. r \in 0..MaxRuns
    BY RunsAssumption
  <2> QED BY <1>1, <2>1, VacantTypes, RunTakesUp, Zenon
<1>4. ShowRun(n, runs[r], "ACTIVE") \in [Tasks -> Task]
  <2>1. "ACTIVE" \in TaskStatus
    BY DEF TaskStatus
  <2> HIDE DEF n
  <2> QED BY <1>1, <1>2, <2>1, ShowRunType
<1>5. /\ Commit(c, ShowRun(n, runs[r], "ACTIVE"), [runs EXCEPT ![n] = new])
      /\ edited' \subseteq edited /\ created' = n
  BY DEF RequestRunChanges
<1> HIDE DEF n, new
<1>6. [runs EXCEPT ![n] = new] \in [RunIds -> Run]
  BY <1>2, <1>3 DEF TypeOK
<1> QED BY <1>2, <1>4, <1>5, <1>6, CommitType DEF TypeOK

(* Every step keeps the board well-typed. *)
LEMMA NextType == TypeOK /\ [Next]_vars => TypeOK'
<1> SUFFICES ASSUME TypeOK, [Next]_vars PROVE TypeOK'
  OBVIOUS
<1>1. CASE UNCHANGED vars
  BY <1>1 DEF vars, TypeOK
<1>2. ASSUME NEW c \in Callers, Operate(c) PROVE TypeOK'
  <2>1. ASSUME NEW input \in NewTasks, CreateTask(c, input) PROVE TypeOK'
    BY <2>1, CreateTaskType
  <2>2. ASSUME NEW t \in Tasks, NEW column \in EditColumns, MoveTask(c, t, column)
        PROVE TypeOK'
    BY <2>2, MoveTaskType
  <2>3. ASSUME NEW t \in Tasks, NEW input \in Edits, NEW started \in BOOLEAN,
               EditTask(c, t, input, started)
        PROVE TypeOK'
    BY <2>3, EditTaskType
  <2>4. ASSUME NEW t \in Tasks, DeleteTask(c, t) PROVE TypeOK'
    BY <2>4, DeleteTaskType
  <2>5. ASSUME NEW t \in Tasks, StartRun(c, t) PROVE TypeOK'
    BY <2>5, StartRunType
  <2>6. ASSUME NEW r \in RunIds, NEW checkpoint \in BOOLEAN, RetryRun(c, r, checkpoint)
        PROVE TypeOK'
    BY <2>6, RetryRunType
  <2>7. ASSUME NEW r \in RunIds, NEW p \in Patches, TransitionRun(c, r, p) PROVE TypeOK'
    BY <2>7, InputsAssumption, TransitionRunType
  <2>8. ASSUME NEW r \in RunIds, NEW p \in Patches,
               TransitionRunFromLoopState(c, r, "DECISION_REQUIRED", p)
        PROVE TypeOK'
    BY <2>8, InputsAssumption, TransitionRunType DEF TransitionRunFromLoopState
  <2>9. ASSUME NEW r \in RunIds, MarkRunFailed(c, r) PROVE TypeOK'
    BY <2>9, MarkRunFailedType
  <2>10. ASSUME NEW r \in RunIds, RequestRunChanges(c, r) PROVE TypeOK'
    BY <2>10, RequestRunChangesType
  <2>11. ASSUME NEW r \in RunIds, RetryEvidence(c, r) PROVE TypeOK'
    BY <2>11, RetryReviewPhaseType DEF RetryEvidence, ReviewPhase
  <2>12. ASSUME NEW r \in RunIds, RetryPreview(c, r) PROVE TypeOK'
    BY <2>12, RetryReviewPhaseType DEF RetryPreview, ReviewPhase
  <2>13. ASSUME NEW r \in RunIds, TakeOverRun(c, r) PROVE TypeOK'
    BY <2>13, TakeOverRunType
  <2>14. ASSUME Interrupt(c) PROVE TypeOK'
    BY <2>14, InterruptType
  <2> QED BY <1>2, <2>1, <2>2, <2>3, <2>4, <2>5, <2>6, <2>7, <2>8, <2>9, <2>10, <2>11,
             <2>12, <2>13, <2>14, Zenon DEF Operate
<1>3. ASSUME NEW c \in Callers, Continue(c) PROVE TypeOK'
  BY <1>3, CreateRunType, LoopStepType, NoteRetryType DEF Continue
<1> QED BY <1>1, <1>2, <1>3 DEF Next

(* The board is well-typed in every state. *)
THEOREM TypeCorrect == Spec => []TypeOK
<1>1. Init => TypeOK
  BY VacantTypes, RunsAssumption DEF Init, TypeOK
<1>2. TypeOK /\ [Next]_vars => TypeOK'
  BY NextType
<1> QED BY <1>1, <1>2, PTL DEF Spec

-----------------------------------------------------------------------------
(* Pointers, columns and orphans *)

(* What a mutator stores, as far as these invariants can tell. *)
LEMMA CommitKeeps ==
  ASSUME TypeOK, NEW c \in Callers, NEW T \in [Tasks -> Task], NEW R, Commit(c, T, R)
  PROVE  /\ runs' = R
         /\ \A t \in Tasks : /\ tasks'[t].life = T[t].life
                             /\ tasks'[t].status = T[t].status
                             /\ tasks'[t].runId = T[t].runId
BY RefreshKeeps DEF Commit, Store

(* The frames part of the invariant, for a step that leaves `s` of call c. *)
LEMMA StartsKept ==
  ASSUME TypeOK, StartsKnown, \A t \in Tasks : Known(t) => Known(t)',
         NEW c \in Callers, NEW s \in Seq(Frame), calls' = [calls EXCEPT ![c] = s],
         \A i \in 1..Len(s) : s[i].op = "start" => Known(s[i].task)'
  PROVE  StartsKnown'
<1> SUFFICES ASSUME NEW d \in Callers, NEW i \in 1..Len(calls'[d]),
                    calls'[d][i].op = "start"
             PROVE  tasks'[calls'[d][i].task].life # "unborn"
  BY DEF StartsKnown, Known
<1>1. CASE d = c
  <2>1. calls'[d] = s
    BY <1>1 DEF TypeOK
  <2> QED BY <2>1 DEF Known
<1>2. CASE d # c
  <2>1. calls'[d] = calls[d] /\ calls[d] \in Seq(Frame) /\ i \in 1..Len(calls[d])
    BY <1>2 DEF TypeOK
  <2>2. calls[d][i] \in Frame
    BY <2>1
  <2>3. calls[d][i].task \in Tasks
    BY <2>1, <2>2 DEF Frame, ScanFrame, LoopFrame, StartFrame, NoteFrame
  <2>4. Known(calls[d][i].task)
    BY <2>1 DEF StartsKnown
  <2> QED BY <2>1, <2>3, <2>4 DEF Known
<1> QED BY <1>1, <1>2

(* After a mutator only a scan is left to do. *)
LEMMA CommitStarts ==
  ASSUME TypeOK, StartsKnown, NEW c \in Callers, NEW T \in [Tasks -> Task], NEW R,
         Commit(c, T, R), \A t \in Tasks : Known(t) => T[t].life # "unborn"
  PROVE  StartsKnown'
<1>1. \A t \in Tasks : Known(t) => Known(t)'
  BY CommitKeeps DEF Known
<1>2. \A i \in 1..Len(Scan(T, R)) : Scan(T, R)[i].op # "start"
  BY DEF Scan
<1>3. calls' = [calls EXCEPT ![c] = Scan(T, R)]
  BY DEF Commit
<1>4. Scan(T, R) \in Seq(Frame)
  BY ScanType
<1> HIDE DEF Scan
<1> QED BY <1>1, <1>2, <1>3, <1>4, StartsKept

(* Operations that only begin or advance a call. *)
LEMMA CallsInv ==
  ASSUME TypeOK, BoardInv, NEW c \in Callers, NEW s \in Seq(Frame),
         calls' = [calls EXCEPT ![c] = s], UNCHANGED <<tasks, runs, created, edited>>,
         \A i \in 1..Len(s) : s[i].op = "start" => Known(s[i].task)
  PROVE  BoardInv'
<1>1. StartsKnown'
  <2>1. \A t \in Tasks : Known(t) => Known(t)'
    BY DEF Known
  <2>2. \A i \in 1..Len(s) : s[i].op = "start" => Known(s[i].task)'
    BY DEF Known
  <2> QED BY <2>1, <2>2, StartsKept DEF BoardInv
<1> QED BY <1>1 DEF BoardInv, NumbersVacant, UnbornEmpty, RunPointerValid, BoardShowsRun,
                    OrphanRunsInert, RunsOf, Live, Exists

LEMMA CreateTaskInv ==
  ASSUME TypeOK, BoardInv, NEW c \in Callers, NEW input \in NewTasks, CreateTask(c, input)
  PROVE  BoardInv'
<1> PICK t \in Tasks : /\ tasks[t].life = "unborn"
                       /\ Commit(c, [tasks EXCEPT ![t] = NewTask(input)], runs)
  BY DEF CreateTask
<1> DEFINE T == [tasks EXCEPT ![t] = NewTask(input)]
<1>1. NewTask(input) \in Task /\ NewTask(input).life = "live" /\ NewTask(input).runId = NoRun
  <2>1. input \in TaskInput /\ input.explicitSource \in BOOLEAN
    BY InputsAssumption DEF TaskInput
  <2>2. NewTask(input) \in Task
    BY <2>1, VacantTypes, TaskEdits, Zenon DEF NewTask
  <2> QED BY <2>2 DEF NewTask, VacantTask
<1>2. T \in [Tasks -> Task]
  BY <1>1 DEF TypeOK
<1>3. /\ runs' = runs
      /\ \A u \in Tasks : /\ tasks'[u].life = T[u].life
                          /\ tasks'[u].status = T[u].status
                          /\ tasks'[u].runId = T[u].runId
  BY <1>2, CommitKeeps
<1>4. StartsKnown'
  <2>1. \A u \in Tasks : Known(u) => T[u].life # "unborn"
    BY <1>1 DEF Known, TypeOK
  <2> QED BY <1>2, <2>1, CommitStarts DEF BoardInv
<1>5. RunsOf(runs, t) = {}
  BY DEF BoardInv, UnbornEmpty, RunPointerValid
<1>6. created' = created /\ edited' = edited
  BY DEF CreateTask
<1>7. /\ tasks'[t].life = "live" /\ tasks'[t].runId = NoRun
      /\ \A u \in Tasks \ {t} : /\ tasks'[u].life = tasks[u].life
                                /\ tasks'[u].status = tasks[u].status
                                /\ tasks'[u].runId = tasks[u].runId
  BY <1>1, <1>3 DEF TypeOK
<1> HIDE DEF T
<1>8. NumbersVacant' /\ UnbornEmpty'
  BY <1>3, <1>6, <1>7 DEF BoardInv, NumbersVacant, UnbornEmpty
<1>9. RunPointerValid'
  <2> SUFFICES ASSUME NEW u \in Tasks
               PROVE  /\ tasks'[u].life = "live" /\ tasks'[u].runId # NoRun
                           => runs[tasks'[u].runId].task = u
                      /\ tasks'[u].runId = NoRun
                           => \A r \in RunsOf(runs, u) : tasks'[u].life = "deleted"
    BY <1>3 DEF RunPointerValid, Live
  <2>1. CASE u = t
    BY <1>5, <1>7, <2>1
  <2>2. CASE u # t
    BY <1>7, <2>2 DEF BoardInv, RunPointerValid, Live
  <2> QED BY <2>1, <2>2
<1>10. BoardShowsRun'
  <2> SUFFICES ASSUME NEW u \in Tasks, u \notin edited, tasks'[u].life = "live",
                      tasks'[u].runId # NoRun
               PROVE  FitsColumn(runs[tasks'[u].runId], tasks'[u].status)
    BY <1>3, <1>6 DEF BoardShowsRun, Live, FitsColumn
  <2>1. u # t
    BY <1>7
  <2> QED BY <1>7, <2>1 DEF BoardInv, BoardShowsRun, Live
<1>11. OrphanRunsInert'
  <2> SUFFICES ASSUME NEW r \in RunIds, runs[r].task # NoTask,
                      tasks'[runs[r].task].life # "live"
               PROVE  tasks[runs[r].task].life # "live"
    BY <1>3 DEF BoardInv, OrphanRunsInert, Live, Exists
  <2>1. runs[r].task \in Tasks
    BY DEF TypeOK, Run
  <2> QED BY <1>7, <2>1
<1> QED BY <1>4, <1>8, <1>9, <1>10, <1>11 DEF BoardInv

(* A task keeps its life and its pointer; if its column changes, it is no     *)
(* longer one the board has written.                                          *)
LEMMA EditInv ==
  ASSUME TypeOK, BoardInv, NEW c \in Callers, NEW t \in Tasks, NEW new \in Task,
         new.life = tasks[t].life, new.runId = tasks[t].runId,
         new.status = tasks[t].status \/ t \in edited',
         Commit(c, [tasks EXCEPT ![t] = new], runs),
         created' = created, edited \subseteq edited'
  PROVE  BoardInv'
<1> DEFINE T == [tasks EXCEPT ![t] = new]
<1>1. T \in [Tasks -> Task]
  BY DEF TypeOK
<1>2. /\ runs' = runs
      /\ \A u \in Tasks : /\ tasks'[u].life = tasks[u].life
                          /\ tasks'[u].runId = tasks[u].runId
                          /\ u \in edited' \/ tasks'[u].status = tasks[u].status
  BY <1>1, CommitKeeps DEF TypeOK
<1>3. StartsKnown'
  <2>1. \A u \in Tasks : Known(u) => T[u].life # "unborn"
    BY DEF Known, TypeOK
  <2> QED BY <1>1, <2>1, CommitStarts DEF BoardInv
<1> HIDE DEF T
<1>4. NumbersVacant' /\ UnbornEmpty'
  BY <1>2 DEF BoardInv, NumbersVacant, UnbornEmpty
<1>5. RunPointerValid'
  BY <1>2 DEF BoardInv, RunPointerValid, RunsOf, Live
<1>6. BoardShowsRun'
  <2> SUFFICES ASSUME NEW u \in Tasks, u \notin edited', tasks'[u].life = "live",
                      tasks'[u].runId # NoRun
               PROVE  FitsColumn(runs[tasks'[u].runId], tasks'[u].status)
    BY <1>2 DEF BoardShowsRun, Live, FitsColumn
  <2> QED BY <1>2 DEF BoardInv, BoardShowsRun, Live
<1>7. OrphanRunsInert'
  <2> SUFFICES ASSUME NEW r \in RunIds, runs[r].task # NoTask,
                      tasks'[runs[r].task].life # "live"
               PROVE  tasks[runs[r].task].life # "live"
    BY <1>2 DEF BoardInv, OrphanRunsInert, Live, Exists
  <2>1. runs[r].task \in Tasks
    BY DEF TypeOK, Run
  <2> QED BY <1>2, <2>1
<1> QED BY <1>3, <1>4, <1>5, <1>6, <1>7 DEF BoardInv

LEMMA MoveTaskInv ==
  ASSUME TypeOK, BoardInv, NEW c \in Callers, NEW t \in Tasks, NEW column \in EditColumns,
         MoveTask(c, t, column)
  PROVE  BoardInv'
<1> DEFINE new == [tasks[t] EXCEPT !.status = column]
<1>1. new \in Task /\ new.life = tasks[t].life /\ new.runId = tasks[t].runId
  <2>1. tasks[t] \in Task /\ column \in TaskStatus /\ 0 \in 0..MaxRuns
    BY InputsAssumption, RunsAssumption DEF TypeOK
  <2>2. new \in Task
    BY <2>1, TaskUpdates, Zenon
  <2> QED BY <2>1, <2>2 DEF Task
<1>2. Commit(c, [tasks EXCEPT ![t] = new], runs)
  BY DEF MoveTask
<1>3. edited' = edited \cup {t} /\ created' = created
  BY DEF MoveTask
<1> HIDE DEF new
<1> QED BY <1>1, <1>2, <1>3, EditInv

LEMMA EditTaskInv ==
  ASSUME TypeOK, BoardInv, NEW c \in Callers, NEW t \in Tasks, NEW input \in Edits,
         NEW started \in BOOLEAN, EditTask(c, t, input, started)
  PROVE  BoardInv'
<1> DEFINE new == Edited(tasks[t], input, started)
           explicit == tasks[t].explicitSource \/ input.explicitSource
           same == [tasks[t] EXCEPT !.deps = input.deps, !.primary = input.primary,
                       !.explicitSource = explicit, !.auto = input.auto,
                       !.autoStarted = started]
<1>1. tasks[t] \in Task /\ input \in TaskInput /\ explicit \in BOOLEAN
  BY InputsAssumption DEF TypeOK
<1>2. new = same
  BY Zenon DEF Edited
<1> HIDE DEF new
<1>3. same \in Task
  <2> HIDE DEF explicit
  <2> QED BY <1>1, TaskEdits, Zenon
<1>4. /\ same.life = tasks[t].life /\ same.runId = tasks[t].runId
      /\ same.status = tasks[t].status
  <2> HIDE DEF explicit
  <2> QED BY <1>1 DEF Task
<1> HIDE DEF same
<1>5. Commit(c, [tasks EXCEPT ![t] = new], runs) /\ UNCHANGED <<created, edited>>
  BY DEF EditTask, new
<1> QED BY <1>2, <1>3, <1>4, <1>5, EditInv

LEMMA DeleteTaskInv ==
  ASSUME TypeOK, BoardInv, NEW c \in Callers, NEW t \in Tasks, DeleteTask(c, t)
  PROVE  BoardInv'
<1>1. /\ runs' = [r \in RunIds |-> IF runs[r].task = t THEN VacantRun ELSE runs[r]]
      /\ tasks' = [tasks EXCEPT ![t] = VacantTask("deleted")]
      /\ UNCHANGED <<created, calls>> /\ edited' = edited \ {t}
      /\ Live(tasks, t)
  BY DEF DeleteTask
<1>2. /\ tasks'[t].life = "deleted"
      /\ \A u \in Tasks \ {t} : tasks'[u] = tasks[u]
  BY <1>1 DEF TypeOK, VacantTask
<1>3. VacantRun.task = NoTask
  BY DEF VacantRun
<1>4. StartsKnown'
  <2>1. \A u \in Tasks : Known(u) => Known(u)'
    BY <1>2 DEF Known
  <2>2. SUFFICES ASSUME NEW d \in Callers, NEW i \in 1..Len(calls[d]),
                        calls[d][i].op = "start"
                 PROVE  Known(calls[d][i].task)'
    BY <1>1 DEF StartsKnown, Known
  <2>3. calls[d][i] \in Frame /\ Known(calls[d][i].task)
    <3>1. calls[d] \in Seq(Frame)
      BY DEF TypeOK
    <3>2. calls[d][i] \in Frame
      BY <3>1
    <3> QED BY <2>2, <3>2 DEF BoardInv, StartsKnown
  <2>4. calls[d][i].task \in Tasks
    BY <2>2, <2>3 DEF Frame, ScanFrame, LoopFrame, StartFrame, NoteFrame
  <2> QED BY <1>1, <2>1, <2>3, <2>4 DEF Known
<1>5. \A r \in RunIds : runs'[r] = IF runs[r].task = t THEN VacantRun ELSE runs[r]
  BY <1>1
<1>6. NumbersVacant' /\ UnbornEmpty'
  BY <1>1, <1>2, <1>5 DEF BoardInv, NumbersVacant, UnbornEmpty
<1>7. RunPointerValid'
  <2> SUFFICES ASSUME NEW u \in Tasks
               PROVE  /\ tasks'[u].life = "live" /\ tasks'[u].runId # NoRun
                           => runs'[tasks'[u].runId].task = u
                      /\ tasks'[u].runId = NoRun
                           => \A r \in RunIds : runs'[r].task = u
                                                   => tasks'[u].life = "deleted"
    BY DEF RunPointerValid, RunsOf, Live
  <2>1. CASE u = t
    BY <1>2, <2>1
  <2>2. CASE u # t
    <3>1. tasks'[u] = tasks[u] /\ tasks[u].runId \in 0..MaxRuns
      BY <1>2, <2>2 DEF TypeOK, Task
    <3>2. \A r \in RunIds : runs'[r].task = u <=> runs[r].task = u
      BY <1>3, <1>5, <2>2
    <3>3. tasks[u].runId # NoRun => tasks[u].runId \in RunIds
      BY <3>1, RunsAssumption
    <3> QED BY <3>1, <3>2, <3>3 DEF BoardInv, RunPointerValid, RunsOf, Live
  <2> QED BY <2>1, <2>2
<1>8. BoardShowsRun'
  <2> SUFFICES ASSUME NEW u \in Tasks \ edited', tasks'[u].life = "live",
                      tasks'[u].runId # NoRun
               PROVE  FitsColumn(runs[tasks[u].runId], tasks[u].status)'
    BY DEF BoardShowsRun, Live
  <2>1. u # t /\ tasks'[u] = tasks[u] /\ u \notin edited
    BY <1>1, <1>2
  <2>2. runs[tasks[u].runId].task = u /\ tasks[u].runId \in RunIds
    BY <2>1 DEF BoardInv, RunPointerValid, Live, TypeOK, Task
  <2>3. runs'[tasks[u].runId] = runs[tasks[u].runId]
    BY <1>5, <2>1, <2>2
  <2>4. FitsColumn(runs[tasks[u].runId], tasks[u].status)
    BY <2>1 DEF BoardInv, BoardShowsRun, Live
  <2> QED BY <2>1, <2>3, <2>4 DEF FitsColumn
<1>9. OrphanRunsInert'
  <2> SUFFICES ASSUME NEW r \in RunIds, runs'[r].task # NoTask,
                      tasks'[runs'[r].task].life # "live"
               PROVE  runs'[r] = runs[r] /\ tasks[runs[r].task].life # "live"
    BY DEF BoardInv, OrphanRunsInert, Live, Exists
  <2>1. runs'[r] = runs[r] /\ runs[r].task # t /\ runs[r].task \in Tasks
    BY <1>3, <1>5 DEF TypeOK, Run
  <2> QED BY <1>2, <2>1
<1> QED BY <1>4, <1>6, <1>7, <1>8, <1>9 DEF BoardInv

(* Frames of which every start is of a task once created. *)
KnownFrames(s) == \A i \in 1..Len(s) : s[i].op = "start" => Known(s[i].task)

LEMMA FramesKnown ==
  ASSUME NEW s \in Seq(Frame), NEW u \in Seq(Frame), KnownFrames(s), KnownFrames(u)
  PROVE  KnownFrames(s \o u)
BY DEF KnownFrames

LEMMA CallsKnown ==
  ASSUME TypeOK, BoardInv, NEW c \in Callers, calls[c] # <<>>,
         NEW frames \in Seq(Frame), KnownFrames(frames),
         Return(c) \/ Replace(c, frames) \/ Throw(c)
  PROVE  \E s \in Seq(Frame) : KnownFrames(s) /\ calls' = [calls EXCEPT ![c] = s]
<1>1. calls[c] \in Seq(Frame) /\ Tail(calls[c]) \in Seq(Frame) /\ <<>> \in Seq(Frame)
  BY DEF TypeOK
<1>2. KnownFrames(Tail(calls[c])) /\ KnownFrames(<<>>)
  BY <1>1 DEF BoardInv, StartsKnown, KnownFrames
<1>3. /\ frames \o Tail(calls[c]) \in Seq(Frame)
      /\ KnownFrames(frames \o Tail(calls[c]))
  BY <1>1, <1>2, FramesKnown, FramesJoin, Zenon
<1> QED BY <1>1, <1>2, <1>3, Zenon DEF Return, Replace, Throw

LEMMA StartingKnown ==
  ASSUME TypeOK, NEW t \in Tasks, Live(tasks, t), NEW override \in BOOLEAN,
         NEW auto \in BOOLEAN, NEW base \in 0..MaxRuns
  PROVE  /\ <<Starting(t, override, auto, base)>> \in Seq(Frame)
         /\ KnownFrames(<<Starting(t, override, auto, base)>>)
<1> DEFINE f == Starting(t, override, auto, base)
<1>1. f \in Frame
  BY StartingType, Zenon DEF Frame
<1>2. f.op = "start" /\ f.task = t
  BY DEF Starting
<1> HIDE DEF f
<1>3. Known(t)
  BY DEF Live, Known
<1> QED BY <1>1, <1>2, <1>3, OneFrame DEF KnownFrames, f

LEMMA StartRunInv ==
  ASSUME TypeOK, BoardInv, NEW c \in Callers, NEW t \in Tasks, StartRun(c, t)
  PROVE  BoardInv'
<1> DEFINE s == <<Starting(t, FALSE, FALSE, NoRun)>>
<1>1. NoRun \in 0..MaxRuns /\ FALSE \in BOOLEAN /\ Live(tasks, t)
  BY RunsAssumption DEF StartRun
<1>2. s \in Seq(Frame) /\ KnownFrames(s)
  BY <1>1, StartingKnown, Zenon
<1>3. calls' = [calls EXCEPT ![c] = s] /\ UNCHANGED <<tasks, runs, created, edited>>
  BY DEF StartRun
<1> HIDE DEF s
<1> QED BY <1>2, <1>3, CallsInv DEF KnownFrames

LEMMA RetryRunInv ==
  ASSUME TypeOK, BoardInv, NEW c \in Callers, NEW r \in RunIds, NEW checkpoint \in BOOLEAN,
         RetryRun(c, r, checkpoint)
  PROVE  BoardInv'
<1> DEFINE t == runs[r].task
           s == <<Starting(t, checkpoint, FALSE, r)>>
<1>1. t \in Tasks /\ Live(tasks, t)
  BY DEF RetryRun, Exists, TypeOK, Run
<1>2. r \in 0..MaxRuns /\ FALSE \in BOOLEAN
  BY RunsAssumption
<1>3. calls' = [calls EXCEPT ![c] = s] /\ UNCHANGED <<tasks, runs, created, edited>>
  BY DEF RetryRun
<1>4. s \in Seq(Frame) /\ KnownFrames(s)
  <2> HIDE DEF t
  <2> QED BY <1>1, <1>2, StartingKnown, Zenon
<1> HIDE DEF s, t
<1> QED BY <1>3, <1>4, CallsInv DEF KnownFrames

LEMMA LoopStepInv ==
  ASSUME TypeOK, BoardInv, NEW c \in Callers, ScanTasks(c) \/ AutoStartTask(c)
  PROVE  BoardInv'
<1>1. calls[c] # <<>> /\ UNCHANGED <<tasks, runs, created, edited>>
  BY IntoLoop
<1> PICK f \in LoopFrame : f.op = "loop" /\ Loop(c, f)
  BY IntoLoop
<1>2. \E s \in Seq(Frame) : KnownFrames(s) /\ calls' = [calls EXCEPT ![c] = s]
  <2>1. CASE Return(c) \/ Throw(c)
    <3>1. <<>> \in Seq(Frame) /\ KnownFrames(<<>>)
      BY DEF KnownFrames
    <3> QED BY <1>1, <2>1, <3>1, CallsKnown
  <2>2. ASSUME NEW t \in Tasks, NEW rest \in Seq(Frame), Live(tasks, t),
               \A i \in 1..Len(rest) : rest[i].op # "start",
               Replace(c, <<Starting(t, FALSE, TRUE, NoRun)>> \o rest)
        PROVE  \E s \in Seq(Frame) : KnownFrames(s) /\ calls' = [calls EXCEPT ![c] = s]
    <3> DEFINE first == <<Starting(t, FALSE, TRUE, NoRun)>>
    <3>1. NoRun \in 0..MaxRuns /\ FALSE \in BOOLEAN /\ TRUE \in BOOLEAN
      BY RunsAssumption
    <3>2. first \in Seq(Frame) /\ KnownFrames(first)
      BY <2>2, <3>1, StartingKnown, Zenon
    <3>3. KnownFrames(rest)
      BY <2>2 DEF KnownFrames
    <3> HIDE DEF first
    <3>4. first \o rest \in Seq(Frame) /\ KnownFrames(first \o rest)
      BY <3>2, <3>3, FramesKnown, FramesJoin, Zenon
    <3>5. Replace(c, first \o rest)
      BY <2>2 DEF first
    <3> QED BY <1>1, <3>4, <3>5, CallsKnown, Zenon
  <2> QED BY <2>1, <2>2, LoopCalls, Zenon
<1> QED BY <1>1, <1>2, CallsInv DEF KnownFrames

LEMMA InterruptInv ==
  ASSUME TypeOK, BoardInv, NEW c \in Callers, Interrupt(c)
  PROVE  BoardInv'
<1>1. <<>> \in Seq(Frame) /\ KnownFrames(<<>>)
  BY DEF KnownFrames
<1> QED BY <1>1, CallsInv DEF Interrupt, Throw, KnownFrames

(* Run r, of the live task t or new, becomes `run`, and t points at it in a   *)
(* column that fits.                                                          *)
LEMMA ShowKeeps ==
  ASSUME TypeOK, BoardInv, NEW r \in RunIds, NEW t \in Tasks, tasks[t].life = "live",
         NEW run \in Run, run.task = t, runs[r].task \in {t, NoTask},
         runs' = [runs EXCEPT ![r] = run],
         tasks'[t].life = "live", tasks'[t].runId = r, FitsColumn(run, tasks'[t].status),
         \A u \in Tasks \ {t} : /\ tasks'[u].life = tasks[u].life
                                /\ tasks'[u].status = tasks[u].status
                                /\ tasks'[u].runId = tasks[u].runId,
         edited' = edited \ {t}, created' \in Nat, created <= created', r <= created',
         StartsKnown'
  PROVE  BoardInv'
<1>1. runs'[r] = run /\ \A q \in RunIds \ {r} : runs'[q] = runs[q]
  BY DEF TypeOK
<1>2. NumbersVacant'
  <2> SUFFICES ASSUME NEW q \in RunIds, q > created' PROVE runs'[q] = VacantRun
    BY DEF NumbersVacant
  <2>1. q # r /\ q > created
    BY DEF TypeOK
  <2> QED BY <1>1, <2>1 DEF BoardInv, NumbersVacant
<1>3. UnbornEmpty'
  BY DEF BoardInv, UnbornEmpty
<1>4. ASSUME NEW u \in Tasks \ {t}, tasks[u].runId # NoRun, tasks[u].life = "live"
      PROVE  /\ runs'[tasks[u].runId] = runs[tasks[u].runId]
             /\ runs[tasks[u].runId].task = u
  <2>1. tasks[u].runId \in RunIds
    BY <1>4, RunsAssumption DEF TypeOK, Task
  <2>2. runs[tasks[u].runId].task = u
    BY <1>4 DEF BoardInv, RunPointerValid, Live
  <2>3. tasks[u].runId # r
    BY <2>2
  <2> QED BY <1>1, <2>1, <2>2, <2>3
<1>5. RunPointerValid'
  <2> SUFFICES ASSUME NEW u \in Tasks
               PROVE  /\ tasks'[u].life = "live" /\ tasks'[u].runId # NoRun
                           => runs'[tasks'[u].runId].task = u
                      /\ tasks'[u].runId = NoRun
                           => \A q \in RunIds : runs'[q].task = u
                                                   => tasks'[u].life = "deleted"
    BY DEF RunPointerValid, RunsOf, Live
  <2>1. CASE u = t
    BY <1>1, <2>1
  <2>2. CASE u # t
    <3>1. \A q \in RunIds : runs'[q].task = u => runs[q].task = u
      BY <1>1, <2>2
    <3> QED BY <1>4, <2>2, <3>1 DEF BoardInv, RunPointerValid, RunsOf, Live
  <2> QED BY <2>1, <2>2
<1>6. BoardShowsRun'
  <2> SUFFICES ASSUME NEW u \in Tasks, u \notin edited', tasks'[u].life = "live",
                      tasks'[u].runId # NoRun
               PROVE  FitsColumn(runs'[tasks'[u].runId], tasks'[u].status)
    BY DEF BoardShowsRun, Live, FitsColumn
  <2>1. CASE u = t
    BY <1>1, <2>1
  <2>2. CASE u # t
    BY <1>4, <2>2 DEF BoardInv, BoardShowsRun, Live
  <2> QED BY <2>1, <2>2
<1>7. OrphanRunsInert'
  <2> SUFFICES ASSUME NEW q \in RunIds, runs'[q].task # NoTask,
                      tasks'[runs'[q].task].life # "live"
               PROVE  runs'[q] = runs[q] /\ tasks[runs[q].task].life # "live"
    BY DEF BoardInv, OrphanRunsInert, Live, Exists
  <2>1. q # r
    BY <1>1
  <2>2. runs'[q] = runs[q] /\ runs[q].task \in Tasks
    BY <1>1, <2>1 DEF TypeOK, Run
  <2> QED BY <2>2
<1> QED BY <1>2, <1>3, <1>5, <1>6, <1>7 DEF BoardInv

(* The same for the mutators that end in ShowRun. *)
LEMMA ShowRunInv ==
  ASSUME TypeOK, BoardInv, NEW c \in Callers, NEW r \in RunIds, NEW old \in Run,
         NEW run \in Run, NEW column \in TaskStatus,
         old.task # NoTask, Live(tasks, old.task), run.task = old.task,
         runs[r].task \in {old.task, NoTask}, FitsColumn(run, column),
         Commit(c, ShowRun(r, old, column), [runs EXCEPT ![r] = run]),
         edited' = edited \ {old.task}, created' \in Nat, created <= created', r <= created'
  PROVE  BoardInv'
<1> DEFINE t == old.task
           T == ShowRun(r, old, column)
<1>1. t \in Tasks /\ tasks[t].life = "live"
  BY DEF Run, Live
<1>2. T \in [Tasks -> Task]
  BY ShowRunType
<1>3. /\ T[t].life = "live" /\ T[t].status = column /\ T[t].runId = r
      /\ \A u \in Tasks \ {t} : T[u] = tasks[u]
  BY <1>1 DEF ShowRun, TypeOK, Task
<1> HIDE DEF T, t
<1>4. runs' = [runs EXCEPT ![r] = run]
  BY <1>2, CommitKeeps DEF T
<1>5. \A u \in Tasks : /\ tasks'[u].life = T[u].life
                       /\ tasks'[u].status = T[u].status
                       /\ tasks'[u].runId = T[u].runId
  BY <1>2, CommitKeeps DEF T
<1>6. StartsKnown'
  <2>1. \A u \in Tasks : Known(u) => T[u].life # "unborn"
    BY <1>1, <1>3 DEF Known
  <2> QED BY <1>2, <2>1, CommitStarts DEF BoardInv, T
<1>7. run.task = t /\ runs[r].task \in {t, NoTask} /\ edited' = edited \ {t}
  BY DEF t
<1>8. /\ tasks'[t].life = "live" /\ tasks'[t].runId = r /\ FitsColumn(run, tasks'[t].status)
      /\ \A u \in Tasks \ {t} : /\ tasks'[u].life = tasks[u].life
                                /\ tasks'[u].status = tasks[u].status
                                /\ tasks'[u].runId = tasks[u].runId
  BY <1>1, <1>3, <1>5
<1> QED BY <1>1, <1>4, <1>6, <1>7, <1>8, ShowKeeps

(* A run that exists has been created. *)
LEMMA ExistsCreated ==
  ASSUME TypeOK, BoardInv, NEW r \in RunIds, Exists(runs, r)
  PROVE  r <= created /\ created \in Nat /\ runs[r] \in Run
<1>1. runs[r] # VacantRun
  BY DEF Exists, VacantRun
<1> QED BY <1>1 DEF TypeOK, BoardInv, NumbersVacant

(* The column derived for a run fits it. *)
LEMMA DeriveFits ==
  ASSUME NEW run \in Run, NEW current
  PROVE  FitsColumn(run, DeriveTaskStatus(run.status, run.review, current))
<1>1. CASE run.status \in ExecutionPhase
  BY <1>1 DEF DeriveTaskStatus, FitsColumn
<1>2. CASE run.status \notin ExecutionPhase /\ current = "DONE"
  BY <1>2 DEF DeriveTaskStatus, FitsColumn
<1>3. CASE run.status \notin ExecutionPhase /\ current # "DONE"
  BY <1>3 DEF DeriveTaskStatus, FitsColumn
<1> QED BY <1>1, <1>2, <1>3

LEMMA PatchInv ==
  ASSUME TypeOK, BoardInv, NEW c \in Callers, NEW r \in RunIds, NEW p \in Patch,
         Exists(runs, r), Live(tasks, runs[r].task),
         Commit(c, ShowPatched(r, p), Patching(r, p)),
         edited' = edited \ {runs[r].task}, created' = created
  PROVE  BoardInv'
<1> DEFINE run == Patched(runs[r], p)
           column == DeriveTaskStatus(run.status, run.review, tasks[runs[r].task].status)
<1>1. runs[r] \in Run /\ r <= created /\ created \in Nat
  BY ExistsCreated
<1>2. run \in Run /\ column \in TaskStatus /\ FitsColumn(run, column)
  BY <1>1, PatchedType, DeriveType, DeriveFits
<1>3. run.task = runs[r].task
  <2> DEFINE status == IF p.status = NoRequest THEN runs[r].status ELSE p.status
             loop == ResolveLoopState(runs[r].loop, p.loop, status)
             merge == IF p.merge = NoRequest THEN runs[r].merge ELSE p.merge
  <2>1. run = [runs[r] EXCEPT !.status = status, !.loop = loop,
                  !.sandbox = @ \/ p.sandbox, !.head = @ \/ p.head,
                  !.review = @ \/ p.review, !.merge = merge]
    BY Zenon DEF Patched
  <2> HIDE DEF status, loop, merge, run
  <2> QED BY <1>1, <2>1 DEF Run
<1>4. Patching(r, p) = [runs EXCEPT ![r] = run] /\ Patching(r, p)[r] = run
  BY DEF Patching, TypeOK
<1>5. ShowPatched(r, p) = ShowRun(r, runs[r], column)
  BY <1>4 DEF ShowPatched
<1> HIDE DEF run, column
<1>6. Commit(c, ShowRun(r, runs[r], column), [runs EXCEPT ![r] = run])
  BY <1>4, <1>5
<1>7. runs[r].task # NoTask
  BY DEF Exists
<1> QED BY <1>1, <1>2, <1>3, <1>6, <1>7, ShowRunInv

LEMMA TransitionRunInv ==
  ASSUME TypeOK, BoardInv, NEW c \in Callers, NEW r \in RunIds, NEW p \in Patch,
         TransitionRun(c, r, p)
  PROVE  BoardInv'
BY PatchInv DEF TransitionRun

LEMMA NoteRetryInv ==
  ASSUME TypeOK, BoardInv, NEW c \in Callers, NoteRetry(c)
  PROVE  BoardInv'
<1> DEFINE r == Head(calls[c]).run
<1>1. r \in RunIds /\ calls[c] # <<>>
  BY DEF NoteRetry, At, TypeOK, Frame, ScanFrame, LoopFrame, StartFrame, NoteFrame
<1>2. CASE Exists(runs, r) /\ Live(tasks, runs[r].task)
  BY <1>1, <1>2, NoteOnlyType, PatchInv DEF NoteRetry
<1>3. CASE ~(Exists(runs, r) /\ Live(tasks, runs[r].task))
  <2>1. Throw(c) /\ UNCHANGED <<tasks, runs, created, edited>>
    BY <1>3 DEF NoteRetry
  <2>2. <<>> \in Seq(Frame) /\ KnownFrames(<<>>)
    BY DEF KnownFrames
  <2> QED BY <2>1, <2>2, CallsInv DEF Throw, KnownFrames
<1> QED BY <1>2, <1>3

LEMMA RestatusInv ==
  ASSUME TypeOK, BoardInv, NEW c \in Callers, NEW r \in RunIds, Exists(runs, r),
         Live(tasks, runs[r].task),
         NEW column \in TaskStatus, NEW status \in RunStatus,
         FitsColumn([runs[r] EXCEPT !.status = status], column),
         Commit(c, ShowRun(r, runs[r], column), [runs EXCEPT ![r].status = status]),
         edited' = edited \ {runs[r].task}, created' = created
  PROVE  BoardInv'
<1> DEFINE run == [runs[r] EXCEPT !.status = status]
<1>1. runs[r] \in Run /\ r <= created /\ created \in Nat /\ runs[r].task # NoTask
  BY ExistsCreated DEF Exists
<1>2. run \in Run /\ run.task = runs[r].task
  BY <1>1 DEF Run
<1>3. Commit(c, ShowRun(r, runs[r], column), [runs EXCEPT ![r] = run])
  OBVIOUS
<1>4. FitsColumn(run, column)
  OBVIOUS
<1> HIDE DEF run
<1> QED BY <1>1, <1>2, <1>3, <1>4, ShowRunInv

LEMMA MarkRunFailedInv ==
  ASSUME TypeOK, BoardInv, NEW c \in Callers, NEW r \in RunIds, MarkRunFailed(c, r)
  PROVE  BoardInv'
<1> DEFINE column == IF runs[r].review THEN "REVIEW" ELSE "FAILED"
<1>1. column \in TaskStatus /\ "FAILED" \in RunStatus
  BY DEF TaskStatus, RunStatus
<1>2. /\ Commit(c, ShowRun(r, runs[r], column), [runs EXCEPT ![r].status = "FAILED"])
      /\ Exists(runs, r) /\ Live(tasks, runs[r].task)
      /\ edited' = edited \ {runs[r].task} /\ created' = created
  BY DEF MarkRunFailed
<1>3. FitsColumn([runs[r] EXCEPT !.status = "FAILED"], column)
  <2>1. runs[r] \in Run
    BY DEF TypeOK
  <2>2. /\ [runs[r] EXCEPT !.status = "FAILED"].status = "FAILED"
        /\ [runs[r] EXCEPT !.status = "FAILED"].review = runs[r].review
    BY <2>1 DEF Run
  <2> QED BY <2>2 DEF FitsColumn, ExecutionPhase
<1> HIDE DEF column
<1> QED BY <1>1, <1>2, <1>3, RestatusInv

LEMMA TakeOverRunInv ==
  ASSUME TypeOK, BoardInv, NEW c \in Callers, NEW r \in RunIds, TakeOverRun(c, r)
  PROVE  BoardInv'
<1>1. "ACTIVE" \in TaskStatus /\ "OPERATOR_CONTROLLED" \in RunStatus
  BY DEF TaskStatus, RunStatus, ExecutionPhase
<1>2. /\ Commit(c, ShowRun(r, runs[r], "ACTIVE"),
                [runs EXCEPT ![r].status = "OPERATOR_CONTROLLED"])
      /\ Exists(runs, r) /\ Live(tasks, runs[r].task)
      /\ edited' = edited \ {runs[r].task} /\ created' = created
  BY DEF TakeOverRun
<1>3. FitsColumn([runs[r] EXCEPT !.status = "OPERATOR_CONTROLLED"], "ACTIVE")
  <2>1. runs[r] \in Run
    BY DEF TypeOK
  <2>2. [runs[r] EXCEPT !.status = "OPERATOR_CONTROLLED"].status = "OPERATOR_CONTROLLED"
    BY <2>1 DEF Run
  <2> QED BY <2>2 DEF FitsColumn, ExecutionPhase
<1> QED BY <1>1, <1>2, <1>3, RestatusInv

LEMMA RequestRunChangesInv ==
  ASSUME TypeOK, BoardInv, NEW c \in Callers, NEW r \in RunIds, RequestRunChanges(c, r)
  PROVE  BoardInv'
<1> DEFINE n == created + 1
           new == [VacantRun EXCEPT !.task = runs[r].task, !.loop = "RERUN_QUEUED",
                     !.review = runs[r].review, !.merge = runs[r].merge, !.base = r,
                     !.source = runs[r].source, !.upstream = runs[r].upstream]
<1>1. runs[r] \in Run /\ runs[r].task # NoTask /\ Live(tasks, runs[r].task)
  BY DEF RequestRunChanges, Exists, TypeOK
<1>2. n \in RunIds /\ n \in Nat /\ created <= n /\ n <= n
  BY RunsAssumption DEF RequestRunChanges, TypeOK
<1>3. new \in Run
  <2>1. r \in 0..MaxRuns
    BY RunsAssumption
  <2> QED BY <1>1, <2>1, VacantTypes, RunTakesUp, Zenon
<1>4. new.task = runs[r].task /\ new.status = "QUEUED"
  BY DEF VacantRun
<1>5. "ACTIVE" \in TaskStatus /\ FitsColumn(new, "ACTIVE")
  <2> HIDE DEF new
  <2> QED BY <1>4 DEF TaskStatus, FitsColumn, ExecutionPhase
<1>6. /\ Commit(c, ShowRun(n, runs[r], "ACTIVE"), [runs EXCEPT ![n] = new])
      /\ edited' = edited \ {runs[r].task} /\ created' = n
  BY DEF RequestRunChanges
<1>7. runs[n].task = NoTask
  BY <1>2 DEF BoardInv, NumbersVacant, VacantRun, TypeOK
<1> HIDE DEF n, new
<1> QED BY <1>1, <1>2, <1>3, <1>4, <1>5, <1>6, <1>7, ShowRunInv

LEMMA CreateRunInv ==
  ASSUME TypeOK, BoardInv, NEW c \in Callers, CreateRun(c)
  PROVE  BoardInv'
<1> DEFINE f == Head(calls[c])
           t == f.task
           r == created + 1
           source == ResolveRunSource(tasks, runs, f.lineage, f.explicit)
           run == QueuedRun(t, f.base, source)
           R == [runs EXCEPT ![r] = run]
           new == IF Live(tasks, t) THEN Started(tasks[t], r, f.auto) ELSE tasks[t]
           T == [tasks EXCEPT ![t] = new]
           note == IF f.base = NoRun THEN <<>> ELSE <<[op |-> "note", run |-> r]>>
<1>1. f \in StartFrame /\ calls[c] # <<>> /\ f.op = "start"
  BY DEF CreateRun, At, TypeOK, Frame, StartFrame, ScanFrame, LoopFrame, NoteFrame
<1>2. r \in RunIds /\ created \in Nat /\ r = created + 1
  BY RunsAssumption DEF CreateRun, TypeOK
<1>3. t \in Tasks /\ f.base \in 0..MaxRuns /\ f.auto \in BOOLEAN
  BY <1>1 DEF StartFrame
<1>4. Known(t)
  <2>1. 1 \in 1..Len(calls[c]) /\ f = calls[c][1]
    BY <1>1 DEF TypeOK
  <2> QED BY <1>1, <2>1 DEF BoardInv, StartsKnown
<1>5. run \in Run /\ run.task = t /\ run.status = "QUEUED"
      /\ ~run.sandbox /\ ~run.review /\ ~run.head
  <2>1. source.mode \in SourceMode /\ source.upstream \in 0..MaxRuns
    BY SourceType
  <2> HIDE DEF source, t
  <2> QED BY <1>3, <2>1, VacantTypes DEF QueuedRun, VacantRun, Run
<1>6. new \in Task /\ new.life = tasks[t].life
      /\ IF Live(tasks, t) THEN new.status = "ACTIVE" /\ new.runId = r ELSE new = tasks[t]
  <2>1. tasks[t] \in Task
    BY <1>3 DEF TypeOK
  <2>2. CASE Live(tasks, t)
    <3> DEFINE started == tasks[t].autoStarted \/ (f.auto /\ tasks[t].auto # "unset")
               same == [tasks[t] EXCEPT !.status = "ACTIVE", !.runId = r,
                                        !.autoStarted = started]
    <3>1. "ACTIVE" \in TaskStatus /\ r \in 0..MaxRuns /\ started \in BOOLEAN
      BY <1>2, RunsAssumption DEF TaskStatus
    <3>2. new = same
      BY <2>2, Zenon DEF Started
    <3> HIDE DEF started, t, r, new
    <3>3. same \in Task
      BY <2>1, <3>1, TaskStarts, Zenon
    <3>4. same.life = tasks[t].life /\ same.status = "ACTIVE" /\ same.runId = r
      BY <2>1 DEF Task
    <3> QED BY <2>2, <3>2, <3>3, <3>4
  <2>3. CASE ~Live(tasks, t)
    BY <2>1, <2>3
  <2> QED BY <2>2, <2>3
<1>7. /\ tasks' = RefreshDependencyStates(T, R) /\ runs' = R
      /\ IF Live(tasks, t) THEN Replace(c, Scan(T, R) \o note) ELSE Throw(c)
      /\ created' = r /\ edited' = edited \ {t}
  BY Zenon DEF CreateRun, Store
<1>8. note \in Seq(Frame) /\ KnownFrames(note)
  <2>1. [op |-> "note", run |-> r] \in Frame /\ [op |-> "note", run |-> r].op # "start"
    BY <1>2 DEF Frame, NoteFrame
  <2>2. KnownFrames(note)
    BY <2>1 DEF KnownFrames
  <2>3. note \in Seq(Frame)
    BY <2>1, OneFrame
  <2> QED BY <2>2, <2>3
<1> HIDE DEF f, t, r, run, new, note
<1>9. T \in [Tasks -> Task]
  BY <1>3, <1>6 DEF TypeOK
<1>10. \A u \in Tasks : /\ tasks'[u].life = T[u].life
                        /\ tasks'[u].status = T[u].status
                        /\ tasks'[u].runId = T[u].runId
  BY <1>7, <1>9, RefreshKeeps
<1>11. /\ tasks'[t].life = tasks[t].life
       /\ tasks'[t].status = new.status /\ tasks'[t].runId = new.runId
       /\ \A u \in Tasks \ {t} : /\ tasks'[u].life = tasks[u].life
                                 /\ tasks'[u].status = tasks[u].status
                                 /\ tasks'[u].runId = tasks[u].runId
  BY <1>3, <1>6, <1>10 DEF TypeOK
<1>12. StartsKnown'
  <2>1. Scan(T, R) \in Seq(Frame)
    BY ScanType
  <2>2. KnownFrames(Scan(T, R))
    <3> HIDE DEF T, R
    <3>1. \A i \in 1..Len(Scan(T, R)) : Scan(T, R)[i].op # "start"
      BY DEF Scan
    <3> HIDE DEF Scan
    <3> QED BY <3>1 DEF KnownFrames
  <2>3. Scan(T, R) \o note \in Seq(Frame) /\ KnownFrames(Scan(T, R) \o note)
    <3> HIDE DEF T, R
    <3> QED BY <1>8, <2>1, <2>2, FramesKnown, FramesJoin, Zenon
  <2>4. Replace(c, Scan(T, R) \o note) \/ Throw(c)
    BY <1>7
  <2> HIDE DEF T, R
  <2>5. \E s \in Seq(Frame) : KnownFrames(s) /\ calls' = [calls EXCEPT ![c] = s]
    BY <1>1, <2>3, <2>4, CallsKnown, Zenon
  <2>6. \A u \in Tasks : Known(u) => Known(u)'
    BY <1>11 DEF Known
  <2>7. PICK s \in Seq(Frame) : KnownFrames(s) /\ calls' = [calls EXCEPT ![c] = s]
    BY <2>5
  <2>8. \A i \in 1..Len(s) : s[i].op = "start" => Known(s[i].task)'
    <3> SUFFICES ASSUME NEW i \in 1..Len(s), s[i].op = "start"
                 PROVE  tasks'[s[i].task].life # "unborn"
      BY DEF Known
    <3>1. s[i] \in Frame
      OBVIOUS
    <3>2. s[i].task \in Tasks
      BY <3>1 DEF Frame, ScanFrame, LoopFrame, StartFrame, NoteFrame
    <3>3. Known(s[i].task)
      BY <2>7 DEF KnownFrames
    <3> QED BY <2>6, <3>2, <3>3 DEF Known
  <2> QED BY <2>6, <2>7, <2>8, StartsKept DEF BoardInv
<1>13. runs[r].task = NoTask /\ runs' = [runs EXCEPT ![r] = run]
  BY <1>2, <1>7 DEF BoardInv, NumbersVacant, VacantRun, R
<1>14. CASE Live(tasks, t)
  <2>1. FitsColumn(run, tasks'[t].status) /\ tasks'[t].runId = r /\ tasks[t].life = "live"
    BY <1>5, <1>6, <1>11, <1>14 DEF FitsColumn, ExecutionPhase, Live
  <2>2. created' \in Nat /\ created <= created' /\ r <= created'
    BY <1>2, <1>7
  <2> HIDE DEF T, R
  <2> QED BY <1>2, <1>3, <1>5, <1>7, <1>11, <1>12, <1>13, <2>1, <2>2, ShowKeeps
<1>15. CASE ~Live(tasks, t)
  <2>1. tasks[t].life = "deleted"
    BY <1>3, <1>4, <1>15 DEF Live, Known, TypeOK, Task
  <2>2. \A u \in Tasks : /\ tasks'[u].life = tasks[u].life
                         /\ tasks'[u].status = tasks[u].status
                         /\ tasks'[u].runId = tasks[u].runId
    BY <1>6, <1>11, <1>15
  <2>3. runs'[r] = run /\ \A q \in RunIds \ {r} : runs'[q] = runs[q]
    BY <1>2, <1>13 DEF TypeOK
  <2> HIDE DEF T, R
  <2>4. NumbersVacant' /\ UnbornEmpty'
    BY <1>2, <1>7, <2>2, <2>3 DEF BoardInv, NumbersVacant, UnbornEmpty
  <2>5. ASSUME NEW u \in Tasks, tasks[u].runId # NoRun, tasks[u].life = "live"
        PROVE  runs'[tasks[u].runId] = runs[tasks[u].runId]
    <3>1. tasks[u].runId \in RunIds /\ runs[tasks[u].runId].task = u
      BY <2>5, RunsAssumption DEF BoardInv, RunPointerValid, Live, TypeOK, Task
    <3> QED BY <1>13, <2>3, <3>1
  <2>6. RunPointerValid'
    <3> SUFFICES ASSUME NEW u \in Tasks
                 PROVE  /\ tasks'[u].life = "live" /\ tasks'[u].runId # NoRun
                             => runs'[tasks'[u].runId].task = u
                        /\ tasks'[u].runId = NoRun
                             => \A q \in RunIds : runs'[q].task = u
                                                     => tasks'[u].life = "deleted"
      BY DEF RunPointerValid, RunsOf, Live
    <3>1. \A q \in RunIds : runs'[q].task = u => runs[q].task = u \/ u = t
      BY <1>5, <2>3
    <3> QED BY <2>1, <2>2, <2>5, <3>1 DEF BoardInv, RunPointerValid, RunsOf, Live
  <2>7. BoardShowsRun'
    <3> SUFFICES ASSUME NEW u \in Tasks, u \notin edited', tasks'[u].life = "live",
                        tasks'[u].runId # NoRun
                 PROVE  FitsColumn(runs'[tasks'[u].runId], tasks'[u].status)
      BY DEF BoardShowsRun, Live, FitsColumn
    <3>1. u # t /\ u \notin edited
      BY <1>7, <2>1, <2>2
    <3> QED BY <2>2, <2>5, <3>1 DEF BoardInv, BoardShowsRun, Live
  <2>8. OrphanRunsInert'
    <3> SUFFICES ASSUME NEW q \in RunIds, runs'[q].task # NoTask,
                        tasks'[runs'[q].task].life # "live"
                 PROVE  /\ runs'[q].status \in {"QUEUED", "WAITING_PREVIEW", "EVIDENCE_RUNNING"}
                        /\ ~runs'[q].sandbox /\ ~runs'[q].review /\ ~runs'[q].head
      BY DEF OrphanRunsInert, Live, Exists
    <3>1. CASE q = r
      BY <1>5, <2>3, <3>1
    <3>2. CASE q # r
      <4>1. runs'[q] = runs[q] /\ runs[q].task \in Tasks
        BY <2>3, <3>2 DEF TypeOK, Run
      <4> QED BY <2>2, <4>1 DEF BoardInv, OrphanRunsInert, Live, Exists
    <3> QED BY <3>1, <3>2
  <2> QED BY <1>12, <2>4, <2>6, <2>7, <2>8 DEF BoardInv
<1> QED BY <1>14, <1>15

LEMMA RetryReviewPhaseInv ==
  ASSUME TypeOK, BoardInv, NEW c \in Callers, NEW r \in RunIds,
         NEW status \in {"EVIDENCE_RUNNING", "WAITING_PREVIEW"},
         RetryReviewPhase(c, r, status)
  PROVE  BoardInv'
<1> DEFINE t == runs[r].task
           column == IF Live(tasks, t) THEN "REVIEW" ELSE tasks[t].status
           new == [tasks[t] EXCEPT !.status = column]
           run == [runs[r] EXCEPT !.status = status]
           T == [tasks EXCEPT ![t] = new]
           R == [runs EXCEPT ![r] = run]
<1>1. r <= created /\ created \in Nat /\ runs[r] \in Run /\ t \in Tasks
  BY ExistsCreated DEF RetryReviewPhase, Exists, Run
<1>2. new \in Task /\ new.life = tasks[t].life /\ new.runId = tasks[t].runId
      /\ new.status = column
  <2>1. tasks[t] \in Task /\ column \in TaskStatus /\ 0 \in 0..MaxRuns
    BY <1>1, RunsAssumption DEF TypeOK, Task, TaskStatus
  <2> HIDE DEF column, t
  <2>2. new \in Task
    BY <2>1, TaskUpdates, Zenon
  <2> QED BY <2>1, <2>2 DEF Task
<1>3. /\ run.status = status /\ run.task = t /\ run.sandbox = runs[r].sandbox
      /\ run.review = runs[r].review /\ run.head = runs[r].head
  BY <1>1 DEF Run
<1>4. /\ Commit(c, T, R) /\ created' = created
      /\ edited' = IF Live(tasks, t) /\ tasks[t].runId # r
                   THEN edited \cup {t} ELSE edited \ {t}
  BY Zenon DEF RetryReviewPhase
<1> HIDE DEF t, new, run
<1>5. T \in [Tasks -> Task]
  BY <1>1, <1>2 DEF TypeOK
<1>6. \A u \in Tasks : /\ tasks'[u].life = T[u].life
                       /\ tasks'[u].status = T[u].status
                       /\ tasks'[u].runId = T[u].runId
  BY <1>4, <1>5, CommitKeeps
<1>7. \A u \in Tasks : /\ tasks'[u].life = tasks[u].life
                       /\ tasks'[u].runId = tasks[u].runId
                       /\ tasks'[u].status = IF u = t THEN column ELSE tasks[u].status
  BY <1>1, <1>2, <1>6 DEF TypeOK
<1>8. runs'[r] = run /\ \A q \in RunIds \ {r} : runs'[q] = runs[q]
  <2>1. runs' = R
    BY <1>4, <1>5, CommitKeeps
  <2> QED BY <2>1 DEF TypeOK
<1>9. StartsKnown'
  <2>1. \A u \in Tasks : Known(u) => T[u].life # "unborn"
    BY <1>1, <1>2 DEF Known, TypeOK
  <2> QED BY <1>4, <1>5, <2>1, CommitStarts DEF BoardInv
<1> HIDE DEF T, R, column
<1>10. \A q \in RunIds : runs'[q].task = runs[q].task
  BY <1>3, <1>8 DEF t
<1>11. NumbersVacant' /\ UnbornEmpty'
  BY <1>1, <1>4, <1>7, <1>8 DEF BoardInv, NumbersVacant, UnbornEmpty
<1>12. RunPointerValid'
  <2> SUFFICES ASSUME NEW u \in Tasks
               PROVE  /\ tasks'[u].life = "live" /\ tasks'[u].runId # NoRun
                           => runs'[tasks'[u].runId].task = u
                      /\ tasks'[u].runId = NoRun
                           => \A q \in RunIds : runs'[q].task = u
                                                   => tasks'[u].life = "deleted"
    BY DEF RunPointerValid, RunsOf, Live
  <2>1. tasks[u].runId # NoRun => tasks[u].runId \in RunIds
    BY RunsAssumption DEF TypeOK, Task
  <2> QED BY <1>7, <1>10, <2>1 DEF BoardInv, RunPointerValid, RunsOf, Live
<1>13. BoardShowsRun'
  <2> SUFFICES ASSUME NEW u \in Tasks, u \notin edited', tasks'[u].life = "live",
                      tasks'[u].runId # NoRun
               PROVE  FitsColumn(runs'[tasks'[u].runId], tasks'[u].status)
    BY DEF BoardShowsRun, Live, FitsColumn
  <2>1. tasks[u].runId \in RunIds /\ runs[tasks[u].runId].task = u /\ tasks[u].life = "live"
    BY <1>7, RunsAssumption DEF BoardInv, RunPointerValid, Live, TypeOK, Task
  <2>2. CASE u = t
    <3>1. tasks[u].runId = r /\ tasks'[u].status = "REVIEW"
      BY <1>4, <1>7, <2>1, <2>2 DEF Live, column
    <3> QED BY <1>3, <1>7, <1>8, <3>1 DEF FitsColumn, ExecutionPhase
  <2>3. CASE u # t
    <3>1. u \notin edited /\ tasks[u].runId # r
      BY <1>4, <2>1, <2>3 DEF t
    <3> QED BY <1>7, <1>8, <2>1, <2>3, <3>1 DEF BoardInv, BoardShowsRun, Live
  <2> QED BY <2>2, <2>3
<1>14. OrphanRunsInert'
  <2> SUFFICES ASSUME NEW q \in RunIds, runs'[q].task # NoTask,
                      tasks'[runs'[q].task].life # "live"
               PROVE  /\ runs'[q].status \in {"QUEUED", "WAITING_PREVIEW", "EVIDENCE_RUNNING"}
                      /\ ~runs'[q].sandbox /\ ~runs'[q].review /\ ~runs'[q].head
    BY DEF OrphanRunsInert, Live, Exists
  <2>1. runs[q].task \in Tasks /\ tasks[runs[q].task].life # "live"
    BY <1>7, <1>10 DEF TypeOK, Run
  <2>2. /\ runs[q].status \in {"QUEUED", "WAITING_PREVIEW", "EVIDENCE_RUNNING"}
        /\ ~runs[q].sandbox /\ ~runs[q].review /\ ~runs[q].head
    BY <2>1 DEF BoardInv, OrphanRunsInert, Live, Exists
  <2> QED BY <1>3, <1>8, <2>2
<1> QED BY <1>9, <1>11, <1>12, <1>13, <1>14 DEF BoardInv

(* Every step keeps pointers, columns and orphans right. *)
LEMMA NextInv == TypeOK /\ BoardInv /\ [Next]_vars => BoardInv'
<1> SUFFICES ASSUME TypeOK, BoardInv, [Next]_vars PROVE BoardInv'
  OBVIOUS
<1>1. CASE UNCHANGED vars
  BY <1>1 DEF vars, BoardInv, NumbersVacant, UnbornEmpty, StartsKnown, Known,
              RunPointerValid, BoardShowsRun, OrphanRunsInert, RunsOf, Live, Exists
<1>2. ASSUME NEW c \in Callers, Operate(c) PROVE BoardInv'
  <2>1. ASSUME NEW input \in NewTasks, CreateTask(c, input) PROVE BoardInv'
    BY <2>1, CreateTaskInv
  <2>2. ASSUME NEW t \in Tasks, NEW column \in EditColumns, MoveTask(c, t, column)
        PROVE BoardInv'
    BY <2>2, MoveTaskInv
  <2>3. ASSUME NEW t \in Tasks, NEW input \in Edits, NEW started \in BOOLEAN,
               EditTask(c, t, input, started)
        PROVE BoardInv'
    BY <2>3, EditTaskInv
  <2>4. ASSUME NEW t \in Tasks, DeleteTask(c, t) PROVE BoardInv'
    BY <2>4, DeleteTaskInv
  <2>5. ASSUME NEW t \in Tasks, StartRun(c, t) PROVE BoardInv'
    BY <2>5, StartRunInv
  <2>6. ASSUME NEW r \in RunIds, NEW checkpoint \in BOOLEAN, RetryRun(c, r, checkpoint)
        PROVE BoardInv'
    BY <2>6, RetryRunInv
  <2>7. ASSUME NEW r \in RunIds, NEW p \in Patches, TransitionRun(c, r, p) PROVE BoardInv'
    BY <2>7, InputsAssumption, TransitionRunInv
  <2>8. ASSUME NEW r \in RunIds, NEW p \in Patches,
               TransitionRunFromLoopState(c, r, "DECISION_REQUIRED", p)
        PROVE BoardInv'
    BY <2>8, InputsAssumption, TransitionRunInv DEF TransitionRunFromLoopState
  <2>9. ASSUME NEW r \in RunIds, MarkRunFailed(c, r) PROVE BoardInv'
    BY <2>9, MarkRunFailedInv
  <2>10. ASSUME NEW r \in RunIds, RequestRunChanges(c, r) PROVE BoardInv'
    BY <2>10, RequestRunChangesInv
  <2>11. ASSUME NEW r \in RunIds, RetryEvidence(c, r) PROVE BoardInv'
    BY <2>11, RetryReviewPhaseInv DEF RetryEvidence
  <2>12. ASSUME NEW r \in RunIds, RetryPreview(c, r) PROVE BoardInv'
    BY <2>12, RetryReviewPhaseInv DEF RetryPreview
  <2>13. ASSUME NEW r \in RunIds, TakeOverRun(c, r) PROVE BoardInv'
    BY <2>13, TakeOverRunInv
  <2>14. ASSUME Interrupt(c) PROVE BoardInv'
    BY <2>14, InterruptInv
  <2> QED BY <1>2, <2>1, <2>2, <2>3, <2>4, <2>5, <2>6, <2>7, <2>8, <2>9, <2>10, <2>11,
             <2>12, <2>13, <2>14, Zenon DEF Operate
<1>3. ASSUME NEW c \in Callers, Continue(c) PROVE BoardInv'
  BY <1>3, CreateRunInv, LoopStepInv, NoteRetryInv DEF Continue
<1> QED BY <1>1, <1>2, <1>3 DEF Next

LEMMA InitInv == Init => BoardInv
BY DEF Init, BoardInv, NumbersVacant, UnbornEmpty, StartsKnown, RunPointerValid,
       BoardShowsRun, OrphanRunsInert, VacantTask, VacantRun, RunsOf, Live, Exists

(* A live task points at a run of its own as soon as it has any, its column   *)
(* agrees with that run unless a person moved the card, and runs without a    *)
(* task are inert: in every state of a board of any size.                     *)
THEOREM BoardCorrect == Spec => []TasksMatchRuns
<1>1. Init => TypeOK /\ BoardInv
  BY InitInv, VacantTypes, RunsAssumption DEF Init, TypeOK
<1>2. TypeOK /\ BoardInv /\ [Next]_vars => TypeOK' /\ BoardInv'
  BY NextType, NextInv
<1>3. TypeOK /\ BoardInv => TasksMatchRuns
  BY DEF BoardInv, TasksMatchRuns
<1> QED BY <1>1, <1>2, <1>3, PTL DEF Spec

-----------------------------------------------------------------------------
(* The steps: what an operation may do to runs that exist, that the board    *)
(* implements RunLedger, and that the stored dependency states stay fresh.   *)
USE DEF Tasks, NoTask, RunIds, NoRun

-----------------------------------------------------------------------------
(* The five things a step may do to the runs. *)

RunsKept == UNCHANGED <<runs, created>>

(* A transition that was accepted. *)
RunPatched(r, p) ==
    /\ Exists(runs, r) /\ Accepts(runs[r], p)
    /\ runs' = Patching(r, p) /\ created' = created

(* A failure, a takeover, or a retry of the review phase: whatever status    *)
(* the run is in, and nothing of it but its status.                          *)
Imposed == {"FAILED", "OPERATOR_CONTROLLED", "WAITING_PREVIEW", "EVIDENCE_RUNNING"}
RunRestatused(r, status) ==
    /\ Exists(runs, r)
    /\ runs' = [runs EXCEPT ![r].status = status] /\ created' = created

(* The review a run is said to continue exists, and is another task's. *)
ContinuesReview(run) ==
    run.source = "dependency_review_head"
      => /\ run.upstream \in 1..created
         /\ LET up == runs[run.upstream] IN
            up.task # NoTask => up.head /\ up.review /\ up.task # run.task

(* A new run, with the review of an earlier one of its task if it takes that *)
(* one up.                                                                   *)
RunAdded(run) ==
    /\ BoardInv /\ LineageInv => ContinuesReview(run)
    /\ run.status = "QUEUED" /\ run.task \in Tasks
    /\ run.review => \E base \in RunIds : /\ Exists(runs, base)
                                          /\ run.task = runs[base].task
                                          /\ runs[base].review
    /\ created < MaxRuns /\ created' = created + 1
    /\ runs' = [runs EXCEPT ![created + 1] = run]

RunsDropped(t) ==
    /\ runs' = [r \in RunIds |-> IF runs[r].task = t THEN VacantRun ELSE runs[r]]
    /\ created' = created

RunsMove ==
    \/ RunsKept
    \/ \E r \in RunIds, p \in Patch : RunPatched(r, p)
    \/ \E r \in RunIds, status \in Imposed : RunRestatused(r, status)
    \/ \E run \in Run : RunAdded(run)
    \/ \E t \in Tasks : RunsDropped(t)

LEMMA CreateRunMoves ==
  ASSUME TypeOK, NEW c \in Callers, CreateRun(c)
  PROVE  RunsMove
<1> DEFINE f == Head(calls[c])
           source == ResolveRunSource(tasks, runs, f.lineage, f.explicit)
           run == QueuedRun(f.task, f.base, source)
<1>1. f \in Frame /\ f.op = "start"
  BY DEF CreateRun, At, TypeOK
<1>2. f.task \in Tasks /\ f.base \in 0..MaxRuns
  BY <1>1 DEF Frame, ScanFrame, LoopFrame, StartFrame, NoteFrame
<1>3. source.mode \in SourceMode /\ source.upstream \in 0..MaxRuns
  BY SourceType
<1>4. runs' = [runs EXCEPT ![created + 1] = run]
  BY DEF CreateRun, Store
<1> HIDE DEF f, source
<1>5. run \in Run /\ run.status = "QUEUED" /\ run.task = f.task /\ ~run.review
  BY <1>2, <1>3, VacantTypes DEF QueuedRun, VacantRun, Run
<1>6. created < MaxRuns /\ created' = created + 1
  BY DEF CreateRun
<1>7. ASSUME BoardInv, LineageInv, run.source = "dependency_review_head"
      PROVE  /\ run.upstream \in 1..created
             /\ LET up == runs[run.upstream] IN
                up.task # NoTask => up.head /\ up.review /\ up.task # run.task
  <2>1. f.lineage # f.task
    <3>1. 1 \in 1..Len(calls[c]) /\ f = calls[c][1]
      BY DEF CreateRun, At, TypeOK, f
    <3> QED BY <1>1, <1>7, <3>1 DEF LineageInv, StartsForeign, Foreign
  <2>2. source.mode = "dependency_review_head" /\ run.upstream = source.upstream
    BY <1>2, <1>3, <1>7, VacantTypes DEF QueuedRun, VacantRun, Run
  <2>3. HasReviewHead(tasks, runs, f.lineage) /\ source.upstream = LatestRun(runs, f.lineage)
    <3>1. CASE f.explicit
      BY <2>2, <3>1 DEF ResolveRunSource, source
    <3>2. CASE ~f.explicit /\ HasReviewHead(tasks, runs, f.lineage)
      BY <3>2 DEF ResolveRunSource, source
    <3>3. CASE ~f.explicit /\ ~HasReviewHead(tasks, runs, f.lineage)
      BY <2>2, <3>3 DEF ResolveRunSource, source
    <3> QED BY <3>1, <3>2, <3>3
  <2>4. PICK up \in RunIds : up = LatestRun(runs, f.lineage) /\ runs[up].head /\ runs[up].review
    BY <2>3 DEF HasReviewHead
  <2>5. runs[up].task = f.lineage /\ f.lineage \in Tasks
    BY <2>3, <2>4 DEF LatestRun, RunsOf, HasReviewHead
  <2>6. up \in 1..created
    BY <1>7, <2>5, ExistsCreated DEF Exists
  <2> QED BY <1>5, <2>1, <2>2, <2>3, <2>4, <2>5, <2>6
<1> QED BY <1>2, <1>4, <1>5, <1>6, <1>7 DEF RunsMove, RunAdded, ContinuesReview

LEMMA RequestRunChangesMoves ==
  ASSUME TypeOK, NEW c \in Callers, NEW r \in RunIds, RequestRunChanges(c, r)
  PROVE  RunsMove
<1> DEFINE run == [VacantRun EXCEPT !.task = runs[r].task, !.loop = "RERUN_QUEUED",
                     !.review = runs[r].review, !.merge = runs[r].merge, !.base = r,
                     !.source = runs[r].source, !.upstream = runs[r].upstream]
<1>1. runs[r] \in Run /\ Exists(runs, r) /\ r \in 0..MaxRuns /\ runs[r].task \in Tasks
  BY RunsAssumption DEF RequestRunChanges, TypeOK, Exists, Run
<1>2. run \in Run
  BY <1>1, VacantTypes, RunTakesUp, Zenon
<1>3. run.status = "QUEUED" /\ run.task = runs[r].task /\ run.review = runs[r].review
  BY DEF VacantRun
<1>4. /\ runs' = [runs EXCEPT ![created + 1] = run]
      /\ created < MaxRuns /\ created' = created + 1
  BY DEF RequestRunChanges, Commit, Store
<1>5. run.source = runs[r].source /\ run.upstream = runs[r].upstream
  BY DEF VacantRun
<1> HIDE DEF run
<1>6. ASSUME BoardInv, LineageInv PROVE ContinuesReview(run)
  <2>1. r <= created /\ created \in Nat
    BY <1>1, <1>6, ExistsCreated
  <2>2. runs[r].source = "dependency_review_head"
          => /\ runs[r].upstream \in 1..(r - 1)
             /\ LET up == runs[runs[r].upstream] IN
                up.task # NoTask => up.head /\ up.review /\ up.task # runs[r].task
    BY <1>6 DEF LineageInv, UpstreamHeadReviewed
  <2>3. runs[r].upstream \in 1..(r - 1) => runs[r].upstream \in 1..created
    BY <2>1
  <2> QED BY <1>3, <1>5, <2>2, <2>3 DEF ContinuesReview
<1> QED BY <1>1, <1>2, <1>3, <1>4, <1>6 DEF RunsMove, RunAdded

LEMMA NoteRetryMoves ==
  ASSUME TypeOK, NEW c \in Callers, NoteRetry(c)
  PROVE  RunsMove
<1> DEFINE r == Head(calls[c]).run
<1>1. r \in RunIds
  BY DEF NoteRetry, At, TypeOK, Frame, ScanFrame, LoopFrame, StartFrame, NoteFrame
<1>2. CASE Exists(runs, r) /\ Live(tasks, runs[r].task)
  <2>1. Accepts(runs[r], NoteOnly)
    BY DEF Accepts, NoteOnly
  <2>2. runs' = Patching(r, NoteOnly) /\ created' = created
    BY <1>2 DEF NoteRetry, Commit, Store
  <2> HIDE DEF r
  <2> QED BY <1>1, <1>2, <2>1, <2>2, NoteOnlyType DEF RunsMove, RunPatched
<1>3. CASE ~(Exists(runs, r) /\ Live(tasks, runs[r].task))
  BY <1>3 DEF NoteRetry, RunsMove, RunsKept
<1> QED BY <1>2, <1>3

LEMMA TransitionMoves ==
  ASSUME NEW c \in Callers, NEW r \in RunIds, NEW p \in Patches, TransitionRun(c, r, p)
  PROVE  RunsMove
BY InputsAssumption DEF TransitionRun, Commit, Store, RunsMove, RunPatched

LEMMA RestatusMoves ==
  ASSUME NEW r \in RunIds, NEW status \in Imposed, Exists(runs, r),
         runs' = [runs EXCEPT ![r].status = status], created' = created
  PROVE  RunsMove
BY DEF RunsMove, RunRestatused

LEMMA StepMoves ==
  ASSUME TypeOK, [Next]_vars
  PROVE  RunsMove
<1>1. CASE UNCHANGED vars
  BY <1>1 DEF vars, RunsMove, RunsKept
<1>2. ASSUME NEW c \in Callers, Operate(c) PROVE RunsMove
  <2>1. ASSUME NEW input \in NewTasks, CreateTask(c, input) PROVE RunsMove
    BY <2>1 DEF CreateTask, Commit, Store, RunsMove, RunsKept
  <2>2. ASSUME NEW t \in Tasks, NEW column \in EditColumns, MoveTask(c, t, column)
        PROVE RunsMove
    BY <2>2 DEF MoveTask, Commit, Store, RunsMove, RunsKept
  <2>3. ASSUME NEW t \in Tasks, NEW input \in Edits, NEW started \in BOOLEAN,
               EditTask(c, t, input, started)
        PROVE RunsMove
    BY <2>3 DEF EditTask, Commit, Store, RunsMove, RunsKept
  <2>4. ASSUME NEW t \in Tasks, DeleteTask(c, t) PROVE RunsMove
    BY <2>4 DEF DeleteTask, RunsMove, RunsDropped
  <2>5. ASSUME NEW t \in Tasks, StartRun(c, t) PROVE RunsMove
    BY <2>5 DEF StartRun, RunsMove, RunsKept
  <2>6. ASSUME NEW r \in RunIds, NEW checkpoint \in BOOLEAN, RetryRun(c, r, checkpoint)
        PROVE RunsMove
    BY <2>6 DEF RetryRun, RunsMove, RunsKept
  <2>7. ASSUME NEW r \in RunIds, NEW p \in Patches, TransitionRun(c, r, p) PROVE RunsMove
    BY <2>7, TransitionMoves
  <2>8. ASSUME NEW r \in RunIds, NEW p \in Patches,
               TransitionRunFromLoopState(c, r, "DECISION_REQUIRED", p)
        PROVE RunsMove
    BY <2>8, TransitionMoves DEF TransitionRunFromLoopState
  <2>9. ASSUME NEW r \in RunIds, MarkRunFailed(c, r) PROVE RunsMove
    BY <2>9, RestatusMoves DEF MarkRunFailed, Commit, Store, Imposed
  <2>10. ASSUME NEW r \in RunIds, RequestRunChanges(c, r) PROVE RunsMove
    BY <2>10, RequestRunChangesMoves
  <2>11. ASSUME NEW r \in RunIds, RetryEvidence(c, r) PROVE RunsMove
    BY <2>11, RestatusMoves DEF RetryEvidence, RetryReviewPhase, Commit, Store, Imposed
  <2>12. ASSUME NEW r \in RunIds, RetryPreview(c, r) PROVE RunsMove
    BY <2>12, RestatusMoves DEF RetryPreview, RetryReviewPhase, Commit, Store, Imposed
  <2>13. ASSUME NEW r \in RunIds, TakeOverRun(c, r) PROVE RunsMove
    BY <2>13, RestatusMoves DEF TakeOverRun, Commit, Store, Imposed
  <2>14. ASSUME Interrupt(c) PROVE RunsMove
    BY <2>14 DEF Interrupt, RunsMove, RunsKept
  <2> QED BY <1>2, <2>1, <2>2, <2>3, <2>4, <2>5, <2>6, <2>7, <2>8, <2>9, <2>10, <2>11,
             <2>12, <2>13, <2>14, Zenon DEF Operate
<1>3. ASSUME NEW c \in Callers, Continue(c) PROVE RunsMove
  <2>1. CASE ScanTasks(c) \/ AutoStartTask(c)
    BY <2>1 DEF ScanTasks, AutoStartTask, RunsMove, RunsKept
  <2> QED BY <1>3, <2>1, CreateRunMoves, NoteRetryMoves DEF Continue
<1> QED BY <1>1, <1>2, <1>3 DEF Next

-----------------------------------------------------------------------------
(* What a step may do to one run that exists *)

LEMMA NewNumberVacant ==
  ASSUME TypeOK, BoardInv, created < MaxRuns
  PROVE  created + 1 \in RunIds /\ ~Exists(runs, created + 1)
<1>1. created + 1 \in RunIds
  BY RunsAssumption DEF TypeOK
<1> QED BY <1>1 DEF BoardInv, NumbersVacant, Exists, VacantRun, TypeOK

LEMMA RunMoves ==
  ASSUME TypeOK, BoardInv, RunsMove, NEW r \in RunIds, Exists(runs, r)
  PROVE  \/ runs'[r] = runs[r]
         \/ ~Exists(runs', r)
         \/ \E p \in Patch : Accepts(runs[r], p) /\ runs'[r] = Patched(runs[r], p)
         \/ \E status \in Imposed : runs'[r] = [runs[r] EXCEPT !.status = status]
<1>1. CASE RunsKept
  BY <1>1 DEF RunsKept
<1>2. ASSUME NEW q \in RunIds, NEW p \in Patch, RunPatched(q, p)
      PROVE  \/ runs'[r] = runs[r]
             \/ Accepts(runs[r], p) /\ runs'[r] = Patched(runs[r], p)
  BY <1>2 DEF RunPatched, Patching, TypeOK
<1>3. ASSUME NEW q \in RunIds, NEW status \in Imposed, RunRestatused(q, status)
      PROVE  \/ runs'[r] = runs[r]
             \/ runs'[r] = [runs[r] EXCEPT !.status = status]
  BY <1>3 DEF RunRestatused, TypeOK
<1>4. ASSUME NEW run \in Run, RunAdded(run)
      PROVE  runs'[r] = runs[r]
  <2>1. r # created + 1
    BY <1>4, NewNumberVacant DEF RunAdded
  <2> QED BY <1>4, <2>1 DEF RunAdded, TypeOK
<1>5. ASSUME NEW t \in Tasks, RunsDropped(t)
      PROVE  runs'[r] = runs[r] \/ ~Exists(runs', r)
  BY <1>5 DEF RunsDropped, Exists, VacantRun
<1> QED BY <1>1, <1>2, <1>3, <1>4, <1>5 DEF RunsMove

(* The loop state a transition resolves comes out of the table of successors, *)
(* where a rerun follows a decision and a decision follows a review.          *)
LEMMA LoopMoves ==
  ASSUME NEW loop \in LoopState, NEW request \in LoopState \cup {NoRequest},
         NEW status \in RunStatus, ResolveLoopState(loop, request, status) # loop
  PROVE  /\ ResolveLoopState(loop, request, status) = "RERUN_QUEUED"
                => loop = "DECISION_REQUIRED"
         /\ ResolveLoopState(loop, request, status) = "DECISION_REQUIRED"
                => loop = "REVIEW_PENDING"
<1>1. CASE request = NoRequest
  <2> DEFINE next == InferLoopState(status, loop)
  <2>1. next = loop \/ next \notin {"RERUN_QUEUED", "DECISION_REQUIRED"}
    <3>1. CASE status = "QUEUED"
      BY <3>1 DEF InferLoopState
    <3>2. CASE status = "DONE"
      BY <3>2 DEF InferLoopState
    <3>3. CASE status = "FAILED"
      BY <3>3 DEF InferLoopState
    <3>4. CASE status \in RunStatus \ {"QUEUED", "DONE", "FAILED"}
      BY <3>4 DEF InferLoopState
    <3> QED BY <3>1, <3>2, <3>3, <3>4
  <2> QED BY <1>1, <2>1 DEF ResolveLoopState
<1>2. CASE request # NoRequest
  <2>1. /\ loop \notin {"DONE", "FAILED", "PAUSED"} /\ request \in LoopSuccessors[loop]
        /\ ResolveLoopState(loop, request, status) = request
    BY <1>2 DEF ResolveLoopState, IsTerminalLoopState, CanPersistLoopTransition
  <2>2. /\ request = "RERUN_QUEUED" => loop = "DECISION_REQUIRED"
        /\ request = "DECISION_REQUIRED" => loop = "REVIEW_PENDING"
    BY <2>1 DEF LoopSuccessors, LoopState
  <2> QED BY <2>1, <2>2
<1> QED BY <1>1, <1>2

(* The parts of a patched run that the properties are about. *)
LEMMA PatchedParts ==
  ASSUME NEW run \in Run, NEW p \in Patch
  PROVE  /\ Patched(run, p).status \in RunStatus
         /\ Patched(run, p).status \in {run.status, p.status}
         /\ p.status = NoRequest => Patched(run, p).status = run.status
         /\ Patched(run, p).loop
                = ResolveLoopState(run.loop, p.loop, Patched(run, p).status)
         /\ Patched(run, p).task = run.task
         /\ Patched(run, p).review = (run.review \/ p.review)
         /\ Patched(run, p).head = (run.head \/ p.head)
         /\ Patched(run, p).source = run.source
         /\ Patched(run, p).upstream = run.upstream
<1> DEFINE status == IF p.status = NoRequest THEN run.status ELSE p.status
           loop == ResolveLoopState(run.loop, p.loop, status)
           sandbox == run.sandbox \/ p.sandbox
           head == run.head \/ p.head
           review == run.review \/ p.review
           merge == IF p.merge = NoRequest THEN run.merge ELSE p.merge
<1>1. Patched(run, p) = [run EXCEPT !.status = status, !.loop = loop, !.sandbox = sandbox,
                                    !.head = head, !.review = review, !.merge = merge]
  BY Zenon DEF Patched
<1>2. /\ status \in RunStatus /\ status \in {run.status, p.status}
      /\ p.status = NoRequest => status = run.status
  BY DEF Patch, Run
<1> HIDE DEF status, loop, sandbox, head, review, merge
<1>3. /\ Patched(run, p).status = status /\ Patched(run, p).loop = loop
      /\ Patched(run, p).task = run.task /\ Patched(run, p).review = review
      /\ Patched(run, p).head = head
      /\ Patched(run, p).source = run.source /\ Patched(run, p).upstream = run.upstream
  BY <1>1 DEF Run
<1> QED BY <1>2, <1>3, Zenon DEF loop, review, head

-----------------------------------------------------------------------------
LEMMA Inductive ==
  /\ Init => TypeOK /\ BoardInv
  /\ TypeOK /\ BoardInv /\ [Next]_vars => TypeOK' /\ BoardInv'
<1>1. Init => TypeOK /\ BoardInv
  BY InitInv, VacantTypes, RunsAssumption DEF Init, TypeOK
<1> QED BY <1>1, NextType, NextInv

(* An ended run is moved again only by a takeover, a retry of its evidence or *)
(* preview, a second failure or its task's deletion, for a board of any size. *)
LEMMA EndedForGood == Spec => EndedRunsStayEnded
<1>1. ASSUME TypeOK, BoardInv, [Next]_vars, NEW r \in RunIds, Exists(runs, r),
             IsTerminalRunStatus(runs[r].status)
      PROVE  \/ ~Exists(runs', r)
             \/ runs'[r].status \in {runs[r].status, "FAILED", "OPERATOR_CONTROLLED",
                                     "WAITING_PREVIEW", "EVIDENCE_RUNNING"}
  <2>1. runs[r] \in Run
    BY <1>1 DEF TypeOK
  <2>2. ASSUME NEW p \in Patch, Accepts(runs[r], p)
        PROVE  Patched(runs[r], p).status = runs[r].status
    BY <1>1, <2>1, <2>2, PatchedParts DEF Accepts
  <2>3. ASSUME NEW status \in Imposed
        PROVE  [runs[r] EXCEPT !.status = status].status \in Imposed
    BY <2>1 DEF Run
  <2> QED BY <1>1, <2>2, <2>3, StepMoves, RunMoves DEF Imposed
<1>2. TypeOK /\ BoardInv /\ [Next]_vars
        => [\A r \in RunIds :
              Exists(runs, r) /\ IsTerminalRunStatus(runs[r].status)
                 => \/ ~Exists(runs', r)
                    \/ runs'[r].status \in {runs[r].status, "FAILED", "OPERATOR_CONTROLLED",
                                            "WAITING_PREVIEW", "EVIDENCE_RUNNING"}]_vars
  BY <1>1
<1> QED BY <1>2, Inductive, PTL DEF Spec, EndedRunsStayEnded

(* A rerun is queued only out of a decision asked for, and a decision is      *)
(* asked for only out of a pending review, whatever clients request.          *)
LEMMA LoopGated == Spec => LoopGate
<1>1. ASSUME TypeOK, BoardInv, [Next]_vars, NEW r \in RunIds, Exists(runs, r),
             Exists(runs', r), runs'[r].loop # runs[r].loop
      PROVE  /\ runs'[r].loop = "RERUN_QUEUED" => runs[r].loop = "DECISION_REQUIRED"
             /\ runs'[r].loop = "DECISION_REQUIRED" => runs[r].loop = "REVIEW_PENDING"
  <2>1. runs[r] \in Run
    BY <1>1 DEF TypeOK
  <2>2. \A status \in Imposed : [runs[r] EXCEPT !.status = status].loop = runs[r].loop
    BY <2>1 DEF Run
  <2>3. PICK p \in Patch : runs'[r] = Patched(runs[r], p)
    BY <1>1, <2>2, StepMoves, RunMoves
  <2>4. runs[r].loop \in LoopState /\ p.loop \in LoopState \cup {NoRequest}
    BY <2>1 DEF Run, Patch
  <2> QED BY <1>1, <2>1, <2>3, <2>4, PatchedParts, LoopMoves
<1>2. TypeOK /\ BoardInv /\ [Next]_vars
        => [\A r \in RunIds :
              Exists(runs, r) /\ Exists(runs', r) /\ runs'[r].loop # runs[r].loop
                 => /\ runs'[r].loop = "RERUN_QUEUED" => runs[r].loop = "DECISION_REQUIRED"
                    /\ runs'[r].loop = "DECISION_REQUIRED"
                          => runs[r].loop = "REVIEW_PENDING"]_vars
  BY <1>1
<1> QED BY <1>2, Inductive, PTL DEF Spec, LoopGate

(* A run moves as its state machines allow, whatever is asked of the board    *)
(* and however late, for a board of any size.                                 *)
THEOREM MovesAllowed == Spec => RunsMoveOn
BY EndedForGood, LoopGated DEF RunsMoveOn

-----------------------------------------------------------------------------
(* The board implements the ledger *)

(* A step that writes run r, which exists, and keeps its task and its review. *)
LEMMA ProgressStep ==
  ASSUME TypeOK, BoardInv, NEW r \in RunIds, Exists(runs, r), NEW run,
         run.task = runs[r].task, runs[r].review => run.review,
         runs' = [runs EXCEPT ![r] = run], created' = created
  PROVE  Ledger!Progress(r)
<1>1. created \in Nat /\ r <= created /\ r \in Nat
  BY ExistsCreated
<1>2. runs'[r] = run /\ \A q \in RunIds \ {r} : runs'[q] = runs[q]
  BY DEF TypeOK
<1>3. Exists(runs, r)' /\ \A q \in RunIds : runs'[q].task = runs[q].task
  BY <1>2 DEF Exists
<1>4. \A q \in RunIds \ {r} : Stage(q)' = Stage(q)
  BY <1>2 DEF Stage, Exists
<1>5. Stage(r) \in {"open", "ended"} /\ Stage(r)' \in {"open", "ended"}
  BY <1>1, <1>3 DEF Stage
<1>6. [q \in RunIds |-> Stage(q)]' = [[q \in RunIds |-> Stage(q)] EXCEPT ![r] = Stage(r)']
  BY <1>4
<1>7. {q \in RunIds : runs'[q].review} \in
        {{q \in RunIds : runs[q].review}, {q \in RunIds : runs[q].review} \cup {r}}
  BY <1>2
<1>8. [q \in RunIds |-> runs[q].task]' = [q \in RunIds |-> runs[q].task]
  BY <1>3
<1> QED BY <1>5, <1>6, <1>7, <1>8 DEF Ledger!Progress, Ledger!Held

(* A step that adds a run writes the next number, which nobody has used. *)
LEMMA AddedStep ==
  ASSUME TypeOK, BoardInv, NEW run \in Run, RunAdded(run), NEW r, r = created + 1
  PROVE  Ledger!Next
<1> DEFINE t == run.task
<1>1. created \in Nat /\ r \in RunIds /\ ~Exists(runs, r) /\ created' = r
  BY NewNumberVacant DEF RunAdded, TypeOK
<1>2. runs'[r] = run /\ \A q \in RunIds \ {r} : runs'[q] = runs[q]
  BY <1>1 DEF RunAdded, TypeOK
<1>3. t \in Tasks /\ run.status = "QUEUED"
  BY DEF RunAdded
<1>4. Stage(r) = "absent" /\ \A q \in 1..(r - 1) : Stage(q) # "absent"
  BY <1>1 DEF Stage
<1>5. Stage(r)' = "open"
  BY <1>1, <1>2, <1>3 DEF Stage, Exists, IsTerminalRunStatus
<1>6. \A q \in RunIds \ {r} : Stage(q)' = Stage(q)
  BY <1>1, <1>2 DEF Stage, Exists
<1>7. Ledger!Enter(r, t)
  <2>1. [q \in RunIds |-> Stage(q)]' = [[q \in RunIds |-> Stage(q)] EXCEPT ![r] = "open"]
    BY <1>5, <1>6
  <2>2. [q \in RunIds |-> runs[q].task]' = [[q \in RunIds |-> runs[q].task] EXCEPT ![r] = t]
    BY <1>1, <1>2
  <2>3. [q \in RunIds |-> Stage(q)][r] = "absent"
    BY <1>1, <1>4
  <2>4. \A q \in 1..(r - 1) : q \in RunIds
    BY <1>1, RunsAssumption
  <2>5. \A q \in 1..(r - 1) : [n \in RunIds |-> Stage(n)][q] # "absent"
    BY <1>4, <2>4
  <2> QED BY <2>1, <2>2, <2>3, <2>5 DEF Ledger!Enter, Ledger!Fresh
<1>8. ~runs[r].review
  BY <1>1, NewNumberVacant DEF BoardInv, NumbersVacant, VacantRun, TypeOK
<1>9. CASE run.review
  <2>1. PICK base \in RunIds : Exists(runs, base) /\ t = runs[base].task /\ runs[base].review
    BY <1>9 DEF RunAdded
  <2>2. Stage(base) \in {"open", "ended"}
    BY <2>1, ExistsCreated DEF Stage
  <2>3. {q \in RunIds : runs'[q].review} = {q \in RunIds : runs[q].review} \cup {r}
    BY <1>1, <1>2, <1>9
  <2>4. [q \in RunIds |-> runs[q].task][base] = t /\ base \in {q \in RunIds : runs[q].review}
    BY <2>1
  <2>5. [q \in RunIds |-> Stage(q)][base] \in {"open", "ended"}
    BY <2>2
  <2> HIDE DEF t
  <2>6. Ledger!Enter(r, [q \in RunIds |-> runs[q].task][base])
    BY <1>7, <2>4 DEF Ledger!Enter
  <2>7. Ledger!TakeUp(r, base)
    <3>1. Ledger!Held(base)
      BY <2>5 DEF Ledger!Held
    <3>2. {q \in RunIds : runs[q].review}' = IF base \in {q \in RunIds : runs[q].review}
                                             THEN {q \in RunIds : runs[q].review} \cup {r}
                                             ELSE {q \in RunIds : runs[q].review}
      BY <2>3, <2>4
    <3> QED BY <2>6, <3>1, <3>2 DEF Ledger!TakeUp, Ledger!Enter, Ledger!Held, Ledger!Fresh
  <2> QED BY <1>1, <2>7 DEF Ledger!Next, Ledger!Numbers
<1>10. CASE ~run.review
  <2>1. {q \in RunIds : runs'[q].review} = {q \in RunIds : runs[q].review}
    BY <1>1, <1>2, <1>8, <1>10
  <2>2. Ledger!Open(r, t)
    BY <1>7, <2>1 DEF Ledger!Open
  <2> HIDE DEF t
  <2> QED BY <1>1, <1>3, <2>2 DEF Ledger!Next, Ledger!Numbers
<1> QED BY <1>9, <1>10

LEMMA DroppedStep ==
  ASSUME TypeOK, BoardInv, NEW t \in Tasks, RunsDropped(t)
  PROVE  Ledger!Drop(t)
<1> DEFINE gone == {r \in RunIds : runs[r].task = t}
<1>1. \A r \in RunIds : runs'[r] = IF r \in gone THEN VacantRun ELSE runs[r]
  BY DEF RunsDropped
<1>2. \A r \in gone : Exists(runs, r) /\ r <= created /\ ~Exists(runs, r)'
  <2>1. \A r \in gone : Exists(runs, r)
    BY DEF Exists
  <2> QED BY <1>1, <2>1, ExistsCreated DEF Exists, VacantRun
<1>3. created' = created
  BY DEF RunsDropped
<1>4. \A r \in RunIds : Stage(r)' = IF r \in gone THEN "dropped" ELSE Stage(r)
  <2>1. \A r \in gone : Stage(r)' = "dropped"
    BY <1>2, <1>3 DEF Stage
  <2>2. \A r \in RunIds \ gone : Stage(r)' = Stage(r)
    BY <1>1, <1>3 DEF Stage, Exists
  <2> QED BY <2>1, <2>2
<1>5. \A r \in RunIds : runs'[r].task = IF r \in gone THEN 0 ELSE runs[r].task
  BY <1>1 DEF VacantRun
<1>6. {r \in RunIds : runs'[r].review} = {r \in RunIds : runs[r].review} \ gone
  BY <1>1 DEF VacantRun
<1>7. gone = {r \in RunIds : [q \in RunIds |-> runs[q].task][r] = t}
  OBVIOUS
<1> HIDE DEF gone
<1> QED BY <1>4, <1>5, <1>6, <1>7 DEF Ledger!Drop, Ledger!Numbers

LEMMA LedgerStep ==
  ASSUME TypeOK, BoardInv, RunsMove
  PROVE  [Ledger!Next]_(Ledger!vars)
<1>1. CASE RunsKept
  <2>1. \A r \in RunIds : Stage(r)' = Stage(r)
    BY <1>1 DEF RunsKept, Stage, Exists
  <2> QED BY <1>1, <2>1 DEF Ledger!vars, RunsKept
<1>2. ASSUME NEW r \in RunIds, NEW p \in Patch, RunPatched(r, p) PROVE Ledger!Next
  <2>1. runs[r] \in Run
    BY DEF TypeOK
  <2>2. /\ Patched(runs[r], p).task = runs[r].task
        /\ runs[r].review => Patched(runs[r], p).review
    BY <2>1, PatchedParts
  <2>3. Ledger!Progress(r)
    BY <1>2, <2>2, ProgressStep DEF RunPatched, Patching
  <2> QED BY <2>3 DEF Ledger!Next, Ledger!Numbers
<1>3. ASSUME NEW r \in RunIds, NEW status \in Imposed, RunRestatused(r, status)
      PROVE  Ledger!Next
  <2>1. runs[r] \in Run
    BY DEF TypeOK
  <2>2. /\ [runs[r] EXCEPT !.status = status].task = runs[r].task
        /\ [runs[r] EXCEPT !.status = status].review = runs[r].review
    BY <2>1 DEF Run
  <2>3. runs' = [runs EXCEPT ![r] = [runs[r] EXCEPT !.status = status]]
    BY <1>3 DEF RunRestatused
  <2>4. Ledger!Progress(r)
    BY <1>3, <2>2, <2>3, ProgressStep DEF RunRestatused
  <2> QED BY <2>4 DEF Ledger!Next, Ledger!Numbers
<1>4. ASSUME NEW t \in Tasks, RunsDropped(t) PROVE Ledger!Next
  BY <1>4, DroppedStep DEF Ledger!Next
<1> QED BY <1>1, <1>2, <1>3, <1>4, AddedStep DEF RunsMove

(* The board implements the ledger: a run number is used once, a run never    *)
(* changes its task, an operation moves one run, a review once opened is kept *)
(* and only the task's deletion removes runs, for a board of any size.        *)
THEOREM BoardImplementsLedger == Spec => LedgerSpec
<1>1. Init => Ledger!Init
  <2> SUFFICES ASSUME Init PROVE Ledger!Init
    OBVIOUS
  <2>1. \A r \in RunIds : runs[r] = VacantRun /\ Stage(r) = "absent"
    BY DEF Init, Stage
  <2>2. \A r \in RunIds : runs[r].task = 0 /\ ~runs[r].review
    BY <2>1 DEF VacantRun
  <2> QED BY <2>1, <2>2 DEF Ledger!Init, Ledger!Numbers
<1>2. TypeOK /\ BoardInv /\ [Next]_vars => [Ledger!Next]_(Ledger!vars)
  BY StepMoves, LedgerStep
<1> QED BY <1>1, <1>2, Inductive, PTL DEF Spec, LedgerSpec, Ledger!Spec

-----------------------------------------------------------------------------
(* Dependency states *)

(* A board as stored: the refresh leaves of each task all but its reasons,    *)
(* which it computes anew.                                                    *)
LEMMA StoredTask ==
  ASSUME NEW T, NEW R, NEW t \in Tasks, RefreshDependencyStates(T, R)[t] \in Task
  PROVE  LET task == RefreshDependencyStates(T, R)[t]
         IN /\ task.life = T[t].life
            /\ task.status = T[t].status
            /\ task.deps = T[t].deps
            /\ task.life = "live" /\ task.deps # {} => task.reasons = ReasonsFor(T, R, t)
<1> DEFINE F == ReasonsFor(T, R, t)
           task == RefreshDependencyStates(T, R)[t]
<1>1. task = IF Live(T, t) /\ T[t].deps # {} THEN [T[t] EXCEPT !.reasons = F] ELSE T[t]
  BY DEF RefreshDependencyStates
<1>2. task \in Task
  OBVIOUS
<1> HIDE DEF F, task
<1>3. ASSUME NEW x, [x EXCEPT !.reasons = F] \in Task
      PROVE  /\ [x EXCEPT !.reasons = F].life = x.life
             /\ [x EXCEPT !.reasons = F].status = x.status
             /\ [x EXCEPT !.reasons = F].deps = x.deps
             /\ [x EXCEPT !.reasons = F].reasons = F
  BY <1>3 DEF Task
<1> QED BY <1>1, <1>2, <1>3 DEF Live, F, task

(* What is said of an upstream hangs on its column and its own runs alone.    *)
LEMMA ReasonSame ==
  ASSUME NEW T, NEW U, NEW R, NEW S, NEW up \in Tasks,
         T[up].life = U[up].life, T[up].status = U[up].status,
         \A r \in RunIds : R[r].task = up <=> S[r].task = up,
         \A r \in RunIds : R[r].task = up => R[r] = S[r]
  PROVE  ReasonFor(T, R, up) = ReasonFor(U, S, up)
<1>1. RunsOf(R, up) = RunsOf(S, up)
  BY DEF RunsOf
<1>2. LatestRun(R, up) = LatestRun(S, up)
  BY <1>1 DEF LatestRun
<1>3. \A r \in RunIds : r = LatestRun(R, up) => R[r] = S[r]
  <2> SUFFICES ASSUME NEW r \in RunIds, r = LatestRun(R, up) PROVE R[r].task = up
    OBVIOUS
  <2> QED BY DEF LatestRun, RunsOf
<1>4. IsDependencyMergedToDefaultBranch(T, R, up) <=> IsDependencyMergedToDefaultBranch(U, S, up)
  BY <1>2, <1>3 DEF IsDependencyMergedToDefaultBranch
<1>5. IsDependencyReviewReady(T, R, up) <=> IsDependencyReviewReady(U, S, up)
  BY <1>2, <1>3 DEF IsDependencyReviewReady
<1> HIDE DEF IsDependencyMergedToDefaultBranch, IsDependencyReviewReady
<1>6. CASE ~Live(T, up)
  BY <1>6 DEF ReasonFor, Live
<1>7. CASE Live(T, up) /\ IsDependencyMergedToDefaultBranch(T, R, up)
  BY <1>4, <1>7 DEF ReasonFor, Live
<1>8. CASE Live(T, up) /\ ~IsDependencyMergedToDefaultBranch(T, R, up)
  BY <1>4, <1>5, <1>8 DEF ReasonFor, Live
<1> QED BY <1>6, <1>7, <1>8

LEMMA StoreFresh ==
  ASSUME NEW T, NEW R, Store(T, R), TypeOK'
  PROVE  DependencyStateFresh'
<1> SUFFICES ASSUME NEW t \in Tasks, tasks'[t].life = "live", tasks'[t].deps # {},
                    NEW up \in Tasks
             PROVE  tasks'[t].reasons[up] = ReasonsFor(tasks', R, t)[up]
  BY DEF DependencyStateFresh, Live, Store
<1>1. \A u \in Tasks : RefreshDependencyStates(T, R)[u] \in Task
  BY DEF Store, TypeOK
<1>2. /\ tasks'[t].reasons = ReasonsFor(T, R, t) /\ tasks'[t].deps = T[t].deps
      /\ tasks'[up].life = T[up].life /\ tasks'[up].status = T[up].status
  BY <1>1, StoredTask DEF Store
<1>3. ReasonFor(T, R, up) = ReasonFor(tasks', R, up)
  BY <1>2, ReasonSame
<1> QED BY <1>2, <1>3 DEF ReasonsFor

(* Dropping a task and its runs changes nothing about another upstream. *)
LEMMA DeleteFresh ==
  ASSUME TypeOK, DependencyStateFresh, NEW c \in Callers, NEW d \in Tasks, DeleteTask(c, d)
  PROVE  DependencyStateFresh'
<1> SUFFICES ASSUME NEW t \in Tasks, tasks'[t].life = "live", tasks'[t].deps # {},
                    NEW up \in Tasks
             PROVE  \/ tasks'[t].reasons[up] = ReasonsFor(tasks', runs', t)[up]
                    \/ up \in tasks'[t].deps /\ tasks'[up].life = "deleted"
  BY DEF DependencyStateFresh, Live
<1>1. /\ tasks'[d].life = "deleted"
      /\ \A u \in Tasks \ {d} : tasks'[u] = tasks[u]
      /\ \A r \in RunIds : runs'[r] = IF runs[r].task = d THEN VacantRun ELSE runs[r]
  BY DEF DeleteTask, VacantTask, TypeOK
<1>2. t # d /\ tasks'[t] = tasks[t]
  BY <1>1
<1>3. \/ tasks[t].reasons[up] = ReasonsFor(tasks, runs, t)[up]
      \/ up \in tasks[t].deps /\ tasks[up].life = "deleted"
  BY <1>2 DEF DependencyStateFresh, Live
<1>4. CASE up \notin tasks[t].deps
  BY <1>2, <1>3, <1>4 DEF ReasonsFor
<1>5. CASE up \in tasks[t].deps /\ up = d
  BY <1>1, <1>2, <1>5
<1>6. CASE up \in tasks[t].deps /\ up # d
  <2>1. \A r \in RunIds : /\ runs[r].task = up <=> runs'[r].task = up
                          /\ runs[r].task = up => runs[r] = runs'[r]
    BY <1>1, <1>6 DEF VacantRun
  <2>2. ReasonFor(tasks, runs, up) = ReasonFor(tasks', runs', up)
    BY <1>1, <1>6, <2>1, ReasonSame
  <2> QED BY <1>1, <1>2, <1>3, <1>6, <2>2 DEF ReasonsFor
<1> QED BY <1>4, <1>5, <1>6

LEMMA KeptFresh ==
  ASSUME DependencyStateFresh, UNCHANGED <<tasks, runs>>
  PROVE  DependencyStateFresh'
BY DEF DependencyStateFresh

LEMMA StepFresh ==
  ASSUME TypeOK, DependencyStateFresh, [Next]_vars, TypeOK'
  PROVE  DependencyStateFresh'
<1>1. CASE UNCHANGED vars
  BY <1>1, KeptFresh DEF vars
<1>2. ASSUME NEW c \in Callers, NEW T, NEW R, Commit(c, T, R) PROVE DependencyStateFresh'
  BY <1>2, StoreFresh DEF Commit
<1>3. ASSUME NEW c \in Callers, Operate(c) PROVE DependencyStateFresh'
  <2>1. ASSUME NEW t \in Tasks, DeleteTask(c, t) PROVE DependencyStateFresh'
    BY <2>1, DeleteFresh
  <2>2. ASSUME NEW t \in Tasks, StartRun(c, t) PROVE DependencyStateFresh'
    BY <2>2, KeptFresh DEF StartRun
  <2>3. ASSUME NEW r \in RunIds, NEW checkpoint \in BOOLEAN, RetryRun(c, r, checkpoint)
        PROVE  DependencyStateFresh'
    BY <2>3, KeptFresh DEF RetryRun
  <2>4. CASE Interrupt(c)
    BY <2>4, KeptFresh DEF Interrupt
  <2>5. ASSUME NEW input \in NewTasks, CreateTask(c, input) PROVE DependencyStateFresh'
    BY <1>2, <2>5 DEF CreateTask
  <2>6. ASSUME NEW t \in Tasks, NEW column \in EditColumns, MoveTask(c, t, column)
        PROVE  DependencyStateFresh'
    BY <1>2, <2>6 DEF MoveTask
  <2>7. ASSUME NEW t \in Tasks, NEW input \in Edits, NEW started \in BOOLEAN,
               EditTask(c, t, input, started)
        PROVE  DependencyStateFresh'
    BY <1>2, <2>7 DEF EditTask
  <2>8. ASSUME NEW r \in RunIds, NEW p \in Patches, TransitionRun(c, r, p)
        PROVE  DependencyStateFresh'
    BY <1>2, <2>8 DEF TransitionRun
  <2>9. ASSUME NEW r \in RunIds, NEW status, RetryReviewPhase(c, r, status)
        PROVE  DependencyStateFresh'
    BY <1>2, <2>9 DEF RetryReviewPhase
  <2>10. ASSUME NEW r \in RunIds, MarkRunFailed(c, r) \/ TakeOverRun(c, r)
                                    \/ RequestRunChanges(c, r)
         PROVE  DependencyStateFresh'
    BY <1>2, <2>10 DEF MarkRunFailed, TakeOverRun, RequestRunChanges
  <2>11. ASSUME NEW r \in RunIds, RetryEvidence(c, r) \/ RetryPreview(c, r)
         PROVE  DependencyStateFresh'
    BY <2>9, <2>11 DEF RetryEvidence, RetryPreview
  <2>12. ASSUME NEW r \in RunIds, NEW p \in Patches,
                TransitionRunFromLoopState(c, r, "DECISION_REQUIRED", p)
         PROVE  DependencyStateFresh'
    BY <2>8, <2>12 DEF TransitionRunFromLoopState
  <2> QED BY <1>3, <2>1, <2>2, <2>3, <2>4, <2>5, <2>6, <2>7, <2>8, <2>10, <2>11, <2>12, Zenon
          DEF Operate
<1>4. ASSUME NEW c \in Callers, Continue(c) PROVE DependencyStateFresh'
  <2>1. CASE CreateRun(c)
    BY <2>1, StoreFresh DEF CreateRun
  <2>2. CASE ScanTasks(c) \/ AutoStartTask(c)
    BY <2>2, KeptFresh DEF ScanTasks, AutoStartTask
  <2>3. CASE NoteRetry(c)
    BY <1>2, <2>3, KeptFresh DEF NoteRetry
  <2> QED BY <1>4, <2>1, <2>2, <2>3 DEF Continue
<1> QED BY <1>1, <1>3, <1>4 DEF Next

(* Whichever operation changed an upstream or its runs, a stored dependency   *)
(* state is what a refresh now would compute, but for a deleted upstream.     *)
THEOREM StatesFresh == Spec => []DependencyStateFresh
<1>1. Init => DependencyStateFresh
  BY DEF Init, DependencyStateFresh, Live, VacantTask
<1>2. TypeOK /\ DependencyStateFresh /\ [Next]_vars /\ TypeOK' => DependencyStateFresh'
  BY StepFresh
<1> QED BY <1>1, <1>2, Inductive, PTL DEF Spec

-----------------------------------------------------------------------------
(* Whose review a run continues *)

(* A step that keeps of each run its task and where it began, and takes back  *)
(* no commit and no review.                                                   *)
LEMMA KeptHeads ==
  ASSUME UpstreamHeadReviewed,
         \A r \in RunIds : /\ runs'[r].source = runs[r].source
                           /\ runs'[r].upstream = runs[r].upstream
                           /\ runs'[r].task = runs[r].task
                           /\ runs[r].head => runs'[r].head
                           /\ runs[r].review => runs'[r].review
  PROVE  UpstreamHeadReviewed'
<1> SUFFICES ASSUME NEW r \in RunIds, runs'[r].source = "dependency_review_head"
             PROVE  /\ runs'[r].upstream \in 1..(r - 1)
                    /\ LET up == runs'[runs'[r].upstream] IN
                       up.task # NoTask => up.head /\ up.review /\ up.task # runs'[r].task
  BY DEF UpstreamHeadReviewed
<1>1. /\ runs[r].upstream \in 1..(r - 1)
      /\ LET up == runs[runs[r].upstream] IN
         up.task # NoTask => up.head /\ up.review /\ up.task # runs[r].task
  BY DEF UpstreamHeadReviewed
<1>2. runs[r].upstream \in RunIds
  BY <1>1, RunsAssumption
<1> QED BY <1>1, <1>2

LEMMA MovesHeads ==
  ASSUME TypeOK, BoardInv, LineageInv, RunsMove
  PROVE  UpstreamHeadReviewed'
<1>1. UpstreamHeadReviewed
  BY DEF LineageInv
<1>2. CASE RunsKept
  BY <1>1, <1>2, KeptHeads DEF RunsKept
<1>3. ASSUME NEW q \in RunIds, NEW p \in Patch, RunPatched(q, p) PROVE UpstreamHeadReviewed'
  <2>1. /\ runs'[q] = Patched(runs[q], p) /\ runs[q] \in Run
        /\ \A r \in RunIds \ {q} : runs'[r] = runs[r]
    BY <1>3 DEF RunPatched, Patching, TypeOK
  <2>2. /\ runs'[q].source = runs[q].source /\ runs'[q].upstream = runs[q].upstream
        /\ runs'[q].task = runs[q].task
    BY <2>1, PatchedParts
  <2>3. (runs[q].head => runs'[q].head) /\ (runs[q].review => runs'[q].review)
    <3>1. /\ Patched(runs[q], p).head = (runs[q].head \/ p.head)
          /\ Patched(runs[q], p).review = (runs[q].review \/ p.review)
      BY <2>1, PatchedParts
    <3>2. /\ runs'[q].head = (runs[q].head \/ p.head)
          /\ runs'[q].review = (runs[q].review \/ p.review)
      BY <2>1, <3>1
    <3> QED BY <3>2, Zenon
  <2>4. \A r \in RunIds : /\ runs'[r].source = runs[r].source
                          /\ runs'[r].upstream = runs[r].upstream
                          /\ runs'[r].task = runs[r].task
                          /\ runs[r].head => runs'[r].head
                          /\ runs[r].review => runs'[r].review
    BY <2>1, <2>2, <2>3, Zenon
  <2> QED BY <1>1, <2>4, KeptHeads, Zenon
<1>4. ASSUME NEW q \in RunIds, NEW status \in Imposed, RunRestatused(q, status)
      PROVE  UpstreamHeadReviewed'
  <2>1. /\ runs'[q] = [runs[q] EXCEPT !.status = status] /\ runs[q] \in Run
        /\ \A r \in RunIds \ {q} : runs'[r] = runs[r]
    BY <1>4 DEF RunRestatused, TypeOK
  <2>2. /\ runs'[q].source = runs[q].source /\ runs'[q].upstream = runs[q].upstream
        /\ runs'[q].task = runs[q].task /\ runs'[q].head = runs[q].head
        /\ runs'[q].review = runs[q].review
    BY <2>1 DEF Run
  <2> QED BY <1>1, <2>1, <2>2, KeptHeads
<1>5. ASSUME NEW run \in Run, RunAdded(run) PROVE UpstreamHeadReviewed'
  <2>1. PICK n \in RunIds : n = created + 1 /\ ~Exists(runs, n)
    BY <1>5, NewNumberVacant DEF RunAdded
  <2>2. runs'[n] = run /\ \A q \in RunIds \ {n} : runs'[q] = runs[q]
    BY <1>5, <2>1 DEF RunAdded, TypeOK
  <2>3. created \in Nat /\ \A q \in RunIds : q > created => runs[q].source = "default_branch"
    BY DEF BoardInv, NumbersVacant, VacantRun, TypeOK
  <2> SUFFICES ASSUME NEW r \in RunIds, runs'[r].source = "dependency_review_head"
               PROVE  /\ runs'[r].upstream \in 1..(r - 1)
                      /\ LET up == runs'[runs'[r].upstream] IN
                         up.task # NoTask => up.head /\ up.review /\ up.task # runs'[r].task
    BY DEF UpstreamHeadReviewed
  <2>4. r <= n
    BY <2>1, <2>2, <2>3
  <2>5. /\ runs'[r].upstream \in 1..(r - 1) /\ runs'[r].upstream \in 1..created
        /\ LET up == runs[runs'[r].upstream] IN
           up.task # NoTask => up.head /\ up.review /\ up.task # runs'[r].task
    <3>1. CASE r = n
      BY <1>5, <2>1, <2>2, <2>3, <3>1 DEF RunAdded, ContinuesReview
    <3>2. CASE r # n
      BY <1>1, <2>1, <2>2, <2>3, <2>4, <3>2 DEF UpstreamHeadReviewed
    <3> QED BY <3>1, <3>2
  <2>6. runs'[r].upstream \in RunIds \ {n}
    BY <2>1, <2>3, <2>5, RunsAssumption
  <2> QED BY <2>2, <2>5, <2>6
<1>6. ASSUME NEW t \in Tasks, RunsDropped(t) PROVE UpstreamHeadReviewed'
  <2> SUFFICES ASSUME NEW r \in RunIds, runs'[r].source = "dependency_review_head"
               PROVE  /\ runs'[r].upstream \in 1..(r - 1)
                      /\ LET up == runs'[runs'[r].upstream] IN
                         up.task # NoTask => up.head /\ up.review /\ up.task # runs'[r].task
    BY DEF UpstreamHeadReviewed
  <2>1. \A q \in RunIds : runs'[q] = runs[q] \/ runs'[q] = VacantRun
    BY <1>6 DEF RunsDropped
  <2>2. runs'[r] = runs[r]
    BY <2>1 DEF VacantRun
  <2>3. /\ runs[r].upstream \in 1..(r - 1)
        /\ LET up == runs[runs[r].upstream] IN
           up.task # NoTask => up.head /\ up.review /\ up.task # runs[r].task
    BY <1>1, <2>2 DEF UpstreamHeadReviewed
  <2>4. runs[r].upstream \in RunIds
    BY <2>3, RunsAssumption
  <2> QED BY <2>1, <2>2, <2>3, <2>4 DEF VacantRun
<1> QED BY <1>2, <1>3, <1>4, <1>5, <1>6 DEF RunsMove

(* Calls of which no start continues the task it starts. *)
ForeignFrames(s) == \A i \in 1..Len(s) : Foreign(s[i])

LEMMA FramesForeign ==
  ASSUME NEW s \in Seq(Frame), NEW u \in Seq(Frame), ForeignFrames(s), ForeignFrames(u)
  PROVE  ForeignFrames(s \o u)
BY DEF ForeignFrames

LEMMA SetForeign ==
  ASSUME TypeOK, StartsForeign, NEW c \in Callers, NEW s, ForeignFrames(s),
         calls' = [calls EXCEPT ![c] = s]
  PROVE  StartsForeign'
<1> SUFFICES ASSUME NEW d \in Callers PROVE ForeignFrames(calls'[d])
  BY DEF StartsForeign, ForeignFrames
<1>1. ForeignFrames(calls[d])
  BY DEF StartsForeign, ForeignFrames
<1>2. calls'[d] = IF d = c THEN s ELSE calls[d]
  BY DEF TypeOK
<1> QED BY <1>1, <1>2

LEMMA CallForeign ==
  ASSUME TypeOK, StartsForeign, NEW c \in Callers, calls[c] # <<>>,
         NEW frames \in Seq(Frame), ForeignFrames(frames),
         Return(c) \/ Replace(c, frames) \/ Throw(c)
  PROVE  StartsForeign'
<1>1. calls[c] \in Seq(Frame) /\ Tail(calls[c]) \in Seq(Frame)
  BY DEF TypeOK
<1>2. ForeignFrames(Tail(calls[c])) /\ ForeignFrames(<<>>)
  BY <1>1 DEF StartsForeign, ForeignFrames
<1>3. ForeignFrames(frames \o Tail(calls[c]))
  BY <1>1, <1>2, FramesForeign
<1> QED BY <1>2, <1>3, SetForeign, Zenon DEF Return, Replace, Throw

LEMMA StartingForeign ==
  ASSUME TypeOK, NoSelfDeps, NEW t \in Tasks, NEW override \in BOOLEAN,
         NEW auto \in BOOLEAN, NEW base \in 0..MaxRuns
  PROVE  /\ <<Starting(t, override, auto, base)>> \in Seq(Frame)
         /\ ForeignFrames(<<Starting(t, override, auto, base)>>)
<1> DEFINE f == Starting(t, override, auto, base)
<1>1. f \in Frame
  BY StartingType, Zenon DEF Frame
<1>2. PickDependencyForLineage(tasks[t]) # t
  <2>1. t \notin tasks[t].deps
    BY DEF NoSelfDeps
  <2>2. CASE \E up \in Tasks : tasks[t].deps = {up}
    BY <2>1, <2>2 DEF PickDependencyForLineage
  <2>3. CASE ~\E up \in Tasks : tasks[t].deps = {up}
    BY <2>1, <2>3 DEF PickDependencyForLineage
  <2> QED BY <2>2, <2>3
<1>3. f.task = t /\ f.lineage # t
  BY <1>2 DEF Starting
<1> HIDE DEF f
<1> QED BY <1>1, <1>3, OneFrame DEF ForeignFrames, Foreign, f

(* What storing a board does to deps and calls. *)
LEMMA StoreDeps ==
  ASSUME NEW T, NEW R, Store(T, R), TypeOK', NEW t \in Tasks
  PROVE  tasks'[t].deps = T[t].deps
BY StoredTask DEF Store, TypeOK

LEMMA ScanForeign ==
  ASSUME NEW T, NEW R
  PROVE  Scan(T, R) \in Seq(Frame) /\ ForeignFrames(Scan(T, R))
BY ScanType DEF Scan, ForeignFrames, Foreign

(* A mutator keeps both if the board it stores does. *)
LEMMA CommitLineage ==
  ASSUME TypeOK, LineageInv, NEW c \in Callers, NEW T, NEW R, Commit(c, T, R), TypeOK',
         \A t \in Tasks : t \notin T[t].deps
  PROVE  NoSelfDeps' /\ StartsForeign'
<1>1. NoSelfDeps'
  BY StoreDeps DEF Commit, NoSelfDeps
<1>2. StartsForeign'
  BY ScanForeign, SetForeign DEF Commit, LineageInv
<1> QED BY <1>1, <1>2

LEMMA ShowLineage ==
  ASSUME TypeOK, LineageInv, NEW c \in Callers, NEW r, NEW run, NEW column, NEW R,
         Commit(c, ShowRun(r, run, column), R), TypeOK'
  PROVE  NoSelfDeps' /\ StartsForeign'
<1>1. ASSUME NEW t \in Tasks PROVE ShowRun(r, run, column)[t].deps = tasks[t].deps
  BY DEF ShowRun, TypeOK, Task
<1> QED BY <1>1, CommitLineage DEF LineageInv, NoSelfDeps

(* A step that begins, advances or ends a call and leaves the board alone.    *)
LEMMA CallLineage ==
  ASSUME LineageInv, StartsForeign', tasks' = tasks
  PROVE  NoSelfDeps' /\ StartsForeign'
BY DEF LineageInv, NoSelfDeps

LEMMA CreateTaskLineage ==
  ASSUME TypeOK, LineageInv, NEW c \in Callers, NEW input \in NewTasks,
         CreateTask(c, input), TypeOK'
  PROVE  NoSelfDeps' /\ StartsForeign'
<1> PICK n \in Tasks : /\ tasks[n].life = "unborn"
                       /\ \A up \in input.deps : Known(up)
                       /\ Commit(c, [tasks EXCEPT ![n] = NewTask(input)], runs)
  BY DEF CreateTask
<1>1. NewTask(input).deps = input.deps
  BY DEF NewTask, VacantTask
<1>2. n \notin input.deps
  BY DEF Known
<1>3. \A t \in Tasks : t \notin [tasks EXCEPT ![n] = NewTask(input)][t].deps
  BY <1>1, <1>2 DEF LineageInv, NoSelfDeps, TypeOK
<1> QED BY <1>3, CommitLineage

LEMMA MoveTaskLineage ==
  ASSUME TypeOK, LineageInv, NEW c \in Callers, NEW n \in Tasks, NEW column \in EditColumns,
         MoveTask(c, n, column), TypeOK'
  PROVE  NoSelfDeps' /\ StartsForeign'
<1> DEFINE T == [tasks EXCEPT ![n].status = column]
<1>1. \A t \in Tasks : T[t].deps = tasks[t].deps
  BY DEF TypeOK, Task
<1>2. Commit(c, T, runs)
  BY DEF MoveTask
<1> HIDE DEF T
<1> QED BY <1>1, <1>2, CommitLineage DEF LineageInv, NoSelfDeps

LEMMA EditTaskLineage ==
  ASSUME TypeOK, LineageInv, NEW c \in Callers, NEW n \in Tasks, NEW input \in Edits,
         NEW started \in BOOLEAN, EditTask(c, n, input, started), TypeOK'
  PROVE  NoSelfDeps' /\ StartsForeign'
<1> DEFINE T == [tasks EXCEPT ![n] = Edited(tasks[n], input, started)]
<1>1. Edited(tasks[n], input, started).deps = input.deps
  BY DEF Edited, TypeOK, Task
<1>2. Commit(c, T, runs) /\ n \notin input.deps
  BY DEF EditTask
<1>3. \A t \in Tasks : t \notin T[t].deps
  BY <1>1, <1>2 DEF LineageInv, NoSelfDeps, TypeOK
<1> HIDE DEF T
<1> QED BY <1>2, <1>3, CommitLineage

LEMMA DeleteTaskLineage ==
  ASSUME TypeOK, LineageInv, NEW c \in Callers, NEW n \in Tasks, DeleteTask(c, n)
  PROVE  NoSelfDeps' /\ StartsForeign'
<1>1. NoSelfDeps'
  BY DEF DeleteTask, LineageInv, NoSelfDeps, VacantTask, TypeOK
<1>2. StartsForeign'
  BY DEF DeleteTask, LineageInv, StartsForeign
<1> QED BY <1>1, <1>2

LEMMA StartRunLineage ==
  ASSUME TypeOK, LineageInv, NEW c \in Callers, NEW t \in Tasks, StartRun(c, t)
  PROVE  NoSelfDeps' /\ StartsForeign'
<1> DEFINE s == <<Starting(t, FALSE, FALSE, NoRun)>>
<1>1. NoRun \in 0..MaxRuns /\ FALSE \in BOOLEAN
  BY RunsAssumption
<1>2. ForeignFrames(s)
  BY <1>1, StartingForeign, Zenon DEF LineageInv
<1>3. calls' = [calls EXCEPT ![c] = s] /\ tasks' = tasks
  BY DEF StartRun
<1> HIDE DEF s
<1> QED BY <1>2, <1>3, SetForeign, CallLineage DEF LineageInv

LEMMA RetryRunLineage ==
  ASSUME TypeOK, LineageInv, NEW c \in Callers, NEW r \in RunIds, NEW checkpoint \in BOOLEAN,
         RetryRun(c, r, checkpoint)
  PROVE  NoSelfDeps' /\ StartsForeign'
<1> DEFINE t == runs[r].task
           s == <<Starting(t, checkpoint, FALSE, r)>>
<1>1. t \in Tasks /\ r \in 0..MaxRuns /\ FALSE \in BOOLEAN
  BY RunsAssumption DEF RetryRun, Exists, TypeOK, Run
<1>2. calls' = [calls EXCEPT ![c] = s] /\ tasks' = tasks
  BY DEF RetryRun
<1>3. ForeignFrames(s)
  <2> HIDE DEF t
  <2> QED BY <1>1, StartingForeign, Zenon DEF LineageInv
<1> HIDE DEF s
<1> QED BY <1>2, <1>3, SetForeign, CallLineage DEF LineageInv

LEMMA InterruptLineage ==
  ASSUME TypeOK, LineageInv, NEW c \in Callers, Interrupt(c)
  PROVE  NoSelfDeps' /\ StartsForeign'
<1>1. ForeignFrames(<<>>)
  BY DEF ForeignFrames
<1> QED BY <1>1, SetForeign, CallLineage DEF Interrupt, Throw, LineageInv

LEMMA LoopLineage ==
  ASSUME TypeOK, LineageInv, NEW c \in Callers, ScanTasks(c) \/ AutoStartTask(c)
  PROVE  NoSelfDeps' /\ StartsForeign'
<1>1. calls[c] # <<>> /\ tasks' = tasks
  BY IntoLoop
<1> PICK f \in LoopFrame : f.op = "loop" /\ Loop(c, f)
  BY IntoLoop
<1>2. StartsForeign'
  <2>1. CASE Return(c) \/ Throw(c)
    <3>1. <<>> \in Seq(Frame) /\ ForeignFrames(<<>>)
      BY DEF ForeignFrames
    <3> QED BY <1>1, <2>1, <3>1, CallForeign DEF LineageInv
  <2>2. ASSUME NEW t \in Tasks, NEW rest \in Seq(Frame),
               \A i \in 1..Len(rest) : rest[i].op # "start",
               Replace(c, <<Starting(t, FALSE, TRUE, NoRun)>> \o rest)
        PROVE  StartsForeign'
    <3> DEFINE first == <<Starting(t, FALSE, TRUE, NoRun)>>
    <3>1. NoRun \in 0..MaxRuns /\ FALSE \in BOOLEAN /\ TRUE \in BOOLEAN
      BY RunsAssumption
    <3>2. first \in Seq(Frame) /\ ForeignFrames(first)
      BY <3>1, StartingForeign, Zenon DEF LineageInv
    <3>3. ForeignFrames(rest)
      BY <2>2 DEF ForeignFrames, Foreign
    <3>4. Replace(c, first \o rest)
      BY <2>2
    <3> HIDE DEF first
    <3>5. first \o rest \in Seq(Frame) /\ ForeignFrames(first \o rest)
      BY <3>2, <3>3, FramesForeign, FramesJoin, Zenon
    <3> QED BY <1>1, <3>4, <3>5, CallForeign, Zenon DEF LineageInv
  <2> QED BY <2>1, <2>2, LoopCalls, Zenon
<1> QED BY <1>1, <1>2, CallLineage

LEMMA NoteLineage ==
  ASSUME TypeOK, LineageInv, NEW c \in Callers, NoteRetry(c), TypeOK'
  PROVE  NoSelfDeps' /\ StartsForeign'
<1> DEFINE r == Head(calls[c]).run
<1>1. CASE Exists(runs, r) /\ Live(tasks, runs[r].task)
  BY <1>1, ShowLineage DEF NoteRetry, ShowPatched
<1>2. CASE ~(Exists(runs, r) /\ Live(tasks, runs[r].task))
  <2>1. Throw(c) /\ tasks' = tasks /\ calls[c] # <<>>
    BY <1>2 DEF NoteRetry, At
  <2>2. <<>> \in Seq(Frame) /\ ForeignFrames(<<>>)
    BY DEF ForeignFrames
  <2> QED BY <2>1, <2>2, CallForeign, CallLineage DEF LineageInv
<1> QED BY <1>1, <1>2

LEMMA CreateRunLineage ==
  ASSUME TypeOK, LineageInv, NEW c \in Callers, CreateRun(c), TypeOK'
  PROVE  NoSelfDeps' /\ StartsForeign'
<1> DEFINE f == Head(calls[c])
           t == f.task
           r == created + 1
           source == ResolveRunSource(tasks, runs, f.lineage, f.explicit)
           R == [runs EXCEPT ![r] = QueuedRun(t, f.base, source)]
           T == [tasks EXCEPT ![t] = IF Live(tasks, t) THEN Started(@, r, f.auto) ELSE @]
           note == IF f.base = NoRun THEN <<>> ELSE <<[op |-> "note", run |-> r]>>
<1>1. calls[c] # <<>> /\ f \in Frame /\ f.op = "start" /\ r \in RunIds
  BY RunsAssumption DEF CreateRun, At, TypeOK
<1>2. t \in Tasks
  BY <1>1 DEF Frame, StartFrame, ScanFrame, LoopFrame, NoteFrame
<1>3. Store(T, R) /\ (Replace(c, Scan(T, R) \o note) \/ Throw(c))
  BY Zenon DEF CreateRun
<1>4. note \in Seq(Frame) /\ ForeignFrames(note)
  <2>1. [op |-> "note", run |-> r] \in Frame /\ Foreign([op |-> "note", run |-> r])
    BY <1>1 DEF Frame, NoteFrame, Foreign
  <2> HIDE DEF r, f
  <2> QED BY <2>1, OneFrame DEF ForeignFrames
<1>5. \A u \in Tasks : T[u].deps = tasks[u].deps
  <2>1. tasks[t] \in Task
    BY <1>2 DEF TypeOK
  <2> HIDE DEF t, r, f
  <2>2. Started(tasks[t], r, f.auto).deps = tasks[t].deps
    BY <2>1 DEF Started, Task
  <2> QED BY <2>2 DEF TypeOK
<1> HIDE DEF f, t, r, R, T, note
<1>6. NoSelfDeps'
  BY <1>3, <1>5, StoreDeps DEF LineageInv, NoSelfDeps
<1>7. Scan(T, R) \o note \in Seq(Frame) /\ ForeignFrames(Scan(T, R) \o note)
  BY <1>4, ScanForeign, FramesForeign, FramesJoin, Zenon
<1>8. StartsForeign'
  BY <1>1, <1>3, <1>7, CallForeign, Zenon DEF LineageInv
<1> QED BY <1>6, <1>8

LEMMA ReviewPhaseLineage ==
  ASSUME TypeOK, LineageInv, NEW c \in Callers, NEW r \in RunIds, NEW status,
         RetryReviewPhase(c, r, status), TypeOK'
  PROVE  NoSelfDeps' /\ StartsForeign'
<1> DEFINE t == runs[r].task
           T == [tasks EXCEPT ![t].status = IF Live(tasks, t) THEN "REVIEW" ELSE @]
<1>1. \A u \in Tasks : T[u].deps = tasks[u].deps
  <2> HIDE DEF t
  <2> QED BY DEF TypeOK, Task
<1>2. Commit(c, T, [runs EXCEPT ![r].status = status])
  BY DEF RetryReviewPhase
<1> HIDE DEF T
<1> QED BY <1>1, <1>2, CommitLineage DEF LineageInv, NoSelfDeps

LEMMA StepLineage ==
  ASSUME TypeOK, LineageInv, [Next]_vars, TypeOK'
  PROVE  NoSelfDeps' /\ StartsForeign'
<1> DEFINE Kept == NoSelfDeps' /\ StartsForeign'
<1>1. CASE UNCHANGED vars
  BY <1>1 DEF vars, LineageInv, NoSelfDeps, StartsForeign
<1>2. ASSUME NEW c \in Callers, Operate(c) PROVE Kept
  <2>1. ASSUME NEW r \in RunIds, NEW p \in Patches, TransitionRun(c, r, p) PROVE Kept
    BY <2>1, ShowLineage DEF TransitionRun, ShowPatched
  <2>2. ASSUME NEW r \in RunIds, MarkRunFailed(c, r) \/ TakeOverRun(c, r)
                                   \/ RequestRunChanges(c, r)
        PROVE  Kept
    BY <2>2, ShowLineage DEF MarkRunFailed, TakeOverRun, RequestRunChanges
  <2>3. ASSUME NEW r \in RunIds, RetryEvidence(c, r) \/ RetryPreview(c, r) PROVE Kept
    BY <2>3, ReviewPhaseLineage DEF RetryEvidence, RetryPreview
  <2>4. ASSUME NEW r \in RunIds, NEW p \in Patches,
               TransitionRunFromLoopState(c, r, "DECISION_REQUIRED", p)
        PROVE  Kept
    BY <2>1, <2>4 DEF TransitionRunFromLoopState
  <2>5. ASSUME NEW input \in NewTasks, CreateTask(c, input) PROVE Kept
    BY <2>5, CreateTaskLineage
  <2>6. ASSUME NEW t \in Tasks, NEW column \in EditColumns, MoveTask(c, t, column) PROVE Kept
    BY <2>6, MoveTaskLineage
  <2>7. ASSUME NEW t \in Tasks, NEW input \in Edits, NEW started \in BOOLEAN,
               EditTask(c, t, input, started)
        PROVE  Kept
    BY <2>7, EditTaskLineage
  <2>8. ASSUME NEW t \in Tasks, DeleteTask(c, t) PROVE Kept
    BY <2>8, DeleteTaskLineage
  <2>9. ASSUME NEW t \in Tasks, StartRun(c, t) PROVE Kept
    BY <2>9, StartRunLineage
  <2>10. ASSUME NEW r \in RunIds, NEW checkpoint \in BOOLEAN, RetryRun(c, r, checkpoint)
         PROVE  Kept
    BY <2>10, RetryRunLineage
  <2>11. CASE Interrupt(c)
    BY <2>11, InterruptLineage
  <2> QED BY <1>2, <2>1, <2>2, <2>3, <2>4, <2>5, <2>6, <2>7, <2>8, <2>9, <2>10, <2>11, Zenon
          DEF Operate
<1>3. ASSUME NEW c \in Callers, Continue(c) PROVE Kept
  BY <1>3, CreateRunLineage, LoopLineage, NoteLineage DEF Continue
<1> QED BY <1>1, <1>2, <1>3 DEF Next

(* A run said to continue an upstream's review was created after that run had *)
(* pushed a commit and opened its review, and that stays so.                  *)
THEOREM HeadsReviewed == Spec => []UpstreamHeadReviewed
<1>1. Init => LineageInv
  BY DEF Init, LineageInv, NoSelfDeps, StartsForeign, UpstreamHeadReviewed, VacantTask,
         VacantRun
<1>2. TypeOK /\ BoardInv /\ LineageInv /\ [Next]_vars /\ TypeOK' => LineageInv'
  BY StepMoves, MovesHeads, StepLineage DEF LineageInv
<1>3. LineageInv => UpstreamHeadReviewed
  BY DEF LineageInv
<1> QED BY <1>1, <1>2, <1>3, Inductive, PTL DEF Spec
=============================================================================
