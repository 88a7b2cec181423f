------------------------------ MODULE Sentinel ------------------------------
(***************************************************************************)
(* The sentinel of one repo: it works through the repo's tasks one at a    *)
(* time, merging each review before it starts the next task.               *)
(*                                                                         *)
(* There is no sentinel process.  Its state is a row of sentinel_runs in   *)
(* D1 (tenant-auth-db.ts); every start and resume request (router.ts) runs *)
(* a SentinelController (sentinel.ts) for a while, under a lease on the    *)
(* row.  A D1 statement is atomic, two of them are not, so every statement *)
(* and every call to the board is an action of its own, and `req[q].at`    *)
(* says which one request q is about to make.  updateSentinelRun reads the *)
(* row in one statement ("read") and writes all of it in the next          *)
(* ("write").  A statement whose result the caller does not use (the read  *)
(* back at the end of an update) is no step.                               *)
(*                                                                         *)
(* The board is the one of RepoBoard, as the sentinel sees it: startRun    *)
(* returns the active run of a task or makes one.  What a merge attempt    *)
(* does in detail is in SentinelMerge.                                     *)
(***************************************************************************)
EXTENDS SentinelConfig, FiniteSets

CONSTANTS
  Requests,     \* the requests in flight at one time
  NoOne, Lost,  \* no lease; the lease of a request that died
  MaxTasks,     \* the tasks of the board, in the order the sentinel takes them
  Deps,         \* for each task, the tasks it depends on
  MaxRows,      \* bound: sentinel runs ever asked for
  MaxRuns,      \* bound: runs ever created
  MaxWorkflows, \* bound: workflow instances scheduled for one run
  Commands,     \* what operators do in this instance
  Events        \* what else happens in it

Tasks  == 1..MaxTasks
NoTask == 0
RunIds == 1..MaxRuns
NoRun  == 0
RowIds == 1..MaxRows
NoRow  == 0

ASSUME SentinelAssumption ==
  /\ MaxTasks \in Nat /\ MaxRows \in Nat /\ MaxRuns \in Nat
  /\ MaxWorkflows \in Nat \ {0}
  /\ NoOne \notin Requests /\ Lost \notin Requests /\ NoOne # Lost
  /\ Deps \in [Tasks -> SUBSET Tasks]

VARIABLES
  rows,      \* sentinel_runs; a row's number is the order of its started_at
  stamps,    \* started_at values handed out so far
  req,       \* per request, where it is and what it holds in its variables
  board,     \* per task, its column and its latest run
  runs,      \* per run number, the run
  runCount   \* how many runs have been created

vars == <<rows, stamps, req, board, runs, runCount>>

Row == [status: {"absent", "running", "paused", "stopped"}, task: Tasks \cup {NoTask},
        run: 0..MaxRuns, attempts: 0..MaxAttempts,
        lease: Requests \cup {NoOne, Lost}, expired: BOOLEAN]

(* What updateSentinelRun reads of a row and writes back.                   *)
Copy == [status: {"absent", "running", "paused", "stopped"}, task: Tasks \cup {NoTask},
         run: 0..MaxRuns, attempts: 0..MaxAttempts]

(* The updates made of a row: by an operator, and by the controller.        *)
OperatorUpdate   == {"resume", "pause", "stop"}
ControllerUpdate == {"clear", "giveUp", "link", "count", "exhaust"}

ControllerAt == {"settle", "merge", "report", "finish", "list", "claim", "claimed",
                 "start", "schedule", "note", "release"}
Place == {"idle", "insert", "select", "read", "write", "acquire", "own"} \cup ControllerAt

Request == [at: Place, row: 0..MaxRows, update: OperatorUpdate \cup ControllerUpdate \cup {"none"},
            copy: Copy, task: Tasks \cup {NoTask}, run: 0..MaxRuns, attempts: 0..MaxAttempts]

(* A removed run is one of NoTask; a task that is not on the board is gone. *)
BoardTask == [status: {"READY", "ACTIVE", "REVIEW", "DONE", "FAILED", "gone"}, run: 0..MaxRuns]
BoardRun  == [task: Tasks \cup {NoTask}, state: {"active", "done", "failed"},
              merged: BOOLEAN, workflows: 0..MaxWorkflows]

NoCopy == [status |-> "absent", task |-> NoTask, run |-> NoRun, attempts |-> 0]
IdleRequest == [at |-> "idle", row |-> NoRow, update |-> "none", copy |-> NoCopy,
                task |-> NoTask, run |-> NoRun, attempts |-> 0]
AbsentRow == [status |-> "absent", task |-> NoTask, run |-> NoRun, attempts |-> 0,
              lease |-> NoOne, expired |-> FALSE]

Init ==
    /\ rows = [i \in RowIds |-> AbsentRow]
    /\ stamps = 0
    /\ req = [q \in Requests |-> IdleRequest]
    /\ board = [t \in Tasks |-> [status |-> "READY", run |-> NoRun]]
    /\ runs = [r \in RunIds |-> [task |-> NoTask, state |-> "active",
                                 merged |-> FALSE, workflows |-> 0]]
    /\ runCount = 0

-----------------------------------------------------------------------------
At(q, place) == req[q].at = place
Running(i)   == rows[i].status = "running"

(* Request q goes on at `place`, with all it holds, ...                     *)
Go(q, place) == req' = [req EXCEPT ![q].at = place]
(* ... or with row i alone, ...                                             *)
Open(q, i, place) == req' = [req EXCEPT ![q] = [IdleRequest EXCEPT !.at = place, !.row = i]]
Leave(q) == Open(q, req[q].row, "release")
(* ... or to update row i; or it is answered.                               *)
OpenUpdate(q, i, kind) ==
    req' = [req EXCEPT ![q] = [IdleRequest EXCEPT !.at = "read", !.row = i, !.update = kind]]
Update(q, kind) == OpenUpdate(q, req[q].row, kind)
End(q) == req' = [req EXCEPT ![q] = IdleRequest]

(* getLatestRepoSentinelRun: the row with the last started_at, if any.      *)
IsLatest(i) ==
    /\ rows[i].status # "absent"
    /\ \A j \in RowIds : rows[j].status # "absent" => j <= i
NoRows == \A i \in RowIds : rows[i].status = "absent"

-----------------------------------------------------------------------------
(* Operators' requests, up to what they do about the row they have read.    *)

(* A new row is wanted: the request takes the time for its started_at.      *)
AskForRow(q) ==
    /\ stamps < MaxRows
    /\ stamps' = stamps + 1
    /\ Open(q, stamps + 1, "insert")

HandleStart(q) ==
    /\ "start" \in Commands /\ At(q, "idle")
    /\ \/ NoRows /\ AskForRow(q)
       \/ \E i \in RowIds :
             /\ IsLatest(i)
             /\ \/ rows[i].status = "stopped" /\ AskForRow(q)
                \/ rows[i].status = "paused" /\ OpenUpdate(q, i, "resume") /\ UNCHANGED stamps
                \/ rows[i].status = "running" /\ Open(q, i, "acquire") /\ UNCHANGED stamps
    /\ UNCHANGED <<rows, board, runs, runCount>>

HandleResume(q) ==
    /\ "resume" \in Commands /\ At(q, "idle")
    /\ \E i \in RowIds :
          /\ IsLatest(i)
          /\ \/ rows[i].status = "paused" /\ OpenUpdate(q, i, "resume")
             \/ rows[i].status = "running" /\ Open(q, i, "acquire")
    /\ UNCHANGED <<rows, stamps, board, runs, runCount>>

HandlePause(q) ==
    /\ "pause" \in Commands /\ At(q, "idle")
    /\ \E i \in RowIds : IsLatest(i) /\ Running(i) /\ OpenUpdate(q, i, "pause")
    /\ UNCHANGED <<rows, stamps, board, runs, runCount>>

HandleStop(q) ==
    /\ "stop" \in Commands /\ At(q, "idle")
    /\ \E i \in RowIds : /\ IsLatest(i)
                         /\ rows[i].status \in {"running", "paused"}
                         /\ OpenUpdate(q, i, "stop")
    /\ UNCHANGED <<rows, stamps, board, runs, runCount>>

(* Mutant: there is no unique index. *)
NothingElseRuns(i) == FALSE

(* The unique index of migrations/0003: one running row.                    *)
AnotherRuns(i) == \E j \in RowIds \ {i} : Running(j)

(* createSentinelRun *)
InsertRow(q) ==
    /\ At(q, "insert")
    /\ LET i == req[q].row IN
       IF AnotherRuns(i) THEN Go(q, "select") /\ UNCHANGED rows
       ELSE /\ rows' = [rows EXCEPT ![i] = [AbsentRow EXCEPT !.status = "running"]]
            /\ Go(q, "acquire")
    /\ UNCHANGED <<stamps, board, runs, runCount>>

(* ... and what it does when the index refuses the row.                     *)
SelectRunning(q) ==
    /\ At(q, "select")
    /\ \/ \E i \in RowIds : Running(i) /\ Open(q, i, "acquire")
       \/ ~(\E i \in RowIds : Running(i)) /\ End(q)
    /\ UNCHANGED <<rows, stamps, board, runs, runCount>>

-----------------------------------------------------------------------------
(* updateSentinelRun *)

ReadRow(q) ==
    /\ At(q, "read")
    /\ LET row == rows[req[q].row] IN
       req' = [req EXCEPT ![q].at = "write",
                          ![q].copy = [status |-> row.status, task |-> row.task,
                                       run |-> row.run, attempts |-> row.attempts]]
    /\ UNCHANGED <<rows, stamps, board, runs, runCount>>

(* The row as the update leaves it, from the copy read earlier.             *)
Updated(kind, copy, run) ==
    CASE kind = "resume"              -> [copy EXCEPT !.status = "running"]
      [] kind \in {"pause", "exhaust"} -> [copy EXCEPT !.status = "paused"]
      [] kind = "stop"  -> [copy EXCEPT !.status = "stopped", !.task = NoTask, !.run = NoRun]
      [] kind \in {"clear", "giveUp"} ->
            [copy EXCEPT !.task = NoTask, !.run = NoRun, !.attempts = 0]
      [] kind = "link"                -> [copy EXCEPT !.run = run]
      [] kind = "count"               -> [copy EXCEPT !.attempts = MaxAttempts]

(* Mutant: a controller that has linked the run is done. *)
AfterUpdateNoSchedule ==
    [resume |-> "acquire", pause |-> "idle", stop |-> "idle", clear |-> "list",
     giveUp |-> "release", link |-> "release", count |-> "read", exhaust |-> "release"]

(* Where the request goes on, and where when the index refuses the update.  *)
AfterUpdate ==
    [resume |-> "acquire", pause |-> "idle", stop |-> "idle", clear |-> "list",
     giveUp |-> "release", link |-> "schedule", count |-> "read", exhaust |-> "release"]
AfterRefusal ==
    [resume |-> "idle", pause |-> "idle", stop |-> "idle", clear |-> "release",
     giveUp |-> "release", link |-> "read", count |-> "release", exhaust |-> "release"]

UpdateDone(q) ==
    LET kind == req[q].update
        next == AfterUpdate[kind]
    IN IF next = "idle" THEN End(q)
       ELSE req' = [req EXCEPT ![q].at = next, ![q].copy = NoCopy,
                               ![q].update = IF kind = "count" THEN "exhaust" ELSE "none"]

UpdateRefused(q) ==
    LET kind == req[q].update
        next == AfterRefusal[kind]
    IN IF next = "idle" THEN End(q)
       ELSE req' = [req EXCEPT ![q].at = next, ![q].copy = NoCopy,
                               ![q].update = IF kind = "link" THEN "giveUp" ELSE "none"]

(* Row i takes the values of `new`; a row that does not run has no lease.   *)
Written(i, new) ==
    [rows[i] EXCEPT !.status = new.status, !.task = new.task, !.run = new.run,
                    !.attempts = new.attempts,
                    !.lease = IF new.status = "running" THEN @ ELSE NoOne,
                    !.expired = @ /\ new.status = "running"]

WriteRow(q) ==
    /\ At(q, "write")
    /\ LET i == req[q].row
           new == Updated(req[q].update, req[q].copy, req[q].run)
       IN IF new.status = "running" /\ AnotherRuns(i)
          THEN UpdateRefused(q) /\ UNCHANGED rows
          ELSE UpdateDone(q) /\ rows' = [rows EXCEPT ![i] = Written(i, new)]
    /\ UNCHANGED <<stamps, board, runs, runCount>>

-----------------------------------------------------------------------------
(* progressRepoSentinel: the lease *)

(* Mutant: nobody looks at the lease. *)
AlwaysAvailable(i, q) == TRUE

(* A lease can be taken that is free, one's own or expired.                 *)
Available(i, q) == rows[i].lease \in {NoOne, q} \/ rows[i].expired

(* acquireSentinelRunLease, its UPDATE ...                                  *)
AcquireLease(q) ==
    /\ At(q, "acquire")
    /\ LET i == req[q].row IN
       IF Running(i) /\ Available(i, q)
       THEN /\ rows' = [rows EXCEPT ![i].lease = q, ![i].expired = FALSE]
            /\ Go(q, "own")
       ELSE End(q) /\ UNCHANGED rows
    /\ UNCHANGED <<stamps, board, runs, runCount>>

(* ... and its SELECT, which gives the controller its copy of the row.      *)
OwnLease(q) ==
    /\ At(q, "own")
    /\ LET row == rows[req[q].row] IN
       IF row.status = "running" /\ row.lease = q
       THEN IF row.task = NoTask THEN Go(q, "list")
            ELSE req' = [req EXCEPT ![q].at = "settle", ![q].task = row.task,
                                    ![q].run = row.run, ![q].attempts = row.attempts]
       ELSE End(q)
    /\ UNCHANGED <<rows, stamps, board, runs, runCount>>

(* releaseSentinelRunLease, on every way out of the controller.             *)
ReleaseLease(q) ==
    /\ At(q, "release")
    /\ LET i == req[q].row IN
       rows' = IF rows[i].lease = q
               THEN [rows EXCEPT ![i].lease = NoOne, ![i].expired = FALSE] ELSE rows
    /\ End(q)
    /\ UNCHANGED <<stamps, board, runs, runCount>>

-----------------------------------------------------------------------------
(* SentinelController.progress: the current task *)

OnBoard(t) == board[t].status # "gone"

(* Mutant: a task is let go once it is in review. *)
OverAtReview(t) == board[t].status \in {"gone", "DONE", "REVIEW"}

(* The sentinel is through with task t. *)
Over(t) == board[t].status \in {"gone", "DONE"}

(* A call to the board may fail. *)
Rejects == "reject" \in Events

(* resolveCurrentTaskState up to the merge. A failed getTask counts as a     *)
(* missing task.                                                             *)
SettleTask(q) ==
    /\ At(q, "settle")
    /\ LET t == req[q].task
           r == IF req[q].run # NoRun /\ runs[req[q].run].task = t
                THEN req[q].run ELSE board[t].run
       IN \/ (Rejects \/ Over(t)) /\ Update(q, "clear")
          \/ board[t].status = "REVIEW" /\ r # NoRun
               /\ req' = [req EXCEPT ![q].at = "merge", ![q].run = r]
          \/ board[t].status = "REVIEW" /\ r = NoRun /\ Leave(q)
          \/ board[t].status \in {"READY", "ACTIVE", "FAILED"} /\ Leave(q)
    /\ UNCHANGED <<rows, stamps, board, runs, runCount>>

(* SentinelRemediationEngine.runWithPolicy, by its outcomes: it waits for    *)
(* the review gate (or throws), it merges, or it uses up its attempts. With  *)
(* the attempts used up already it does not try.                             *)
RunWithPolicy(q) ==
    /\ At(q, "merge")
    /\ \/ req[q].attempts < MaxAttempts /\ Leave(q) /\ UNCHANGED runs
       \/ /\ req[q].attempts < MaxAttempts
          /\ runs' = [runs EXCEPT ![req[q].run].merged = TRUE]
          /\ Go(q, "report")
       \/ /\ req[q].attempts < MaxAttempts /\ "exhaust" \in Events
          /\ Update(q, "count")
          /\ UNCHANGED runs
       \/ req[q].attempts >= MaxAttempts /\ Update(q, "exhaust") /\ UNCHANGED runs
    /\ UNCHANGED <<rows, stamps, board, runCount>>

(* The merged run is DONE, which the board refuses of a failed run, ...      *)
ReportMerge(q) ==
    /\ At(q, "report")
    /\ LET r == req[q].run
           t == runs[r].task
       IN \/ /\ t = NoTask \/ Rejects
             /\ Leave(q)
             /\ UNCHANGED <<board, runs>>
          \/ /\ t # NoTask
             /\ Go(q, "finish")
             /\ IF runs[r].state = "failed" THEN UNCHANGED <<board, runs>>
                ELSE /\ runs' = [runs EXCEPT ![r].state = "done"]
                     /\ board' = [board EXCEPT ![t].run = r,
                                    ![t].status = IF @ = "DONE" THEN @ ELSE "REVIEW"]
    /\ UNCHANGED <<rows, stamps, runCount>>

(* ... and so is its task, which the sentinel then lets go of.              *)
FinishTask(q) ==
    /\ At(q, "finish")
    /\ LET t == req[q].task IN
       \/ /\ ~OnBoard(t) \/ Rejects
          /\ Leave(q)
          /\ UNCHANGED board
       \/ /\ OnBoard(t)
          /\ board' = [board EXCEPT ![t].status = "DONE"]
          /\ Update(q, "clear")
    /\ UNCHANGED <<rows, stamps, runs, runCount>>

-----------------------------------------------------------------------------
(* SentinelController.progress: the next task *)

(* dependencyState.blocked *)
Blocked(t) == \E up \in Deps[t] : board[up].status \notin {"REVIEW", "DONE"}
Eligible(t) == board[t].status \notin {"DONE", "gone"} /\ ~Blocked(t)

(* SentinelSelector.pickNextTask: the oldest eligible task.                 *)
PickNextTask(t) == Eligible(t) /\ \A u \in Tasks : Eligible(u) => t <= u

ListTasks(q) ==
    /\ At(q, "list")
    /\ \/ \E t \in Tasks : /\ PickNextTask(t)
                           /\ req' = [req EXCEPT ![q].at = "claim", ![q].task = t]
       \/ (\A t \in Tasks : ~Eligible(t)) /\ Leave(q)
    /\ UNCHANGED <<rows, stamps, board, runs, runCount>>

(* claimSentinelRunTask, its UPDATE ...                                     *)
ClaimTask(q) ==
    /\ At(q, "claim")
    /\ LET i == req[q].row IN
       rows' = IF Running(i) /\ rows[i].task = NoTask
               THEN [rows EXCEPT ![i].task = req[q].task, ![i].run = NoRun] ELSE rows
    /\ Go(q, "claimed")
    /\ UNCHANGED <<stamps, board, runs, runCount>>

(* ... and its SELECT, which asks for the task, not for who claimed it.     *)
CheckClaim(q) ==
    /\ At(q, "claimed")
    /\ LET row == rows[req[q].row] IN
       IF row.status = "running" /\ row.task = req[q].task THEN Go(q, "start") ELSE Leave(q)
    /\ UNCHANGED <<rows, stamps, board, runs, runCount>>

ActiveRuns(t) == {r \in RunIds : runs[r].task = t /\ runs[r].state = "active"}

(* startRun of the board: the active run, or a new one.                     *)
NewRun(t, workflows) ==
    /\ runCount < MaxRuns
    /\ runCount' = runCount + 1
    /\ runs' = [runs EXCEPT ![runCount + 1].task = t, ![runCount + 1].workflows = workflows]
    /\ board' = [board EXCEPT ![t] = [status |-> "ACTIVE", run |-> runCount + 1]]

(* The row is to name the run started. *)
Link(q, r) ==
    req' = [req EXCEPT ![q] = [IdleRequest EXCEPT !.at = "read", !.row = req[q].row,
                                                  !.update = "link", !.run = r]]

StartRun(q) ==
    /\ At(q, "start")
    /\ LET t == req[q].task IN
       \/ /\ ~OnBoard(t) \/ Rejects
          /\ Update(q, "giveUp")
          /\ UNCHANGED <<board, runs, runCount>>
       \/ \E r \in ActiveRuns(t) :
             /\ OnBoard(t)
             /\ \A other \in ActiveRuns(t) : other <= r
             /\ Link(q, r)
             /\ UNCHANGED <<board, runs, runCount>>
       \/ /\ OnBoard(t)
          /\ ActiveRuns(t) = {}
          /\ NewRun(t, 0)
          /\ Link(q, runCount + 1)
    /\ UNCHANGED <<rows, stamps>>

(* scheduleRunJob: a workflow instance that executes the run.               *)
ScheduleRun(q) ==
    /\ At(q, "schedule")
    /\ runs[req[q].run].workflows < MaxWorkflows
    /\ runs' = [runs EXCEPT ![req[q].run].workflows = @ + 1]
    /\ Go(q, "note")
    /\ UNCHANGED <<rows, stamps, board, runCount>>

(* The transition that notes the workflow on the run, which may be gone.    *)
NoteWorkflow(q) ==
    /\ At(q, "note")
    /\ \/ runs[req[q].run].task # NoTask /\ Leave(q)
       \/ (runs[req[q].run].task = NoTask \/ Rejects) /\ Update(q, "giveUp")
    /\ UNCHANGED <<rows, stamps, board, runs, runCount>>

-----------------------------------------------------------------------------
(* What goes on around the sentinel. *)

Executes(t) == board[t].run # NoRun /\ runs[board[t].run].state = "active"
               /\ runs[board[t].run].workflows > 0

(* The executor opens the review, and goes on with a preview or ends, ...   *)
ExecutorReviews(t) ==
    /\ board[t].status = "ACTIVE" /\ Executes(t)
    /\ board' = [board EXCEPT ![t].status = "REVIEW"]
    /\ \E state \in {"active", "done"} : runs' = [runs EXCEPT ![board[t].run].state = state]
    /\ UNCHANGED <<rows, stamps, req, runCount>>

(* ... or it fails.                                                         *)
ExecutorFails(t) ==
    /\ board[t].status = "ACTIVE" /\ Executes(t)
    /\ board' = [board EXCEPT ![t].status = "FAILED"]
    /\ runs' = [runs EXCEPT ![board[t].run].state = "failed"]
    /\ UNCHANGED <<rows, stamps, req, runCount>>

(* A person starts a task, ...                                              *)
StartByHand(t) ==
    /\ "startByHand" \in Events
    /\ OnBoard(t) /\ ActiveRuns(t) = {}
    /\ NewRun(t, 1)
    /\ UNCHANGED <<rows, stamps, req>>

(* ... moves a card to DONE, ...                                            *)
FinishByHand(t) ==
    /\ "finishByHand" \in Events
    /\ board[t].status = "REVIEW"
    /\ board' = [board EXCEPT ![t].status = "DONE"]
    /\ UNCHANGED <<rows, stamps, req, runs, runCount>>

(* ... or deletes a task, and its runs with it.                             *)
DeleteTask(t) ==
    /\ "delete" \in Events
    /\ OnBoard(t)
    /\ board' = [board EXCEPT ![t] = [status |-> "gone", run |-> NoRun]]
    /\ runs' = [r \in RunIds |-> IF runs[r].task = t
                                 THEN [runs[r] EXCEPT !.task = NoTask] ELSE runs[r]]
    /\ UNCHANGED <<rows, stamps, req, runCount>>

(* The worker that serves a request dies; a lease it holds stays.           *)
Crash(q) ==
    /\ "crash" \in Events
    /\ ~At(q, "idle")
    /\ End(q)
    /\ rows' = [i \in RowIds |-> IF rows[i].lease = q THEN [rows[i] EXCEPT !.lease = Lost]
                                 ELSE rows[i]]
    /\ UNCHANGED <<stamps, board, runs, runCount>>

(* A lease is 30 seconds old: one nobody will release, or ("expire") one     *)
(* whose controller is still at work.                                        *)
ExpireLease(i) ==
    /\ rows[i].lease # NoOne /\ ~rows[i].expired
    /\ rows[i].lease = Lost \/ "expire" \in Events
    /\ rows' = [rows EXCEPT ![i].expired = TRUE]
    /\ UNCHANGED <<stamps, req, board, runs, runCount>>

-----------------------------------------------------------------------------
Handle(q) == HandleStart(q) \/ HandleResume(q) \/ HandlePause(q) \/ HandleStop(q)

Step(q) ==
    \/ InsertRow(q) \/ SelectRunning(q) \/ ReadRow(q) \/ WriteRow(q)
    \/ AcquireLease(q) \/ OwnLease(q) \/ ReleaseLease(q)
    \/ SettleTask(q) \/ RunWithPolicy(q) \/ ReportMerge(q) \/ FinishTask(q)
    \/ ListTasks(q) \/ ClaimTask(q) \/ CheckClaim(q)
    \/ StartRun(q) \/ ScheduleRun(q) \/ NoteWorkflow(q)

Around ==
    \/ \E t \in Tasks : \/ ExecutorReviews(t) \/ ExecutorFails(t) \/ StartByHand(t)
                        \/ FinishByHand(t) \/ DeleteTask(t)
    \/ \E i \in RowIds : ExpireLease(i)

Next ==
    \/ \E q \in Requests : Handle(q) \/ Step(q) \/ Crash(q)
    \/ Around

Spec == Init /\ [][Next]_vars

(* A worker goes on with a request it serves. Operators, executors and time *)
(* owe nothing.                                                             *)
FairSpec == Spec /\ \A q \in Requests : WF_vars(Step(q))

-----------------------------------------------------------------------------
(* A request holds what its next statement needs.                           *)
HeldRequest ==
    {r \in Request :
       /\ r.at # "idle" => r.row \in RowIds
       /\ r.at \in {"read", "write"} <=> r.update # "none"
       /\ r.at \in {"merge", "report", "schedule", "note"} \/ r.update = "link"
            => r.run \in RunIds
       /\ r.at \in {"settle", "merge", "report", "finish", "claim", "claimed", "start"}
            => r.task \in Tasks}

TypeOK ==
    /\ rows \in [RowIds -> Row]
    /\ stamps \in 0..MaxRows
    /\ req \in [Requests -> HeldRequest]
    /\ board \in [Tasks -> BoardTask]
    /\ runs \in [RunIds -> BoardRun]
    /\ runCount \in 0..MaxRuns

(* However starts, resumes and late writes of old copies interleave, at most *)
(* one sentinel run of the repo is running.                                  *)
SingleRunning == \A i, j \in RowIds : Running(i) /\ Running(j) => i = j

(* A sentinel that does not run holds no lease, so that a resumed one is not *)
(* locked out by the controller that was at work when it was paused.         *)
LeaseOnlyWhenRunning == \A i \in RowIds : rows[i].lease # NoOne => Running(i)

(* The rows in one: however old the copies are that requests write back, at  *)
(* most one row is running, and only a running one has a lease.              *)
RowsHold == TypeOK /\ SingleRunning /\ LeaseOnlyWhenRunning

(* Request q is a controller at work on row i. *)
Controls(q, i) ==
    /\ req[q].row = i
    /\ \/ req[q].at \in ControllerAt \ {"release"}
       \/ req[q].at \in {"read", "write"} /\ req[q].update \in ControllerUpdate

(* docs/integrations/sentinel-orchestration.md: "Per-run lease on            *)
(* progression controller execution (prevents duplicate concurrent           *)
(* processing)". So it is while nobody pauses the sentinel and controllers   *)
(* end within their lease, dead workers included; pausing frees the lease of *)
(* a controller that goes on.                                                *)
OneController == \A p, q \in Requests, i \in RowIds : Controls(p, i) /\ Controls(q, i) => p = q

(* docs/integrations/sentinel-orchestration.md: "Scope lock                  *)
(* (`claimSentinelRunTask`) prevents duplicate task activation ownership".   *)
(* The claim is granted to whoever chose the task that is current.           *)
ScheduledOnce == \A r \in RunIds : runs[r].workflows <= 1

(* docs/integrations/sentinel-orchestration.md, repeated merge failures:     *)
(* "`POST /api/repos/:repoId/sentinel/resume` to retry". The attempts used   *)
(* up before the pause are never reset, and the controller pauses again      *)
(* without an attempt.                                                       *)
ResumeRetries ==
    [][\A q \in Requests : At(q, "merge") /\ req'[q].update = "exhaust"
          => req[q].attempts < MaxAttempts]_vars

Begun(t) == board[t].run # NoRun /\ runs[board[t].run].workflows > 0

(* A controller whose claim was granted starts the task or lets go of it,    *)
(* unless it dies: no request ends with the scope locked on a task nobody    *)
(* executes. (Of one that dies, nothing ever frees the scope.)               *)
ClaimedTaskStarted ==
    \A q \in Requests, t \in Tasks :
       (At(q, "start") /\ req[q].task = t) ~>
          \/ Begun(t) \/ ~OnBoard(t)
          \/ \A i \in RowIds : rows[i].task # t
          \/ \E i \in RowIds : rows[i].lease = Lost

(* The lease of a controller does not outlive it, on whatever path it ends.  *)
LeaseReleased ==
    \A i \in RowIds, q \in Requests : (rows[i].lease = q) ~> (rows[i].lease # q)

(* What a controller has taken, it gives back or does something with: the    *)
(* task it claimed and the lease, whatever calls fail.                       *)
ControllersFinish == ClaimedTaskStarted /\ LeaseReleased

-----------------------------------------------------------------------------
(* The sentinel run as turns of tasks. *)
CurrentTask == IF \E i \in RowIds : rows[i].task # NoTask
               THEN rows[CHOOSE i \in RowIds : rows[i].task # NoTask].task ELSE NoTask

OpenTasks == {t \in Tasks : Begun(t) /\ board[t].status \notin {"DONE", "gone"}}
Worked    == [r \in RunIds |-> runs[r].workflows]

Turns == INSTANCE SentinelTurns WITH turn <- CurrentTask, open <- OpenTasks, worked <- Worked

(* With requests to start only, of any number of clients, and with workers   *)
(* dying anywhere, tasks are worked one at a time, each by one workflow.     *)
TurnsSpec == Turns!Spec
=============================================================================
