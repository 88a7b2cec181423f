--------------------------- MODULE ExecutorProofs ---------------------------
(***************************************************************************)
(* Proofs about Executor, for any number of executors, deployments and     *)
(* commits; and, in the second half, about Settings.                       *)
(*                                                                         *)
(* Most steps neither touch the tree, the branches and what the run        *)
(* records of them nor bring anybody into the tree (Apart); the ten that   *)
(* do are taken one by one (TreeInv).  Who has the run in hand (HandsInv)  *)
(* depends on the status and on where the executors are, so it is shown    *)
(* of every action from what the action writes and where it leads.         *)
(***************************************************************************)
EXTENDS Executor, Settings, FiniteSetTheorems, TLAPS

-----------------------------------------------------------------------------
(* What the helpers write.                                                 *)

(* Executor w goes to `place`, the others stay where they are.             *)
Moves(w, place) ==
  /\ wf' \in [Workflows -> Worker]
  /\ wf'[w].at = place
  /\ wf'[w].mode \in {wf[w].mode, "full_run"}
  /\ \A v \in Workflows \ {w} : wf'[v] = wf[v]

LEMMA Bounds == MaxCommits \in Nat /\ MaxCommits >= 1 /\ MaxWaits \in Nat /\ MaxPolls \in Nat
BY ExecutorAssumption

LEMMA IdleType == Idle \in Worker
BY Bounds DEF Idle, Worker, Over, Mode, Branch, Sha

LEMMA GoMoves ==
  ASSUME TypeOK, NEW w \in Workflows, NEW place \in Over \cup Live, Go(w, place)
  PROVE  /\ Moves(w, place)
         /\ place \notin Over => wf'[w].mode = wf[w].mode /\ wf'[w].branch = wf[w].branch
<1> DEFINE over == [Idle EXCEPT !.at = place]
           on == [Idle EXCEPT !.at = place, !.mode = wf[w].mode, !.branch = wf[w].branch]
<1>1. wf[w] \in Worker
  BY DEF TypeOK
<1>2. over \in Worker /\ over.at = place /\ over.mode = "full_run"
  BY IdleType, Bounds DEF Worker, Idle
<1>3. on \in Worker /\ on.at = place /\ on.mode = wf[w].mode /\ on.branch = wf[w].branch
  BY <1>1, IdleType, Bounds DEF Worker, Idle
<1>4. wf' = [wf EXCEPT ![w] = IF place \in Over THEN over ELSE on]
  BY DEF Go
<1> HIDE DEF over, on
<1> QED BY <1>2, <1>3, <1>4 DEF TypeOK, Moves

LEMMA WithMoves ==
  ASSUME TypeOK, NEW w \in Workflows, NEW place \in Live \cup {"asked"}, NEW new \in Worker,
         With(w, place, new)
  PROVE  /\ wf' \in [Workflows -> Worker]
         /\ wf'[w] = [new EXCEPT !.at = place]
         /\ wf'[w].at = place /\ wf'[w].mode = new.mode
         /\ \A v \in Workflows \ {w} : wf'[v] = wf[v]
BY DEF TypeOK, With, Worker, Over, Live

(* The run is written as `new`, or not at all because it has ended; whom   *)
(* the operator holds is let go with the status, or is at the LLM.         *)
Held == held' # {} => /\ run'.status = "OPERATOR_CONTROLLED"
                      /\ \A v \in held' : v \in held \/ LlmRuns(v)
Written(new) ==
  /\ run' \in RunRecord /\ held' \subseteq Workflows
  /\ \/ run' = new
     \/ run' = run /\ IsTerminalRunStatus(run.status) /\ new.status # run.status
  /\ Held

LEMMA StoreWrites ==
  ASSUME TypeOK, HeldAreStopped, NEW new \in RunRecord, Store(new)
  PROVE  Written(new) /\ run' = new
BY DEF TypeOK, HeldAreStopped, Store, Written, Held

LEMMA ReadWrites ==
  ASSUME TypeOK, HeldAreStopped, Read
  PROVE  Written(run) /\ run' = run
BY DEF TypeOK, HeldAreStopped, Read, Written, Held

LEMMA TransitionWrites ==
  ASSUME TypeOK, HeldAreStopped, NEW new \in RunRecord, Transition(new)
  PROVE  Written(new)
BY StoreWrites, ReadWrites DEF Transition, Written

LEMMA FailedWrites ==
  ASSUME TypeOK, HeldAreStopped, MarkRunFailed
  PROVE  Written(run') /\ run' = [run EXCEPT !.status = "FAILED"]
<1>1. [run EXCEPT !.status = "FAILED"] \in RunRecord
  BY DEF TypeOK, RunRecord, RunStatus
<1> QED BY <1>1, StoreWrites DEF MarkRunFailed, Written
-----------------------------------------------------------------------------
(* Who has the run in hand.                                                *)

ReviewAt == Over \cup {"asked", "queued", "enter", "rvRead", "rvNote", "rvWork", "rvEnd"}
AtReview == {"rvWork", "rvEnd", "lost"}
Gone == {"ended", "failed", "lost"}

(* What a step of executor w that writes `new` owes to HandsInv: w stays   *)
(* with the run unless that has ended, a review it leaves is not running,  *)
(* and stopped in its LLM it does nothing else.                            *)
Owed(w, new) ==
  /\ wf'[w].mode = "review_only" => wf'[w].at \in ReviewAt
  /\ \/ wf'[w].at = "lost"
     \/ wf'[w].at \notin Over /\ wf'[w].mode # "review_only"
     \/ IsTerminalRunStatus(new.status) \/ new.status = "OPERATOR_CONTROLLED"
     \/ /\ new.status = run.status
        /\ wf[w].at # "lost" /\ (wf[w].at \in Over \/ wf[w].mode = "review_only")
  /\ \/ wf'[w].at \in AtReview
     \/ new.review = run.review /\ wf[w].at \notin AtReview
     \/ new.review # "running" /\ (wf[w].at \notin AtReview \/ new.status = run.status)
  /\ \/ config.adapter = "claude_code"
     \/ ~LlmRuns(w) /\ wf[w].at \notin Gone
     \/ wf'[w].at \in {"record", "llm", "llmEnd"} \cup Gone
     \/ new.status # "OPERATOR_CONTROLLED"

Others(w) == \A v \in Workflows \ {w} : wf'[v] = wf[v]

LEMMA HandsStep ==
  ASSUME TypeOK, HandsInv, NEW w \in Workflows, NEW new,
         Written(new), Others(w), Owed(w, new), config' = config
  PROVE  HandsInv'
<1>1. ReviewersReview'
  BY DEF HandsInv, ReviewersReview, Others, Owed, ReviewAt
<1>2. InHands'
  <2>1. CASE IsTerminalRunStatus(run'.status) \/ run'.status = "OPERATOR_CONTROLLED"
    BY <2>1 DEF InHands
  <2>2. CASE wf'[w].at = "lost" \/ (wf'[w].at \notin Over /\ wf'[w].mode # "review_only")
    BY <2>2 DEF InHands, At
  <2>3. CASE /\ run'.status = run.status
             /\ wf[w].at # "lost" /\ (wf[w].at \in Over \/ wf[w].mode = "review_only")
             /\ ~IsTerminalRunStatus(run.status) /\ run.status # "OPERATOR_CONTROLLED"
    <3>1. PICK v \in Workflows : At(v, "lost") \/ (wf[v].at \notin Over /\ wf[v].mode # "review_only")
      BY <2>3 DEF HandsInv, InHands
    <3>2. CASE v = w
      BY <2>3, <3>1, <3>2 DEF At
    <3>3. CASE v # w
      BY <3>1, <3>3 DEF InHands, At, Others
    <3> QED BY <3>2, <3>3
  <2> QED BY <2>1, <2>2, <2>3 DEF Owed, Written
<1>3. NoStrandedReview'
  BY DEF HandsInv, NoStrandedReview, Others, Owed, AtReview, Written
<1>4. HeldAreStopped'
  <2>1. ASSUME config.adapter # "claude_code", NEW v \in held'
        PROVE  LlmRuns(v)' \/ wf'[v].at \in Gone
    <3>1. run'.status = "OPERATOR_CONTROLLED" /\ (v \in held \/ LlmRuns(v)) /\ v \in Workflows
      BY <2>1 DEF Written, Held
    <3>2. LlmRuns(v) \/ wf[v].at \in Gone
      BY <2>1, <3>1 DEF HandsInv, HeldAreStopped, Gone
    <3>3. CASE v # w
      BY <3>1, <3>2, <3>3 DEF Others, LlmRuns
    <3>4. CASE v = w
      BY <2>1, <3>1, <3>2, <3>4 DEF Owed, LlmRuns, Written, Gone, IsTerminalRunStatus
    <3> QED BY <3>3, <3>4
  <2> QED BY <2>1 DEF HeldAreStopped, Gone, Written, Held
<1> QED BY <1>1, <1>2, <1>3, <1>4 DEF HandsInv

LEMMA QuietStep ==
  ASSUME TypeOK, HandsInv, NEW w \in Workflows, NEW new,
         Written(new), Others(w), Owed(w, new), wf' \in [Workflows -> Worker], Quiet
  PROVE  TypeOK' /\ HandsInv'
<1>1. config' = config
  BY DEF Quiet, rest
<1>2. TypeOK'
  BY DEF TypeOK, Quiet, rest, git, scm, Written
<1> QED BY <1>1, <1>2, HandsStep

(* Executor w has gone to `place`, in the mode it was in.                  *)
Goes(w, place) ==
  /\ wf' \in [Workflows -> Worker] /\ Others(w)
  /\ wf'[w].at = place
  /\ wf'[w].mode = wf[w].mode \/ place \in Over

LEMMA GoGoes ==
  ASSUME TypeOK, NEW w \in Workflows, NEW place \in Over \cup Live, Go(w, place)
  PROVE  Goes(w, place)
BY GoMoves DEF Moves, Goes, Others

LEMMA WithGoes ==
  ASSUME TypeOK, NEW w \in Workflows, NEW place \in Live, NEW new \in Worker,
         With(w, place, new), new.mode = wf[w].mode
  PROVE  Goes(w, place)
BY WithMoves DEF Goes, Others

(* What Owed says of a step to `place`.                                    *)
Owes(w, place, new) ==
  /\ place \in ReviewAt \/ wf[w].mode # "review_only"
  /\ \/ place = "lost"
     \/ place \notin Over /\ wf[w].mode # "review_only"
     \/ new.status \in {"DONE", "FAILED", "OPERATOR_CONTROLLED"}
     \/ new.status = run.status /\ wf[w].at # "lost" /\ wf[w].mode = "review_only"
  /\ \/ place \in AtReview
     \/ new.review = run.review /\ wf[w].at \notin AtReview
     \/ new.review # "running" /\ (wf[w].at \notin AtReview \/ new.status = run.status)
  /\ \/ ~LlmRuns(w) /\ wf[w].at \notin Gone
     \/ config.adapter = "claude_code"
     \/ place \in {"record", "llm", "llmEnd"} \cup Gone

LEMMA GoesOwed ==
  ASSUME NEW w \in Workflows, NEW place, NEW new, Goes(w, place), Owes(w, place, new)
  PROVE  Owed(w, new) /\ Others(w)
BY DEF Goes, Owes, Owed, ReviewAt, Over, IsTerminalRunStatus

LEMMA GoesStep ==
  ASSUME TypeOK, HandsInv, NEW w \in Workflows, NEW place, NEW new,
         Goes(w, place), Owes(w, place, new), Written(new), Quiet
  PROVE  TypeOK' /\ HandsInv'
BY GoesOwed, QuietStep DEF Goes

LEMMA BoardStep ==
  ASSUME TypeOK, HandsInv, NEW w \in Workflows, NEW place \in Over \cup Live,
         NEW new \in RunRecord, Board(w, new, place), Owes(w, place, new), Quiet
  PROVE  TypeOK' /\ HandsInv'
BY GoGoes, TransitionWrites, GoesStep DEF HandsInv, Board

LEMMA ReadStep ==
  ASSUME TypeOK, HandsInv, NEW w \in Workflows, NEW place \in Over \cup Live,
         Go(w, place), Read, Owes(w, place, run), Quiet
  PROVE  TypeOK' /\ HandsInv'
BY GoGoes, ReadWrites, GoesStep DEF HandsInv

LEMMA WithStep ==
  ASSUME TypeOK, HandsInv, NEW w \in Workflows, NEW place \in Live, NEW held_ \in Worker,
         NEW new \in RunRecord, held_.mode = wf[w].mode,
         With(w, place, held_), Transition(new) \/ (Read /\ new = run),
         Owes(w, place, new), Quiet
  PROVE  TypeOK' /\ HandsInv'
BY WithGoes, ReadWrites, TransitionWrites, GoesStep DEF HandsInv

(* An executor past its start, and before or after its review, is one that *)
(* does more than review.                                                  *)
LEMMA NoReviewer ==
  ASSUME HandsInv, NEW w \in Workflows, wf[w].at \notin ReviewAt
  PROVE  wf[w].mode # "review_only" /\ wf[w].at \notin AtReview \cup Gone \cup Over
BY DEF HandsInv, ReviewersReview, ReviewAt, AtReview, Gone, Over

-----------------------------------------------------------------------------
LEMMA FailRunHands ==
  ASSUME TypeOK, HandsInv, NEW w \in Workflows, FailRun(w)
  PROVE  TypeOK' /\ HandsInv'
<1>1. Goes(w, "failed") /\ Quiet
  BY GoGoes DEF FailRun, Over
<1>2. Written(run') /\ run' = [run EXCEPT !.status = "FAILED"]
  BY FailedWrites DEF FailRun, HandsInv
<1>3. wf[w].at \notin ReviewAt
  BY DEF FailRun, At, ReviewAt, Over
<1>4. run'.status = "FAILED" /\ run'.review = run.review
  BY <1>2 DEF TypeOK, RunRecord
<1>5. Owes(w, "failed", run')
  BY <1>3, <1>4, NoReviewer DEF Owes, ReviewAt, Gone, Over
<1> QED BY <1>1, <1>2, <1>5, GoesStep

LEMMA EnterHands ==
  ASSUME TypeOK, HandsInv, NEW w \in Workflows, Enter(w)
  PROVE  TypeOK' /\ HandsInv'
<1> DEFINE mode == wf[w].mode
<1> USE DEF Live, Over
<1>1. Quiet /\ wf[w].at = "enter" /\ wf[w] \in Worker /\ run \in RunRecord
  BY DEF Enter, At, TypeOK
<1>2. \A place, new :
        Owes(w, place, new) <=>
          /\ place \in ReviewAt \/ mode # "review_only"
          /\ \/ place = "lost"
             \/ place \notin Over /\ mode # "review_only"
             \/ new.status \in {"DONE", "FAILED", "OPERATOR_CONTROLLED"}
             \/ new.status = run.status /\ mode = "review_only"
          /\ place \in AtReview \/ new.review = run.review \/ new.review # "running"
  BY <1>1 DEF Owes, LlmRuns, Gone, AtReview
<1>3. CASE IsTerminalRunStatus(run.status) /\ mode # "review_only" /\ Go(w, "ended") /\ Read
  BY <1>1, <1>2, <1>3, ReadStep DEF IsTerminalRunStatus
<1>4. CASE mode = "review_only" /\ Go(w, "rvRead") /\ Read
  BY <1>1, <1>2, <1>4, ReadStep DEF ReviewAt
<1>5. CASE mode = "evidence_only" /\ Go(w, "evidence") /\ Read
  BY <1>1, <1>2, <1>5, ReadStep
<1>6. CASE mode = "evidence_only" /\ Board(w, WithoutPreview, "ended")
  <2>1. WithoutPreview \in RunRecord /\ WithoutPreview.status = "DONE"
        /\ WithoutPreview.review = run.review
    BY <1>1 DEF RunRecord, RunStatus, WithoutPreview
  <2> QED BY <1>1, <1>2, <1>6, <2>1, BoardStep
<1>7. CASE mode = "preview_only" /\ Go(w, "preview") /\ Read
  BY <1>1, <1>2, <1>7, ReadStep
<1>8. CASE mode = "full_run" /\ With(w, "boot", [wf[w] EXCEPT !.branch = run.branch]) /\ Read
  <2> DEFINE held_ == [wf[w] EXCEPT !.branch = run.branch]
  <2>1. held_ \in Worker /\ held_.mode = mode
    BY <1>1 DEF Worker, RunRecord
  <2>2. Owes(w, "boot", run)
    BY <1>2, <1>8
  <2> HIDE DEF held_
  <2> QED BY <1>1, <1>8, <2>1, <2>2, WithStep DEF held_
<1>9. CASE MissingCredential(mode) /\ Go(w, "lost") /\ Read
  BY <1>1, <1>2, <1>9, ReadStep DEF ReviewAt
<1> QED BY <1>3, <1>4, <1>5, <1>6, <1>7, <1>8, <1>9 DEF Enter, WithoutPreview

(* An executor at work goes on at `place` and leaves the review alone.     *)
LEMMA WorkOwes ==
  ASSUME HandsInv, NEW w \in Workflows, wf[w].at \notin ReviewAt,
         NEW place \in Live, NEW new, new.review = run.review,
         LlmRuns(w) => place \in {"record", "llm", "llmEnd"} \/ config.adapter = "claude_code"
  PROVE  Owes(w, place, new)
BY NoReviewer DEF Owes, Live, Over

LEMMA WorkStep ==
  ASSUME TypeOK, HandsInv, NEW w \in Workflows, wf[w].at \notin ReviewAt,
         NEW place \in Live, NEW new, new.review = run.review,
         LlmRuns(w) => place \in {"record", "llm", "llmEnd"} \/ config.adapter = "claude_code",
         Goes(w, place), Written(new), Quiet
  PROVE  TypeOK' /\ HandsInv'
BY WorkOwes, GoesStep

(* The same for a step that changes the tree, the branches or the reviews. *)
LEMMA WorkHands ==
  ASSUME TypeOK, HandsInv, NEW w \in Workflows, wf[w].at \notin ReviewAt,
         NEW place \in Live, NEW new, new.review = run.review,
         LlmRuns(w) => place \in {"record", "llm", "llmEnd"} \/ config.adapter = "claude_code",
         Goes(w, place), Written(new), config' = config
  PROVE  HandsInv'
BY WorkOwes, GoesOwed, HandsStep

LEMMA StatusPatch ==
  ASSUME TypeOK, NEW status \in RunStatus
  PROVE  LET new == [run EXCEPT !.status = status]
         IN new \in RunRecord /\ new.status = status /\ new.review = run.review
BY DEF TypeOK, RunRecord

LEMMA BootstrapHands ==
  ASSUME TypeOK, HandsInv, NEW w \in Workflows, Bootstrap(w)
  PROVE  TypeOK' /\ HandsInv'
<1> DEFINE new == [run EXCEPT !.status = "BOOTSTRAPPING", !.sandbox = TRUE]
<1>1. new \in RunRecord /\ new.review = run.review
  BY DEF TypeOK, RunRecord, RunStatus, ExecutionPhase
<1>2. Goes(w, "checkout") /\ Written(new) /\ Quiet
  BY <1>1, GoGoes, TransitionWrites DEF Bootstrap, Board, HandsInv, Live
<1>3. wf[w].at = "boot"
  BY DEF Bootstrap, At
<1> QED BY <1>1, <1>2, <1>3, WorkStep DEF ReviewAt, LlmRuns, Live, Over

LEMMA ReadForCheckpointHands ==
  ASSUME TypeOK, HandsInv, CheckpointsInOrder, NEW w \in Workflows, ReadForCheckpoint(w)
  PROVE  TypeOK' /\ HandsInv'
<1>1. wf[w].at = "cpRead" /\ wf[w] \in Worker /\ run \in RunRecord
  BY DEF ReadForCheckpoint, At, TypeOK
<1>2. Written(run) /\ Quiet
  BY ReadWrites DEF ReadForCheckpoint, HandsInv
<1>3. CASE With(w, "cpCommit", [wf[w] EXCEPT !.sequence = NextSequence(w)])
  <2>1. Len(run.checkpoints) \in Nat /\ Len(run.checkpoints) <= wf[w].phase - 1
    BY <1>1 DEF CheckpointsInOrder, InTree, Saved, RunRecord
  <2>2. NextSequence(w) \in 0..3
    BY <1>1, <2>1 DEF NextSequence, Worker
  <2>3. Goes(w, "cpCommit")
    BY <1>1, <1>3, <2>2, WithGoes DEF Worker, Live
  <2> QED BY <1>1, <1>2, <2>3, WorkStep DEF ReviewAt, LlmRuns, Live, Over
<1>4. CASE Go(w, AfterCheckpoint(w))
  BY <1>1, <1>2, <1>4, GoGoes, WorkStep DEF ReviewAt, LlmRuns, Live, Over, AfterCheckpoint
<1> QED BY <1>3, <1>4 DEF ReadForCheckpoint

LEMMA StartCodexHands ==
  ASSUME TypeOK, HandsInv, NEW w \in Workflows, StartCodex(w)
  PROVE  TypeOK' /\ HandsInv'
<1>1. wf[w].at = "codex" /\ wf[w] \in Worker
  BY DEF StartCodex, At, TypeOK
<1>2. Goes(w, "capacity")
  BY <1>1, WithGoes DEF StartCodex, Worker, Live
<1>3. Written([run EXCEPT !.status = "RUNNING_CODEX"]) /\ Quiet
  BY StatusPatch, TransitionWrites DEF StartCodex, HandsInv, RunStatus, ExecutionPhase
<1> QED BY <1>1, <1>2, <1>3, StatusPatch, WorkStep
        DEF ReviewAt, LlmRuns, Live, Over, RunStatus, ExecutionPhase

LEMMA WaitForCapacityHands ==
  ASSUME TypeOK, HandsInv, NEW w \in Workflows, WaitForCapacity(w)
  PROVE  TypeOK' /\ HandsInv'
<1>1. wf[w].at = "capacity" /\ wf[w] \in Worker /\ run \in RunRecord /\ Quiet
  BY DEF WaitForCapacity, At, TypeOK
<1>2. CASE Transition([run EXCEPT !.status = "BOOTSTRAPPING"])
           /\ With(w, "wait", [wf[w] EXCEPT !.count = @ + 1])
  <2>1. Goes(w, "wait")
    BY <1>1, <1>2, WithGoes DEF Worker, Live
  <2>2. Written([run EXCEPT !.status = "BOOTSTRAPPING"])
    BY <1>2, StatusPatch, TransitionWrites DEF HandsInv, RunStatus, ExecutionPhase
  <2> QED BY <1>1, <2>1, <2>2, StatusPatch, WorkStep
          DEF ReviewAt, LlmRuns, Live, Over, RunStatus, ExecutionPhase
<1>3. ASSUME NEW place \in {"launch", "llmCatch"}, Go(w, place), Read
      PROVE  TypeOK' /\ HandsInv'
  BY <1>1, <1>3, GoGoes, ReadWrites, WorkStep DEF HandsInv, ReviewAt, LlmRuns, Live, Over
<1> QED BY <1>2, <1>3 DEF WaitForCapacity

LEMMA CapacityIsBackHands ==
  ASSUME TypeOK, HandsInv, NEW w \in Workflows, CapacityIsBack(w)
  PROVE  TypeOK' /\ HandsInv'
<1>1. wf[w].at = "wait" /\ wf[w] \in Worker
  BY DEF CapacityIsBack, At, TypeOK
<1>2. Goes(w, "capacity")
  BY <1>1, WithGoes DEF CapacityIsBack, Live
<1>3. Written([run EXCEPT !.status = "RUNNING_CODEX"]) /\ Quiet
  BY StatusPatch, TransitionWrites DEF CapacityIsBack, HandsInv, RunStatus, ExecutionPhase
<1> QED BY <1>1, <1>2, <1>3, StatusPatch, WorkStep
        DEF ReviewAt, LlmRuns, Live, Over, RunStatus, ExecutionPhase

LEMMA StartProcessHands ==
  ASSUME TypeOK, HandsInv, NEW w \in Workflows, StartProcess(w)
  PROVE  TypeOK' /\ HandsInv'
<1>1. wf[w].at = "launch" /\ Quiet
  BY DEF StartProcess, At
<1>2. ASSUME NEW place \in {"record", "llm"}, Go(w, place)
      PROVE  TypeOK' /\ HandsInv'
  BY <1>1, <1>2, GoGoes, ReadWrites, WorkStep
     DEF StartProcess, HandsInv, ReviewAt, LlmRuns, Live, Over
<1> QED BY <1>2 DEF StartProcess

LEMMA RecordProcessHands ==
  ASSUME TypeOK, HandsInv, NEW w \in Workflows, RecordProcess(w)
  PROVE  TypeOK' /\ HandsInv'
<1> DEFINE new == [run EXCEPT !.process = w]
<1>1. new \in RunRecord /\ new.review = run.review
  BY DEF TypeOK, RunRecord
<1>2. Goes(w, "llm") /\ Written(new) /\ Quiet /\ wf[w].at = "record"
  BY <1>1, GoGoes, TransitionWrites DEF RecordProcess, Board, HandsInv, Live, At
<1> QED BY <1>1, <1>2, WorkStep DEF ReviewAt, Live, Over

LEMMA LlmReturnsHands ==
  ASSUME TypeOK, HandsInv, NEW w \in Workflows, LlmReturns(w)
  PROVE  TypeOK' /\ HandsInv'
<1> DEFINE new == IF config.adapter = "codex" THEN [run EXCEPT !.process = NoProcess] ELSE run
<1>1. wf[w].at = "llmEnd" /\ wf[w] \in Worker /\ Quiet
  BY DEF LlmReturns, At, TypeOK
<1>2. new \in RunRecord /\ new.review = run.review /\ new.status = run.status
  BY DEF TypeOK, RunRecord
<1>3. Written(new)
  BY <1>2, ReadWrites, TransitionWrites DEF LlmReturns, HandsInv
<1>4. wf[w].mode # "review_only" /\ LlmRuns(w)
  BY <1>1, NoReviewer DEF ReviewAt, Over, LlmRuns
<1>5. CASE StoppedForTakeover /\ Go(w, "ended")
  <2>1. Goes(w, "ended")
    BY <1>5, GoGoes DEF Over
  <2>2. Owes(w, "ended", new)
    BY <1>1, <1>2, <1>4, <1>5 DEF Owes, StoppedForTakeover, ReviewAt, Over, AtReview, Gone
  <2> QED BY <1>1, <1>3, <2>1, <2>2, GoesStep
<1>6. CASE ~StoppedForTakeover
  <2>1. Goes(w, "cpRead") \/ Goes(w, "llmCatch")
    <3>1. [wf[w] EXCEPT !.phase = 2] \in Worker /\ [wf[w] EXCEPT !.phase = 2].mode = wf[w].mode
      BY <1>1 DEF Worker
    <3> QED BY <1>6, <3>1, GoGoes, WithGoes DEF LlmReturns, Live
  <2>2. new.status = "OPERATOR_CONTROLLED" => config.adapter = "claude_code"
    BY <1>2, <1>6 DEF StoppedForTakeover
  <2>3. Owed(w, new) /\ Others(w) /\ wf' \in [Workflows -> Worker]
    BY <1>1, <1>2, <1>4, <2>1, <2>2 DEF Goes, Owed, Over, AtReview
  <2> QED BY <1>1, <1>3, <2>3, QuietStep
<1> QED BY <1>5, <1>6 DEF LlmReturns

LEMMA LlmFailsHands ==
  ASSUME TypeOK, HandsInv, NEW w \in Workflows, LlmFails(w)
  PROVE  TypeOK' /\ HandsInv'
<1>1. wf[w].at = "llmCatch" /\ Quiet /\ Written(run)
  BY ReadWrites DEF LlmFails, At, HandsInv
<1>2. CASE run.status = "OPERATOR_CONTROLLED" /\ Go(w, "ended")
  <2>1. Goes(w, "ended")
    BY <1>2, GoGoes DEF Over
  <2>2. Owes(w, "ended", run)
    BY <1>1, <1>2, NoReviewer DEF Owes, ReviewAt, Over, AtReview, Gone, LlmRuns
  <2> QED BY <1>1, <2>1, <2>2, GoesStep
<1>3. CASE Go(w, "fail")
  BY <1>1, <1>3, GoGoes, WorkStep DEF ReviewAt, LlmRuns, Live, Over
<1> QED BY <1>2, <1>3 DEF LlmFails

LEMMA StartTestsHands ==
  ASSUME TypeOK, HandsInv, NEW w \in Workflows, StartTests(w)
  PROVE  TypeOK' /\ HandsInv'
<1>1. wf[w].at = "tests" /\ wf[w] \in Worker
  BY DEF StartTests, At, TypeOK
<1>2. Goes(w, "cpRead")
  BY <1>1, WithGoes DEF StartTests, Worker, Live
<1>3. Written([run EXCEPT !.status = "RUNNING_TESTS"]) /\ Quiet
  BY StatusPatch, TransitionWrites DEF StartTests, HandsInv, RunStatus, ExecutionPhase
<1> QED BY <1>1, <1>2, <1>3, StatusPatch, WorkStep
        DEF ReviewAt, LlmRuns, Live, Over, RunStatus, ExecutionPhase

LEMMA StartPushHands ==
  ASSUME TypeOK, HandsInv, NEW w \in Workflows, StartPush(w)
  PROVE  TypeOK' /\ HandsInv'
<1>1. wf[w].at = "pushing"
  BY DEF StartPush, At
<1>2. Goes(w, "prepare") /\ Written([run EXCEPT !.status = "PUSHING_BRANCH"]) /\ Quiet
  BY GoGoes, StatusPatch, TransitionWrites
     DEF StartPush, Board, HandsInv, RunStatus, ExecutionPhase, Live
<1>3. [run EXCEPT !.status = "PUSHING_BRANCH"].review = run.review
  BY DEF TypeOK, RunRecord
<1>4. wf[w].at \notin ReviewAt /\ ~LlmRuns(w)
  BY <1>1 DEF ReviewAt, LlmRuns, Over
<1> QED BY <1>2, <1>3, <1>4, WorkStep DEF Live

LEMMA OpenReviewHands ==
  ASSUME TypeOK, HandsInv, NEW w \in Workflows, OpenReview(w)
  PROVE  TypeOK' /\ HandsInv'
<1>1. wf[w].at = "open" /\ wf[w] \in Worker /\ run \in RunRecord /\ Quiet
  BY DEF OpenReview, At, TypeOK
<1>2. CASE Board(w, [run EXCEPT !.status = "PR_OPEN"], "rvRead")
  <2>1. Goes(w, "rvRead") /\ Written([run EXCEPT !.status = "PR_OPEN"])
    BY <1>2, GoGoes, StatusPatch, TransitionWrites
       DEF Board, HandsInv, RunStatus, ReviewPhase, Live
  <2>2. [run EXCEPT !.status = "PR_OPEN"].review = run.review
    BY <1>1 DEF RunRecord
  <2>3. wf[w].at \notin ReviewAt /\ ~LlmRuns(w)
    BY <1>1 DEF ReviewAt, LlmRuns, Over
  <2> QED BY <1>1, <2>1, <2>2, <2>3, WorkStep DEF Live
<1>3. CASE With(w, "create", [wf[w] EXCEPT !.branch = run.branch]) /\ Read
  <2>1. Goes(w, "create") /\ Written(run)
    BY <1>1, <1>3, WithGoes, ReadWrites DEF HandsInv, Worker, RunRecord, Live
  <2> QED BY <1>1, <2>1, WorkStep DEF ReviewAt, LlmRuns, Live, Over
<1> QED BY <1>2, <1>3 DEF OpenReview

LEMMA CreateReviewRequestHands ==
  ASSUME TypeOK, HandsInv, NEW w \in Workflows, CreateReviewRequest(w)
  PROVE  TypeOK' /\ HandsInv'
<1>1. wf[w].at = "create" /\ wf[w] \in Worker /\ config' = config /\ Written(run)
  BY ReadWrites DEF CreateReviewRequest, At, TypeOK, HandsInv, rest
<1>2. Goes(w, "prNote") \/ Goes(w, "fail")
  BY GoGoes DEF CreateReviewRequest, Live
<1>3. HandsInv'
  BY <1>1, <1>2, WorkHands DEF ReviewAt, LlmRuns, Live, Over
<1>4. reviews' \subseteq Branch
  BY <1>1 DEF CreateReviewRequest, TypeOK, Worker
<1>5. TypeOK'
  BY <1>1, <1>2, <1>4 DEF CreateReviewRequest, TypeOK, Goes, Written, rest, git
<1> QED BY <1>3, <1>5

LEMMA RecordReviewHands ==
  ASSUME TypeOK, HandsInv, NEW w \in Workflows, RecordReview(w)
  PROVE  TypeOK' /\ HandsInv'
<1> DEFINE new == [run EXCEPT !.status = "PR_OPEN", !.url = TRUE]
<1>1. new \in RunRecord /\ new.review = run.review
  BY DEF TypeOK, RunRecord, RunStatus, ReviewPhase
<1>2. Goes(w, "rvRead") /\ Written(new) /\ Quiet /\ wf[w].at = "prNote"
  BY <1>1, GoGoes, TransitionWrites DEF RecordReview, Board, HandsInv, Live, At
<1> QED BY <1>1, <1>2, WorkStep DEF ReviewAt, LlmRuns, Live, Over

-----------------------------------------------------------------------------
(* The review, which a reviewer may do as well.                            *)

LEMMA ReadForReviewHands ==
  ASSUME TypeOK, HandsInv, NEW w \in Workflows, ReadForReview(w)
  PROVE  TypeOK' /\ HandsInv'
<1>1. wf[w].at = "rvRead" /\ wf[w] \in Worker /\ run \in RunRecord /\ Quiet
  BY DEF ReadForReview, At, TypeOK
<1>2. AfterReview(w) \in Over \cup Live
  BY DEF AfterReview, Over, Live
<1>3. ASSUME NEW new, new.status = run.status, new.review \in {run.review, "none"}
      PROVE  Owes(w, AfterReview(w), new)
  BY <1>1, <1>3 DEF Owes, AfterReview, ReviewAt, Over, AtReview, LlmRuns, Gone
<1>4. CASE Go(w, AfterReview(w)) /\ Read
  BY <1>1, <1>2, <1>3, <1>4, ReadStep
<1>5. CASE Board(w, [run EXCEPT !.review = "none"], AfterReview(w))
  <2>1. LET new == [run EXCEPT !.review = "none"] IN
        new \in RunRecord /\ new.status = run.status /\ new.review = "none"
    BY <1>1 DEF RunRecord
  <2> QED BY <1>1, <1>2, <1>3, <1>5, <2>1, BoardStep
<1>6. CASE With(w, "rvNote", [wf[w] EXCEPT !.round = run.round + 1]) /\ Read
  <2> DEFINE next == [wf[w] EXCEPT !.round = run.round + 1]
  <2>1. next \in Worker /\ next.mode = wf[w].mode
    <3>1. run.round + 1 \in Nat
      BY <1>1 DEF RunRecord
    <3> QED BY <1>1, <3>1 DEF Worker
  <2>2. Written(run)
    BY <1>6, ReadWrites DEF HandsInv
  <2> HIDE DEF next
  <2>3. With(w, "rvNote", next)
    BY <1>6 DEF next
  <2>4. Goes(w, "rvNote")
    BY <2>1, <2>3, WithGoes DEF Live
  <2>5. Owes(w, "rvNote", run)
    BY <1>1 DEF Owes, ReviewAt, Over, AtReview, LlmRuns, Gone
  <2> QED BY <1>1, <2>2, <2>4, <2>5, GoesStep
<1> QED BY <1>4, <1>5, <1>6 DEF ReadForReview

LEMMA NoteReviewHands ==
  ASSUME TypeOK, HandsInv, NEW w \in Workflows, NoteReview(w)
  PROVE  TypeOK' /\ HandsInv'
<1> DEFINE new == [run EXCEPT !.review = "running", !.round = wf[w].round]
<1>1. wf[w].at = "rvNote" /\ wf[w] \in Worker /\ Quiet
  BY DEF NoteReview, At, TypeOK
<1>2. new \in RunRecord /\ new.status = run.status
  BY <1>1 DEF TypeOK, RunRecord, Worker
<1>3. Goes(w, "rvWork") /\ Written(new)
  BY <1>1, <1>2, WithGoes, TransitionWrites DEF NoteReview, HandsInv, Live
<1>4. Owes(w, "rvWork", new)
  BY <1>1, <1>2 DEF Owes, ReviewAt, Over, AtReview, LlmRuns, Gone
<1> QED BY <1>1, <1>3, <1>4, GoesStep

LEMMA ReviewWorkHands ==
  ASSUME TypeOK, HandsInv, NEW w \in Workflows, ReviewWork(w)
  PROVE  TypeOK' /\ HandsInv'
<1>1. wf[w].at = "rvWork" /\ wf[w] \in Worker /\ Quiet
  BY DEF ReviewWork, At, TypeOK
<1>2. Goes(w, "rvEnd") /\ Written(run)
  BY <1>1, WithGoes, ReadWrites DEF ReviewWork, HandsInv, Worker, Live
<1>3. Owes(w, "rvEnd", run)
  BY <1>1 DEF Owes, ReviewAt, Over, AtReview, LlmRuns, Gone
<1> QED BY <1>1, <1>2, <1>3, GoesStep

LEMMA EndReviewHands ==
  ASSUME TypeOK, HandsInv, NEW w \in Workflows, EndReview(w)
  PROVE  TypeOK' /\ HandsInv'
<1>1. wf[w].at = "rvEnd" /\ wf[w] \in Worker /\ Quiet
  BY DEF EndReview, At, TypeOK
<1>2. /\ EndedReview(w) \in RunRecord /\ EndedReview(w).status = run.status
      /\ EndedReview(w).review # "running"
  BY <1>1 DEF TypeOK, RunRecord, Worker, EndedReview
<1>3. AfterReview(w) \in Over \cup Live
  BY DEF AfterReview, Over, Live
<1>4. Owes(w, AfterReview(w), EndedReview(w))
  BY <1>1, <1>2 DEF Owes, AfterReview, ReviewAt, Over, AtReview, LlmRuns, Gone
<1> QED BY <1>1, <1>2, <1>3, <1>4, BoardStep DEF EndReview

-----------------------------------------------------------------------------
(* Preview and evidence.                                                   *)

LEMMA WithoutPreviewOwes ==
  ASSUME TypeOK, HandsInv, NEW w \in Workflows, wf[w].at \notin ReviewAt, ~LlmRuns(w)
  PROVE  /\ WithoutPreview \in RunRecord /\ WithoutPreview.review = run.review
         /\ Owes(w, "ended", WithoutPreview)
<1>1. /\ WithoutPreview \in RunRecord /\ WithoutPreview.review = run.review
      /\ WithoutPreview.status = "DONE"
  BY DEF TypeOK, RunRecord, RunStatus, WithoutPreview
<1> QED BY <1>1, NoReviewer DEF Owes, ReviewAt, Over

LEMMA StartPreviewHands ==
  ASSUME TypeOK, HandsInv, NEW w \in Workflows, StartPreview(w)
  PROVE  TypeOK' /\ HandsInv'
<1>1. wf[w].at = "preview" /\ wf[w] \in Worker /\ Quiet
  BY DEF StartPreview, At, TypeOK
<1>2. wf[w].at \notin ReviewAt /\ ~LlmRuns(w)
  BY <1>1 DEF ReviewAt, LlmRuns, Over
<1>3. CASE Board(w, WithoutPreview, "ended")
  BY <1>1, <1>2, <1>3, WithoutPreviewOwes, BoardStep DEF Over
<1>4. CASE Transition([run EXCEPT !.status = "WAITING_PREVIEW"])
           /\ With(w, "poll", [wf[w] EXCEPT !.count = 0])
  <2>1. Goes(w, "poll")
    BY <1>1, <1>4, WithGoes DEF Worker, Live
  <2>2. Written([run EXCEPT !.status = "WAITING_PREVIEW"])
    BY <1>4, StatusPatch, TransitionWrites DEF HandsInv, RunStatus, ReviewPhase
  <2>3. [run EXCEPT !.status = "WAITING_PREVIEW"].review = run.review
    BY DEF TypeOK, RunRecord
  <2> QED BY <1>1, <1>2, <2>1, <2>2, <2>3, WorkStep DEF Live
<1> QED BY <1>3, <1>4 DEF StartPreview

LEMMA WaitForPreviewHands ==
  ASSUME TypeOK, HandsInv, NEW w \in Workflows, WaitForPreview(w)
  PROVE  TypeOK' /\ HandsInv'
<1>1. wf[w].at = "poll" /\ wf[w] \in Worker /\ Quiet /\ Read
  BY DEF WaitForPreview, At, TypeOK
<1>2. wf[w].at \notin ReviewAt /\ ~LlmRuns(w) /\ Written(run)
  BY <1>1, ReadWrites DEF ReviewAt, LlmRuns, Over, HandsInv
<1>3. ASSUME NEW place \in {"found", "noPreview"}, Go(w, place)
      PROVE  TypeOK' /\ HandsInv'
  BY <1>1, <1>2, <1>3, GoGoes, WorkStep DEF Live
<1>4. CASE Go(w, "lost")
  <2>1. Owes(w, "lost", run)
    BY <1>2, NoReviewer DEF Owes, ReviewAt, Over, AtReview
  <2> QED BY <1>1, <1>4, <2>1, ReadStep DEF Over
<1>5. ASSUME NEW place \in {"poll", "noPreview"}, With(w, place, [wf[w] EXCEPT !.count = @ + 1])
      PROVE  TypeOK' /\ HandsInv'
  <2>1. Goes(w, place)
    BY <1>1, <1>5, WithGoes DEF Worker, Live
  <2> QED BY <1>1, <1>2, <2>1, WorkStep DEF Live
<1> QED BY <1>3, <1>4, <1>5 DEF WaitForPreview

LEMMA FoundPreviewHands ==
  ASSUME TypeOK, HandsInv, NEW w \in Workflows, FoundPreview(w)
  PROVE  TypeOK' /\ HandsInv'
<1> DEFINE captured == [run EXCEPT !.status = "EVIDENCE_RUNNING", !.preview = TRUE,
                                   !.evidence = "RUNNING"]
           done == [run EXCEPT !.status = "DONE", !.preview = TRUE, !.evidence = "NOT_STARTED"]
<1>1. wf[w].at = "found" /\ Quiet /\ wf[w].at \notin ReviewAt /\ ~LlmRuns(w)
  BY DEF FoundPreview, At, ReviewAt, LlmRuns, Over
<1>2. /\ captured \in RunRecord /\ captured.review = run.review
      /\ done \in RunRecord /\ done.review = run.review /\ done.status = "DONE"
  BY DEF TypeOK, RunRecord, RunStatus, ReviewPhase
<1>3. CASE Board(w, captured, "evidence")
  <2>1. "evidence" \in Live
    BY DEF Live
  <2> HIDE DEF captured
  <2>2. Owes(w, "evidence", captured)
    BY <1>1, <1>2, <2>1, WorkOwes
  <2> QED BY <1>1, <1>2, <1>3, <2>1, <2>2, BoardStep
<1>4. CASE Board(w, done, "ended")
  <2>1. Owes(w, "ended", done)
    BY <1>1, <1>2, NoReviewer DEF Owes, ReviewAt, Over
  <2> QED BY <1>1, <1>2, <1>4, <2>1, BoardStep DEF Over
<1> QED BY <1>3, <1>4 DEF FoundPreview

LEMMA NoPreviewHands ==
  ASSUME TypeOK, HandsInv, NEW w \in Workflows, NoPreview(w)
  PROVE  TypeOK' /\ HandsInv'
<1>1. Quiet /\ wf[w].at \notin ReviewAt /\ ~LlmRuns(w) /\ Board(w, WithoutPreview, "ended")
  BY DEF NoPreview, At, ReviewAt, LlmRuns, Over
<1> QED BY <1>1, WithoutPreviewOwes, BoardStep DEF Over

LEMMA ReadForEvidenceHands ==
  ASSUME TypeOK, HandsInv, NEW w \in Workflows, ReadForEvidence(w)
  PROVE  TypeOK' /\ HandsInv'
<1>1. Quiet /\ Written(run) /\ wf[w].at = "evidence"
  BY ReadWrites DEF ReadForEvidence, HandsInv, At
<1>2. Goes(w, "evNote") \/ Goes(w, "fail")
  BY GoGoes DEF ReadForEvidence, Live
<1> QED BY <1>1, <1>2, WorkStep DEF ReviewAt, LlmRuns, Over, Live

LEMMA StartEvidenceHands ==
  ASSUME TypeOK, HandsInv, NEW w \in Workflows, StartEvidence(w)
  PROVE  TypeOK' /\ HandsInv'
<1> DEFINE new == [run EXCEPT !.status = "EVIDENCE_RUNNING", !.evidence = "RUNNING"]
<1>1. new \in RunRecord /\ new.review = run.review
  BY DEF TypeOK, RunRecord, RunStatus, ReviewPhase
<1>2. Goes(w, "capture") /\ Written(new) /\ Quiet /\ wf[w].at = "evNote"
  BY <1>1, GoGoes, TransitionWrites DEF StartEvidence, Board, HandsInv, Live, At
<1> QED BY <1>1, <1>2, WorkStep DEF ReviewAt, LlmRuns, Live, Over

LEMMA CaptureEvidenceHands ==
  ASSUME TypeOK, HandsInv, NEW w \in Workflows, CaptureEvidence(w)
  PROVE  TypeOK' /\ HandsInv'
<1>1. Quiet /\ Written(run) /\ wf[w].at = "capture"
  BY ReadWrites DEF CaptureEvidence, HandsInv, At
<1>2. Goes(w, "comment") \/ Goes(w, "fail")
  BY GoGoes DEF CaptureEvidence, Live
<1> QED BY <1>1, <1>2, WorkStep DEF ReviewAt, LlmRuns, Over, Live

LEMMA CommentOnReviewHands ==
  ASSUME TypeOK, HandsInv, NEW w \in Workflows, CommentOnReview(w)
  PROVE  TypeOK' /\ HandsInv'
<1>1. Quiet /\ Read /\ Written(run) /\ wf[w].at \notin ReviewAt /\ ~LlmRuns(w)
  BY ReadWrites DEF CommentOnReview, HandsInv, At, ReviewAt, LlmRuns, Over
<1>2. CASE Go(w, "evDone")
  BY <1>1, <1>2, GoGoes, WorkStep DEF Live
<1>3. CASE Go(w, "lost")
  <2>1. Owes(w, "lost", run)
    BY <1>1, NoReviewer DEF Owes, ReviewAt, Over, AtReview
  <2> QED BY <1>1, <1>3, <2>1, ReadStep DEF Over
<1> QED BY <1>2, <1>3 DEF CommentOnReview

LEMMA EndEvidenceHands ==
  ASSUME TypeOK, HandsInv, NEW w \in Workflows, EndEvidence(w)
  PROVE  TypeOK' /\ HandsInv'
<1> DEFINE new == [run EXCEPT !.status = "DONE", !.evidence = "READY"]
<1>1. new \in RunRecord /\ new.review = run.review /\ new.status = "DONE"
  BY DEF TypeOK, RunRecord, RunStatus
<1>2. Quiet /\ wf[w].at \notin ReviewAt /\ ~LlmRuns(w) /\ Board(w, new, "ended")
  BY DEF EndEvidence, At, ReviewAt, LlmRuns, Over
<1>3. Owes(w, "ended", new)
  BY <1>1, <1>2, NoReviewer DEF Owes, ReviewAt, Over
<1> QED BY <1>1, <1>2, <1>3, BoardStep DEF Over

-----------------------------------------------------------------------------
(* Operators, jobs and crashes.                                            *)

LEMMA AskOwed ==
  ASSUME TypeOK, NEW w \in Workflows, NEW mode \in Mode, NEW new, Ask(w, mode),
         new.review = run.review, mode # "review_only" \/ new.status = run.status
  PROVE  Owed(w, new) /\ Others(w) /\ wf' \in [Workflows -> Worker]
<1>1. wf[w].at = "none" /\ wf[w] \in Worker /\ With(w, "asked", [wf[w] EXCEPT !.mode = mode])
  BY DEF Ask, At, TypeOK
<1>2. [wf[w] EXCEPT !.mode = mode] \in Worker /\ [wf[w] EXCEPT !.mode = mode].mode = mode
  BY <1>1 DEF Worker
<1>3. /\ wf' \in [Workflows -> Worker] /\ Others(w)
      /\ wf'[w].at = "asked" /\ wf'[w].mode = mode
  BY <1>1, <1>2, WithMoves DEF Others
<1> QED BY <1>1, <1>3 DEF Owed, ReviewAt, AtReview, Gone, Over, LlmRuns

LEMMA AskHands ==
  ASSUME TypeOK, HandsInv, NEW w \in Workflows,
         HandleRunTask(w) \/ HandleRetryEvidence(w) \/ HandleRetryPreview(w)
           \/ HandleRerunReview(w)
  PROVE  TypeOK' /\ HandsInv'
<1>1. Quiet /\ run \in RunRecord
  BY DEF HandleRunTask, HandleRetryEvidence, HandleRetryPreview, HandleRerunReview, TypeOK
<1>2. ASSUME NEW mode \in Mode, NEW new, Ask(w, mode), Written(new),
             new.review = run.review, mode # "review_only" \/ new.status = run.status
      PROVE  TypeOK' /\ HandsInv'
  BY <1>1, <1>2, AskOwed, QuietStep
<1>3. CASE HandleRunTask(w)
  BY <1>2, <1>3, ReadWrites DEF HandleRunTask, HandsInv, Mode
<1>4. CASE HandleRetryEvidence(w)
  <2> DEFINE new == [run EXCEPT !.evidence = "RUNNING",
                       !.status = IF run.preview THEN "EVIDENCE_RUNNING" ELSE "WAITING_PREVIEW"]
             mode == IF run.preview THEN "evidence_only" ELSE "preview_only"
  <2>1. new \in RunRecord /\ new.review = run.review
    BY <1>1 DEF RunRecord, RunStatus, ReviewPhase
  <2>2. Ask(w, mode) /\ Store(new)
    BY <1>4 DEF HandleRetryEvidence
  <2>3. Written(new) /\ mode \in Mode /\ mode # "review_only"
    BY <2>1, <2>2, StoreWrites DEF HandsInv, Mode
  <2> QED BY <1>2, <2>1, <2>2, <2>3
<1>5. CASE HandleRetryPreview(w)
  <2> DEFINE new == [run EXCEPT !.status = "WAITING_PREVIEW", !.preview = FALSE,
                                !.evidence = "NOT_STARTED"]
  <2>1. new \in RunRecord /\ new.review = run.review
    BY <1>1 DEF RunRecord, RunStatus, ReviewPhase
  <2>2. Ask(w, "preview_only") /\ Store(new)
    BY <1>5 DEF HandleRetryPreview
  <2>3. Written(new)
    BY <2>1, <2>2, StoreWrites DEF HandsInv
  <2> QED BY <1>2, <2>1, <2>2, <2>3 DEF Mode
<1>6. CASE HandleRerunReview(w)
  BY <1>2, <1>6, ReadWrites DEF HandleRerunReview, HandsInv, Mode
<1> QED BY <1>3, <1>4, <1>5, <1>6

LEMMA CancelHands ==
  ASSUME TypeOK, HandsInv, HandleCancelRun
  PROVE  TypeOK' /\ HandsInv'
<1>1. Written(run') /\ run' = [run EXCEPT !.status = "FAILED"] /\ UNCHANGED wf /\ Quiet
  BY FailedWrites DEF HandleCancelRun, HandsInv
<1>2. run'.status = "FAILED" /\ run'.review = run.review
  BY <1>1 DEF TypeOK, RunRecord
<1>3. TypeOK'
  BY <1>1 DEF TypeOK, Quiet, rest, git, scm, Written
<1>4. ReviewersReview' /\ InHands' /\ NoStrandedReview'
  BY <1>1, <1>2 DEF HandsInv, ReviewersReview, InHands, NoStrandedReview, IsTerminalRunStatus
<1>5. HeldAreStopped'
  BY <1>1, <1>2 DEF Written, Held, HeldAreStopped
<1> QED BY <1>3, <1>4, <1>5 DEF HandsInv

LEMMA ScheduleHands ==
  ASSUME TypeOK, HandsInv, NEW w \in Workflows, ScheduleRunJob(w)
  PROVE  TypeOK' /\ HandsInv'
<1>1. wf[w].at = "asked" /\ Quiet /\ Read
  BY DEF ScheduleRunJob, At
<1>2. CASE Go(w, "enter")
  <2>1. Owes(w, "enter", run)
    BY <1>1 DEF Owes, ReviewAt, AtReview, Gone, Over, LlmRuns
  <2> QED BY <1>1, <1>2, <2>1, ReadStep DEF Live
<1>3. CASE wf' = [v \in Workflows |->
                   IF v = w THEN [wf[v] EXCEPT !.at = "queued"]
                   ELSE IF v \in Overwritten(w) THEN [Idle EXCEPT !.at = "lost"] ELSE wf[v]]
  <2> DEFINE queued == [wf[w] EXCEPT !.at = "queued"]
             lost == [Idle EXCEPT !.at = "lost"]
  <2>1. queued \in Worker /\ queued.at = "queued" /\ queued.mode = wf[w].mode
    BY DEF TypeOK, Worker
  <2>2. lost \in Worker /\ lost.at = "lost" /\ lost.mode = "full_run"
    BY IdleType DEF Worker, Idle, Over
  <2>3. \A v \in Workflows : \/ v = w /\ wf'[v] = queued
                             \/ v # w /\ wf[v].at = "queued" /\ wf'[v] = lost
                             \/ v # w /\ wf'[v] = wf[v]
    BY <1>3 DEF Overwritten, At
  <2> HIDE DEF queued, lost
  <2>4. wf' \in [Workflows -> Worker]
    <3>1. \A v \in Workflows : wf'[v] \in Worker
      BY <2>1, <2>2, <2>3 DEF TypeOK
    <3> QED BY <1>3, <3>1
  <2>5. TypeOK'
    BY <1>1, <2>4 DEF TypeOK, Quiet, Read, rest, git, scm
  <2>6. ReviewersReview'
    BY <2>1, <2>2, <2>3 DEF HandsInv, ReviewersReview
  <2>7. InHands'
    BY <1>1, <2>1, <2>2, <2>3 DEF HandsInv, InHands, At, Over, Read
  <2>8. NoStrandedReview' /\ HeldAreStopped'
    <3>1. \A v \in Workflows : wf[v].at \in {"rvWork", "rvEnd", "lost", "ended", "failed",
                                             "record", "llm", "llmEnd"} => wf'[v] = wf[v]
      BY <1>1, <2>3
    <3>2. UNCHANGED <<run, held, config>>
      BY <1>1 DEF Read, Quiet, rest
    <3>3. held \subseteq Workflows
      BY DEF TypeOK
    <3>4. NoStrandedReview'
      BY <3>1, <3>2 DEF HandsInv, NoStrandedReview
    <3>5. HeldAreStopped'
      BY <3>1, <3>2, <3>3 DEF HandsInv, HeldAreStopped, LlmRuns
    <3> QED BY <3>4, <3>5
  <2> QED BY <2>5, <2>6, <2>7, <2>8 DEF HandsInv
<1> QED BY <1>2, <1>3 DEF ScheduleRunJob

LEMMA AlarmHands ==
  ASSUME TypeOK, HandsInv, NEW w \in Workflows, Alarm(w)
  PROVE  TypeOK' /\ HandsInv'
<1>1. wf[w].at = "queued" /\ Quiet /\ Read /\ Go(w, "enter")
  BY DEF Alarm, At
<1>2. Owes(w, "enter", run)
  BY <1>1 DEF Owes, ReviewAt, AtReview, Gone, Over, LlmRuns
<1> QED BY <1>1, <1>2, ReadStep DEF Live

LEMMA CrashHands ==
  ASSUME TypeOK, HandsInv, NEW w \in Workflows, Crash(w)
  PROVE  TypeOK' /\ HandsInv'
<1>1. Owes(w, "lost", run)
  BY DEF Owes, ReviewAt, AtReview, Gone, Over
<1> QED BY <1>1, ReadStep DEF Crash, Over

LEMMA KillHands ==
  ASSUME TypeOK, HandsInv, KillProcess
  PROVE  TypeOK' /\ HandsInv'
<1>1. Read /\ taking' = TRUE /\ UNCHANGED <<config, git, scm>>
  BY DEF KillProcess
<1>2. CASE UNCHANGED wf
  <2>1. TypeOK'
    BY <1>1, <1>2 DEF TypeOK, Read, git, scm
  <2>2. HandsInv'
    BY <1>1, <1>2 DEF HandsInv, ReviewersReview, InHands, NoStrandedReview, HeldAreStopped,
                      LlmRuns, At, Read
  <2> QED BY <2>1, <2>2
<1>3. ASSUME NEW w \in Workflows, w = run.process, At(w, "llm"),
             With(w, "llmEnd", [wf[w] EXCEPT !.ok = FALSE])
      PROVE  TypeOK' /\ HandsInv'
  <2>1. wf[w].at = "llm" /\ wf[w] \in Worker /\ Written(run)
    BY <1>1, <1>3, ReadWrites DEF At, TypeOK, HandsInv
  <2>2. Goes(w, "llmEnd")
    <3> DEFINE held_ == [wf[w] EXCEPT !.ok = FALSE]
    <3>1. held_ \in Worker /\ held_.mode = wf[w].mode /\ With(w, "llmEnd", held_)
      BY <1>3, <2>1 DEF Worker
    <3> HIDE DEF held_
    <3> QED BY <3>1, WithGoes DEF Live
  <2>3. TypeOK'
    BY <1>1, <2>2 DEF TypeOK, Goes, Read, git, scm
  <2>4. HandsInv'
    BY <1>1, <2>1, <2>2, WorkHands DEF ReviewAt, LlmRuns, Live, Over
  <2> QED BY <2>3, <2>4
<1>4. run.process # NoProcess => run.process \in Workflows
  BY DEF TypeOK, RunRecord
<1> QED BY <1>2, <1>3, <1>4 DEF KillProcess

LEMMA TakeOverHands ==
  ASSUME TypeOK, HandsInv, TakeOverRun
  PROVE  TypeOK' /\ HandsInv'
<1> DEFINE new == [run EXCEPT !.status = "OPERATOR_CONTROLLED", !.process = NoProcess]
<1>1. /\ new \in RunRecord /\ new.status = "OPERATOR_CONTROLLED" /\ new.review = run.review
      /\ Store(new)
  BY DEF TypeOK, RunRecord, RunStatus, ExecutionPhase, TakeOverRun
<1>2. Written(new) /\ run' = new /\ UNCHANGED <<config, wf, git, scm>> /\ taking' = FALSE
  BY <1>1, StoreWrites DEF TakeOverRun, HandsInv
<1>3. TypeOK'
  BY <1>2 DEF TypeOK, git, scm, Written
<1>4. ReviewersReview' /\ InHands' /\ NoStrandedReview'
  BY <1>1, <1>2 DEF HandsInv, ReviewersReview, InHands, NoStrandedReview
<1>5. HeldAreStopped'
  BY <1>1, <1>2 DEF HandsInv, Written, Held, HeldAreStopped, LlmRuns
<1> QED BY <1>3, <1>4, <1>5 DEF HandsInv

LEMMA EditsHands ==
  ASSUME TypeOK, HandsInv, OperatorEdits
  PROVE  TypeOK' /\ HandsInv'
<1>1. Read /\ UNCHANGED <<rest, wf, noted, commits, scm>> /\ tree' = [tree EXCEPT !.dirty = TRUE]
  BY DEF OperatorEdits
<1>2. TypeOK'
  BY <1>1 DEF TypeOK, Tree, Read, rest, scm
<1>3. HandsInv'
  BY <1>1 DEF HandsInv, ReviewersReview, InHands, NoStrandedReview, HeldAreStopped, LlmRuns,
              At, Read, rest
<1> QED BY <1>2, <1>3

-----------------------------------------------------------------------------
(* The steps that change the tree, the branches or what the run has of     *)
(* them.                                                                   *)

(* Executor w is at work, outside its LLM, and goes on at a place of work. *)
LEMMA TreeHands ==
  ASSUME TypeOK, HandsInv, NEW w \in Workflows, NEW place \in Live, NEW new,
         wf[w].at \notin ReviewAt, ~LlmRuns(w), Goes(w, place), Written(new),
         new.review = run.review, config' = config
  PROVE  HandsInv'
BY WorkHands

LEMMA CommitTypes ==
  ASSUME TypeOK, NEW note \in BOOLEAN, Commit(note)
  PROVE  /\ commits + 1 \in Sha /\ commits' = commits + 1 /\ commits' \in Sha
         /\ noted' \subseteq Sha /\ commits \in Nat /\ commits + 1 # 0
BY Bounds DEF TypeOK, Commit, Sha

LEMMA LogAppend ==
  ASSUME tree \in Tree, NEW sha \in Sha
  PROVE  Append(tree.log, sha) \in Seq(Sha)
BY DEF Tree

LEMMA CheckoutHands ==
  ASSUME TypeOK, HandsInv, NEW w \in Workflows, Checkout(w)
  PROVE  TypeOK' /\ HandsInv'
<1>1. /\ wf[w].at = "checkout" /\ wf[w] \in Worker /\ Read
      /\ UNCHANGED <<rest, noted, commits, scm>>
  BY DEF Checkout, Fails, At, TypeOK
<1>2. Written(run)
  BY <1>1, ReadWrites DEF HandsInv
<1>3. Goes(w, "cpRead") \/ Goes(w, "fail")
  BY <1>1, GoGoes, WithGoes DEF Checkout, Fails, Worker, Live
<1>4. tree' \in Tree
  <2>1. 1 \in Sha /\ 0 \in Sha
    BY Bounds DEF Sha
  <2>2. RunBranch \in Seq(Sha)
    <3>1. <<1>> \in Seq(Sha) /\ <<>> \in Seq(Sha)
      BY <2>1
    <3> QED BY <3>1 DEF RunBranch
  <2>3. CASE tree' = [made |-> TRUE, dirty |-> FALSE, note |-> FALSE, log |-> RunBranch]
    BY <2>2, <2>3 DEF Tree
  <2>4. CASE UNCHANGED tree
    BY <2>4 DEF TypeOK
  <2> QED BY <2>3, <2>4 DEF Checkout
<1>5. TypeOK'
  BY <1>1, <1>3, <1>4 DEF TypeOK, Goes, Read, rest, scm
<1>6. HandsInv'
  BY <1>1, <1>2, <1>3, TreeHands DEF ReviewAt, LlmRuns, Live, Over, rest
<1> QED BY <1>5, <1>6

LEMMA CommitCheckpointHands ==
  ASSUME TypeOK, HandsInv, NEW w \in Workflows, CommitCheckpoint(w)
  PROVE  TypeOK' /\ HandsInv'
<1>1. wf[w].at = "cpCommit" /\ wf[w] \in Worker /\ Read /\ UNCHANGED <<rest, scm>>
  BY DEF CommitCheckpoint, Fails, At, TypeOK
<1>2. Written(run)
  BY <1>1, ReadWrites DEF HandsInv
<1>3. CASE Fails(w) /\ UNCHANGED git
  <2>1. Goes(w, "fail")
    BY <1>3, GoGoes DEF Fails, Live
  <2>2. TypeOK'
    BY <1>1, <1>3, <2>1 DEF TypeOK, Goes, Read, rest, scm, git
  <2>3. HandsInv'
    BY <1>1, <1>2, <2>1, TreeHands DEF ReviewAt, LlmRuns, Live, Over, rest
  <2> QED BY <2>2, <2>3
<1>4. CASE /\ Commit(tree.note \/ config.notes)
           /\ tree' = [tree EXCEPT !.dirty = FALSE, !.note = tree.note \/ config.notes,
                                   !.log = Append(@, commits + 1)]
           /\ With(w, "cpSave", [wf[w] EXCEPT !.sha = commits + 1])
  <2>1. tree.note \in BOOLEAN /\ config.notes \in BOOLEAN /\ tree.log \in Seq(Sha)
    BY ExecutorAssumption DEF TypeOK, Tree
  <2>2. (tree.note \/ config.notes) \in BOOLEAN
    OBVIOUS
  <2>3. commits + 1 \in Sha /\ commits' \in Sha /\ noted' \subseteq Sha
    BY <1>4, <2>2, CommitTypes
  <2>4. tree' \in Tree
    <3>1. Append(tree.log, commits + 1) \in Seq(Sha)
      BY <2>3, LogAppend DEF TypeOK
    <3> QED BY <1>4, <2>1, <2>2, <3>1 DEF TypeOK, Tree
  <2>5. Goes(w, "cpSave")
    BY <1>1, <1>4, <2>3, WithGoes DEF Worker, Live
  <2>6. TypeOK'
    BY <1>1, <2>3, <2>4, <2>5 DEF TypeOK, Goes, Read, rest, scm
  <2>7. HandsInv'
    BY <1>1, <1>2, <2>5, TreeHands DEF ReviewAt, LlmRuns, Live, Over, rest
  <2> QED BY <2>6, <2>7
<1> QED BY <1>3, <1>4 DEF CommitCheckpoint

LEMMA SaveCheckpointHands ==
  ASSUME TypeOK, HandsInv, CheckpointsInOrder, NEW w \in Workflows, SaveCheckpoint(w)
  PROVE  TypeOK' /\ HandsInv'
<1> DEFINE point == [phase |-> wf[w].phase, sequence |-> wf[w].sequence, sha |-> wf[w].sha]
           new == [run EXCEPT !.checkpoints = Append(run.checkpoints, point)]
<1>1. wf[w].at = "cpSave" /\ wf[w] \in Worker /\ run \in RunRecord /\ Quiet
  BY DEF SaveCheckpoint, At, TypeOK
<1>2. Goes(w, AfterCheckpoint(w)) /\ AfterCheckpoint(w) \in {"codex", "tests", "pushing"}
  BY GoGoes DEF SaveCheckpoint, AfterCheckpoint, Live
<1>3. wf[w].sequence \in 1..3
  <2>1. wf[w].sequence = Len(run.checkpoints) + 1 /\ Len(run.checkpoints) \in Nat
    BY <1>1 DEF CheckpointsInOrder, RunRecord
  <2> QED BY <1>1, <2>1 DEF Worker
<1>4. point \in Checkpoint
  BY <1>1, <1>3 DEF Worker, Checkpoint
<1>5. new \in RunRecord /\ new.review = run.review
  <2> HIDE DEF point
  <2> DEFINE saved == Append(run.checkpoints, point)
  <2>1. saved \in Seq(Checkpoint)
    BY <1>1, <1>4 DEF RunRecord
  <2> HIDE DEF saved
  <2>2. [run EXCEPT !.checkpoints = saved] \in RunRecord
    BY <1>1, <2>1 DEF RunRecord
  <2>3. [run EXCEPT !.checkpoints = saved].review = run.review
    BY <1>1 DEF RunRecord
  <2> QED BY <2>2, <2>3 DEF saved
<1>6. Written(new) \/ Written(run)
  BY <1>5, ReadWrites, TransitionWrites DEF SaveCheckpoint, HandsInv
<1> HIDE DEF new
<1> QED BY <1>1, <1>2, <1>5, <1>6, WorkStep DEF ReviewAt, LlmRuns, Live, Over

LEMMA LlmEndsHands ==
  ASSUME TypeOK, HandsInv, NEW w \in Workflows, LlmEnds(w)
  PROVE  TypeOK' /\ HandsInv'
<1>1. wf[w].at = "llm" /\ wf[w] \in Worker /\ tree \in Tree /\ Read /\ UNCHANGED <<rest, scm>>
  BY DEF LlmEnds, At, TypeOK
<1>2. Written(run)
  BY <1>1, ReadWrites DEF HandsInv
<1>3. Goes(w, "llmEnd")
  <2>1. PICK ok \in BOOLEAN : With(w, "llmEnd", [wf[w] EXCEPT !.ok = ok])
    BY DEF LlmEnds
  <2> QED BY <1>1, <2>1, WithGoes DEF Worker, Live
<1>4. tree' \in Tree /\ noted' \subseteq Sha /\ commits' \in Sha
  <2>1. CASE tree' = [tree EXCEPT !.dirty = TRUE] /\ UNCHANGED <<noted, commits>>
    BY <1>1, <2>1 DEF TypeOK, Tree
  <2>2. CASE UNCHANGED git
    BY <2>2 DEF TypeOK, git
  <2>3. CASE Commit(tree.note) /\ tree' = [tree EXCEPT !.log = Append(@, commits + 1)]
    <3>1. commits + 1 \in Sha /\ commits' \in Sha /\ noted' \subseteq Sha
      BY <1>1, <2>3, CommitTypes DEF Tree
    <3>2. Append(tree.log, commits + 1) \in Seq(Sha)
      BY <1>1, <3>1, LogAppend
    <3> QED BY <1>1, <2>3, <3>1, <3>2 DEF Tree
  <2> QED BY <2>1, <2>2, <2>3 DEF LlmEnds
<1>5. TypeOK'
  BY <1>1, <1>3, <1>4 DEF TypeOK, Goes, Read, rest, scm
<1>6. HandsInv'
  BY <1>1, <1>2, <1>3, WorkHands DEF ReviewAt, Live, Over, rest
<1> QED BY <1>5, <1>6

LEMMA PrepareHands ==
  ASSUME TypeOK, HandsInv, NEW w \in Workflows, PrepareReviewBranch(w)
  PROVE  TypeOK' /\ HandsInv'
<1>1. /\ wf[w].at = "prepare" /\ tree \in Tree /\ Read
      /\ UNCHANGED <<rest, noted, commits, scm>>
  BY DEF PrepareReviewBranch, Fails, At, TypeOK
<1>2. Written(run)
  BY <1>1, ReadWrites DEF HandsInv
<1>3. Goes(w, "commit") \/ Goes(w, "fail")
  BY GoGoes DEF PrepareReviewBranch, Fails, Live
<1>4. tree' \in Tree
  <2>1. CASE UNCHANGED tree
    BY <1>1, <2>1
  <2>2. CASE tree' = [tree EXCEPT !.log = IF Squashes THEN <<>> ELSE @,
                                  !.note = @ /\ ~Cleaned,
                                  !.dirty = @ \/ Cleaned \/ (Squashes /\ tree.log # <<>>)]
    <3>1. (tree.note /\ ~Cleaned) \in BOOLEAN
          /\ (tree.dirty \/ Cleaned \/ (Squashes /\ tree.log # <<>>)) \in BOOLEAN
      OBVIOUS
    <3>2. (IF Squashes THEN <<>> ELSE tree.log) \in Seq(Sha)
      BY <1>1 DEF Tree
    <3> QED BY <1>1, <2>2, <3>1, <3>2 DEF Tree
  <2> QED BY <2>1, <2>2 DEF PrepareReviewBranch
<1>5. TypeOK'
  BY <1>1, <1>3, <1>4 DEF TypeOK, Goes, Read, rest, scm
<1>6. HandsInv'
  BY <1>1, <1>2, <1>3, TreeHands DEF ReviewAt, LlmRuns, Live, Over, rest
<1> QED BY <1>5, <1>6

LEMMA CommitForReviewHands ==
  ASSUME TypeOK, HandsInv, NEW w \in Workflows, CommitForReview(w)
  PROVE  TypeOK' /\ HandsInv'
<1>1. wf[w].at = "commit" /\ tree \in Tree /\ Read /\ UNCHANGED <<rest, scm>>
  BY DEF CommitForReview, Fails, At, TypeOK
<1>2. Written(run)
  BY <1>1, ReadWrites DEF HandsInv
<1>3. Goes(w, "push") \/ Goes(w, "fail")
  BY GoGoes DEF CommitForReview, Fails, Live
<1>4. tree' \in Tree /\ noted' \subseteq Sha /\ commits' \in Sha
  <2>1. CASE UNCHANGED git
    BY <2>1 DEF TypeOK, git
  <2>2. CASE /\ Commit(tree.note)
             /\ tree' = [tree EXCEPT !.dirty = FALSE, !.log = Append(@, commits + 1)]
    <3>1. commits + 1 \in Sha /\ commits' \in Sha /\ noted' \subseteq Sha
      BY <1>1, <2>2, CommitTypes DEF Tree
    <3>2. Append(tree.log, commits + 1) \in Seq(Sha)
      BY <1>1, <3>1, LogAppend
    <3> QED BY <1>1, <2>2, <3>1, <3>2 DEF Tree
  <2>3. CASE /\ Commit(tree.note) /\ tree.log # <<>>
             /\ tree' = [tree EXCEPT !.log[Len(tree.log)] = commits + 1]
    <3>1. commits + 1 \in Sha /\ commits' \in Sha /\ noted' \subseteq Sha
      BY <1>1, <2>3, CommitTypes DEF Tree
    <3>2. [tree.log EXCEPT ![Len(tree.log)] = commits + 1] \in Seq(Sha)
      BY <1>1, <2>3, <3>1 DEF Tree
    <3> QED BY <1>1, <2>3, <3>1, <3>2 DEF Tree
  <2> QED BY <2>1, <2>2, <2>3 DEF CommitForReview
<1>5. TypeOK'
  BY <1>1, <1>3, <1>4 DEF TypeOK, Goes, Read, rest, scm
<1>6. HandsInv'
  BY <1>1, <1>2, <1>3, TreeHands DEF ReviewAt, LlmRuns, Live, Over, rest
<1> QED BY <1>5, <1>6

LEMMA TreeHeadType ==
  ASSUME TypeOK
  PROVE  /\ TreeHead \in Sha /\ Len(tree.log) \in Nat /\ tree.log \in Seq(Sha)
         /\ tree.log # <<>> => Len(tree.log) \in DOMAIN tree.log /\ TreeHead = tree.log[Len(tree.log)]
BY Bounds DEF TypeOK, Tree, TreeHead, Sha

LEMMA PushHands ==
  ASSUME TypeOK, HandsInv, NEW w \in Workflows, Push(w)
  PROVE  TypeOK' /\ HandsInv'
<1>1. /\ wf[w].at = "push" /\ wf[w] \in Worker /\ Read
      /\ UNCHANGED <<rest, git, reviews>>
  BY DEF Push, At, TypeOK
<1>2. Written(run)
  BY <1>1, ReadWrites DEF HandsInv
<1>3. Goes(w, "head") \/ Goes(w, "fail")
  BY <1>1, GoGoes, WithGoes DEF Push, Live, Worker, ReplacementBranch, Branch
<1>4. remote' \in [Branch -> Sha]
  BY <1>1, TreeHeadType DEF Push, PushTo, TypeOK
<1>5. TypeOK'
  BY <1>1, <1>3, <1>4 DEF TypeOK, Goes, Read, rest, git
<1>6. HandsInv'
  BY <1>1, <1>2, <1>3, TreeHands DEF ReviewAt, LlmRuns, Live, Over, rest
<1> QED BY <1>5, <1>6

LEMMA RecordHeadHands ==
  ASSUME TypeOK, HandsInv, NEW w \in Workflows, RecordHead(w)
  PROVE  TypeOK' /\ HandsInv'
<1>1. wf[w].at = "head" /\ wf[w] \in Worker /\ run \in RunRecord /\ Quiet
  BY DEF RecordHead, At, TypeOK
<1>2. Pushed(w) \in RunRecord /\ Pushed(w).review = run.review
  BY <1>1, TreeHeadType DEF Pushed, RunRecord, Worker
<1>3. CASE Board(w, Pushed(w), "open")
  <2>1. Goes(w, "open") /\ Written(Pushed(w))
    BY <1>2, <1>3, GoGoes, TransitionWrites DEF Board, HandsInv, Live
  <2> QED BY <1>1, <1>2, <2>1, WorkStep DEF ReviewAt, LlmRuns, Live, Over
<1>4. CASE Fails(w)
  BY <1>1, <1>4, GoGoes, ReadWrites, WorkStep
     DEF Fails, HandsInv, ReviewAt, LlmRuns, Live, Over
<1> QED BY <1>3, <1>4 DEF RecordHead

-----------------------------------------------------------------------------
(* Steps apart from the tree: they change neither the tree, the branches   *)
(* nor what the run records of them, bring nobody into the tree, and no    *)
(* executor in it to a place that promises something of it.                *)

Promised == {"cpCommit", "cpSave", "commit", "push", "head"}
Kept(new) == /\ new.head = run.head /\ new.branch = run.branch
             /\ new.checkpoints = run.checkpoints

Apart ==
  /\ UNCHANGED <<config, tree, noted, commits, remote>>
  /\ Kept(run')
  /\ \A v \in Workflows :
       \/ wf'[v].at \notin InTree
       \/ wf'[v] = wf[v]
       \/ /\ wf[v].at \in InTree /\ wf'[v].at \in InTree \ Promised
          /\ Saved(v) <= Saved(v)'

LEMMA SavedType ==
  ASSUME TypeOK, NEW w \in Workflows, wf[w].at \in InTree
  PROVE  Saved(w) \in 0..3
BY DEF TypeOK, Worker, InTree, Saved

LEMMA ApartTree ==
  ASSUME TypeOK, TypeOK', TreeInv, Apart
  PROVE  TreeInv'
<1>1. \A v \in Workflows : wf'[v].at \in InTree => wf[v].at \in InTree
  BY DEF Apart
<1>2. \A v \in Workflows : wf'[v].at \in Promised => wf'[v] = wf[v]
  BY DEF Apart, Promised, InTree
<1>3. /\ UNCHANGED <<config, tree, noted, commits, remote>>
      /\ run'.head = run.head /\ run'.branch = run.branch
      /\ run'.checkpoints = run.checkpoints
  BY DEF Apart, Kept
<1>4. TreeHead' = TreeHead
  BY <1>3 DEF TreeHead
<1>5. OneExecutorInTree'
  BY <1>1 DEF TreeInv, OneExecutorInTree
<1>6. TreeIsTaken'
  BY <1>1, <1>2, <1>3, <1>4 DEF TreeInv, TreeIsTaken, At, Promised
<1>7. CommitsKnown' /\ HeadIsOnBranch' /\ NotesStayHere'
  BY <1>3 DEF TreeInv, CommitsKnown, HeadIsOnBranch, NotesStayHere
<1>8. NotesAreTracked'
  BY <1>2, <1>3, <1>4 DEF TreeInv, NotesAreTracked, At, Promised
<1>9. CheckpointsInOrder'
  <2>1. ASSUME NEW v \in Workflows, wf'[v].at \in InTree
        PROVE  Len(run.checkpoints) <= Saved(v)'
    <3>1. Len(run.checkpoints) <= Saved(v) /\ Len(run.checkpoints) \in Nat
      BY <1>1, <2>1 DEF TreeInv, CheckpointsInOrder, TypeOK, RunRecord
    <3>2. Saved(v) \in Int /\ Saved(v)' \in Int
      BY <1>1, <2>1, SavedType DEF TypeOK, Worker, InTree, Saved
    <3>3. Saved(v) <= Saved(v)'
      <4>1. CASE wf'[v] = wf[v]
        BY <1>1, <2>1, <3>2, <4>1 DEF Saved, InTree
      <4>2. CASE wf'[v] # wf[v]
        BY <2>1, <4>2 DEF Apart
      <4> QED BY <4>1, <4>2
    <3> QED BY <3>1, <3>2, <3>3
  <2>2. \A v \in Workflows : wf'[v].at \in {"cpCommit", "cpSave"} => wf'[v] = wf[v]
    BY <1>2 DEF Promised
  <2> QED BY <1>3, <2>1, <2>2 DEF TreeInv, CheckpointsInOrder, At
<1> QED BY <1>5, <1>6, <1>7, <1>8, <1>9 DEF TreeInv

(* Where executor w may go: out of the tree, or on in it.                  *)
Near(w, place) ==
  \/ place \notin InTree
  \/ wf[w].at \in InTree /\
       \/ /\ place \in {"codex", "capacity", "wait", "launch", "record", "llm", "llmEnd",
                        "llmCatch"}
          /\ Saved(w) <= 1
       \/ place = "tests" /\ Saved(w) <= 2
       \/ place \in {"pushing", "prepare"} /\ Saved(w) <= 3

LEMMA NearApart ==
  ASSUME TypeOK, NEW w \in Workflows, NEW place, wf'[w].at = place, Others(w), Near(w, place),
         Kept(run'), UNCHANGED <<config, tree, noted, commits, remote>>
  PROVE  Apart
<1>1. CASE place \notin InTree
  BY <1>1 DEF Apart, Others
<1>2. CASE place \in InTree
  <2>1. wf[w].at \in InTree /\ wf'[w].at \in InTree \ Promised
    BY <1>2 DEF Near, InTree, Promised
  <2>2. Saved(w) <= Saved(w)'
    BY <1>2 DEF Near, Saved
  <2> QED BY <2>1, <2>2 DEF Apart, Others
<1> QED BY <1>1, <1>2

Writes(new) == Transition(new) \/ Store(new) \/ (Read /\ new = run)

LEMMA GoApart ==
  ASSUME TypeOK, NEW w \in Workflows, NEW place, NEW new,
         Go(w, place), Near(w, place), Writes(new), Kept(new), Quiet
  PROVE  Apart
<1>1. wf'[w].at = place /\ Others(w)
  BY DEF Go, TypeOK, Idle, Others
<1>2. Kept(run')
  BY DEF Writes, Transition, Store, Read, Kept
<1> QED BY <1>1, <1>2, NearApart DEF Quiet, rest, git, scm

LEMMA WithApart ==
  ASSUME TypeOK, NEW w \in Workflows, NEW place, NEW new, NEW held_ \in Worker,
         With(w, place, held_), Near(w, place), Writes(new), Kept(new), Quiet
  PROVE  Apart
<1>1. wf'[w].at = place /\ Others(w)
  BY DEF With, TypeOK, Worker, Others
<1>2. Kept(run')
  BY DEF Writes, Transition, Store, Read, Kept
<1> QED BY <1>1, <1>2, NearApart DEF Quiet, rest, git, scm

LEMMA OperatorApart ==
  ASSUME TypeOK, NEW w \in Workflows,
         \/ HandleRunTask(w) \/ HandleRetryEvidence(w) \/ HandleRetryPreview(w)
         \/ HandleRerunReview(w) \/ Alarm(w) \/ Crash(w)
  PROVE  Apart
<1>1. wf[w] \in Worker /\ run \in RunRecord
  BY DEF TypeOK
<1>2. ASSUME NEW mode \in Mode, NEW new, Ask(w, mode), Writes(new), Kept(new), Quiet
      PROVE  Apart
  <2>1. [wf[w] EXCEPT !.mode = mode] \in Worker /\ With(w, "asked", [wf[w] EXCEPT !.mode = mode])
    BY <1>1, <1>2 DEF Worker, Ask
  <2> QED BY <1>2, <2>1, WithApart DEF Near, InTree
<1>3. CASE HandleRunTask(w)
  BY <1>2, <1>3 DEF HandleRunTask, Writes, Kept, Mode
<1>4. CASE HandleRetryEvidence(w)
  <2> DEFINE new == [run EXCEPT !.evidence = "RUNNING",
                       !.status = IF run.preview THEN "EVIDENCE_RUNNING" ELSE "WAITING_PREVIEW"]
             mode == IF run.preview THEN "evidence_only" ELSE "preview_only"
  <2>1. Kept(new) /\ Store(new) /\ Ask(w, mode) /\ mode \in Mode /\ Quiet
    BY <1>1, <1>4 DEF HandleRetryEvidence, RunRecord, Kept, Mode
  <2> QED BY <1>2, <2>1 DEF Writes
<1>5. CASE HandleRetryPreview(w)
  <2> DEFINE new == [run EXCEPT !.status = "WAITING_PREVIEW", !.preview = FALSE,
                                !.evidence = "NOT_STARTED"]
  <2>1. Kept(new) /\ Store(new) /\ Ask(w, "preview_only") /\ Quiet
    BY <1>1, <1>5 DEF HandleRetryPreview, RunRecord, Kept
  <2> QED BY <1>2, <2>1 DEF Writes, Mode
<1>6. CASE HandleRerunReview(w)
  BY <1>2, <1>6 DEF HandleRerunReview, Writes, Kept, Mode
<1>7. CASE Alarm(w)
  BY <1>7, GoApart DEF Alarm, Writes, Kept, Near, InTree
<1>8. CASE Crash(w)
  BY <1>8, GoApart DEF Crash, Writes, Kept, Near, InTree
<1> QED BY <1>3, <1>4, <1>5, <1>6, <1>7, <1>8

LEMMA ScheduleApart ==
  ASSUME TypeOK, NEW w \in Workflows, ScheduleRunJob(w)
  PROVE  Apart
<1>1. Read /\ Quiet
  BY DEF ScheduleRunJob
<1>2. CASE Go(w, "enter")
  BY <1>1, <1>2, GoApart DEF Writes, Kept, Near, InTree
<1>3. CASE wf' = [v \in Workflows |->
                   IF v = w THEN [wf[v] EXCEPT !.at = "queued"]
                   ELSE IF v \in Overwritten(w) THEN [Idle EXCEPT !.at = "lost"] ELSE wf[v]]
  <2>1. \A v \in Workflows : wf'[v].at \in {"queued", "lost"} \/ wf'[v] = wf[v]
    BY <1>3 DEF TypeOK, Worker, Idle
  <2> QED BY <1>1, <2>1 DEF Apart, Kept, Read, Quiet, rest, git, scm, InTree
<1> QED BY <1>2, <1>3 DEF ScheduleRunJob

LEMMA TakeoverApart ==
  ASSUME TypeOK, HandleCancelRun \/ KillProcess \/ TakeOverRun
  PROVE  Apart
<1>1. run \in RunRecord
  BY DEF TypeOK
<1>2. CASE HandleCancelRun
  BY <1>1, <1>2 DEF HandleCancelRun, MarkRunFailed, Store, Apart, Kept, Quiet, rest, git, scm,
                    RunRecord
<1>3. CASE TakeOverRun
  BY <1>1, <1>3 DEF TakeOverRun, Store, Apart, Kept, git, scm, RunRecord
<1>4. CASE KillProcess
  <2>1. UNCHANGED <<config, run, tree, noted, commits, remote>>
    BY <1>4 DEF KillProcess, Read, git, scm
  <2>2. CASE UNCHANGED wf
    BY <2>1, <2>2 DEF Apart, Kept
  <2>3. ASSUME NEW w \in Workflows, w = run.process, At(w, "llm"),
               With(w, "llmEnd", [wf[w] EXCEPT !.ok = FALSE])
        PROVE  Apart
    <3>1. wf'[w].at = "llmEnd" /\ Others(w)
      BY <2>3 DEF With, TypeOK, Worker, Others
    <3>2. Near(w, "llmEnd")
      BY <2>3 DEF Near, Saved, InTree, At
    <3> QED BY <2>1, <3>1, <3>2, NearApart DEF Kept
  <2> QED BY <1>1, <1>4, <2>2, <2>3 DEF KillProcess, RunRecord
<1> QED BY <1>2, <1>3, <1>4

LEMMA EnterApart ==
  ASSUME TypeOK, NEW w \in Workflows, Enter(w)
  PROVE  Apart
<1>1. wf[w] \in Worker /\ run \in RunRecord /\ Quiet
  BY DEF TypeOK, Enter
<1>2. ASSUME NEW place \in {"ended", "rvRead", "evidence", "preview", "lost"}, Go(w, place), Read
      PROVE  Apart
  BY <1>1, <1>2, GoApart DEF Writes, Kept, Near, InTree
<1>3. CASE Board(w, [run EXCEPT !.status = "DONE", !.evidence = "NOT_STARTED"], "ended")
  <2> DEFINE new == [run EXCEPT !.status = "DONE", !.evidence = "NOT_STARTED"]
  <2>1. Kept(new) /\ Transition(new) /\ Go(w, "ended")
    BY <1>1, <1>3 DEF Board, RunRecord, Kept
  <2> QED BY <1>1, <2>1, GoApart DEF Writes, Near, InTree
<1>4. CASE With(w, "boot", [wf[w] EXCEPT !.branch = run.branch]) /\ Read
  <2>1. [wf[w] EXCEPT !.branch = run.branch] \in Worker
    BY <1>1 DEF Worker, RunRecord
  <2> QED BY <1>1, <1>4, <2>1, WithApart DEF Writes, Kept, Near, InTree
<1> QED BY <1>2, <1>3, <1>4 DEF Enter

(* From the start of the executor to the end of the LLM.                   *)
LEMMA StartApart ==
  ASSUME TypeOK, NEW w \in Workflows,
         \/ FailRun(w) \/ Bootstrap(w) \/ StartCodex(w) \/ WaitForCapacity(w)
         \/ CapacityIsBack(w) \/ StartProcess(w) \/ RecordProcess(w)
  PROVE  Apart
<1> USE DEF Near, InTree, Saved, At
<1>1. wf[w] \in Worker /\ run \in RunRecord
  BY DEF TypeOK
<1>2. ASSUME NEW status \in RunStatus
      PROVE  Kept([run EXCEPT !.status = status])
  BY <1>1 DEF RunRecord, Kept
<1>3. CASE FailRun(w)
  <2>1. Store([run EXCEPT !.status = "FAILED"]) /\ Go(w, "failed") /\ Quiet
    BY <1>3 DEF FailRun, MarkRunFailed
  <2> QED BY <1>2, <2>1, GoApart DEF Writes, RunStatus
<1>4. CASE Bootstrap(w)
  <2> DEFINE new == [run EXCEPT !.status = "BOOTSTRAPPING", !.sandbox = TRUE]
  <2>1. Kept(new) /\ Transition(new) /\ Go(w, "checkout") /\ Quiet
    BY <1>1, <1>4 DEF Bootstrap, Board, RunRecord, Kept
  <2> QED BY <2>1, GoApart DEF Writes
<1>5. CASE StartCodex(w)
  <2>1. [wf[w] EXCEPT !.count = 0] \in Worker
    BY <1>1 DEF Worker
  <2>2. Near(w, "capacity")
    BY <1>5 DEF StartCodex
  <2>3. Kept([run EXCEPT !.status = "RUNNING_CODEX"])
    BY <1>2 DEF RunStatus, ExecutionPhase
  <2> QED BY <1>5, <2>1, <2>2, <2>3, WithApart DEF StartCodex, Writes
<1>6. CASE WaitForCapacity(w)
  <2>1. Near(w, "wait") /\ Near(w, "launch") /\ Near(w, "llmCatch") /\ Quiet
    BY <1>6 DEF WaitForCapacity
  <2>2. [wf[w] EXCEPT !.count = @ + 1] \in Worker
    BY <1>1 DEF Worker
  <2>3. Kept([run EXCEPT !.status = "BOOTSTRAPPING"])
    BY <1>2 DEF RunStatus, ExecutionPhase
  <2>4. ASSUME NEW place \in {"launch", "llmCatch"}, Go(w, place), Read
        PROVE  Apart
    BY <2>1, <2>4, GoApart DEF Writes, Kept
  <2>5. CASE Transition([run EXCEPT !.status = "BOOTSTRAPPING"])
             /\ With(w, "wait", [wf[w] EXCEPT !.count = @ + 1])
    BY <2>1, <2>2, <2>3, <2>5, WithApart DEF Writes
  <2> QED BY <1>6, <2>4, <2>5 DEF WaitForCapacity
<1>7. CASE CapacityIsBack(w)
  <2>1. Near(w, "capacity")
    BY <1>7 DEF CapacityIsBack
  <2>2. Kept([run EXCEPT !.status = "RUNNING_CODEX"])
    BY <1>2 DEF RunStatus, ExecutionPhase
  <2> QED BY <1>1, <1>7, <2>1, <2>2, WithApart DEF CapacityIsBack, Writes
<1>8. CASE StartProcess(w)
  <2>1. Near(w, "record") /\ Near(w, "llm")
    BY <1>8 DEF StartProcess
  <2> QED BY <1>8, <2>1, GoApart DEF StartProcess, Writes, Kept
<1>9. CASE RecordProcess(w)
  <2>1. Near(w, "llm") /\ Kept([run EXCEPT !.process = w])
    BY <1>1, <1>9 DEF RecordProcess, RunRecord, Kept
  <2> QED BY <1>9, <2>1, GoApart DEF RecordProcess, Board, Writes
<1> QED BY <1>3, <1>4, <1>5, <1>6, <1>7, <1>8, <1>9

(* LlmReturns and StartTests lead to a checkpoint's reading, whose phase   *)
(* is the next.                                                            *)
LEMMA NextPhaseApart ==
  ASSUME TypeOK, NEW w \in Workflows, NEW new, NEW phase \in 1..3,
         With(w, "cpRead", [wf[w] EXCEPT !.phase = phase]),
         wf[w].at \in InTree, Saved(w) <= phase - 1, Writes(new), Kept(new), Quiet
  PROVE  Apart
<1>1. [wf[w] EXCEPT !.phase = phase] \in Worker
  BY DEF TypeOK, Worker
<1>2. wf'[w].at = "cpRead" /\ wf'[w].phase = phase /\ Others(w)
  BY <1>1 DEF With, TypeOK, Worker, Others
<1>3. Kept(run')
  BY DEF Writes, Transition, Store, Read, Kept
<1>4. Saved(w)' = phase - 1
  BY <1>2 DEF Saved
<1> QED BY <1>2, <1>3, <1>4 DEF Apart, Others, Quiet, rest, git, scm, InTree, Promised

LEMMA AfterLlmApart ==
  ASSUME TypeOK, NEW w \in Workflows,
         LlmReturns(w) \/ LlmFails(w) \/ StartTests(w) \/ StartPush(w)
  PROVE  Apart
<1>1. wf[w] \in Worker /\ run \in RunRecord
  BY DEF TypeOK
<1>2. CASE LlmReturns(w)
  <2> DEFINE new == IF config.adapter = "codex" THEN [run EXCEPT !.process = NoProcess] ELSE run
  <2>1. Kept(new) /\ Writes(new) /\ Quiet
    BY <1>1, <1>2 DEF LlmReturns, RunRecord, Kept, Writes
  <2>2. Near(w, "ended") /\ Near(w, "llmCatch") /\ wf[w].at \in InTree /\ Saved(w) = 1
    BY <1>2 DEF LlmReturns, Near, InTree, Saved, At
  <2> HIDE DEF new
  <2>3. CASE Go(w, "ended")
    BY <2>1, <2>2, <2>3, GoApart
  <2>4. CASE Go(w, "llmCatch")
    BY <2>1, <2>2, <2>4, GoApart
  <2>5. CASE With(w, "cpRead", [wf[w] EXCEPT !.phase = 2])
    BY <2>1, <2>2, <2>5, NextPhaseApart, 1 <= 2 - 1, 2 \in 1..3
  <2> QED BY <1>2, <2>3, <2>4, <2>5 DEF LlmReturns
<1>3. CASE LlmFails(w)
  BY <1>3, GoApart DEF LlmFails, Writes, Kept, Near, InTree
<1>4. CASE StartTests(w)
  <2> DEFINE new == [run EXCEPT !.status = "RUNNING_TESTS"]
  <2>1. Kept(new) /\ Writes(new) /\ Quiet /\ wf[w].at \in InTree /\ Saved(w) = 2
    BY <1>1, <1>4 DEF StartTests, RunRecord, Kept, Writes, InTree, Saved, At
  <2> HIDE DEF new
  <2> QED BY <1>4, <2>1, NextPhaseApart, 2 <= 3 - 1, 3 \in 1..3 DEF StartTests
<1>5. CASE StartPush(w)
  <2> DEFINE new == [run EXCEPT !.status = "PUSHING_BRANCH"]
  <2>1. Kept(new) /\ Writes(new) /\ Quiet /\ Near(w, "prepare") /\ Go(w, "prepare")
    BY <1>1, <1>5 DEF StartPush, Board, RunRecord, Kept, Writes, Near, InTree, Saved, At
  <2> HIDE DEF new
  <2> QED BY <2>1, GoApart
<1> QED BY <1>2, <1>3, <1>4, <1>5

(* The review request, the review, the preview and the evidence are after  *)
(* the push.                                                               *)
LEMMA AfterPushApart ==
  ASSUME TypeOK, NEW w \in Workflows,
         \/ OpenReview(w) \/ CreateReviewRequest(w) \/ RecordReview(w) \/ ReadForReview(w)
         \/ NoteReview(w) \/ ReviewWork(w) \/ EndReview(w) \/ StartPreview(w)
         \/ WaitForPreview(w) \/ FoundPreview(w) \/ NoPreview(w) \/ ReadForEvidence(w)
         \/ StartEvidence(w) \/ CaptureEvidence(w) \/ CommentOnReview(w) \/ EndEvidence(w)
  PROVE  Apart
<1> DEFINE After == {"rvRead", "create", "prNote", "fail", "ended", "preview", "rvNote",
                     "rvWork", "rvEnd", "poll", "noPreview", "found", "lost", "evidence",
                     "evNote", "capture", "comment", "evDone"}
<1>1. wf[w] \in Worker /\ run \in RunRecord /\ AfterReview(w) \in After
  BY DEF TypeOK, AfterReview
<1>2. ASSUME NEW place \in After, wf'[w].at = place, Others(w), Kept(run'),
             UNCHANGED <<config, tree, noted, commits, remote>>
      PROVE  Apart
  BY <1>2, NearApart DEF Near, InTree
<1>3. ASSUME NEW place \in After, NEW new, Kept(new), Board(w, new, place), Quiet
      PROVE  Apart
  BY <1>3, GoApart DEF Board, Writes, Near, InTree
<1>4. ASSUME NEW place \in After, Go(w, place), Read, Quiet
      PROVE  Apart
  BY <1>4, GoApart DEF Writes, Kept, Near, InTree
<1>5. ASSUME NEW place \in After, NEW held_ \in Worker, With(w, place, held_),
             NEW new, Kept(new), Writes(new), Quiet
      PROVE  Apart
  BY <1>5, WithApart DEF Near, InTree
<1>6. CASE OpenReview(w)
  <2>1. Kept([run EXCEPT !.status = "PR_OPEN"]) /\ Kept(run)
        /\ [wf[w] EXCEPT !.branch = run.branch] \in Worker
    BY <1>1 DEF RunRecord, Kept, Worker
  <2> QED BY <1>3, <1>5, <1>6, <2>1 DEF OpenReview, Writes
<1>7. CASE CreateReviewRequest(w)
  <2>1. Go(w, "prNote") \/ Go(w, "fail")
    BY <1>7 DEF CreateReviewRequest
  <2>2. (wf'[w].at = "prNote" \/ wf'[w].at = "fail") /\ Others(w)
    BY <2>1 DEF Go, TypeOK, Idle, Others
  <2> QED BY <1>2, <1>7, <2>2 DEF CreateReviewRequest, Read, Kept, rest, git
<1>8. CASE RecordReview(w)
  <2>1. Kept([run EXCEPT !.status = "PR_OPEN", !.url = TRUE])
    BY <1>1 DEF RunRecord, Kept
  <2> QED BY <1>3, <1>8, <2>1 DEF RecordReview
<1>9. CASE ReadForReview(w)
  <2>1. Kept([run EXCEPT !.review = "none"]) /\ Kept(run)
        /\ [wf[w] EXCEPT !.round = run.round + 1] \in Worker
    <3>1. Kept([run EXCEPT !.review = "none"]) /\ Kept(run)
      BY <1>1 DEF RunRecord, Kept
    <3>2. [wf[w] EXCEPT !.round = run.round + 1] \in Worker
      <4>1. run.round + 1 \in Nat
        BY <1>1 DEF RunRecord
      <4> QED BY <1>1, <4>1 DEF Worker
    <3> QED BY <3>1, <3>2
  <2> HIDE DEF After
  <2>2. "rvNote" \in After
    BY DEF After
  <2> QED BY <1>1, <1>3, <1>4, <1>5, <1>9, <2>1, <2>2 DEF ReadForReview, Writes
<1>10. CASE NoteReview(w)
  <2>1. Kept([run EXCEPT !.review = "running", !.round = wf[w].round])
    BY <1>1 DEF RunRecord, Kept
  <2> QED BY <1>1, <1>5, <1>10, <2>1 DEF NoteReview, Writes
<1>11. CASE ReviewWork(w)
  <2>1. PICK ok \in BOOLEAN : With(w, "rvEnd", [wf[w] EXCEPT !.ok = ok])
    BY <1>11 DEF ReviewWork
  <2>2. [wf[w] EXCEPT !.ok = ok] \in Worker /\ Kept(run)
    BY <1>1 DEF Worker, Kept
  <2> QED BY <1>5, <1>11, <2>1, <2>2 DEF ReviewWork, Writes
<1>12. CASE EndReview(w)
  <2>1. Kept(EndedReview(w))
    BY <1>1 DEF RunRecord, Kept, EndedReview
  <2> QED BY <1>1, <1>3, <1>12, <2>1 DEF EndReview
<1>13. Kept(WithoutPreview)
  BY <1>1 DEF RunRecord, Kept, WithoutPreview
<1>14. CASE StartPreview(w)
  <2>1. Kept([run EXCEPT !.status = "WAITING_PREVIEW"]) /\ [wf[w] EXCEPT !.count = 0] \in Worker
    BY <1>1 DEF RunRecord, Kept, Worker
  <2> QED BY <1>3, <1>5, <1>13, <1>14, <2>1 DEF StartPreview, Writes
<1>15. CASE WaitForPreview(w)
  <2>1. [wf[w] EXCEPT !.count = @ + 1] \in Worker /\ Kept(run)
    BY <1>1 DEF Worker, Kept
  <2>2. Read /\ Quiet
    BY <1>15 DEF WaitForPreview
  <2>3. \/ \E place \in After : Go(w, place)
        \/ \E place \in After : With(w, place, [wf[w] EXCEPT !.count = @ + 1])
    BY <1>15 DEF WaitForPreview
  <2> QED BY <1>4, <1>5, <2>1, <2>2, <2>3 DEF Writes
<1>16. CASE FoundPreview(w)
  <2>1. /\ Kept([run EXCEPT !.status = "EVIDENCE_RUNNING", !.preview = TRUE,
                            !.evidence = "RUNNING"])
        /\ Kept([run EXCEPT !.status = "DONE", !.preview = TRUE, !.evidence = "NOT_STARTED"])
    BY <1>1 DEF RunRecord, Kept
  <2> QED BY <1>3, <1>16, <2>1 DEF FoundPreview
<1>17. CASE NoPreview(w)
  BY <1>3, <1>13, <1>17 DEF NoPreview
<1>18. CASE ReadForEvidence(w)
  BY <1>4, <1>18 DEF ReadForEvidence
<1>19. CASE StartEvidence(w)
  <2>1. Kept([run EXCEPT !.status = "EVIDENCE_RUNNING", !.evidence = "RUNNING"])
    BY <1>1 DEF RunRecord, Kept
  <2> QED BY <1>3, <1>19, <2>1 DEF StartEvidence
<1>20. CASE CaptureEvidence(w)
  BY <1>4, <1>20 DEF CaptureEvidence
<1>21. CASE CommentOnReview(w)
  BY <1>4, <1>21 DEF CommentOnReview
<1>22. CASE EndEvidence(w)
  <2>1. Kept([run EXCEPT !.status = "DONE", !.evidence = "READY"])
    BY <1>1 DEF RunRecord, Kept
  <2> QED BY <1>3, <1>22, <2>1 DEF EndEvidence
<1> QED BY <1>6, <1>7, <1>8, <1>9, <1>10, <1>11, <1>12, <1>14, <1>15, <1>16, <1>17, <1>18,
           <1>19, <1>20, <1>21, <1>22

-----------------------------------------------------------------------------
(* The steps in the tree.                                                  *)

(* Who works in the tree is alone in it, and nothing is pushed yet.        *)
LEMMA Alone ==
  ASSUME TreeInv, NEW w \in Workflows, wf[w].at \in InTree, Others(w)
  PROVE  /\ tree.made /\ run.head = 0
         /\ \A v \in Workflows : v # w => wf'[v] = wf[v] /\ wf[v].at \notin InTree
BY DEF TreeInv, OneExecutorInTree, TreeIsTaken, Others

(* What TreeInv then says: something of the tree, of the run and of w.     *)
MineInv(w) ==
  /\ wf[w].at \in InTree => tree.made
  /\ run.head # 0 => tree.made /\ wf[w].at \notin InTree
  /\ At(w, "head") => remote[wf[w].branch] = TreeHead
  /\ config.notes =>
       /\ ~tree.note /\ ~tree.dirty => TreeHead \notin noted
       /\ At(w, "commit") => ~tree.note
       /\ wf[w].at \in {"push", "head"} => TreeHead \notin noted

MyCheckpoints(w) ==
  /\ wf[w].at \in InTree => Len(run.checkpoints) <= Saved(w)
  /\ wf[w].at \in {"cpCommit", "cpSave"} => wf[w].sequence = Len(run.checkpoints) + 1
  /\ At(w, "cpSave") => \A i \in DOMAIN run.checkpoints : run.checkpoints[i].sha <= wf[w].sha
  /\ At(w, "cpSave") => wf[w].sha <= commits

Checkpoints ==
  LET made == run.checkpoints IN
  /\ \A i \in DOMAIN made : made[i].sequence = i /\ made[i].sha <= commits
  /\ \A i, j \in DOMAIN made : i <= j => made[i].sha <= made[j].sha
  /\ ~tree.made => made = <<>>

LEMMA Mine ==
  ASSUME TreeInv, NEW w \in Workflows
  PROVE  MineInv(w) /\ MyCheckpoints(w) /\ Checkpoints
BY DEF TreeInv, TreeIsTaken, NotesAreTracked, CheckpointsInOrder, MineInv, MyCheckpoints,
       Checkpoints

LEMMA LoneTree ==
  ASSUME NEW w \in Workflows,
         \A v \in Workflows : v # w => wf'[v].at \notin InTree,
         MineInv(w)', MyCheckpoints(w)', Checkpoints', CommitsKnown', HeadIsOnBranch',
         NotesStayHere'
  PROVE  TreeInv'
<1>1. OneExecutorInTree'
  BY DEF OneExecutorInTree
<1>2. TreeIsTaken'
  BY DEF TreeIsTaken, MineInv, At, InTree
<1>3. NotesAreTracked'
  BY DEF NotesAreTracked, MineInv, At, InTree
<1>4. CheckpointsInOrder'
  BY DEF CheckpointsInOrder, MyCheckpoints, Checkpoints, At, InTree
<1> QED BY <1>1, <1>2, <1>3, <1>4 DEF TreeInv

LEMMA CheckoutTree ==
  ASSUME TypeOK, TypeOK', TreeInv, NEW w \in Workflows, Checkout(w)
  PROVE  TreeInv'
<1>1. UNCHANGED <<config, run, noted, commits, remote>> /\ wf[w] \in Worker
  BY DEF Checkout, Fails, Read, rest, scm, TypeOK
<1>2. CASE Fails(w) /\ UNCHANGED tree
  <2>1. wf'[w].at = "fail" /\ Others(w)
    BY <1>2 DEF Fails, Go, TypeOK, Idle, Others
  <2>2. Apart
    BY <1>1, <1>2, <2>1, NearApart DEF Near, InTree, Kept
  <2> QED BY <2>2, ApartTree
<1>3. CASE /\ CanClone
           /\ tree' = [made |-> TRUE, dirty |-> FALSE, note |-> FALSE, log |-> RunBranch]
           /\ With(w, "cpRead", [wf[w] EXCEPT !.phase = 1])
  <2>1. ~tree.made /\ tree'.made /\ tree'.log = RunBranch
    BY <1>3 DEF CanClone
  <2>2. /\ run.head = 0 /\ run.checkpoints = <<>>
        /\ \A v \in Workflows : wf[v].at \notin InTree
    BY <2>1 DEF TreeInv, TreeIsTaken, CheckpointsInOrder
  <2>3. wf'[w].at = "cpRead" /\ wf'[w].phase = 1 /\ Others(w)
    BY <1>1, <1>3 DEF With, TypeOK, Worker, Others
  <2>4. \A v \in Workflows : v # w => wf'[v].at \notin InTree
    BY <2>2, <2>3 DEF Others
  <2>5. TreeHead' \notin noted' /\ CommitsKnown'
    <3>1. (tree'.log = <<1>> /\ config.changeRequest) \/ tree'.log = <<>>
      BY <2>1 DEF RunBranch
    <3>2. commits \in Nat /\ noted \subseteq 1..commits
      BY DEF TypeOK, Sha, TreeInv, CommitsKnown
    <3>3. CASE tree'.log = <<1>> /\ config.changeRequest
      <4>1. TreeHead' = 1 /\ 1 \notin noted /\ commits >= 1
        BY <3>3 DEF TreeHead, TreeInv, CommitsKnown
      <4>2. \A i \in DOMAIN tree'.log : tree'.log[i] = 1
        BY <3>3
      <4> QED BY <1>1, <3>2, <4>1, <4>2 DEF TreeInv, CommitsKnown
    <3>4. CASE tree'.log = <<>>
      <4>1. TreeHead' = 0 /\ DOMAIN tree'.log = {}
        BY <3>4 DEF TreeHead
      <4> QED BY <1>1, <3>2, <4>1 DEF TreeInv, CommitsKnown
    <3> QED BY <3>1, <3>3, <3>4
  <2>6. HeadIsOnBranch' /\ NotesStayHere'
    BY <1>1 DEF TreeInv, HeadIsOnBranch, NotesStayHere
  <2>7. MineInv(w)'
    BY <1>1, <2>1, <2>2, <2>3, <2>5 DEF MineInv, At
  <2>8. MyCheckpoints(w)' /\ Checkpoints'
    BY <1>1, <2>2, <2>3 DEF MyCheckpoints, Checkpoints, Saved, At
  <2> QED BY <2>4, <2>5, <2>6, <2>7, <2>8, LoneTree
<1> QED BY <1>2, <1>3 DEF Checkout

LEMMA ReadForCheckpointTree ==
  ASSUME TypeOK, TypeOK', TreeInv, NEW w \in Workflows, ReadForCheckpoint(w)
  PROVE  TreeInv'
<1>1. wf[w].at = "cpRead" /\ wf[w] \in Worker /\ Read /\ Quiet
  BY DEF ReadForCheckpoint, At, TypeOK
<1>2. CASE Go(w, AfterCheckpoint(w))
  <2>1. Near(w, AfterCheckpoint(w))
    BY <1>1 DEF Near, AfterCheckpoint, InTree, Saved, Worker
  <2> QED BY <1>1, <1>2, <2>1, GoApart, ApartTree DEF Writes, Kept
<1>3. CASE With(w, "cpCommit", [wf[w] EXCEPT !.sequence = NextSequence(w)])
  <2>1. /\ wf'[w].at = "cpCommit" /\ wf'[w].sequence = Len(run.checkpoints) + 1
        /\ wf'[w].phase = wf[w].phase /\ Others(w)
    BY <1>1, <1>3 DEF With, TypeOK, Worker, Others, NextSequence
  <2>2. UNCHANGED <<config, run, tree, noted, commits, remote>>
    BY <1>1 DEF Read, Quiet, rest, git, scm
  <2>3. /\ tree.made /\ run.head = 0
        /\ \A v \in Workflows : v # w => wf'[v].at \notin InTree
    BY <1>1, <2>1, Alone DEF InTree
  <2>4. CommitsKnown' /\ HeadIsOnBranch' /\ NotesStayHere' /\ TreeHead' = TreeHead
    BY <2>2 DEF TreeInv, CommitsKnown, HeadIsOnBranch, NotesStayHere, TreeHead
  <2>5. MineInv(w)'
    BY <2>1, <2>2, <2>3, <2>4, Mine DEF MineInv, At
  <2>6. MyCheckpoints(w)' /\ Checkpoints'
    BY <1>1, <2>1, <2>2, Mine DEF MyCheckpoints, Checkpoints, Saved, At, InTree
  <2> QED BY <2>3, <2>4, <2>5, <2>6, LoneTree
<1> QED BY <1>2, <1>3 DEF ReadForCheckpoint

(* What a commit of the tree brings.                                       *)
LEMMA CommitKnows ==
  ASSUME TypeOK, TreeInv, NEW note \in BOOLEAN, Commit(note)
  PROVE  /\ commits \in Nat /\ commits' = commits + 1
         /\ noted' \subseteq 1..(commits + 1) /\ noted \subseteq 1..commits
         /\ noted \subseteq noted' /\ noted' \subseteq noted \cup {commits + 1}
         /\ ~note => noted' = noted
<1>1. commits \in Nat /\ noted \subseteq 1..commits
  BY DEF TypeOK, Sha, TreeInv, CommitsKnown
<1>2. /\ commits' = commits + 1 /\ noted' \in {noted, noted \cup {commits + 1}}
      /\ ~note => noted' = noted
  BY DEF Commit
<1> QED BY <1>1, <1>2

LEMMA CheckpointType ==
  ASSUME TypeOK
  PROVE  \A i \in DOMAIN run.checkpoints : run.checkpoints[i].sha \in Nat
<1>1. run.checkpoints \in Seq(Checkpoint)
  BY DEF TypeOK, RunRecord
<1>2. \A i \in DOMAIN run.checkpoints : run.checkpoints[i] \in Checkpoint
  BY <1>1
<1> QED BY <1>2, Bounds DEF Checkpoint, Sha

LEMMA CommitSafe ==
  ASSUME TypeOK, TypeOK', TreeInv, NEW note \in BOOLEAN, Commit(note), UNCHANGED <<config, remote>>,
         run'.head = run.head,
         \A i \in DOMAIN tree'.log : tree'.log[i] = commits + 1 \/ tree'.log[i] <= commits
  PROVE  CommitsKnown' /\ NotesStayHere'
<1>1. /\ commits \in Nat /\ commits' = commits + 1
      /\ noted' \subseteq 1..(commits + 1) /\ noted \subseteq 1..commits
      /\ noted' \subseteq noted \cup {commits + 1}
  BY CommitKnows
<1>2. run.head \in Nat /\ remote \in [Branch -> Nat]
  BY Bounds DEF TypeOK, RunRecord, Sha
<1>3. run.head <= commits /\ \A b \in Branch : remote[b] <= commits
  BY DEF TreeInv, CommitsKnown
<1>4. config.changeRequest => commits >= 1 /\ 1 \notin noted
  BY DEF TreeInv, CommitsKnown
<1>5. \A i \in DOMAIN tree'.log : tree'.log[i] <= commits + 1
  <2>1. \A i \in DOMAIN tree'.log : tree'.log[i] \in Nat
    <3>1. tree' \in Tree
      BY DEF TypeOK
    <3>2. tree'.log \in Seq(Sha)
      BY <3>1 DEF Tree
    <3>3. \A i \in DOMAIN tree'.log : tree'.log[i] \in Sha
      BY <3>2
    <3> QED BY <3>3, Bounds DEF Sha
  <2> QED BY <1>1, <2>1
<1>6. CommitsKnown'
  BY <1>1, <1>2, <1>3, <1>4, <1>5 DEF CommitsKnown
<1>7. NotesStayHere'
  BY <1>1, <1>2, <1>3 DEF TreeInv, NotesStayHere
<1> QED BY <1>6, <1>7

LEMMA Appended ==
  ASSUME TypeOK, NEW sha, tree'.log = Append(tree.log, sha)
  PROVE  /\ TreeHead' = sha
         /\ \A i \in DOMAIN tree'.log :
              tree'.log[i] = sha \/ (i \in DOMAIN tree.log /\ tree'.log[i] = tree.log[i])
<1>1. tree.log \in Seq(Sha) /\ Len(tree.log) \in Nat
  BY DEF TypeOK, Tree
<1>2. /\ Len(tree'.log) = Len(tree.log) + 1 /\ tree'.log # <<>>
      /\ tree'.log[Len(tree.log) + 1] = sha
  BY <1>1
<1>3. \A i \in DOMAIN tree'.log :
        tree'.log[i] = sha \/ (i \in DOMAIN tree.log /\ tree'.log[i] = tree.log[i])
  BY <1>1
<1> QED BY <1>2, <1>3 DEF TreeHead

LEMMA CommitCheckpointTree ==
  ASSUME TypeOK, TypeOK', TreeInv, NEW w \in Workflows, CommitCheckpoint(w)
  PROVE  TreeInv'
<1>1. wf[w].at = "cpCommit" /\ wf[w] \in Worker /\ UNCHANGED <<config, run, remote>>
  BY DEF CommitCheckpoint, Fails, Read, rest, scm, TypeOK, At
<1>2. CASE Fails(w) /\ UNCHANGED git
  <2>1. wf'[w].at = "fail" /\ Others(w)
    BY <1>2 DEF Fails, Go, TypeOK, Idle, Others
  <2>2. Apart
    BY <1>1, <1>2, <2>1, NearApart DEF Near, InTree, Kept, git
  <2> QED BY <2>2, ApartTree
<1>3. CASE /\ Commit(tree.note \/ config.notes)
           /\ tree' = [tree EXCEPT !.dirty = FALSE, !.note = tree.note \/ config.notes,
                                   !.log = Append(@, commits + 1)]
           /\ With(w, "cpSave", [wf[w] EXCEPT !.sha = commits + 1])
  <2>1. /\ wf'[w].at = "cpSave" /\ wf'[w].sequence = wf[w].sequence
        /\ wf'[w].phase = wf[w].phase /\ wf'[w].sha = commits + 1 /\ Others(w)
    BY <1>1, <1>3 DEF With, TypeOK, Worker, Others
  <2>2. /\ tree'.made = tree.made /\ tree'.note = (tree.note \/ config.notes)
        /\ tree'.log = Append(tree.log, commits + 1)
    BY <1>3 DEF TypeOK, Tree
  <2>3. (tree.note \/ config.notes) \in BOOLEAN
    OBVIOUS
  <2>4. commits \in Nat /\ commits' = commits + 1
    BY <1>3, <2>3, CommitKnows
  <2>5. /\ tree.made /\ run.head = 0
        /\ \A v \in Workflows : v # w => wf'[v].at \notin InTree
    BY <1>1, <2>1, Alone DEF InTree
  <2>6. CommitsKnown' /\ NotesStayHere' /\ HeadIsOnBranch'
    <3>1. \A i \in DOMAIN tree'.log : tree'.log[i] = commits + 1 \/ tree'.log[i] <= commits
      BY <2>2, Appended DEF TreeInv, CommitsKnown
    <3> QED BY <1>1, <1>3, <2>3, <3>1, CommitSafe DEF TreeInv, HeadIsOnBranch
  <2>7. MineInv(w)'
    BY <1>1, <2>1, <2>2, <2>5 DEF MineInv, At
  <2>8. MyCheckpoints(w)' /\ Checkpoints'
    <3>1. /\ Len(run.checkpoints) <= Saved(w) /\ wf[w].sequence = Len(run.checkpoints) + 1
          /\ Checkpoints
      BY <1>1, Mine DEF MyCheckpoints, InTree
    <3>2. Saved(w)' = Saved(w)
      BY <1>1, <2>1 DEF Saved
    <3>3. \A i \in DOMAIN run.checkpoints : run.checkpoints[i].sha \in Nat
      BY CheckpointType
    <3>4. \A i \in DOMAIN run.checkpoints : run.checkpoints[i].sha <= commits + 1
      BY <2>4, <3>1, <3>3 DEF Checkpoints
    <3>5. MyCheckpoints(w)'
      BY <1>1, <2>1, <2>4, <3>1, <3>2, <3>4 DEF MyCheckpoints, At
    <3>6. Checkpoints'
      BY <1>1, <2>2, <2>4, <3>1, <3>4 DEF Checkpoints
    <3> QED BY <3>5, <3>6
  <2> QED BY <2>5, <2>6, <2>7, <2>8, LoneTree
<1> QED BY <1>2, <1>3 DEF CommitCheckpoint

LEMMA SaveCheckpointTree ==
  ASSUME TypeOK, TypeOK', TreeInv, NEW w \in Workflows, SaveCheckpoint(w)
  PROVE  TreeInv'
<1> DEFINE point == [phase |-> wf[w].phase, sequence |-> wf[w].sequence, sha |-> wf[w].sha]
           made == run.checkpoints
           new == [run EXCEPT !.checkpoints = Append(made, point)]
<1>1. wf[w].at = "cpSave" /\ wf[w] \in Worker /\ run \in RunRecord /\ Quiet
  BY DEF SaveCheckpoint, At, TypeOK
<1>2. wf'[w].at = AfterCheckpoint(w) /\ Others(w)
  BY DEF SaveCheckpoint, Go, TypeOK, Idle, Others
<1>3. UNCHANGED <<config, tree, noted, commits, remote>> /\ TreeHead' = TreeHead
  BY <1>1 DEF Quiet, rest, git, scm, TreeHead
<1>4. CASE Read
  <2>1. Near(w, AfterCheckpoint(w))
    BY <1>1 DEF Near, AfterCheckpoint, InTree, Saved, Worker
  <2> QED BY <1>2, <1>3, <1>4, <2>1, NearApart, ApartTree DEF Read, Kept
<1>5. CASE run' = new
  <2>1. run'.checkpoints = Append(made, point) /\ run'.head = run.head /\ run'.branch = run.branch
    BY <1>1, <1>5 DEF RunRecord
  <2>2. /\ tree.made /\ run.head = 0
        /\ \A v \in Workflows : v # w => wf'[v].at \notin InTree
    BY <1>1, <1>2, Alone DEF InTree
  <2>3. /\ Len(made) <= Saved(w) /\ wf[w].sequence = Len(made) + 1 /\ Checkpoints
        /\ \A i \in DOMAIN made : made[i].sha <= wf[w].sha
        /\ wf[w].sha <= commits
    BY <1>1, Mine DEF MyCheckpoints, InTree, At
  <2>4. CommitsKnown' /\ NotesStayHere' /\ HeadIsOnBranch'
    BY <1>3, <2>1 DEF TreeInv, CommitsKnown, NotesStayHere, HeadIsOnBranch
  <2>5. wf'[w].at \in {"codex", "tests", "pushing"}
    BY <1>2 DEF AfterCheckpoint
  <2>6. MineInv(w)'
    BY <1>3, <2>1, <2>2, <2>5, Mine DEF MineInv, At
  <2>7. made \in Seq(Checkpoint) /\ Len(made) \in Nat
    BY <1>1 DEF RunRecord
  <2>8. Len(run'.checkpoints) = Len(made) + 1
    BY <2>1, <2>7
  <2>9. MyCheckpoints(w)'
    <3>1. Saved(w)' = wf[w].phase /\ Saved(w) = wf[w].phase - 1
      BY <1>1, <1>2 DEF Saved, AfterCheckpoint, Worker
    <3>2. Len(run'.checkpoints) <= Saved(w)'
      BY <1>1, <2>3, <2>7, <2>8, <3>1 DEF Worker
    <3> QED BY <2>5, <3>2 DEF MyCheckpoints, At
  <2>10. Checkpoints'
    <3>1. \A i \in DOMAIN run'.checkpoints :
             \/ i \in DOMAIN made /\ run'.checkpoints[i] = made[i]
             \/ i = Len(made) + 1 /\ run'.checkpoints[i] = point
      <4> HIDE DEF point
      <4> QED BY <2>1, <2>7
    <3>2. \A i \in DOMAIN made : i <= Len(made) /\ i \in Nat
      BY <2>7
    <3>3. point.sha = wf[w].sha /\ point.sequence = wf[w].sequence /\ wf[w].sha \in Nat
      BY <1>1, Bounds DEF Worker, Sha
    <3> HIDE DEF point, made, new
    <3>4. \A i \in DOMAIN run'.checkpoints :
            run'.checkpoints[i].sequence = i /\ run'.checkpoints[i].sha <= commits
      BY <2>3, <3>1, <3>3 DEF Checkpoints, made
    <3>5. ASSUME NEW i \in DOMAIN run'.checkpoints, NEW j \in DOMAIN run'.checkpoints, i <= j
          PROVE  run'.checkpoints[i].sha <= run'.checkpoints[j].sha
      <4>1. CASE i \in DOMAIN made /\ j \in DOMAIN made
        <5>1. run'.checkpoints[i] = made[i] /\ run'.checkpoints[j] = made[j]
          BY <2>7, <3>1, <3>2, <4>1
        <5> QED BY <2>3, <3>5, <4>1, <5>1 DEF Checkpoints, made
      <4>2. CASE j = Len(made) + 1 /\ run'.checkpoints[j] = point
        BY <2>3, <3>1, <3>3, <4>2
      <4>3. CASE i = Len(made) + 1 /\ j \in DOMAIN made
        BY <2>7, <3>2, <3>5, <4>3
      <4> QED BY <3>1, <4>1, <4>2, <4>3
    <3> QED BY <1>3, <2>2, <3>4, <3>5 DEF Checkpoints
  <2> QED BY <2>2, <2>4, <2>6, <2>9, <2>10, LoneTree
<1> QED BY <1>4, <1>5 DEF SaveCheckpoint, Transition, Store

LEMMA LlmEndsTree ==
  ASSUME TypeOK, TypeOK', TreeInv, NEW w \in Workflows, LlmEnds(w)
  PROVE  TreeInv'
<1>1. wf[w].at = "llm" /\ wf[w] \in Worker /\ UNCHANGED <<config, run, remote>>
  BY DEF LlmEnds, Read, rest, scm, TypeOK, At
<1>2. wf'[w].at = "llmEnd" /\ Others(w)
  <2>1. PICK ok \in BOOLEAN : With(w, "llmEnd", [wf[w] EXCEPT !.ok = ok])
    BY DEF LlmEnds
  <2> QED BY <1>1, <2>1 DEF With, TypeOK, Worker, Others
<1>3. CASE UNCHANGED git
  <2>1. Near(w, "llmEnd")
    BY <1>1 DEF Near, InTree, Saved
  <2> QED BY <1>1, <1>2, <1>3, <2>1, NearApart, ApartTree DEF Kept, git
<1>4. ASSUME tree'.made = tree.made, tree'.note = tree.note, CommitsKnown', NotesStayHere',
             ~tree'.note /\ ~tree'.dirty /\ config.notes => TreeHead' \notin noted',
             commits \in Nat, commits' >= commits
      PROVE  TreeInv'
  <2>1. /\ tree.made /\ run.head = 0
        /\ \A v \in Workflows : v # w => wf'[v].at \notin InTree
    BY <1>1, <1>2, Alone DEF InTree
  <2>2. HeadIsOnBranch'
    BY <1>1 DEF TreeInv, HeadIsOnBranch
  <2>3. MineInv(w)'
    BY <1>1, <1>2, <1>4, <2>1 DEF MineInv, At
  <2>4. MyCheckpoints(w)' /\ Checkpoints'
    <3>1. Len(run.checkpoints) <= Saved(w) /\ Checkpoints
      BY <1>1, Mine DEF MyCheckpoints, InTree
    <3>2. Saved(w)' = 1 /\ Saved(w) = 1
      BY <1>1, <1>2 DEF Saved
    <3>3. \A i \in DOMAIN run.checkpoints : run.checkpoints[i].sha <= commits'
      BY <1>4, <3>1, CheckpointType DEF Checkpoints, TypeOK, Sha
    <3>4. MyCheckpoints(w)'
      BY <1>1, <1>2, <3>1, <3>2 DEF MyCheckpoints, At
    <3>5. Checkpoints'
      BY <1>1, <1>4, <3>1, <3>3 DEF Checkpoints
    <3> QED BY <3>4, <3>5
  <2> QED BY <1>4, <2>1, <2>2, <2>3, <2>4, LoneTree
<1>5. CASE tree' = [tree EXCEPT !.dirty = TRUE] /\ UNCHANGED <<noted, commits>>
  <2>1. /\ tree'.made = tree.made /\ tree'.note = tree.note /\ tree'.dirty
        /\ tree'.log = tree.log /\ commits \in Nat
    BY <1>5 DEF TypeOK, Tree, Sha
  <2>2. CommitsKnown' /\ NotesStayHere'
    BY <1>1, <1>5, <2>1 DEF TreeInv, CommitsKnown, NotesStayHere
  <2> QED BY <1>4, <1>5, <2>1, <2>2
<1>6. CASE Commit(tree.note) /\ tree' = [tree EXCEPT !.log = Append(@, commits + 1)]
  <2>1. /\ tree'.made = tree.made /\ tree'.note = tree.note /\ tree.note \in BOOLEAN
        /\ tree'.log = Append(tree.log, commits + 1)
    BY <1>6 DEF TypeOK, Tree
  <2>2. /\ commits \in Nat /\ commits' = commits + 1
        /\ noted \subseteq 1..commits /\ (~tree.note => noted' = noted)
    BY <1>6, <2>1, CommitKnows
  <2>3. TreeHead' = commits + 1
        /\ \A i \in DOMAIN tree'.log : tree'.log[i] = commits + 1 \/ tree'.log[i] <= commits
    BY <2>1, Appended DEF TreeInv, CommitsKnown
  <2>4. CommitsKnown' /\ NotesStayHere'
    BY <1>1, <1>6, <2>1, <2>3, CommitSafe
  <2>5. ~tree'.note => TreeHead' \notin noted'
    BY <2>1, <2>2, <2>3
  <2> QED BY <1>4, <2>1, <2>2, <2>4, <2>5
<1> QED BY <1>3, <1>5, <1>6 DEF LlmEnds

LEMMA PrepareTree ==
  ASSUME TypeOK, TypeOK', TreeInv, NEW w \in Workflows, PrepareReviewBranch(w)
  PROVE  TreeInv'
<1>1. /\ wf[w].at = "prepare" /\ wf[w] \in Worker
      /\ UNCHANGED <<config, run, noted, commits, remote>>
  BY DEF PrepareReviewBranch, Fails, Read, rest, scm, TypeOK, At
<1>2. CASE Fails(w) /\ UNCHANGED tree
  <2>1. wf'[w].at = "fail" /\ Others(w)
    BY <1>2 DEF Fails, Go, TypeOK, Idle, Others
  <2> QED BY <1>1, <1>2, <2>1, NearApart, ApartTree DEF Near, InTree, Kept
<1>3. CASE /\ tree' = [tree EXCEPT !.log = IF Squashes THEN <<>> ELSE @,
                                   !.note = @ /\ ~Cleaned,
                                   !.dirty = @ \/ Cleaned \/ (Squashes /\ tree.log # <<>>)]
           /\ Go(w, "commit")
  <2>1. wf'[w].at = "commit" /\ Others(w)
    BY <1>3 DEF Go, TypeOK, Idle, Others
  <2>2. /\ tree'.made = tree.made /\ tree'.note = (tree.note /\ ~Cleaned)
        /\ tree'.dirty = (tree.dirty \/ Cleaned \/ (Squashes /\ tree.log # <<>>))
        /\ tree'.log = (IF Squashes THEN <<>> ELSE tree.log)
    BY <1>3 DEF TypeOK, Tree
  <2>3. /\ tree.made /\ run.head = 0
        /\ \A v \in Workflows : v # w => wf'[v].at \notin InTree
    BY <1>1, <2>1, Alone DEF InTree
  <2>4. CommitsKnown' /\ NotesStayHere' /\ HeadIsOnBranch'
    <3>1. \A i \in DOMAIN tree'.log : i \in DOMAIN tree.log /\ tree'.log[i] = tree.log[i]
      BY <2>2
    <3> QED BY <1>1, <3>1 DEF TreeInv, CommitsKnown, NotesStayHere, HeadIsOnBranch
  <2>5. MineInv(w)'
    <3>1. config.notes => ~tree'.note
      BY <2>2 DEF Cleaned
    <3>2. config.notes /\ ~tree'.dirty => TreeHead' = TreeHead /\ ~tree.note /\ ~tree.dirty
      BY <2>2 DEF Cleaned, TreeHead
    <3>3. config.notes /\ ~tree'.dirty => TreeHead' \notin noted
      BY <3>2, Mine DEF MineInv
    <3> QED BY <1>1, <2>1, <2>2, <2>3, <3>1, <3>3 DEF MineInv, At
  <2>6. MyCheckpoints(w)' /\ Checkpoints'
    <3>1. Len(run.checkpoints) <= Saved(w) /\ Checkpoints
      BY <1>1, Mine DEF MyCheckpoints, InTree
    <3>2. Saved(w)' = 3 /\ Saved(w) = 3
      BY <1>1, <2>1 DEF Saved
    <3> QED BY <1>1, <2>1, <2>2, <3>1, <3>2 DEF MyCheckpoints, Checkpoints, At
  <2> QED BY <2>3, <2>4, <2>5, <2>6, LoneTree
<1> QED BY <1>2, <1>3 DEF PrepareReviewBranch

LEMMA CommitForReviewTree ==
  ASSUME TypeOK, TypeOK', TreeInv, NEW w \in Workflows, CommitForReview(w)
  PROVE  TreeInv'
<1>1. wf[w].at = "commit" /\ wf[w] \in Worker /\ UNCHANGED <<config, run, remote>>
  BY DEF CommitForReview, Fails, Read, rest, scm, TypeOK, At
<1>2. config.notes => ~tree.note /\ (~tree.dirty => TreeHead \notin noted)
  BY <1>1, Mine DEF MineInv, At
<1>3. CASE Fails(w) /\ UNCHANGED git
  <2>1. wf'[w].at = "fail" /\ Others(w)
    BY <1>3 DEF Fails, Go, TypeOK, Idle, Others
  <2> QED BY <1>1, <1>3, <2>1, NearApart, ApartTree DEF Near, InTree, Kept, git
<1>4. ASSUME Go(w, "push"), tree'.made = tree.made, tree'.note = tree.note, CommitsKnown',
             NotesStayHere', config.notes => TreeHead' \notin noted',
             commits \in Nat, commits' >= commits
      PROVE  TreeInv'
  <2>1. wf'[w].at = "push" /\ Others(w)
    BY <1>4 DEF Go, TypeOK, Idle, Others
  <2>2. /\ tree.made /\ run.head = 0
        /\ \A v \in Workflows : v # w => wf'[v].at \notin InTree
    BY <1>1, <2>1, Alone DEF InTree
  <2>3. HeadIsOnBranch'
    BY <1>1 DEF TreeInv, HeadIsOnBranch
  <2>4. MineInv(w)'
    BY <1>1, <1>4, <2>1, <2>2 DEF MineInv, At
  <2>5. MyCheckpoints(w)' /\ Checkpoints'
    <3>1. Len(run.checkpoints) <= Saved(w) /\ Checkpoints
      BY <1>1, Mine DEF MyCheckpoints, InTree
    <3>2. Saved(w)' = 3 /\ Saved(w) = 3
      BY <1>1, <2>1 DEF Saved
    <3>3. \A i \in DOMAIN run.checkpoints : run.checkpoints[i].sha <= commits'
      BY <1>4, <3>1, CheckpointType DEF Checkpoints, TypeOK, Sha
    <3> QED BY <1>1, <1>4, <2>1, <3>1, <3>2, <3>3 DEF MyCheckpoints, Checkpoints, At
  <2> QED BY <1>4, <2>2, <2>3, <2>4, <2>5, LoneTree
<1>5. CASE Go(w, "push") /\ UNCHANGED git /\ ~tree.dirty
  <2>1. CommitsKnown' /\ NotesStayHere' /\ TreeHead' = TreeHead /\ commits \in Nat
    BY <1>1, <1>5 DEF TreeInv, CommitsKnown, NotesStayHere, TreeHead, git, TypeOK, Sha
  <2> QED BY <1>2, <1>4, <1>5, <2>1 DEF git
<1>6. ASSUME Commit(tree.note), Go(w, "push"), TreeHead' = commits + 1,
             tree'.made = tree.made, tree'.note = tree.note,
             \A i \in DOMAIN tree'.log : tree'.log[i] = commits + 1 \/ tree'.log[i] <= commits
      PROVE  TreeInv'
  <2>1. tree.note \in BOOLEAN
    BY DEF TypeOK, Tree
  <2>2. /\ commits \in Nat /\ commits' = commits + 1
        /\ noted \subseteq 1..commits /\ (~tree.note => noted' = noted)
    BY <1>6, <2>1, CommitKnows
  <2>3. CommitsKnown' /\ NotesStayHere'
    BY <1>1, <1>6, <2>1, CommitSafe
  <2>4. config.notes => TreeHead' \notin noted'
    BY <1>2, <1>6, <2>2
  <2> QED BY <1>4, <1>6, <2>2, <2>3, <2>4
<1>7. CASE /\ Commit(tree.note) /\ Go(w, "push")
           /\ tree' = [tree EXCEPT !.dirty = FALSE, !.log = Append(@, commits + 1)]
  <2>1. /\ tree'.made = tree.made /\ tree'.note = tree.note
        /\ tree'.log = Append(tree.log, commits + 1)
    BY <1>7 DEF TypeOK, Tree
  <2>2. TreeHead' = commits + 1
        /\ \A i \in DOMAIN tree'.log : tree'.log[i] = commits + 1 \/ tree'.log[i] <= commits
    BY <2>1, Appended DEF TreeInv, CommitsKnown
  <2> QED BY <1>6, <1>7, <2>1, <2>2
<1>8. CASE /\ Commit(tree.note) /\ Go(w, "push") /\ tree.log # <<>>
           /\ tree' = [tree EXCEPT !.log[Len(tree.log)] = commits + 1]
  <2>1. /\ tree'.made = tree.made /\ tree'.note = tree.note
        /\ tree'.log = [tree.log EXCEPT ![Len(tree.log)] = commits + 1]
    BY <1>8 DEF TypeOK, Tree
  <2>2. tree.log \in Seq(Sha) /\ Len(tree.log) \in DOMAIN tree.log
    BY <1>8, TreeHeadType
  <2>3. /\ tree'.log # <<>> /\ Len(tree'.log) = Len(tree.log)
        /\ \A i \in DOMAIN tree'.log :
             tree'.log[i] = commits + 1 \/ (i \in DOMAIN tree.log /\ tree'.log[i] = tree.log[i])
        /\ tree'.log[Len(tree.log)] = commits + 1
    BY <1>8, <2>1, <2>2
  <2>4. TreeHead' = commits + 1
        /\ \A i \in DOMAIN tree'.log : tree'.log[i] = commits + 1 \/ tree'.log[i] <= commits
    BY <2>3 DEF TreeInv, CommitsKnown, TreeHead
  <2> QED BY <1>6, <1>8, <2>1, <2>4
<1> QED BY <1>3, <1>5, <1>7, <1>8 DEF CommitForReview

LEMMA PushTree ==
  ASSUME TypeOK, TypeOK', TreeInv, NEW w \in Workflows, Push(w)
  PROVE  TreeInv'
<1>1. /\ wf[w].at = "push" /\ wf[w] \in Worker
      /\ UNCHANGED <<config, run, tree, noted, commits>>
  BY DEF Push, Read, rest, git, TypeOK, At
<1>2. CASE Go(w, "fail") /\ UNCHANGED remote
  <2>1. wf'[w].at = "fail" /\ Others(w)
    BY <1>2 DEF Go, TypeOK, Idle, Others
  <2> QED BY <1>1, <1>2, <2>1, NearApart, ApartTree DEF Near, InTree, Kept
<1>3. ASSUME NEW b \in Branch, PushTo(b), wf'[w].at = "head", wf'[w].branch = b, Others(w)
      PROVE  TreeInv'
  <2>1. remote' = [remote EXCEPT ![b] = TreeHead] /\ TreeHead' = TreeHead
    BY <1>1, <1>3 DEF PushTo, TreeHead
  <2>2. /\ tree.made /\ run.head = 0
        /\ \A v \in Workflows : v # w => wf'[v].at \notin InTree
    BY <1>1, <1>3, Alone DEF InTree
  <2>3. config.notes => TreeHead \notin noted
    BY <1>1, Mine DEF MineInv
  <2>4. TreeHead <= commits
    BY TreeHeadType DEF TreeInv, CommitsKnown, TypeOK, Sha, TreeHead
  <2>5. \A c \in Branch : remote'[c] = remote[c] \/ remote'[c] = TreeHead
    BY <2>1 DEF TypeOK
  <2>6. CommitsKnown' /\ NotesStayHere' /\ HeadIsOnBranch'
    BY <1>1, <2>2, <2>3, <2>4, <2>5 DEF TreeInv, CommitsKnown, NotesStayHere, HeadIsOnBranch
  <2>7. MineInv(w)'
    <3>1. remote'[wf'[w].branch] = TreeHead
      BY <1>3, <2>1 DEF TypeOK
    <3>2. config.notes => (~tree.note /\ ~tree.dirty => TreeHead \notin noted)
      BY Mine DEF MineInv
    <3> QED BY <1>1, <1>3, <2>1, <2>2, <2>3, <3>1, <3>2 DEF MineInv, At
  <2>8. MyCheckpoints(w)' /\ Checkpoints'
    <3>1. Len(run.checkpoints) <= Saved(w) /\ Checkpoints
      BY <1>1, Mine DEF MyCheckpoints, InTree
    <3>2. Saved(w)' = 3 /\ Saved(w) = 3
      BY <1>1, <1>3 DEF Saved
    <3> QED BY <1>1, <1>3, <3>1, <3>2 DEF MyCheckpoints, Checkpoints, At
  <2> QED BY <2>2, <2>6, <2>7, <2>8, LoneTree
<1>4. CASE PushTo(wf[w].branch) /\ Go(w, "head")
  <2>1. wf'[w].at = "head" /\ wf'[w].branch = wf[w].branch /\ Others(w)
    BY <1>4, GoMoves DEF Moves, Others, Live, Over
  <2> QED BY <1>1, <1>3, <1>4, <2>1 DEF Worker
<1>5. CASE /\ PushTo(ReplacementBranch)
           /\ With(w, "head", [wf[w] EXCEPT !.branch = ReplacementBranch])
  <2>1. wf'[w].at = "head" /\ wf'[w].branch = ReplacementBranch /\ Others(w)
    BY <1>1, <1>5 DEF With, TypeOK, Worker, Others
  <2> QED BY <1>3, <1>5, <2>1 DEF ReplacementBranch, Branch
<1> QED BY <1>2, <1>4, <1>5 DEF Push

LEMMA RecordHeadTree ==
  ASSUME TypeOK, TypeOK', TreeInv, NEW w \in Workflows, RecordHead(w)
  PROVE  TreeInv'
<1>1. /\ wf[w].at = "head" /\ wf[w] \in Worker /\ run \in RunRecord
      /\ UNCHANGED <<config, tree, noted, commits, remote>> /\ TreeHead' = TreeHead
  BY DEF RecordHead, Quiet, rest, git, scm, TypeOK, At, TreeHead
<1>2. CASE Fails(w)
  <2>1. wf'[w].at = "fail" /\ Others(w)
    BY <1>2 DEF Fails, Go, TypeOK, Idle, Others
  <2> QED BY <1>1, <1>2, <2>1, NearApart, ApartTree DEF Near, InTree, Kept, Fails, Read
<1>3. CASE Go(w, "open") /\ (run' = run \/ run' = Pushed(w))
  <2>1. wf'[w].at = "open" /\ Others(w)
    BY <1>3 DEF Go, TypeOK, Idle, Others
  <2>2. /\ tree.made /\ run.head = 0
        /\ \A v \in Workflows : v # w => wf'[v].at \notin InTree
    BY <1>1, <2>1, Alone DEF InTree
  <2>3. /\ run'.checkpoints = run.checkpoints
        /\ \/ run'.head = 0
           \/ run'.head = TreeHead /\ run'.branch = wf[w].branch
    BY <1>1, <1>3, <2>2 DEF Pushed, RunRecord
  <2>4. remote[wf[w].branch] = TreeHead
    BY <1>1, Mine DEF MineInv, At
  <2>5. TreeHead <= commits
    BY TreeHeadType DEF TreeInv, CommitsKnown, TypeOK, Sha, TreeHead
  <2>6. CommitsKnown' /\ NotesStayHere' /\ HeadIsOnBranch'
    <3>1. commits \in Nat
      BY DEF TypeOK, Sha
    <3>2. run'.head <= commits
      BY <2>3, <2>5, <3>1
    <3> QED BY <1>1, <2>3, <2>4, <3>2 DEF TreeInv, CommitsKnown, NotesStayHere, HeadIsOnBranch
  <2>7. MineInv(w)'
    BY <1>1, <2>1, <2>2, Mine DEF MineInv, At, InTree
  <2>8. MyCheckpoints(w)' /\ Checkpoints'
    BY <1>1, <2>1, <2>3, Mine DEF MyCheckpoints, Checkpoints, At, InTree
  <2> QED BY <2>2, <2>6, <2>7, <2>8, LoneTree
<1> QED BY <1>2, <1>3 DEF RecordHead, Board, Transition, Store, Read

LEMMA EditsTree ==
  ASSUME TypeOK, TreeInv, OperatorEdits
  PROVE  TreeInv'
<1>1. /\ UNCHANGED <<config, run, wf, noted, commits, remote>>
      /\ tree'.made = tree.made /\ tree'.note = tree.note /\ tree'.log = tree.log /\ tree'.dirty
  BY DEF OperatorEdits, Read, rest, scm, TypeOK, Tree
<1>2. TreeHead' = TreeHead
  BY <1>1 DEF TreeHead
<1>3. OneExecutorInTree' /\ TreeIsTaken' /\ CommitsKnown'
  BY <1>1, <1>2 DEF TreeInv, OneExecutorInTree, TreeIsTaken, CommitsKnown, At
<1>4. HeadIsOnBranch' /\ NotesStayHere' /\ NotesAreTracked'
  BY <1>1, <1>2 DEF TreeInv, HeadIsOnBranch, NotesStayHere, NotesAreTracked, At
<1>5. CheckpointsInOrder'
  <2>1. \A v \in Workflows : wf[v].at \in InTree => Saved(v)' = Saved(v)
    BY <1>1 DEF Saved, InTree
  <2> QED BY <1>1, <2>1 DEF TreeInv, CheckpointsInOrder, At
<1> QED BY <1>3, <1>4, <1>5 DEF TreeInv

-----------------------------------------------------------------------------
(* The invariant.                                                          *)

ExecutorInv == TypeOK /\ TreeInv /\ HandsInv

LEMMA InitType ==
  ASSUME Init
  PROVE  TypeOK
<1>1. config \in Configs /\ config.changeRequest \in BOOLEAN
  BY ExecutorAssumption DEF Init
<1>2. commits \in Sha /\ 0 \in Sha /\ 1 \in Sha
  BY Bounds DEF Init, Sha
<1>3. run \in RunRecord
  BY <1>1, <1>2 DEF Init, RunRecord, RunStatus, ExecutionPhase, Branch
<1>4. wf \in [Workflows -> Worker]
  <2>1. [Idle EXCEPT !.at = "asked"] \in Worker
    BY IdleType DEF Worker
  <2> QED BY <2>1, IdleType DEF Init
<1>5. tree \in Tree
  BY DEF Init, Tree
<1>6. remote \in [Branch -> Sha] /\ reviews \subseteq Branch
  BY <1>2 DEF Init, Branch
<1> QED BY <1>1, <1>2, <1>3, <1>4, <1>5, <1>6 DEF Init, TypeOK

LEMMA ExecutorInit ==
  ASSUME Init
  PROVE  ExecutorInv
<1>1. TypeOK
  BY InitType
<1>2. PICK first \in Workflows :
        wf = [w \in Workflows |-> IF w = first THEN [Idle EXCEPT !.at = "asked"] ELSE Idle]
  BY DEF Init
<1>3. /\ \A w \in Workflows : wf[w].at \in {"none", "asked"} /\ wf[w].mode = "full_run"
      /\ wf[first].at = "asked"
  BY <1>2 DEF Idle
<1>4. /\ run.head = 0 /\ run.checkpoints = <<>> /\ run.review = "none" /\ held = {}
      /\ noted = {} /\ tree.log = <<>> /\ config.changeRequest \in BOOLEAN
      /\ commits = IF config.changeRequest THEN 1 ELSE 0
  BY ExecutorAssumption DEF Init
<1>5. TreeInv
  <2>1. OneExecutorInTree /\ TreeIsTaken
    BY <1>3, <1>4 DEF OneExecutorInTree, TreeIsTaken, InTree, At
  <2>2. CommitsKnown
    <3>1. \A b \in Branch : remote[b] <= commits
      BY <1>4 DEF Init
    <3> QED BY <1>4, <3>1 DEF CommitsKnown
  <2>3. HeadIsOnBranch /\ NotesStayHere /\ NotesAreTracked
    BY <1>3, <1>4 DEF HeadIsOnBranch, NotesStayHere, NotesAreTracked, At
  <2>4. CheckpointsInOrder
    BY <1>3, <1>4 DEF CheckpointsInOrder, InTree, At
  <2> QED BY <2>1, <2>2, <2>3, <2>4 DEF TreeInv
<1>6. HandsInv
  <2>1. ReviewersReview
    BY <1>3 DEF ReviewersReview
  <2>2. InHands
    BY <1>3 DEF InHands, Over
  <2>3. NoStrandedReview /\ HeldAreStopped
    BY <1>4 DEF NoStrandedReview, HeldAreStopped
  <2> QED BY <2>1, <2>2, <2>3 DEF HandsInv
<1> QED BY <1>1, <1>5, <1>6 DEF ExecutorInv

LEMMA ExecutorHands ==
  ASSUME ExecutorInv, NEW w \in Workflows, ExecutorStep(w)
  PROVE  TypeOK' /\ HandsInv'
<1> USE DEF ExecutorInv
<1>0. CheckpointsInOrder
  BY DEF TreeInv
<1>1. CASE FailRun(w) BY <1>1, FailRunHands
<1>2. CASE Enter(w) BY <1>2, EnterHands
<1>3. CASE Bootstrap(w) BY <1>3, BootstrapHands
<1>4. CASE Checkout(w) BY <1>4, CheckoutHands
<1>5. CASE ReadForCheckpoint(w) BY <1>0, <1>5, ReadForCheckpointHands
<1>6. CASE CommitCheckpoint(w) BY <1>6, CommitCheckpointHands
<1>7. CASE SaveCheckpoint(w) BY <1>0, <1>7, SaveCheckpointHands
<1>8. CASE StartCodex(w) BY <1>8, StartCodexHands
<1>9. CASE WaitForCapacity(w) BY <1>9, WaitForCapacityHands
<1>10. CASE CapacityIsBack(w) BY <1>10, CapacityIsBackHands
<1>11. CASE StartProcess(w) BY <1>11, StartProcessHands
<1>12. CASE RecordProcess(w) BY <1>12, RecordProcessHands
<1>13. CASE LlmEnds(w) BY <1>13, LlmEndsHands
<1>14. CASE LlmReturns(w) BY <1>14, LlmReturnsHands
<1>15. CASE LlmFails(w) BY <1>15, LlmFailsHands
<1>16. CASE StartTests(w) BY <1>16, StartTestsHands
<1>17. CASE StartPush(w) BY <1>17, StartPushHands
<1>18. CASE PrepareReviewBranch(w) BY <1>18, PrepareHands
<1>19. CASE CommitForReview(w) BY <1>19, CommitForReviewHands
<1>20. CASE Push(w) BY <1>20, PushHands
<1>21. CASE RecordHead(w) BY <1>21, RecordHeadHands
<1>22. CASE OpenReview(w) BY <1>22, OpenReviewHands
<1>23. CASE CreateReviewRequest(w) BY <1>23, CreateReviewRequestHands
<1>24. CASE RecordReview(w) BY <1>24, RecordReviewHands
<1>25. CASE ReadForReview(w) BY <1>25, ReadForReviewHands
<1>26. CASE NoteReview(w) BY <1>26, NoteReviewHands
<1>27. CASE ReviewWork(w) BY <1>27, ReviewWorkHands
<1>28. CASE EndReview(w) BY <1>28, EndReviewHands
<1>29. CASE StartPreview(w) BY <1>29, StartPreviewHands
<1>30. CASE WaitForPreview(w) BY <1>30, WaitForPreviewHands
<1>31. CASE FoundPreview(w) BY <1>31, FoundPreviewHands
<1>32. CASE NoPreview(w) BY <1>32, NoPreviewHands
<1>33. CASE ReadForEvidence(w) BY <1>33, ReadForEvidenceHands
<1>34. CASE StartEvidence(w) BY <1>34, StartEvidenceHands
<1>35. CASE CaptureEvidence(w) BY <1>35, CaptureEvidenceHands
<1>36. CASE CommentOnReview(w) BY <1>36, CommentOnReviewHands
<1>37. CASE EndEvidence(w) BY <1>37, EndEvidenceHands
<1> QED BY <1>1, <1>2, <1>3, <1>4, <1>5, <1>6, <1>7, <1>8, <1>9, <1>10, <1>11, <1>12, <1>13,
           <1>14, <1>15, <1>16, <1>17, <1>18, <1>19, <1>20, <1>21, <1>22, <1>23, <1>24, <1>25,
           <1>26, <1>27, <1>28, <1>29, <1>30, <1>31, <1>32, <1>33, <1>34, <1>35, <1>36, <1>37
        DEF ExecutorStep

LEMMA ExecutorTree ==
  ASSUME ExecutorInv, TypeOK', NEW w \in Workflows, ExecutorStep(w)
  PROVE  TreeInv'
<1> USE DEF ExecutorInv
<1>1. CASE FailRun(w) \/ Bootstrap(w) \/ StartCodex(w) \/ WaitForCapacity(w)
           \/ CapacityIsBack(w) \/ StartProcess(w) \/ RecordProcess(w)
  BY <1>1, StartApart, ApartTree
<1>2. CASE Enter(w)
  BY <1>2, EnterApart, ApartTree
<1>3. CASE LlmReturns(w) \/ LlmFails(w) \/ StartTests(w) \/ StartPush(w)
  BY <1>3, AfterLlmApart, ApartTree
<1>4. CASE \/ OpenReview(w) \/ CreateReviewRequest(w) \/ RecordReview(w) \/ ReadForReview(w)
           \/ NoteReview(w) \/ ReviewWork(w) \/ EndReview(w) \/ StartPreview(w)
           \/ WaitForPreview(w) \/ FoundPreview(w) \/ NoPreview(w) \/ ReadForEvidence(w)
           \/ StartEvidence(w) \/ CaptureEvidence(w) \/ CommentOnReview(w) \/ EndEvidence(w)
  BY <1>4, AfterPushApart, ApartTree
<1>5. CASE Checkout(w)
  BY <1>5, CheckoutTree
<1>6. CASE ReadForCheckpoint(w)
  BY <1>6, ReadForCheckpointTree
<1>7. CASE CommitCheckpoint(w)
  BY <1>7, CommitCheckpointTree
<1>8. CASE SaveCheckpoint(w)
  BY <1>8, SaveCheckpointTree
<1>9. CASE LlmEnds(w)
  BY <1>9, LlmEndsTree
<1>10. CASE PrepareReviewBranch(w)
  BY <1>10, PrepareTree
<1>11. CASE CommitForReview(w)
  BY <1>11, CommitForReviewTree
<1>12. CASE Push(w)
  BY <1>12, PushTree
<1>13. CASE RecordHead(w)
  BY <1>13, RecordHeadTree
<1> QED BY <1>1, <1>2, <1>3, <1>4, <1>5, <1>6, <1>7, <1>8, <1>9, <1>10, <1>11, <1>12, <1>13
        DEF ExecutorStep

LEMMA ExecutorNext ==
  ASSUME ExecutorInv, [Next]_vars
  PROVE  ExecutorInv'
<1> USE DEF ExecutorInv
<1>1. ASSUME NEW w \in Workflows, ExecutorStep(w)
      PROVE  ExecutorInv'
  BY <1>1, ExecutorHands, ExecutorTree
<1>2. ASSUME NEW w \in Workflows,
             \/ HandleRunTask(w) \/ HandleRetryEvidence(w) \/ HandleRetryPreview(w)
             \/ HandleRerunReview(w)
      PROVE  ExecutorInv'
  BY <1>2, AskHands, OperatorApart, ApartTree
<1>3. ASSUME NEW w \in Workflows, ScheduleRunJob(w)
      PROVE  ExecutorInv'
  BY <1>3, ScheduleHands, ScheduleApart, ApartTree
<1>4. ASSUME NEW w \in Workflows, Alarm(w)
      PROVE  ExecutorInv'
  BY <1>4, AlarmHands, OperatorApart, ApartTree
<1>5. ASSUME NEW w \in Workflows, Crash(w)
      PROVE  ExecutorInv'
  BY <1>5, CrashHands, OperatorApart, ApartTree
<1>6. CASE HandleCancelRun
  BY <1>6, CancelHands, TakeoverApart, ApartTree
<1>7. CASE KillProcess
  BY <1>7, KillHands, TakeoverApart, ApartTree
<1>8. CASE TakeOverRun
  BY <1>8, TakeOverHands, TakeoverApart, ApartTree
<1>9. CASE OperatorEdits
  BY <1>9, EditsHands, EditsTree
<1>10. CASE UNCHANGED vars
  <2>1. TypeOK'
    BY <1>10 DEF TypeOK, vars
  <2>2. HandsInv'
    BY <1>10 DEF HandsInv, ReviewersReview, InHands, NoStrandedReview, HeldAreStopped, LlmRuns,
                 At, vars
  <2>3. Apart
    BY <1>10 DEF Apart, Kept, vars
  <2> QED BY <2>1, <2>2, <2>3, ApartTree
<1> QED BY <1>1, <1>2, <1>3, <1>4, <1>5, <1>6, <1>7, <1>8, <1>9, <1>10 DEF Next

LEMMA ExecutorInvariant == Spec => []ExecutorInv
BY ExecutorInit, ExecutorNext, PTL DEF Spec

-----------------------------------------------------------------------------
(* However many executors are scheduled for a run, and whatever operators  *)
(* do meanwhile, at most one of them works in the run's tree: a second one *)
(* does not get past the checkout, which clones only where nothing is.     *)
THEOREM OneExecutorHolds == Spec => []OneExecutorInTree
<1>1. ExecutorInv => OneExecutorInTree
  BY DEF ExecutorInv, TreeInv
<1> QED BY <1>1, ExecutorInvariant, PTL

(* The head the board has of a run is on the branch the board has of it,   *)
(* and the context notes of the checkpoints never reach a branch.          *)
THEOREM BranchesHold == Spec => []BranchesAreRight
<1>1. ExecutorInv => BranchesAreRight
  BY DEF ExecutorInv, TreeInv, BranchesAreRight
<1> QED BY <1>1, ExecutorInvariant, PTL

(* On every path on which executors end, the run has ended, an operator    *)
(* has it, or an executor was lost; a review that is said to be running is *)
(* run by somebody, or its executor was lost.                              *)
THEOREM NothingStrandedHolds == Spec => []NothingStranded
<1>1. ExecutorInv => NothingStranded
  BY DEF ExecutorInv, HandsInv, InHands, NothingStranded, NoStrandedRun, Over, At
<1> QED BY <1>1, ExecutorInvariant, PTL

(* An executor whose LLM was running when the operator took the run over   *)
(* is still at the LLM or has ended, as long as the operator has the run   *)
(* (Codex and Cursor).                                                     *)
THEOREM TakeoverHolds == Spec => []TakeoverStopsLlm
<1>1. ExecutorInv => TakeoverStopsLlm
  BY DEF ExecutorInv, HandsInv, HeldAreStopped, TakeoverStopsLlm, Over
<1> QED BY <1>1, ExecutorInvariant, PTL

(* The checkpoint a retry picks, by its number, is the newest commit.      *)
THEOREM RetryHolds == Spec => []RetryTakesNewest
<1>1. ExecutorInv => RetryTakesNewest
  <2> SUFFICES ASSUME ExecutorInv, run.checkpoints # <<>>, NEW j \in DOMAIN run.checkpoints
               PROVE  run.checkpoints[j].sha <= run.checkpoints[RetryCheckpoint].sha
    BY DEF RetryTakesNewest
  <2> DEFINE made == run.checkpoints
             Newest(i) == \A k \in DOMAIN made : made[k].sequence <= made[i].sequence
  <2>1. made \in Seq(Checkpoint) /\ Len(made) \in Nat /\ DOMAIN made = 1..Len(made)
        /\ Len(made) # 0
    BY DEF ExecutorInv, TypeOK, RunRecord
  <2>2. \A i \in DOMAIN made : made[i].sequence = i
    BY DEF ExecutorInv, TreeInv, CheckpointsInOrder
  <2>3. \A i, k \in DOMAIN made : i <= k => made[i].sha <= made[k].sha
    BY DEF ExecutorInv, TreeInv, CheckpointsInOrder
  <2>4. Len(made) \in DOMAIN made /\ Newest(Len(made))
    BY <2>1, <2>2
  <2>5. RetryCheckpoint \in DOMAIN made /\ Newest(RetryCheckpoint)
    BY <2>4 DEF RetryCheckpoint
  <2>6. j <= RetryCheckpoint
    BY <2>2, <2>5
  <2> QED BY <2>3, <2>5, <2>6
<1> QED BY <1>1, ExecutorInvariant, PTL

-----------------------------------------------------------------------------
(* Only transitionRun's guard and its exceptions change a run that has     *)
(* ended.                                                                  *)

Reopens == IsTerminalRunStatus(run.status) /\ run'.status # run.status

LEMMA GuardedStays ==
  ASSUME NEW new, Transition(new) \/ Read
  PROVE  ~Reopens
BY DEF Transition, Store, Read, Reopens

LEMMA ExecutorReopens ==
  ASSUME TypeOK, NEW w \in Workflows, ExecutorStep(w)
  PROVE  Reopens => run'.status = "FAILED"
<1>1. CASE FailRun(w)
  BY <1>1 DEF FailRun, MarkRunFailed, Store, TypeOK, RunRecord
<1>2. CASE Enter(w)
  BY <1>2, GuardedStays DEF Enter, Board
<1>3. CASE \/ Bootstrap(w) \/ StartCodex(w) \/ WaitForCapacity(w) \/ CapacityIsBack(w)
           \/ StartProcess(w) \/ RecordProcess(w) \/ LlmEnds(w)
  BY <1>3, GuardedStays
     DEF Bootstrap, StartCodex, WaitForCapacity, CapacityIsBack, StartProcess, RecordProcess,
         LlmEnds, Board
<1>4. CASE \/ Checkout(w) \/ ReadForCheckpoint(w) \/ CommitCheckpoint(w) \/ SaveCheckpoint(w)
  BY <1>4, GuardedStays
     DEF Checkout, ReadForCheckpoint, CommitCheckpoint, SaveCheckpoint, Fails
<1>5. CASE LlmReturns(w) \/ LlmFails(w) \/ StartTests(w) \/ StartPush(w)
  BY <1>5, GuardedStays DEF LlmReturns, LlmFails, StartTests, StartPush, Board
<1>6. CASE PrepareReviewBranch(w) \/ CommitForReview(w) \/ Push(w) \/ RecordHead(w)
  BY <1>6, GuardedStays DEF PrepareReviewBranch, CommitForReview, Push, RecordHead, Fails, Board
<1>7. CASE OpenReview(w) \/ CreateReviewRequest(w) \/ RecordReview(w)
  BY <1>7, GuardedStays DEF OpenReview, CreateReviewRequest, RecordReview, Board
<1>8. CASE ReadForReview(w) \/ NoteReview(w) \/ ReviewWork(w) \/ EndReview(w)
  BY <1>8, GuardedStays DEF ReadForReview, NoteReview, ReviewWork, EndReview, Board
<1>9. CASE StartPreview(w) \/ WaitForPreview(w) \/ FoundPreview(w) \/ NoPreview(w)
  BY <1>9, GuardedStays DEF StartPreview, WaitForPreview, FoundPreview, NoPreview, Board
<1>10. CASE \/ ReadForEvidence(w) \/ StartEvidence(w) \/ CaptureEvidence(w)
            \/ CommentOnReview(w) \/ EndEvidence(w)
  BY <1>10, GuardedStays
     DEF ReadForEvidence, StartEvidence, CaptureEvidence, CommentOnReview, EndEvidence, Board
<1> QED BY <1>1, <1>2, <1>3, <1>4, <1>5, <1>6, <1>7, <1>8, <1>9, <1>10 DEF ExecutorStep

(* No step of an executor, however late it comes, brings back a run that   *)
(* has ended: the only steps that do are an operator's retry of the        *)
(* evidence or the preview and a takeover.                                 *)
THEOREM ReopenHolds == Spec => OnlyOperatorsReopen
<1>1. ASSUME TypeOK, [Next]_vars
      PROVE  [Reopens => run'.status = "FAILED" \/ OperatorStep]_vars
  <2>1. ASSUME NEW w \in Workflows, ExecutorStep(w)
        PROVE  Reopens => run'.status = "FAILED"
    BY <1>1, <2>1, ExecutorReopens
  <2>2. ASSUME NEW w \in Workflows, HandleRetryEvidence(w) \/ HandleRetryPreview(w)
        PROVE  OperatorStep
    BY <2>2 DEF OperatorStep
  <2>3. ASSUME NEW w \in Workflows, \/ HandleRunTask(w) \/ HandleRerunReview(w)
                                    \/ ScheduleRunJob(w) \/ Alarm(w) \/ Crash(w)
        PROVE  ~Reopens
    BY <2>3, GuardedStays DEF HandleRunTask, HandleRerunReview, ScheduleRunJob, Alarm, Crash
  <2>4. CASE HandleCancelRun
    BY <1>1, <2>4 DEF HandleCancelRun, MarkRunFailed, Store, TypeOK, RunRecord
  <2>5. CASE TakeOverRun
    BY <2>5 DEF OperatorStep
  <2>6. CASE KillProcess \/ OperatorEdits
    BY <2>6, GuardedStays DEF KillProcess, OperatorEdits
  <2> QED BY <1>1, <2>1, <2>2, <2>3, <2>4, <2>5, <2>6 DEF Next
<1>2. ExecutorInv => TypeOK
  BY DEF ExecutorInv
<1> QED BY <1>1, <1>2, ExecutorInvariant, PTL DEF Spec, OnlyOperatorsReopen, Reopens

-----------------------------------------------------------------------------
(* Settings: the record of a repo and the requests that change it, for any   *)
(* number of requests, any bodies the parsers let through and anything typed *)
(* into the form.                                                            *)
(*                                                                           *)
(* A record goes through two shapes: the merge of a settled one with a patch *)
(* (IsMerged), and what BuildRepo returns (IsSettled), which building and    *)
(* normalising leave as it is.  So the invariant has to say that the record  *)
(* and the one a form shows are settled, that each request that is to be     *)
(* saved has a patch (IsPatch), and of a request that was alone that what it *)
(* has written still stands (AloneInv).                                      *)

(* A record is complete: all fields of all sections. *)
IsComplete(r) ==
    /\ r = [s \in Sections |-> r[s]]
    /\ \A s \in Sections : r[s] = [f \in Fields[s] |-> r[s][f]]
    /\ r.preview.config = [check |-> r.preview.config.check, recipe |-> r.preview.config.recipe]

(* The two names of each preview setting say the same. *)
NamesAgree(p) ==
    /\ p.provider = "cloudflare" <=> p.adapter = "cloudflare_checks"
    /\ p.provider \in {Unset, "cloudflare"}
    /\ p.checkName = p.config.check

(* What BuildRepo is given. *)
IsMerged(r) ==
    /\ IsComplete(r) /\ NamesAgree(r.preview)
    /\ r.basics.tenant \in {Unset, "ours"}
    /\ r.review.playbook \in Playbooks \cup {Unset}

(* What it returns. *)
IsSettled(r) ==
    /\ IsMerged(r)
    /\ r.basics.tenant = "ours" /\ r.basics.scm \in {"gitlab", "github"}
    /\ r.basics.enabled # Unset /\ r.basics.defaultBranch # Unset
    /\ r.preview.adapter # Unset
    /\ \A f \in {"enabled", "provider", "inline", "posting"} : r.review[f] # Unset
    /\ \A f \in SentinelFields : r.sentinel[f] = FirstOf(r.sentinel[f], DefaultSentinel[f])
    /\ \A f \in CheckpointFields : r.checkpoint[f] = FirstOf(r.checkpoint[f], DefaultCheckpoint[f])

(* A section without an adapter is for codex. *)
TakesModel(adapter, model) ==
    FirstOf(adapter, "codex") = "codex" => model \in CodexModels \cup {Unset}

(* What the parsers make of a body. *)
IsPatch(p) ==
    /\ p = [s \in Sections |-> p[s]]
    /\ \A s \in Sections : Partial(p[s], Fields[s])
    /\ \A pair \in PreviewPairs : pair \subseteq DOMAIN p.preview \/ pair \cap DOMAIN p.preview = {}
    /\ "adapter" \in DOMAIN p.preview =>
          /\ p.preview.provider = "cloudflare" <=> p.preview.adapter = "cloudflare_checks"
          /\ p.preview.provider \in {Unset, "cloudflare"}
    /\ "config" \in DOMAIN p.preview =>
          /\ p.preview.config = [check |-> p.preview.config.check, recipe |-> p.preview.config.recipe]
          /\ p.preview.checkName = p.preview.config.check
    /\ Given(p.review, "playbook") \in Playbooks \cup {Unset}
    /\ "model" \in DOMAIN p.llm =>
          "adapter" \in DOMAIN p.llm /\ TakesModel(p.llm.adapter, p.llm.model)
    /\ "model" \in DOMAIN p.review => TakesModel(Given(p.review, "adapter"), p.review.model)

(* It moves the repo to no other tenant. *)
ForUs(p) == Given(p.basics, "tenant") \in {Unset, "ours"}

RequestFields == {"at", "patch", "config", "named", "toCopy", "toRepo", "alone", "ofForm",
                  "next", "seen", "typed"}

(* A request: what its step needs is there. *)
RequestFits(r, books) ==
    /\ DOMAIN r = RequestFields
    /\ r.at \in {"idle", "playbook", "save", "second", "write"}
    /\ r.toCopy \in {"todo", "done", "failed"} /\ r.toRepo \in {"todo", "done", "failed"}
    /\ r.alone \in BOOLEAN /\ r.ofForm \in BOOLEAN
    /\ r.at = "idle" => ~r.ofForm /\ ~r.alone
    /\ r.at \in {"playbook", "save"} => IsPatch(r.patch) /\ ForUs(r.patch)
    /\ r.at = "playbook" => NamesPlaybook(r.patch)
    /\ r.at = "save" /\ NamesPlaybook(r.patch) =>
          books[r.patch.review.playbook].at # "none" /\ books[r.patch.review.playbook].tenant = "ours"
    /\ r.ofForm => Partial(r.next, SentinelFields)
    /\ r.at = "second" => r.ofForm
    /\ r.at = "write" =>
          r.config = [f \in SentinelFields |-> r.config[f]] /\ r.named \subseteq SentinelFields

(* The form shows a settled record; while it is saving, one request is its.  *)
FormInv ==
    /\ DOMAIN form = {"at", "seen", "typed"}
    /\ form.at \in {"closed", "open", "saving"}
    /\ form.at # "closed" => IsSettled(form.seen) /\ IsTyping(form.typed)
    /\ form.at # "saving" => \A q \in Requests : ~request[q].ofForm
    /\ form.at = "saving" => \E q \in Requests : {r \in Requests : request[r].ofForm} = {q}

PlaybookKinds == [at: {"none", "live", "gone"}, tenant: {"nobody", "ours", "theirs"}, enabled: BOOLEAN]

(* The record, its copy and the playbooks. *)
StoreInv ==
    /\ Exists => IsSettled(repo)
    /\ copy # Empty => DOMAIN copy = SentinelFields
    /\ playbooks \in [Playbooks -> PlaybookKinds]
    /\ PlaybookIsOurs
    /\ inputs \in 0..MaxInputs

(* A request that is alone is the only one, and what it has written stands.  *)
AloneInv(q) ==
    LET r == request[q] IN
    r.alone =>
      /\ \A o \in Requests : o # q => request[o].at = "idle"
      /\ r.at = "write" =>
           /\ r.toCopy = "done" => copy = NormalizeSentinel(r.config)
           /\ r.toRepo = "done" => Exists /\ repo.sentinel = NormalizeSentinel(r.config)
           /\ r.toRepo = "todo" =>
                Exists /\ \A f \in SentinelFields \ r.named : r.config[f] = repo.sentinel[f]

(* The body that a form sends that shows r and in which t was typed, and the *)
(* patch that becomes of it.                                                 *)
SentBy(r, t)  == Payload(FormValues(r, t))
PatchOf(r, t) == ReadPatch([SentBy(r, t) EXCEPT !.sentinel = Empty])

(* What the form sent, and has yet to send, is what it showed and what was   *)
(* typed.                                                                    *)
SentByForm(r) ==
    r.ofForm =>
       /\ IsSettled(r.seen) /\ IsTyping(r.typed)
       /\ r.next = SentBy(r.seen, r.typed).sentinel
       /\ r.at \in {"playbook", "save"} => r.patch = PatchOf(r.seen, r.typed)
       /\ r.at = "write" => r.named = DOMAIN r.next /\ \A f \in r.named : r.config[f] = r.next[f]

(* The inductive invariant, and with it what the form's requests have sent.  *)
SettingsInv ==
    /\ StoreInv
    /\ DOMAIN request = Requests
    /\ \A q \in Requests : RequestFits(request[q], playbooks)
    /\ FormInv
    /\ \A q \in Requests : AloneInv(q)

SentInv == SettingsInv /\ \A q \in Requests : SentByForm(request[q])

-----------------------------------------------------------------------------
(* Merging and building.                                                     *)

LEMMA EmptyIsEmpty == DOMAIN Empty = {}
  BY DEF Empty

LEMMA FieldsOf ==
    /\ Fields.basics = {"tenant", "scm", "enabled", "defaultBranch"}
    /\ Fields.llm = {"adapter", "model", "effort"}
    /\ Fields.preview = {"adapter", "provider", "config", "checkName"}
    /\ Fields.review = {"enabled", "provider", "inline", "posting", "prompt",
                        "playbook", "adapter", "model", "effort", "codexModel"}
    /\ Fields.commit = {"config"}
    /\ Fields.sentinel = SentinelFields
    /\ Fields.checkpoint = CheckpointFields
  BY DEF Fields

LEMMA MergeFields ==
    ASSUME NEW r, NEW p, IsComplete(r),
           p = [s \in Sections |-> p[s]], \A s \in Sections : Partial(p[s], Fields[s])
    PROVE  /\ Merge(r, p) = [s \in Sections |-> Merge(r, p)[s]]
           /\ \A s \in Sections :
                 /\ Merge(r, p)[s] = [f \in Fields[s] |-> Merge(r, p)[s][f]]
                 /\ \A f \in Fields[s] :
                       Merge(r, p)[s][f] = IF f \in DOMAIN p[s] THEN p[s][f] ELSE r[s][f]
  <1>1. \A s \in Sections : Merge(r, p)[s] = Overlay(p[s], r[s])
    BY DEF Merge
  <1>2. ASSUME NEW s \in Sections
        PROVE  DOMAIN p[s] \cup DOMAIN r[s] = Fields[s]
    BY DEF IsComplete, Partial
  <1>3. ASSUME NEW s \in Sections
        PROVE  Overlay(p[s], r[s]) = [f \in Fields[s] |-> IF f \in DOMAIN p[s] THEN p[s][f] ELSE r[s][f]]
    BY <1>2 DEF Overlay
  <1> QED
    BY <1>1, <1>3 DEF Merge

LEMMA MergeValue ==
    ASSUME NEW r, NEW p, IsComplete(r),
           p = [s \in Sections |-> p[s]], \A s \in Sections : Partial(p[s], Fields[s]),
           NEW s \in Sections, NEW f \in Fields[s]
    PROVE  Merge(r, p)[s][f] = IF f \in DOMAIN p[s] THEN p[s][f] ELSE r[s][f]
  <1> DEFINE m == Merge(r, p)
  <1>1. \A t \in Sections :
           /\ m[t] = [g \in Fields[t] |-> m[t][g]]
           /\ \A g \in Fields[t] : m[t][g] = IF g \in DOMAIN p[t] THEN p[t][g] ELSE r[t][g]
    BY MergeFields
  <1> HIDE DEF m
  <1> QED
    BY <1>1 DEF m

(* A settled record, or a blank one, merged with a patch.                    *)
LEMMA MergedIsMerged ==
    ASSUME NEW r, NEW p, IsMerged(r), IsPatch(p), ForUs(p)
    PROVE  IsMerged(Merge(r, p))
  <1> DEFINE m == Merge(r, p)
  <1>1. /\ m = [s \in Sections |-> m[s]]
        /\ \A s \in Sections :
              /\ m[s] = [f \in Fields[s] |-> m[s][f]]
              /\ \A f \in Fields[s] : m[s][f] = IF f \in DOMAIN p[s] THEN p[s][f] ELSE r[s][f]
    BY MergeFields DEF IsMerged, IsPatch
  <1> HIDE DEF m
  <1>2. {"basics", "preview", "review"} \subseteq Sections
    BY DEF Sections
  <1>3. \A f \in Fields.preview :
           m.preview[f] = IF f \in DOMAIN p.preview THEN p.preview[f] ELSE r.preview[f]
    BY <1>1, <1>2
  <1>4. {"adapter", "provider", "config", "checkName"} = Fields.preview
    BY FieldsOf
  <1>5. /\ {"adapter", "provider"} \subseteq DOMAIN p.preview \/ {"adapter", "provider"} \cap DOMAIN p.preview = {}
        /\ {"config", "checkName"} \subseteq DOMAIN p.preview \/ {"config", "checkName"} \cap DOMAIN p.preview = {}
    BY DEF IsPatch, PreviewPairs
  <1>6. NamesAgree(m.preview) /\ m.preview.config = [check |-> m.preview.config.check, recipe |-> m.preview.config.recipe]
    <2>1. CASE "adapter" \in DOMAIN p.preview /\ "config" \in DOMAIN p.preview
      BY <2>1, <1>3, <1>4, <1>5 DEF IsPatch, NamesAgree
    <2>2. CASE "adapter" \notin DOMAIN p.preview /\ "config" \in DOMAIN p.preview
      BY <2>2, <1>3, <1>4, <1>5 DEF IsPatch, NamesAgree, IsMerged
    <2>3. CASE "adapter" \in DOMAIN p.preview /\ "config" \notin DOMAIN p.preview
      BY <2>3, <1>3, <1>4, <1>5 DEF IsPatch, NamesAgree, IsMerged, IsComplete
    <2>4. CASE "adapter" \notin DOMAIN p.preview /\ "config" \notin DOMAIN p.preview
      BY <2>4, <1>3, <1>4, <1>5 DEF IsPatch, NamesAgree, IsMerged, IsComplete
    <2> QED  BY <2>1, <2>2, <2>3, <2>4
  <1>7. m.basics.tenant = IF "tenant" \in DOMAIN p.basics THEN p.basics.tenant ELSE r.basics.tenant
    BY <1>1, <1>2, FieldsOf
  <1>8. m.basics.tenant \in {Unset, "ours"}
    BY <1>7 DEF ForUs, Given, IsMerged
  <1>9. m.review.playbook = IF "playbook" \in DOMAIN p.review THEN p.review.playbook ELSE r.review.playbook
    BY <1>1, <1>2, FieldsOf
  <1>10. m.review.playbook \in Playbooks \cup {Unset}
    BY <1>9 DEF IsPatch, Given, IsMerged
  <1> QED
    BY <1>1, <1>6, <1>8, <1>10 DEF IsMerged, IsComplete, m

LEMMA BlankIsMerged == IsMerged(Blank)
  <1>1. \A s \in Sections : \A f \in Fields[s] :
           Blank[s][f] = IF <<s, f>> = <<"preview", "config">> THEN NoConfig ELSE Unset
    BY DEF Blank
  <1>2. {"basics", "preview", "review"} \subseteq Sections
    BY DEF Sections
  <1>3. /\ Blank.preview.config = NoConfig /\ Blank.preview.provider = Unset
        /\ Blank.preview.adapter = Unset /\ Blank.preview.checkName = Unset
    BY <1>1, <1>2, FieldsOf
  <1>4. Blank.basics.tenant = Unset /\ Blank.review.playbook = Unset
    BY <1>1, <1>2, FieldsOf
  <1>5. IsComplete(Blank)
    BY <1>3 DEF IsComplete, Blank, NoConfig
  <1> QED
    BY <1>3, <1>4, <1>5 DEF IsMerged, NamesAgree, NoConfig, Unset

(* What BuildRepo makes of each section.                                     *)
LEMMA BuildSections ==
    ASSUME NEW r, IsComplete(r)
    PROVE  LET b == BuildRepo(r) IN
           /\ b = [s \in Sections |-> b[s]]
           /\ b.basics = [tenant |-> FirstOf(r.basics.tenant, "ours"),
                          scm |-> IF r.basics.scm = "gitlab" THEN "gitlab" ELSE "github",
                          enabled |-> FirstOf(r.basics.enabled, "yes"),
                          defaultBranch |-> FirstOf(r.basics.defaultBranch, "main")]
           /\ b.llm = r.llm /\ b.commit = r.commit
           /\ b.preview = NormalizePreview(r.preview)
           /\ b.review = BuildReview(r.review, r.basics.scm)
           /\ b.sentinel = NormalizeSentinel(r.sentinel)
           /\ b.checkpoint = NormalizeCheckpoint(r.checkpoint)
  <1> DEFINE new == BuildReview(r.review, r.basics.scm)
             one == [r EXCEPT !.basics.enabled = FirstOf(@, "yes"),
                              !.basics.defaultBranch = FirstOf(@, "main"), !.review = new]
             b == NormalizeRepo(one)
  <1>0. BuildRepo(r) = b
    BY DEF BuildRepo
  <1>1. /\ DOMAIN r = Sections /\ DOMAIN r.basics = Fields.basics
        /\ r.basics = [f \in Fields.basics |-> r.basics[f]]
    BY DEF IsComplete, Sections
  <1> HIDE DEF new
  <1>2. /\ one = [s \in Sections |-> one[s]]
        /\ one.llm = r.llm /\ one.commit = r.commit /\ one.preview = r.preview
        /\ one.review = new /\ one.sentinel = r.sentinel /\ one.checkpoint = r.checkpoint
        /\ DOMAIN one.basics = Fields.basics
        /\ one.basics = [f \in Fields.basics |-> one.basics[f]]
    BY <1>1 DEF Sections
  <1>3. /\ one.basics.enabled = FirstOf(r.basics.enabled, "yes")
        /\ one.basics.defaultBranch = FirstOf(r.basics.defaultBranch, "main")
        /\ one.basics.tenant = r.basics.tenant /\ one.basics.scm = r.basics.scm
    BY <1>1, FieldsOf DEF Sections
  <1> HIDE DEF one
  <1>4. /\ b = [s \in Sections |-> b[s]]
        /\ b.llm = one.llm /\ b.commit = one.commit
        /\ b.preview = NormalizePreview(one.preview)
        /\ b.review = one.review
        /\ b.sentinel = NormalizeSentinel(one.sentinel)
        /\ b.checkpoint = NormalizeCheckpoint(one.checkpoint)
    BY <1>2 DEF NormalizeRepo, Sections
  <1>5. /\ b.basics = [f \in Fields.basics |-> b.basics[f]]
        /\ b.basics.tenant = FirstOf(one.basics.tenant, "ours")
        /\ b.basics.scm = IF one.basics.scm = "gitlab" THEN "gitlab" ELSE "github"
        /\ b.basics.enabled = one.basics.enabled
        /\ b.basics.defaultBranch = one.basics.defaultBranch
    BY <1>2, FieldsOf DEF NormalizeRepo, Sections
  <1> HIDE DEF b
  <1>6. b.basics = [tenant |-> FirstOf(r.basics.tenant, "ours"),
                    scm |-> IF r.basics.scm = "gitlab" THEN "gitlab" ELSE "github",
                    enabled |-> FirstOf(r.basics.enabled, "yes"),
                    defaultBranch |-> FirstOf(r.basics.defaultBranch, "main")]
    BY <1>3, <1>5, FieldsOf
  <1> QED
    BY <1>0, <1>2, <1>4, <1>6 DEF new

(* Whatever was merged, what is built of it is settled ...                   *)
LEMMA BuiltIsSettled ==
    ASSUME NEW r, IsMerged(r)
    PROVE  IsSettled(BuildRepo(r))
  <1> DEFINE b == BuildRepo(r)
  <1>0. IsComplete(r)
    BY DEF IsMerged
  <1>1. /\ b = [s \in Sections |-> b[s]]
        /\ b.basics = [tenant |-> FirstOf(r.basics.tenant, "ours"),
                       scm |-> IF r.basics.scm = "gitlab" THEN "gitlab" ELSE "github",
                       enabled |-> FirstOf(r.basics.enabled, "yes"),
                       defaultBranch |-> FirstOf(r.basics.defaultBranch, "main")]
        /\ b.llm = r.llm /\ b.commit = r.commit
        /\ b.preview = NormalizePreview(r.preview)
        /\ b.review = BuildReview(r.review, r.basics.scm)
        /\ b.sentinel = NormalizeSentinel(r.sentinel)
        /\ b.checkpoint = NormalizeCheckpoint(r.checkpoint)
    BY <1>0, BuildSections
  <1> HIDE DEF b
  <1>2. b.basics = [f \in Fields.basics |-> b.basics[f]]
    BY <1>1, FieldsOf
  <1>3. b.llm = [f \in Fields.llm |-> b.llm[f]] /\ b.commit = [f \in Fields.commit |-> b.commit[f]]
    BY <1>0, <1>1 DEF IsComplete, Sections
  <1>4. /\ b.preview = [f \in Fields.preview |-> b.preview[f]]
        /\ b.preview.config = [check |-> b.preview.config.check, recipe |-> b.preview.config.recipe]
    <2>1. b.preview = [f \in Fields.preview |-> b.preview[f]]
      BY <1>1, FieldsOf DEF NormalizePreview
    <2>2. r.preview.config = [check |-> r.preview.config.check, recipe |-> r.preview.config.recipe]
      BY <1>0 DEF IsComplete
    <2>3. b.preview.config = [r.preview.config EXCEPT !.check = FirstOf(r.preview.config.check, r.preview.checkName)]
      BY <1>1 DEF NormalizePreview
    <2> QED  BY <2>1, <2>2, <2>3
  <1>5. NamesAgree(b.preview) /\ b.preview.adapter # Unset
    <2>1. NamesAgree(r.preview)
      BY DEF IsMerged
    <2>2. DOMAIN r.preview = Fields.preview
      BY <1>0 DEF IsComplete, Sections
    <2>3. /\ r.preview.config = [check |-> r.preview.config.check, recipe |-> r.preview.config.recipe]
      BY <1>0 DEF IsComplete
    <2>4. PreviewAdapter(r.preview) = r.preview.adapter
      BY <2>1, <2>2, FieldsOf DEF NamesAgree, PreviewAdapter, Given, FirstOf, Unset
    <2>5. /\ b.preview.adapter = FirstOf(r.preview.adapter, "cloudflare_checks")
          /\ b.preview.provider = FirstOf(r.preview.provider,
                IF b.preview.adapter = "cloudflare_checks" THEN "cloudflare" ELSE Unset)
          /\ b.preview.config.check = FirstOf(r.preview.config.check, r.preview.checkName)
          /\ b.preview.checkName = FirstOf(r.preview.checkName, b.preview.config.check)
      BY <1>1, <2>3, <2>4 DEF NormalizePreview
    <2> QED  BY <2>1, <2>5 DEF NamesAgree, FirstOf, Unset
  <1>6. /\ b.review = [f \in Fields.review |-> b.review[f]]
        /\ \A f \in {"enabled", "provider", "inline", "posting"} : b.review[f] # Unset
        /\ b.review.playbook = r.review.playbook
    <2>1. r.review = [f \in Fields.review |-> r.review[f]]
      BY <1>0 DEF IsComplete, Sections
    <2>2. b.review = BuildReview(r.review, r.basics.scm)
      BY <1>1
    <2> DEFINE new == BuildReview(r.review, r.basics.scm)
    <2>3. /\ DOMAIN new = Fields.review
          /\ \A f \in Fields.review \ {"enabled", "provider", "inline", "posting"} :
                new[f] = r.review[f]
      BY <2>1 DEF BuildReview
    <2>4. \A f \in {"enabled", "provider", "inline", "posting"} : new[f] # Unset
      BY <2>1, FieldsOf DEF BuildReview, DefaultProvider, FirstOf, Unset
    <2>5. new = [f \in Fields.review |-> new[f]]
      BY <2>1, <2>3 DEF BuildReview
    <2> HIDE DEF new
    <2> QED  BY <2>2, <2>3, <2>4, <2>5, FieldsOf DEF new
  <1>7. /\ b.sentinel = [f \in Fields.sentinel |-> b.sentinel[f]]
        /\ \A f \in SentinelFields : b.sentinel[f] = FirstOf(b.sentinel[f], DefaultSentinel[f])
    <2>1. DOMAIN DefaultSentinel = SentinelFields
      BY DEF DefaultSentinel
    <2> QED  BY <1>1, <2>1, FieldsOf DEF NormalizeSentinel, Filled, FirstOf
  <1>8. /\ b.checkpoint = [f \in Fields.checkpoint |-> b.checkpoint[f]]
        /\ \A f \in CheckpointFields : b.checkpoint[f] = FirstOf(b.checkpoint[f], DefaultCheckpoint[f])
    <2>1. DOMAIN DefaultCheckpoint = CheckpointFields
      BY DEF DefaultCheckpoint
    <2> QED  BY <1>1, <2>1, FieldsOf DEF NormalizeCheckpoint, Filled, FirstOf
  <1>9. /\ b.basics.tenant = "ours" /\ b.basics.scm \in {"gitlab", "github"}
        /\ b.basics.enabled # Unset /\ b.basics.defaultBranch # Unset
    BY <1>1 DEF IsMerged, FirstOf, Unset
  <1>10. \A s \in Sections : b[s] = [f \in Fields[s] |-> b[s][f]]
    BY <1>2, <1>3, <1>4, <1>6, <1>7, <1>8 DEF Sections
  <1>11. b.review.playbook \in Playbooks \cup {Unset}
    BY <1>6 DEF IsMerged
  <1> QED
    BY <1>1, <1>4, <1>5, <1>6, <1>7, <1>8, <1>9, <1>10, <1>11 DEF IsSettled, IsMerged, IsComplete, b

(* ... and what is settled is not changed by building it again.              *)
LEMMA SettledIsNormal ==
    ASSUME NEW r, IsSettled(r)
    PROVE  BuildRepo(r) = r /\ NormalizeRepo(r) = r
  <1> DEFINE b == BuildRepo(r)
  <1>0. IsComplete(r) /\ r = [s \in Sections |-> r[s]] /\ \A s \in Sections : r[s] = [f \in Fields[s] |-> r[s][f]]
    BY DEF IsSettled, IsMerged, IsComplete
  <1>1. /\ b = [s \in Sections |-> b[s]]
        /\ b.basics = [tenant |-> FirstOf(r.basics.tenant, "ours"),
                       scm |-> IF r.basics.scm = "gitlab" THEN "gitlab" ELSE "github",
                       enabled |-> FirstOf(r.basics.enabled, "yes"),
                       defaultBranch |-> FirstOf(r.basics.defaultBranch, "main")]
        /\ b.llm = r.llm /\ b.commit = r.commit
        /\ b.preview = NormalizePreview(r.preview)
        /\ b.review = BuildReview(r.review, r.basics.scm)
        /\ b.sentinel = NormalizeSentinel(r.sentinel)
        /\ b.checkpoint = NormalizeCheckpoint(r.checkpoint)
    BY <1>0, BuildSections
  <1> HIDE DEF b
  <1>2. b.basics = r.basics
    <2>1. r.basics = [f \in Fields.basics |-> r.basics[f]]
      BY <1>0 DEF Sections
    <2> QED  BY <1>1, <2>1, FieldsOf DEF IsSettled, FirstOf, Unset
  <1>3. NormalizePreview(r.preview) = r.preview
    <2>1. /\ r.preview = [f \in Fields.preview |-> r.preview[f]]
          /\ r.preview.config = [check |-> r.preview.config.check, recipe |-> r.preview.config.recipe]
      BY <1>0 DEF Sections, IsComplete
    <2>2. NamesAgree(r.preview) /\ r.preview.adapter # Unset
      BY DEF IsSettled, IsMerged
    <2>3. PreviewAdapter(r.preview) = r.preview.adapter
      BY <2>1, <2>2, FieldsOf DEF PreviewAdapter, Given, FirstOf
    <2>4. /\ FirstOf(r.preview.adapter, "cloudflare_checks") = r.preview.adapter
          /\ FirstOf(r.preview.provider,
                IF r.preview.adapter = "cloudflare_checks" THEN "cloudflare" ELSE Unset) = r.preview.provider
          /\ FirstOf(r.preview.config.check, r.preview.checkName) = r.preview.config.check
          /\ FirstOf(r.preview.checkName, r.preview.config.check) = r.preview.checkName
      BY <2>2 DEF NamesAgree, FirstOf, Unset
    <2>5. [r.preview.config EXCEPT !.check = r.preview.config.check] = r.preview.config
      BY <2>1
    <2>6. NormalizePreview(r.preview) = [adapter |-> r.preview.adapter, provider |-> r.preview.provider,
                                         config |-> r.preview.config, checkName |-> r.preview.checkName]
      BY <2>3, <2>4, <2>5 DEF NormalizePreview
    <2> QED  BY <2>1, <2>6, FieldsOf
  <1>4. b.review = r.review
    <2>1. r.review = [f \in Fields.review |-> r.review[f]]
      BY <1>0 DEF Sections
    <2>2. \A f \in {"enabled", "provider", "inline", "posting"} : r.review[f] # Unset
      BY DEF IsSettled
    <2>3. /\ FirstOf(r.review.enabled, "no") = r.review.enabled
          /\ \A x : FirstOf(r.review.provider, x) = r.review.provider
          /\ FirstOf(r.review.inline, "no") = r.review.inline
          /\ FirstOf(r.review.posting, "platform") = r.review.posting
      BY <2>2 DEF FirstOf
    <2>4. b.review = [r.review EXCEPT !.enabled = r.review.enabled, !.provider = r.review.provider,
                                      !.inline = r.review.inline, !.posting = r.review.posting]
      BY <1>1, <2>3 DEF BuildReview
    <2> QED  BY <2>1, <2>4
  <1>5. NormalizeSentinel(r.sentinel) = r.sentinel
    <2>1. DOMAIN DefaultSentinel = SentinelFields /\ r.sentinel = [f \in SentinelFields |-> r.sentinel[f]]
      BY <1>0, FieldsOf DEF DefaultSentinel, Sections
    <2>2. \A f \in SentinelFields : r.sentinel[f] = FirstOf(Given(r.sentinel, f), DefaultSentinel[f])
      BY <2>1 DEF IsSettled, Given
    <2> QED  BY <2>1, <2>2 DEF NormalizeSentinel, Filled
  <1>6. NormalizeCheckpoint(r.checkpoint) = r.checkpoint
    <2>1. DOMAIN DefaultCheckpoint = CheckpointFields /\ r.checkpoint = [f \in CheckpointFields |-> r.checkpoint[f]]
      BY <1>0, FieldsOf DEF DefaultCheckpoint, Sections
    <2>2. \A f \in CheckpointFields : r.checkpoint[f] = FirstOf(Given(r.checkpoint, f), DefaultCheckpoint[f])
      BY <2>1 DEF IsSettled, Given
    <2> QED  BY <2>1, <2>2 DEF NormalizeCheckpoint, Filled
  <1>7. b = r
    <2>1. \A s \in Sections : b[s] = r[s]
      BY <1>1, <1>2, <1>3, <1>4, <1>5, <1>6 DEF Sections
    <2> QED  BY <1>0, <1>1, <2>1
  <1>8. NormalizeRepo(r) = r
    <2>1. /\ FirstOf(r.basics.tenant, "ours") = r.basics.tenant
          /\ (IF r.basics.scm = "gitlab" THEN "gitlab" ELSE "github") = r.basics.scm
      BY DEF IsSettled, FirstOf
    <2>2. r.basics = [f \in Fields.basics |-> r.basics[f]]
      BY <1>0 DEF Sections
    <2> DEFINE n == NormalizeRepo(r)
    <2>3. /\ n = [s \in Sections |-> n[s]]
          /\ n.llm = r.llm /\ n.commit = r.commit /\ n.review = r.review
          /\ n.preview = r.preview /\ n.sentinel = r.sentinel /\ n.checkpoint = r.checkpoint
      BY <1>0, <1>3, <1>5, <1>6 DEF NormalizeRepo, Sections
    <2>4. n.basics = [r.basics EXCEPT !.tenant = r.basics.tenant, !.scm = r.basics.scm]
      BY <1>0, <2>1 DEF NormalizeRepo, Sections
    <2>5. n.basics = r.basics
      BY <2>2, <2>4
    <2> HIDE DEF n
    <2>6. \A s \in Sections : n[s] = r[s]
      BY <2>3, <2>5 DEF Sections
    <2> QED  BY <1>0, <2>3, <2>6 DEF n
  <1> QED
    BY <1>7, <1>8 DEF b

-----------------------------------------------------------------------------
(* What the parsers make of a body is a patch.                               *)

LEMMA ReadLlmFits ==
    ASSUME NEW b, Partial(b, BodyFields.llm), LlmIsValid(b)
    PROVE  LET p == ReadLlm(b) IN
           /\ Partial(p, Fields.llm)
           /\ "model" \in DOMAIN p => "adapter" \in DOMAIN p /\ TakesModel(p.adapter, p.model)
  <1> DEFINE read == [adapter |-> EffectiveAdapter(b), model |-> EffectiveModel(b),
                      effort |-> Given(b, "effort")]
             named == (IF DOMAIN b = {} THEN {} ELSE {"adapter"})
                        \cup (IF {"model", "codexModel"} \cap DOMAIN b = {} THEN {} ELSE {"model"})
                        \cup ({"effort"} \cap DOMAIN b)
  <1>1. ReadLlm(b) = [f \in named |-> read[f]]
    BY DEF ReadLlm, Restrict
  <1>2. named \subseteq Fields.llm
    BY FieldsOf
  <1>3. "model" \in named => "adapter" \in named
    OBVIOUS
  <1>4. TakesModel(EffectiveAdapter(b), EffectiveModel(b))
    BY DEF LlmIsValid, TakesModel, FirstOf
  <1>5. "model" \in named => read.adapter = EffectiveAdapter(b) /\ read.model = EffectiveModel(b)
    OBVIOUS
  <1> HIDE DEF named, read
  <1>6. "model" \in named => ReadLlm(b).adapter = EffectiveAdapter(b) /\ ReadLlm(b).model = EffectiveModel(b)
    BY <1>1, <1>3, <1>5
  <1> QED
    BY <1>1, <1>2, <1>3, <1>4, <1>6 DEF Partial

LEMMA ReadReviewFits ==
    ASSUME NEW b, Partial(b, Fields.review), LlmIsValid(b)
    PROVE  LET p == ReadReview(b) IN
           /\ Partial(p, Fields.review)
           /\ Given(p, "playbook") = Given(b, "playbook")
           /\ "model" \in DOMAIN p => TakesModel(Given(p, "adapter"), p.model)
  <1> DEFINE adapter == EffectiveAdapter(b)
             llm == [adapter |-> adapter, model |-> EffectiveModel(b),
                     codexModel |-> IF adapter \in {Unset, "codex"} THEN EffectiveModel(b) ELSE Unset]
             read == Overlay(llm, b)
             named == Named(read) \cup ({"playbook"} \cap DOMAIN b)
             p == ReadReview(b)
  <1>1. p = [f \in named |-> read[f]]
    BY DEF ReadReview, Restrict
  <1>2. /\ DOMAIN read = {"adapter", "model", "codexModel"} \cup DOMAIN b
        /\ read.adapter = adapter /\ read.model = EffectiveModel(b)
        /\ "playbook" \in DOMAIN b => read.playbook = b.playbook
    BY DEF Overlay
  <1> HIDE DEF read, llm, p
  <1>3. named \subseteq Fields.review
    BY <1>2, FieldsOf DEF Named, Partial
  <1>4. Partial(p, Fields.review)
    BY <1>1, <1>3 DEF Partial
  <1>5. Given(p, "playbook") = Given(b, "playbook")
    BY <1>1, <1>2 DEF Given, Named
  <1>6. Given(p, "adapter") = adapter
    BY <1>1, <1>2 DEF Given, Named
  <1>7. "model" \in DOMAIN p => p.model = EffectiveModel(b)
    BY <1>1, <1>2
  <1>8. TakesModel(adapter, EffectiveModel(b))
    BY DEF LlmIsValid, TakesModel, FirstOf
  <1> QED
    BY <1>4, <1>5, <1>6, <1>7, <1>8 DEF p

LEMMA ReadPreviewFits ==
    ASSUME NEW b, Partial(b, Fields.preview), PreviewIsValid(b),
           Given(b, "provider") \in {Unset, "cloudflare"}
    PROVE  LET p == ReadPreview(b) IN
           /\ Partial(p, Fields.preview)
           /\ \A pair \in PreviewPairs : pair \subseteq DOMAIN p \/ pair \cap DOMAIN p = {}
           /\ "adapter" \in DOMAIN p =>
                 /\ p.provider = "cloudflare" <=> p.adapter = "cloudflare_checks"
                 /\ p.provider \in {Unset, "cloudflare"}
           /\ "config" \in DOMAIN p =>
                 /\ p.config = [check |-> p.config.check, recipe |-> p.config.recipe]
                 /\ p.checkName = p.config.check
  <1> DEFINE adapter == PreviewAdapter(b)
             check   == FirstOf(Config(b).check, Given(b, "checkName"))
             provider == FirstOf(Given(b, "provider"),
                                 IF adapter = "cloudflare_checks" THEN "cloudflare" ELSE Unset)
             conf == [check |-> check, recipe |-> Config(b).recipe]
             read == [adapter |-> adapter, provider |-> provider, config |-> conf,
                      checkName |-> check]
             named == UNION {pair \in PreviewPairs : pair \cap DOMAIN b # {}}
             p == ReadPreview(b)
  <1>1. p = [f \in named |-> read[f]]
    BY DEF ReadPreview, Restrict
  <1>2. /\ named \subseteq Fields.preview
        /\ \A pair \in PreviewPairs : pair \subseteq named \/ pair \cap named = {}
    BY FieldsOf DEF PreviewPairs
  <1>3. "adapter" \in named => "provider" \in named
    BY <1>2 DEF PreviewPairs
  <1>4. "config" \in named => "checkName" \in named
    BY <1>2 DEF PreviewPairs
  <1>5. provider = "cloudflare" <=> adapter = "cloudflare_checks"
    BY DEF PreviewIsValid, FirstOf, Unset
  <1>6. provider \in {Unset, "cloudflare"}
    BY DEF FirstOf
  <1> HIDE DEF named, adapter, check, provider, p
  <1>7. "adapter" \in named => p.adapter = adapter /\ p.provider = provider
    BY <1>1, <1>3
  <1>8. "config" \in named => p.config = conf /\ p.checkName = check
    BY <1>1, <1>4
  <1>9. Partial(p, Fields.preview) /\ DOMAIN p = named
    BY <1>1, <1>2 DEF Partial
  <1> QED
    BY <1>2, <1>5, <1>6, <1>7, <1>8, <1>9 DEF p

LEMMA ReadBodyIsPatch ==
    ASSUME NEW b, IsBody(b), IsValid(b)
    PROVE  LET p == ReadBody(b) IN
           IsPatch(p) /\ p.basics = b.basics /\ p.sentinel = b.sentinel
  <1> DEFINE p == ReadBody(b)
  <1>1. /\ b = [s \in Sections |-> b[s]]
        /\ \A s \in Sections : Partial(b[s], BodyFields[s])
    BY DEF IsBody
  <1>2. /\ p = [s \in Sections |-> p[s]]
        /\ p.basics = b.basics /\ p.commit = b.commit /\ p.sentinel = b.sentinel
        /\ p.checkpoint = b.checkpoint /\ p.llm = ReadLlm(b.llm)
        /\ p.preview = ReadPreview(b.preview) /\ p.review = ReadReview(b.review)
    BY <1>1 DEF ReadBody, Sections
  <1> HIDE DEF p
  <1>3. \A s \in Sections \ {"llm"} : BodyFields[s] = Fields[s]
    BY DEF BodyFields, Sections, Fields
  <1>4. /\ Partial(b.llm, BodyFields.llm) /\ Partial(b.preview, Fields.preview)
        /\ Partial(b.review, Fields.review)
    BY <1>1, <1>3 DEF Sections
  <1>5. LlmIsValid(b.llm) /\ LlmIsValid(b.review) /\ PreviewIsValid(b.preview)
    BY DEF IsValid
  <1>6. /\ Partial(p.llm, Fields.llm)
        /\ "model" \in DOMAIN p.llm =>
              "adapter" \in DOMAIN p.llm /\ TakesModel(p.llm.adapter, p.llm.model)
    BY <1>2, <1>4, <1>5, ReadLlmFits
  <1>7. /\ Partial(p.review, Fields.review)
        /\ Given(p.review, "playbook") = Given(b.review, "playbook")
        /\ "model" \in DOMAIN p.review => TakesModel(Given(p.review, "adapter"), p.review.model)
    BY <1>2, <1>4, <1>5, ReadReviewFits
  <1>8. /\ Partial(p.preview, Fields.preview)
        /\ \A pair \in PreviewPairs : pair \subseteq DOMAIN p.preview \/ pair \cap DOMAIN p.preview = {}
        /\ "adapter" \in DOMAIN p.preview =>
              /\ p.preview.provider = "cloudflare" <=> p.preview.adapter = "cloudflare_checks"
              /\ p.preview.provider \in {Unset, "cloudflare"}
        /\ "config" \in DOMAIN p.preview =>
              /\ p.preview.config = [check |-> p.preview.config.check, recipe |-> p.preview.config.recipe]
              /\ p.preview.checkName = p.preview.config.check
    BY <1>2, <1>4, <1>5, ReadPreviewFits DEF IsBody
  <1>9. \A s \in Sections : Partial(p[s], Fields[s])
    <2>1. \A s \in {"basics", "commit", "sentinel", "checkpoint"} : Partial(p[s], Fields[s])
      BY <1>1, <1>2, <1>3 DEF Sections
    <2> QED  BY <1>6, <1>7, <1>8, <2>1 DEF Sections
  <1> QED
    BY <1>2, <1>6, <1>7, <1>8, <1>9 DEF IsPatch, IsBody, p

(* Of a patch, only the section of the reviews is touched. *)
LEMMA PatchOfReview ==
    ASSUME NEW p, NEW review, IsPatch(p), Partial(review, Fields.review),
           Given(review, "playbook") \in Playbooks \cup {Unset},
           "model" \in DOMAIN review => TakesModel(Given(review, "adapter"), review.model)
    PROVE  LET n == [p EXCEPT !.review = review] IN
           IsPatch(n) /\ \A s \in Sections \ {"review"} : n[s] = p[s]
  <1> DEFINE n == [p EXCEPT !.review = review]
  <1>1. /\ n = [s \in Sections |-> n[s]] /\ n.review = review
        /\ \A s \in Sections \ {"review"} : n[s] = p[s]
    BY DEF IsPatch, Sections
  <1> HIDE DEF n
  <1>2. n.llm = p.llm /\ n.preview = p.preview
    BY <1>1 DEF Sections
  <1>3. \A s \in Sections : Partial(n[s], Fields[s])
    BY <1>1 DEF IsPatch
  <1> QED
    BY <1>1, <1>2, <1>3 DEF IsPatch, n

(* What a PATCH request asks for, once its body was found valid.             *)
LEMMA ReadPatchIsPatch ==
    ASSUME NEW b, IsBody(b), IsValid(b)
    PROVE  LET p == ReadPatch(b) IN
           IsPatch(p) /\ p.basics = b.basics /\ p.sentinel = b.sentinel
  <1> DEFINE p == ReadBody(b)
             provider == DefaultProvider(Given(b.basics, "scm"))
             review == Overlay([provider |-> provider], p.review)
  <1>1. IsPatch(p) /\ p.basics = b.basics /\ p.sentinel = b.sentinel
    BY ReadBodyIsPatch
  <1>2. ReadPatch(b) \in {p, [p EXCEPT !.review = review]}
    BY DEF ReadPatch
  <1> HIDE DEF p, provider
  <1>3. Partial(p.review, Fields.review)
    BY <1>1 DEF IsPatch, Sections
  <1>4. /\ review = [f \in DOMAIN review |-> review[f]]
        /\ DOMAIN review = {"provider"} \cup DOMAIN p.review
        /\ \A f \in DOMAIN p.review \ {"provider"} : review[f] = p.review[f]
    BY DEF Overlay
  <1> HIDE DEF review
  <1>5. Partial(review, Fields.review)
    BY <1>3, <1>4, FieldsOf DEF Partial
  <1>6. /\ Given(review, "playbook") = Given(p.review, "playbook")
        /\ Given(review, "adapter") = Given(p.review, "adapter")
        /\ "model" \in DOMAIN review => "model" \in DOMAIN p.review /\ review.model = p.review.model
    BY <1>4 DEF Given
  <1>7. /\ IsPatch([p EXCEPT !.review = review])
        /\ \A s \in Sections \ {"review"} : [p EXCEPT !.review = review][s] = p[s]
    <2>1. /\ Given(review, "playbook") \in Playbooks \cup {Unset}
          /\ "model" \in DOMAIN review => TakesModel(Given(review, "adapter"), review.model)
      BY <1>1, <1>6 DEF IsPatch
    <2> QED  BY <1>1, <1>5, <2>1, PatchOfReview
  <1> QED
    BY <1>1, <1>2, <1>7 DEF Sections

(* What a creation asks for.                                                 *)
LEMMA ReadCreateIsPatch ==
    ASSUME NEW b, IsBody(b), IsValid(b)
    PROVE  LET p == ReadCreate(b) IN IsPatch(p) /\ p.basics = b.basics
  <1> DEFINE p == ReadBody(b)
             review == Restrict(p.review, DOMAIN p.review \ {"playbook"})
  <1>1. IsPatch(p) /\ p.basics = b.basics
    BY ReadBodyIsPatch
  <1>2. ReadCreate(b) = [p EXCEPT !.review = review]
    BY DEF ReadCreate
  <1> HIDE DEF p
  <1>3. Partial(p.review, Fields.review)
    BY <1>1 DEF IsPatch, Sections
  <1>4. /\ review = [f \in DOMAIN review |-> review[f]]
        /\ DOMAIN review = DOMAIN p.review \ {"playbook"}
        /\ \A f \in DOMAIN p.review \ {"playbook"} : review[f] = p.review[f]
    BY DEF Restrict
  <1> HIDE DEF review
  <1>5. Partial(review, Fields.review)
    BY <1>3, <1>4 DEF Partial
  <1>6. /\ Given(review, "playbook") = Unset
        /\ Given(review, "adapter") = Given(p.review, "adapter")
        /\ "model" \in DOMAIN review => "model" \in DOMAIN p.review /\ review.model = p.review.model
    BY <1>4 DEF Given
  <1>7. /\ IsPatch([p EXCEPT !.review = review])
        /\ \A s \in Sections \ {"review"} : [p EXCEPT !.review = review][s] = p[s]
    <2>1. /\ Given(review, "playbook") \in Playbooks \cup {Unset}
          /\ "model" \in DOMAIN review => TakesModel(Given(review, "adapter"), review.model)
      BY <1>1, <1>6 DEF IsPatch
    <2> QED  BY <1>1, <1>5, <2>1, PatchOfReview
  <1> QED
    BY <1>1, <1>2, <1>7 DEF Sections

-----------------------------------------------------------------------------
(* What the form sends is a body.                                            *)

FormSections == Sections \ {"checkpoint"}

LEMMA FormOfFields ==
    ASSUME NEW r, IsSettled(r)
    PROVE  /\ FormOf(r) = [s \in FormSections |-> FormOf(r)[s]]
           /\ \A s \in FormSections : DOMAIN FormOf(r)[s] = FormFields[s]
  <1>1. IsComplete(r)
    BY DEF IsSettled, IsMerged
  <1>2. DOMAIN ReviewShown(r.review) = FormFields.review
    BY DEF ReviewShown, Overlay, Restrict, FormFields
  <1>3. /\ FormOf(r).basics = Restrict(r.basics, {"scm", "defaultBranch"})
        /\ FormOf(r).llm = ResolveLlm(r)
        /\ FormOf(r).preview = [adapter |-> r.preview.adapter, check |-> r.preview.config.check,
                                recipe |-> r.preview.config.recipe]
        /\ FormOf(r).review = ReviewShown(r.review)
        /\ FormOf(r).commit = r.commit
        /\ FormOf(r).sentinel = r.sentinel
    BY DEF FormOf
  <1>4. DOMAIN r.commit = {"config"} /\ DOMAIN r.sentinel = SentinelFields
    BY <1>1, FieldsOf DEF IsComplete, Sections
  <1>5. DOMAIN ResolveLlm(r) = {"adapter", "model", "effort"}
    BY DEF ResolveLlm
  <1>6. \A s \in FormSections : DOMAIN FormOf(r)[s] = FormFields[s]
    <2>1. DOMAIN FormOf(r).basics = {"scm", "defaultBranch"}
      BY <1>3 DEF Restrict
    <2>2. DOMAIN FormOf(r).preview = {"adapter", "check", "recipe"}
      BY <1>3
    <2>3. /\ FormFields.basics = {"scm", "defaultBranch"} /\ FormFields.commit = {"config"}
          /\ FormFields.llm = {"adapter", "model", "effort"}
          /\ FormFields.preview = {"adapter", "check", "recipe"}
          /\ FormFields.sentinel = SentinelFields
      BY DEF FormFields
    <2> QED  BY <1>2, <1>3, <1>4, <1>5, <2>1, <2>2, <2>3 DEF FormSections, Sections
  <1>7. FormOf(r) = [s \in FormSections |-> FormOf(r)[s]]
    BY DEF FormOf, FormSections, Sections
  <1> QED
    BY <1>6, <1>7

LEMMA ValueFields ==
    ASSUME NEW seen, NEW typed, IsSettled(seen), IsTyping(typed)
    PROVE  \A s \in FormSections :
              /\ FormValues(seen, typed)[s] = [f \in FormFields[s] |-> FormValues(seen, typed)[s][f]]
              /\ \A f \in FormFields[s] :
                    FormValues(seen, typed)[s][f] = IF f \in DOMAIN typed[s] THEN typed[s][f]
                                       ELSE FormOf(seen)[s][f]
  <1> SUFFICES ASSUME NEW s \in FormSections
               PROVE  /\ FormValues(seen, typed)[s] = [f \in FormFields[s] |-> FormValues(seen, typed)[s][f]]
                      /\ \A f \in FormFields[s] :
                            FormValues(seen, typed)[s][f] = IF f \in DOMAIN typed[s] THEN typed[s][f]
                                               ELSE FormOf(seen)[s][f]
    OBVIOUS
  <1>1. DOMAIN FormOf(seen) = FormSections /\ DOMAIN FormOf(seen)[s] = FormFields[s]
    BY FormOfFields
  <1>2. DOMAIN typed[s] \subseteq FormFields[s]
    BY DEF IsTyping, Partial, FormSections
  <1>3. FormValues(seen, typed)[s] = Overlay(typed[s], FormOf(seen)[s])
    BY <1>1 DEF FormValues
  <1>4. DOMAIN typed[s] \cup DOMAIN FormOf(seen)[s] = FormFields[s]
    BY <1>1, <1>2
  <1> QED
    BY <1>3, <1>4 DEF Overlay

(* The body of the form, whatever was typed over whatever it shows.          *)
LEMMA PayloadIsBody ==
    ASSUME NEW seen, NEW typed, IsSettled(seen), IsTyping(typed)
    PROVE  LET b == [Payload(FormValues(seen, typed)) EXCEPT !.sentinel = Empty] IN
           /\ IsBody(b)
           /\ Given(b.basics, "tenant") = Unset
           /\ Partial(Payload(FormValues(seen, typed)).sentinel, SentinelFields)
           /\ \A s \in Sections \ {"sentinel"} : b[s] = Payload(FormValues(seen, typed))[s]
  <1> DEFINE v == FormValues(seen, typed)
             conf == PreviewPayload(v.preview)
             tag == IF v.sentinel.globalMode = "yes" THEN Unset ELSE v.sentinel.groupTag
             b == Payload(v)
             n == [b EXCEPT !.sentinel = Empty]
             names == {"adapter"} \cup (IF conf = NoConfig THEN {} ELSE {"config"})
                        \cup (IF v.preview.check = Unset THEN {} ELSE {"checkName"})
             preview == [adapter |-> v.preview.adapter, config |-> conf,
                         checkName |-> v.preview.check]
             sent == Restrict(v.review, Named(v.review) \cup {"playbook"})
             tagged == [v.sentinel EXCEPT !.groupTag = tag]
  <1>0. \A s \in FormSections : v[s] = [f \in FormFields[s] |-> v[s][f]]
    BY ValueFields
  <1>a. {"basics", "llm", "preview", "review", "commit", "sentinel"} = FormSections
    BY DEF FormSections, Sections
  <1>b. v.review.playbook \in Playbooks \cup {Unset}
    <2>1. v.review.playbook = IF "playbook" \in DOMAIN typed.review THEN typed.review.playbook
                              ELSE FormOf(seen).review.playbook
      <3>1. "review" \in FormSections /\ "playbook" \in FormFields.review
        BY <1>a DEF FormFields
      <3> HIDE DEF v
      <3>2. \A s \in FormSections :
               /\ v[s] = [f \in FormFields[s] |-> v[s][f]]
               /\ \A f \in FormFields[s] :
                     v[s][f] = IF f \in DOMAIN typed[s] THEN typed[s][f] ELSE FormOf(seen)[s][f]
        BY ValueFields DEF v
      <3> QED  BY <3>1, <3>2
    <2>2. FormOf(seen).review.playbook = seen.review.playbook
      BY DEF FormOf, ReviewShown, Overlay, Restrict
    <2> QED  BY <2>1, <2>2 DEF IsTyping, Given, IsSettled, IsMerged
  <1> HIDE DEF v
  <1>1. /\ b = [s \in Sections |-> b[s]]
        /\ b.basics = Overlay([enabled |-> "yes"], v.basics)
        /\ b.llm = Restrict(v.llm, Named(v.llm))
        /\ b.preview = Restrict(preview, names)
        /\ b.review \in {sent, Overlay(sent, [codexModel |-> v.review.model])}
        /\ b.commit = Restrict(v.commit, Named(v.commit))
        /\ b.sentinel = Restrict(tagged, Named(tagged))
        /\ b.checkpoint = Empty
    BY DEF Payload, Sections
  <1> HIDE DEF b, conf
  <1>2. /\ n = [s \in Sections |-> n[s]]
        /\ n.sentinel = Empty
        /\ \A s \in Sections \ {"sentinel"} : n[s] = b[s]
    BY <1>1 DEF Sections
  <1>3. Partial(b.basics, BodyFields.basics) /\ Given(b.basics, "tenant") = Unset
    <2>1. DOMAIN v.basics = {"scm", "defaultBranch"}
      BY <1>0, <1>a DEF FormFields
    <2> QED  BY <1>1, <2>1 DEF Overlay, Partial, BodyFields, Fields, Given
  <1>4. Partial(b.llm, BodyFields.llm)
    <2>1. DOMAIN v.llm = {"adapter", "model", "effort"}
      BY <1>0, <1>a DEF FormFields
    <2> QED  BY <1>1, <2>1 DEF Restrict, Named, Partial, BodyFields, Fields
  <1>5. /\ Partial(b.preview, BodyFields.preview)
        /\ Given(b.preview, "provider") = Unset
        /\ Config(b.preview) = [check |-> Config(b.preview).check, recipe |-> Config(b.preview).recipe]
    <2>1. b.preview = [f \in names |-> preview[f]] /\ names \subseteq {"adapter", "config", "checkName"}
      BY <1>1 DEF Restrict
    <2>2. "config" \in names => b.preview.config = conf
      BY <2>1
    <2>3. conf = [check |-> conf.check, recipe |-> conf.recipe]
      BY DEF conf, PreviewPayload
    <2>4. Config(b.preview) \in {conf, NoConfig}
      BY <2>1, <2>2 DEF Config
    <2> QED  BY <2>1, <2>3, <2>4 DEF Partial, BodyFields, Fields, Given, NoConfig
  <1>6. Partial(b.review, BodyFields.review) /\ Given(b.review, "playbook") \in Playbooks \cup {Unset}
    <2>1. DOMAIN v.review = FormFields.review
      BY <1>0, <1>a
    <2>2. /\ sent = [f \in DOMAIN sent |-> sent[f]] /\ DOMAIN sent \subseteq FormFields.review
          /\ sent.playbook = v.review.playbook /\ "playbook" \in DOMAIN sent
      BY <2>1 DEF Restrict, Named, FormFields
    <2> HIDE DEF sent
    <2>3. /\ b.review = [f \in DOMAIN b.review |-> b.review[f]]
          /\ DOMAIN b.review \subseteq FormFields.review \cup {"codexModel"}
          /\ b.review.playbook = v.review.playbook /\ "playbook" \in DOMAIN b.review
      BY <1>1, <2>2 DEF Overlay
    <2>4. FormFields.review \cup {"codexModel"} \subseteq BodyFields.review
      BY DEF FormFields, BodyFields, Fields
    <2> QED  BY <1>b, <2>3, <2>4 DEF Partial, Given
  <1>7. Partial(b.commit, BodyFields.commit)
    <2>1. DOMAIN v.commit = {"config"}
      BY <1>0, <1>a DEF FormFields
    <2> QED  BY <1>1, <2>1 DEF Restrict, Named, Partial, BodyFields, Fields
  <1>8. Partial(b.sentinel, SentinelFields)
    <2>1. DOMAIN v.sentinel = SentinelFields
      BY <1>0, <1>a DEF FormFields
    <2> QED  BY <1>1, <2>1 DEF Restrict, Named, Partial
  <1>9. \A x : Partial(Empty, x)
    BY DEF Partial, Empty
  <1>10. \A s \in Sections : Partial(n[s], BodyFields[s])
    BY <1>1, <1>2, <1>3, <1>4, <1>5, <1>6, <1>7, <1>9 DEF Sections
  <1>11. n.basics = b.basics /\ n.preview = b.preview /\ n.review = b.review
    BY <1>2 DEF Sections
  <1>12. IsBody(n)
    BY <1>2, <1>3, <1>5, <1>6, <1>10, <1>11 DEF IsBody
  <1> QED
    BY <1>2, <1>3, <1>8, <1>11, <1>12 DEF b, v

-----------------------------------------------------------------------------
(* What the stores, the form and the requests are to each other. *)
LEMMA UpdateIsSettled ==
    ASSUME NEW r, NEW p, IsSettled(r), IsPatch(p), ForUs(p)
    PROVE  IsSettled(UpdateRepo(r, p))
  <1>1. IsMerged(Merge(r, p))
    BY MergedIsMerged DEF IsSettled
  <1> QED
    BY <1>1, BuiltIsSettled DEF UpdateRepo

LEMMA SettledExists ==
    ASSUME NEW r, IsSettled(r)
    PROVE  r # Empty
  <1>1. DOMAIN r = Sections /\ "basics" \in Sections
    BY DEF IsSettled, IsMerged, IsComplete, Sections
  <1> QED
    BY <1>1, EmptyIsEmpty

(* The playbook of an updated record is the one before or the patch's. *)
LEMMA PlaybookAfter ==
    ASSUME NEW r, NEW p, IsSettled(r), IsPatch(p), ForUs(p)
    PROVE  UpdateRepo(r, p).review.playbook =
              IF "playbook" \in DOMAIN p.review THEN p.review.playbook ELSE r.review.playbook
  <1> DEFINE m == Merge(r, p)
  <1>1. IsComplete(m)
    BY MergedIsMerged DEF IsSettled, IsMerged
  <1>2. m.review.playbook = IF "playbook" \in DOMAIN p.review THEN p.review.playbook ELSE r.review.playbook
    <2>1. "review" \in Sections /\ "playbook" \in Fields.review
      BY FieldsOf DEF Sections
    <2>2. /\ IsComplete(r) /\ p = [s \in Sections |-> p[s]]
          /\ \A s \in Sections : Partial(p[s], Fields[s])
      BY DEF IsSettled, IsMerged, IsPatch
    <2> QED  BY <2>1, <2>2, MergeValue
  <1> HIDE DEF m
  <1>3. BuildRepo(m).review = BuildReview(m.review, m.basics.scm)
    BY <1>1, BuildSections
  <1>4. BuildReview(m.review, m.basics.scm).playbook = m.review.playbook
    BY <1>1, FieldsOf DEF BuildReview, IsComplete, Sections
  <1> QED
    BY <1>2, <1>3, <1>4 DEF UpdateRepo, m

(* Whoever is at work is alone only if the others rest.                      *)
LEMMA OnlyOneAlone ==
    ASSUME SettingsInv, NEW q \in Requests, request[q].at # "idle",
           NEW o \in Requests, o # q
    PROVE  ~request[o].alone
  BY DEF SettingsInv, AloneInv

LEMMA FormStays ==
    ASSUME FormInv, form' = form,
           \A q \in Requests : request'[q].ofForm = request[q].ofForm
    PROVE  FormInv'
  <1>1. {q \in Requests : request'[q].ofForm} = {q \in Requests : request[q].ofForm}
    OBVIOUS
  <1> QED
    BY <1>1 DEF FormInv

(* A form that shows a record again, or none. *)
LEMMA FormChanges ==
    ASSUME FormInv, DOMAIN form' = {"at", "seen", "typed"},
           form'.at \in {"closed", "open", "saving"},
           form'.at # "closed" => IsSettled(form'.seen) /\ IsTyping(form'.typed),
           form'.at = "saving" <=> form.at = "saving",
           \A q \in Requests : request'[q].ofForm = request[q].ofForm
    PROVE  FormInv'
  <1>1. {q \in Requests : request'[q].ofForm} = {q \in Requests : request[q].ofForm}
    OBVIOUS
  <1> QED
    BY <1>1 DEF FormInv

LEMMA NothingIsTyping == IsTyping(Nothing)
  <1>1. \A s \in Sections : Nothing[s] = Empty /\ Partial(Empty, FormFields[s])
    BY DEF Nothing, Partial, Empty
  <1>2. Given(Nothing.review, "playbook") = Unset
    BY EmptyIsEmpty DEF Nothing, Given, Sections
  <1> QED
    BY <1>1, <1>2 DEF IsTyping, Nothing

LEMMA RestingFits ==
    ASSUME NEW books
    PROVE  RequestFits(Resting, books) /\ ~Resting.ofForm /\ ~Resting.alone /\ Resting.at = "idle"
  BY DEF Resting, RequestFits, RequestFields

(* Playbooks are made once, and keep their tenant. *)
Grow == \A p \in Playbooks : playbooks[p].at # "none" =>
           playbooks'[p].at # "none" /\ playbooks'[p].tenant = playbooks[p].tenant

LEMMA FitsLater ==
    ASSUME NEW r, RequestFits(r, playbooks), Grow
    PROVE  RequestFits(r, playbooks')
  <1>1. r.at = "save" /\ NamesPlaybook(r.patch) => r.patch.review.playbook \in Playbooks
    BY DEF RequestFits, IsPatch, NamesPlaybook, Given
  <1> QED
    BY <1>1 DEF RequestFits, Grow

LEMMA DisturbedFits ==
    ASSUME SettingsInv, Grow
    PROVE  LET d == Disturb(request) IN
           /\ DOMAIN d = Requests
           /\ \A q \in Requests :
                 /\ RequestFits(d[q], playbooks')
                 /\ ~d[q].alone
                 /\ d[q].ofForm = request[q].ofForm /\ d[q].at = request[q].at
  <1> SUFFICES ASSUME NEW q \in Requests
               PROVE  LET d == [request[q] EXCEPT !.alone = FALSE] IN
                      /\ RequestFits(d, playbooks') /\ ~d.alone
                      /\ d.ofForm = request[q].ofForm /\ d.at = request[q].at
    BY DEF Disturb
  <1>1. RequestFits(request[q], playbooks')
    BY FitsLater DEF SettingsInv
  <1> QED
    BY <1>1 DEF RequestFits, RequestFields

(* A request begins, or begins its second call. *)
LEMMA Begins ==
    ASSUME SettingsInv, NEW q \in Requests, NEW new, Begin(q, new),
           RequestFits(new, playbooks), new.at # "idle", UNCHANGED playbooks
    PROVE  /\ DOMAIN request' = Requests
           /\ \A o \in Requests : RequestFits(request'[o], playbooks')
           /\ \A o \in Requests \ {q} :
                 /\ ~request'[o].alone
                 /\ request'[o].ofForm = request[o].ofForm /\ request'[o].at = request[o].at
           /\ request'[q] = [new EXCEPT !.alone = (Active \ {q} = {})]
           /\ \A f \in RequestFields \ {"alone"} : request'[q][f] = new[f]
           /\ request'[q].alone => \A o \in Requests \ {q} : request'[o].at = "idle"
  <1> DEFINE d == Disturb(request)
             mine == [new EXCEPT !.alone = (Active \ {q} = {})]
  <1>1. /\ DOMAIN d = Requests
        /\ \A o \in Requests :
              /\ RequestFits(d[o], playbooks')
              /\ ~d[o].alone
              /\ d[o].ofForm = request[o].ofForm /\ d[o].at = request[o].at
    BY DisturbedFits DEF Grow
  <1> HIDE DEF d
  <1>2. request' = [d EXCEPT ![q] = mine]
    BY DEF Begin, d
  <1>3. /\ \A f \in RequestFields \ {"alone"} : mine[f] = new[f]
        /\ mine.alone = (Active \ {q} = {}) /\ DOMAIN mine = RequestFields
    BY DEF RequestFits, RequestFields
  <1>4. RequestFits(mine, playbooks')
    <2>1. (Active \ {q} = {}) \in BOOLEAN
      OBVIOUS
    <2>2. mine.at = new.at /\ mine.patch = new.patch /\ mine.config = new.config /\ mine.named = new.named
          /\ mine.toCopy = new.toCopy /\ mine.toRepo = new.toRepo /\ mine.ofForm = new.ofForm
          /\ mine.next = new.next
      BY <1>3 DEF RequestFields
    <2> HIDE DEF mine
    <2> QED  BY <1>3, <2>1, <2>2 DEF RequestFits
  <1>5. mine.alone => \A o \in Requests \ {q} : request[o].at = "idle"
    BY <1>3 DEF Active
  <1> HIDE DEF mine
  <1> QED
    BY <1>1, <1>2, <1>3, <1>4, <1>5 DEF mine

(* A request ends, and with it a form that was saving. *)
LEMMA EndKeeps ==
    ASSUME SettingsInv, NEW q \in Requests, NEW well \in BOOLEAN, Ends(q, well),
           request[q].at # "idle", UNCHANGED playbooks
    PROVE  /\ DOMAIN request' = Requests
           /\ \A o \in Requests : RequestFits(request'[o], playbooks')
           /\ \A o \in Requests : ~request'[o].alone
           /\ FormInv'
  <1>1. request' = [request EXCEPT ![q] = Resting] /\ DOMAIN request = Requests
    BY DEF Ends, SettingsInv
  <1>2. \A o \in Requests \ {q} : request'[o] = request[o] /\ ~request[o].alone
    BY <1>1, OnlyOneAlone
  <1>3. request'[q] = Resting
    BY <1>1
  <1>4. \A o \in Requests : RequestFits(request'[o], playbooks')
    BY <1>2, <1>3, RestingFits DEF SettingsInv
  <1>5. \A o \in Requests : ~request'[o].alone
    BY <1>2, <1>3, RestingFits
  <1>6. FormInv'
    <2>1. CASE ~request[q].ofForm
      <3>1. \A o \in Requests : request'[o].ofForm = request[o].ofForm
        <4>1. request[q].ofForm = FALSE /\ Resting.ofForm = FALSE
          BY <2>1 DEF SettingsInv, RequestFits, Resting
        <4> QED  BY <1>2, <1>3, <4>1
      <3> QED  BY <2>1, <3>1, FormStays DEF Ends, SettingsInv
    <2>2. CASE request[q].ofForm
      <3>1. form.at = "saving" /\ {r \in Requests : request[r].ofForm} = {q}
        BY <2>2 DEF SettingsInv, FormInv
      <3>2. \A o \in Requests : ~request'[o].ofForm
        BY <1>2, <1>3, <3>1, RestingFits
      <3>3. form' \in {Closed, [form EXCEPT !.at = "open"]}
        BY <2>2 DEF Ends
      <3>4. /\ DOMAIN form' = {"at", "seen", "typed"} /\ form'.at \in {"closed", "open"}
            /\ form'.at = "open" => form'.seen = form.seen /\ form'.typed = form.typed
        BY <3>3 DEF Closed, SettingsInv, FormInv
      <3> QED  BY <3>1, <3>2, <3>4 DEF FormInv, SettingsInv
    <2> QED  BY <2>1, <2>2
  <1> QED
    BY <1>1, <1>4, <1>5, <1>6

(* A request goes on.                                                        *)
LEMMA MoveKeeps ==
    ASSUME SettingsInv, NEW q \in Requests, NEW new, request' = [request EXCEPT ![q] = new],
           request[q].at # "idle", RequestFits(new, playbooks), new.ofForm = request[q].ofForm,
           UNCHANGED <<playbooks, form>>
    PROVE  /\ DOMAIN request' = Requests
           /\ \A o \in Requests : RequestFits(request'[o], playbooks')
           /\ \A o \in Requests \ {q} : ~request'[o].alone /\ request'[o] = request[o]
           /\ request'[q] = new
           /\ FormInv'
  <1>1. DOMAIN request = Requests
    BY DEF SettingsInv
  <1>2. \A o \in Requests \ {q} : request'[o] = request[o] /\ ~request[o].alone
    BY <1>1, OnlyOneAlone
  <1>3. request'[q] = new
    BY <1>1
  <1>4. \A o \in Requests : RequestFits(request'[o], playbooks')
    BY <1>2, <1>3 DEF SettingsInv
  <1>5. FormInv'
    BY <1>2, <1>3, FormStays DEF SettingsInv
  <1> QED
    BY <1>1, <1>2, <1>3, <1>4, <1>5

-----------------------------------------------------------------------------
(* SettingsInv, action by action.                                            *)

LEMMA SettingsInit_Inv == SettingsInit => SettingsInv
  <1> SUFFICES ASSUME SettingsInit PROVE SettingsInv
    OBVIOUS
  <1>1. \A q \in Requests : request[q] = Resting
    BY DEF SettingsInit
  <1>2. \A q \in Requests : RequestFits(request[q], playbooks) /\ ~request[q].alone /\ ~request[q].ofForm
    BY <1>1, RestingFits
  <1>3. FormInv
    BY <1>2 DEF FormInv, SettingsInit, Closed
  <1>4. StoreInv
    BY SettingsAssumption DEF StoreInv, SettingsInit, Exists, PlaybookKinds, None, PlaybookIsOurs
  <1> QED
    BY <1>2, <1>3, <1>4 DEF SettingsInv, AloneInv, SettingsInit

LEMMA StoreStays ==
    ASSUME StoreInv, UNCHANGED <<repo, copy, playbooks>>, inputs' \in 0..MaxInputs
    PROVE  StoreInv'
  BY DEF StoreInv, Exists, PlaybookIsOurs

LEMMA Counted ==
    ASSUME StoreInv, Count
    PROVE  inputs' \in 0..MaxInputs
  BY SettingsAssumption DEF StoreInv, Count

LEMMA CreateRepoInv ==
    ASSUME SettingsInv, NEW body \in CreateBodies, CreateRepo(body)
    PROVE  SettingsInv'
  <1> DEFINE p == ReadCreate(body)
  <1>1. IsBody(body) /\ IsValid(body) /\ Given(body.basics, "tenant") \in {Unset, "ours"}
    BY SettingsAssumption DEF CreateRepo
  <1>2. IsPatch(p) /\ ForUs(p)
    BY <1>1, ReadCreateIsPatch DEF ForUs
  <1> HIDE DEF p
  <1>3. IsMerged(Merge(Blank, p))
    BY <1>2, MergedIsMerged, BlankIsMerged
  <1>4. IsSettled(repo')
    BY <1>3, BuiltIsSettled DEF CreateRepo, p
  <1>5. UNCHANGED <<copy, playbooks, form, inputs>> /\ request' = Disturb(request)
    BY DEF CreateRepo
  <1>6. /\ DOMAIN request' = Requests
        /\ \A q \in Requests :
              /\ RequestFits(request'[q], playbooks')
              /\ ~request'[q].alone /\ request'[q].ofForm = request[q].ofForm
    BY <1>5, DisturbedFits DEF Grow
  <1>7. FormInv'
    BY <1>5, <1>6, FormStays DEF SettingsInv
  <1>8. repo'.review.playbook = Unset
    <2>1. repo' = BuildRepo(Merge(Blank, p))
      BY DEF CreateRepo, p
    <2>2. Merge(Blank, p).review.playbook = Unset
      <3>1. "playbook" \notin DOMAIN p.review
        BY <1>1 DEF p, ReadCreate, Restrict, ReadBody, IsBody, Sections
      <3>2. "playbook" \in Fields.review /\ "review" \in Sections
        BY FieldsOf DEF Sections
      <3>3. Blank.review.playbook = Unset
        BY <3>2 DEF Blank
      <3>4. IsComplete(Blank) /\ p = [s \in Sections |-> p[s]] /\ \A s \in Sections : Partial(p[s], Fields[s])
        BY <1>2, BlankIsMerged DEF IsMerged, IsPatch
      <3>5. Merge(Blank, p).review.playbook =
               IF "playbook" \in DOMAIN p.review THEN p.review.playbook ELSE Blank.review.playbook
        BY <3>2, <3>4, MergeValue
      <3> QED  BY <3>1, <3>3, <3>5
    <2>3. IsComplete(Merge(Blank, p))
      BY <1>3 DEF IsMerged
    <2> DEFINE m == Merge(Blank, p)
    <2> HIDE DEF m
    <2>4. BuildRepo(m).review = BuildReview(m.review, m.basics.scm) /\ DOMAIN m.review = Fields.review
      BY <2>3, BuildSections DEF m, IsComplete, Sections
    <2> QED  BY <2>1, <2>2, <2>4, FieldsOf DEF BuildReview, m
  <1>9. StoreInv'
    BY <1>4, <1>5, <1>8 DEF SettingsInv, StoreInv, PlaybookIsOurs
  <1> QED
    BY <1>6, <1>7, <1>9 DEF SettingsInv, AloneInv

LEMMA DeleteRepoInv ==
    ASSUME SettingsInv, DeleteRepo
    PROVE  SettingsInv'
  <1>5. UNCHANGED <<copy, playbooks, form>> /\ request' = Disturb(request) /\ repo' = Empty
    BY DEF DeleteRepo
  <1>6. /\ DOMAIN request' = Requests
        /\ \A q \in Requests :
              /\ RequestFits(request'[q], playbooks')
              /\ ~request'[q].alone /\ request'[q].ofForm = request[q].ofForm
    BY <1>5, DisturbedFits DEF Grow
  <1>7. FormInv'
    BY <1>5, <1>6, FormStays DEF SettingsInv
  <1>8. inputs' \in 0..MaxInputs
    BY Counted DEF DeleteRepo, SettingsInv
  <1>9. StoreInv'
    BY <1>5, <1>8 DEF SettingsInv, StoreInv, PlaybookIsOurs, Exists
  <1> QED
    BY <1>6, <1>7, <1>9 DEF SettingsInv, AloneInv

LEMMA PlaybooksInv ==
    ASSUME SettingsInv, playbooks' \in [Playbooks -> PlaybookKinds], Grow, Count,
           UNCHANGED <<repo, copy, request, form>>
    PROVE  SettingsInv'
  <1>1. \A q \in Requests : RequestFits(request'[q], playbooks')
    BY FitsLater DEF SettingsInv
  <1>2. FormInv'
    BY FormStays DEF SettingsInv
  <1>3. inputs' \in 0..MaxInputs
    BY Counted DEF SettingsInv
  <1>4. PlaybookIsOurs'
    <2>1. Exists => repo.review.playbook \in Playbooks \cup {Unset}
      BY DEF SettingsInv, StoreInv, IsSettled, IsMerged
    <2> QED  BY <2>1 DEF PlaybookIsOurs, Grow, SettingsInv, StoreInv, Exists
  <1>5. StoreInv'
    BY <1>3, <1>4 DEF SettingsInv, StoreInv, Exists
  <1>6. \A q \in Requests : AloneInv(q)'
    BY DEF SettingsInv, AloneInv, Exists
  <1> QED
    BY <1>1, <1>2, <1>5, <1>6 DEF SettingsInv

LEMMA PlaybookSteps ==
    ASSUME SettingsInv, NEW p \in Playbooks,
           \/ SwitchPlaybook(p) \/ DeletePlaybook(p)
           \/ \E t \in {"ours", "theirs"} : CreatePlaybook(p, t)
    PROVE  SettingsInv'
  <1>0. playbooks \in [Playbooks -> PlaybookKinds]
    BY DEF SettingsInv, StoreInv
  <1>1. CASE SwitchPlaybook(p)
    <2>1. playbooks' \in [Playbooks -> PlaybookKinds] /\ Grow
      BY <1>0, <1>1 DEF SwitchPlaybook, PlaybookKinds, Grow
    <2> QED  BY <1>1, <2>1, PlaybooksInv DEF SwitchPlaybook
  <1>2. CASE DeletePlaybook(p)
    <2>1. playbooks' \in [Playbooks -> PlaybookKinds] /\ Grow
      BY <1>0, <1>2 DEF DeletePlaybook, PlaybookKinds, Grow
    <2> QED  BY <1>2, <2>1, PlaybooksInv DEF DeletePlaybook
  <1>3. ASSUME NEW t \in {"ours", "theirs"}, CreatePlaybook(p, t)
        PROVE  SettingsInv'
    <2>1. playbooks' \in [Playbooks -> PlaybookKinds] /\ Grow
      BY <1>0, <1>3 DEF CreatePlaybook, PlaybookKinds, Grow, None
    <2> QED  BY <1>3, <2>1, PlaybooksInv DEF CreatePlaybook
  <1> QED
    BY <1>1, <1>2, <1>3

(* A request that begins is alone with what it read, or is not alone. *)
LEMMA OpenedFits ==
    ASSUME NEW p, IsPatch(p), ForUs(p), NEW books
    PROVE  /\ RequestFits(Opened(p), books)
           /\ Opened(p).at \in {"playbook", "save"} /\ ~Opened(p).ofForm /\ Opened(p).patch = p
  <1>1. \A f \in RequestFields \ {"at", "patch"} : Opened(p)[f] = Resting[f]
    BY DEF Opened, Resting, RequestFields
  <1>2. /\ DOMAIN Opened(p) = RequestFields /\ Opened(p).patch = p
        /\ Opened(p).at = IF NamesPlaybook(p) THEN "playbook" ELSE "save"
    BY DEF Opened, Resting, RequestFields
  <1>3. /\ Opened(p).toCopy = "todo" /\ Opened(p).toRepo = "todo" /\ Opened(p).alone = FALSE
        /\ Opened(p).ofForm = FALSE
    BY <1>1 DEF RequestFields, Resting
  <1> QED
    BY <1>2, <1>3 DEF RequestFits

LEMMA AskUpdateInv ==
    ASSUME SettingsInv, NEW q \in Requests, NEW body \in Bodies, AskUpdate(q, body)
    PROVE  SettingsInv'
  <1> DEFINE p == ReadPatch(body)
             new == Opened(p)
  <1>1. /\ UNCHANGED <<repo, copy, playbooks, form>> /\ Begin(q, new)
        /\ request[q].at = "idle" /\ Exists /\ IsValid(body)
        /\ Given(body.basics, "tenant") \in {Unset, repo.basics.tenant}
    BY DEF AskUpdate
  <1>2. IsPatch(p) /\ p.basics = body.basics
    <2>1. IsBody(body)
      BY SettingsAssumption
    <2> QED  BY <1>1, <2>1, ReadPatchIsPatch
  <1>3. ForUs(p)
    <2>1. repo.basics.tenant = "ours"
      BY <1>1 DEF SettingsInv, StoreInv, IsSettled
    <2> HIDE DEF p
    <2> QED  BY <1>1, <1>2, <2>1 DEF ForUs
  <1> HIDE DEF p
  <1>4. RequestFits(new, playbooks) /\ new.at \in {"playbook", "save"} /\ ~new.ofForm
    BY <1>2, <1>3, OpenedFits
  <1> HIDE DEF new
  <1>5. /\ DOMAIN request' = Requests
        /\ \A o \in Requests : RequestFits(request'[o], playbooks')
        /\ \A o \in Requests \ {q} : ~request'[o].alone /\ request'[o].ofForm = request[o].ofForm
        /\ \A f \in RequestFields \ {"alone"} : request'[q][f] = new[f]
        /\ request'[q].alone => \A o \in Requests \ {q} : request'[o].at = "idle"
    BY <1>1, <1>4, Begins
  <1>6. request'[q].at \in {"playbook", "save"} /\ ~request'[q].ofForm
    <2>1. request'[q].at = new.at /\ request'[q].ofForm = new.ofForm
      BY <1>5 DEF RequestFields
    <2> QED  BY <1>4, <2>1
  <1>7. FormInv'
    <2>1. request'[q].ofForm = request[q].ofForm
      <3>1. RequestFits(request[q], playbooks) /\ RequestFits(request'[q], playbooks')
        BY <1>5 DEF SettingsInv
      <3>2. request[q].ofForm = FALSE /\ request'[q].ofForm = FALSE
        BY <1>1, <1>6, <3>1 DEF RequestFits
      <3> QED  BY <3>2
    <2> QED  BY <1>1, <1>5, <2>1, FormStays DEF SettingsInv
  <1>8. StoreInv'
    BY <1>1, Counted, StoreStays DEF AskUpdate, SettingsInv
  <1>9. \A o \in Requests : AloneInv(o)'
    BY <1>5, <1>6 DEF AloneInv
  <1> QED
    BY <1>5, <1>7, <1>8, <1>9 DEF SettingsInv

LEMMA CheckPlaybookInv ==
    ASSUME SettingsInv, NEW q \in Requests, CheckPlaybook(q)
    PROVE  SettingsInv'
  <1>1. /\ request[q].at = "playbook" /\ UNCHANGED <<repo, copy, playbooks, inputs>>
        /\ RequestFits(request[q], playbooks) /\ DOMAIN request = Requests
    BY DEF CheckPlaybook, SettingsInv
  <1>2. StoreInv'
    BY <1>1, StoreStays DEF SettingsInv, StoreInv
  <1>3. CASE PlaybookIsUsable(request[q].patch.review.playbook)
    <2> DEFINE new == [request[q] EXCEPT !.at = "save"]
    <2>1. request' = [request EXCEPT ![q] = new] /\ form' = form
      BY <1>1, <1>3 DEF CheckPlaybook, MovesTo
    <2>2. /\ DOMAIN new = RequestFields /\ new.at = "save"
          /\ \A f \in RequestFields \ {"at"} : new[f] = request[q][f]
      BY <1>1 DEF RequestFits, RequestFields
    <2> HIDE DEF new
    <2>3. /\ new.patch = request[q].patch /\ new.toCopy = request[q].toCopy
          /\ new.toRepo = request[q].toRepo /\ new.alone = request[q].alone
          /\ new.ofForm = request[q].ofForm /\ new.next = request[q].next
      BY <2>2 DEF RequestFields
    <2>4. RequestFits(new, playbooks)
      BY <1>1, <1>3, <2>2, <2>3 DEF RequestFits, PlaybookIsUsable
    <2>5. /\ DOMAIN request' = Requests
          /\ \A o \in Requests : RequestFits(request'[o], playbooks')
          /\ \A o \in Requests \ {q} : ~request'[o].alone /\ request'[o] = request[o]
          /\ request'[q] = new /\ FormInv'
      BY <1>1, <2>1, <2>3, <2>4, MoveKeeps
    <2>6. \A o \in Requests : AloneInv(o)'
      BY <2>2, <2>3, <2>5 DEF AloneInv, SettingsInv
    <2> QED  BY <1>2, <2>5, <2>6 DEF SettingsInv
  <1>4. CASE ~PlaybookIsUsable(request[q].patch.review.playbook)
    <2>1. Ends(q, FALSE)
      BY <1>4 DEF CheckPlaybook
    <2>2. /\ DOMAIN request' = Requests
          /\ \A o \in Requests : RequestFits(request'[o], playbooks')
          /\ \A o \in Requests : ~request'[o].alone
          /\ FormInv'
      BY <1>1, <2>1, EndKeeps
    <2> QED  BY <1>2, <2>2 DEF SettingsInv, AloneInv
  <1> QED
    BY <1>3, <1>4

(* A patch leaves the store as it should be.                                 *)
LEMMA SavedStore ==
    ASSUME StoreInv, Exists, NEW p, IsPatch(p), ForUs(p), repo' = UpdateRepo(repo, p),
           NamesPlaybook(p) => /\ playbooks[p.review.playbook].at # "none"
                               /\ playbooks[p.review.playbook].tenant = "ours",
           UNCHANGED playbooks, copy' # Empty => DOMAIN copy' = SentinelFields,
           inputs' \in 0..MaxInputs
    PROVE  StoreInv' /\ Exists' /\ IsSettled(repo')
  <1>1. IsSettled(repo) /\ IsSettled(repo')
    BY UpdateIsSettled DEF StoreInv
  <1>2. Exists'
    BY <1>1, SettledExists DEF Exists
  <1>3. repo'.review.playbook = IF "playbook" \in DOMAIN p.review THEN p.review.playbook
                                ELSE repo.review.playbook
    BY <1>1, PlaybookAfter
  <1>4. repo.basics.tenant = "ours" /\ repo'.basics.tenant = "ours"
    BY <1>1 DEF IsSettled
  <1>5. PlaybookIsOurs'
    <2> SUFFICES ASSUME repo'.review.playbook # Unset
                 PROVE  /\ playbooks[repo'.review.playbook].at # "none"
                        /\ playbooks[repo'.review.playbook].tenant = "ours"
      BY <1>4 DEF PlaybookIsOurs, Exists
    <2>1. CASE "playbook" \in DOMAIN p.review
      BY <1>3, <2>1 DEF NamesPlaybook, Given
    <2>2. CASE "playbook" \notin DOMAIN p.review
      BY <1>3, <1>4, <2>2 DEF StoreInv, PlaybookIsOurs
    <2> QED  BY <2>1, <2>2
  <1> QED
    BY <1>1, <1>2, <1>5 DEF StoreInv

LEMMA SaveRepoInv ==
    ASSUME SettingsInv, NEW q \in Requests, SaveRepo(q)
    PROVE  SettingsInv'
  <1>1. /\ request[q].at = "save" /\ UNCHANGED <<copy, playbooks, inputs>>
        /\ RequestFits(request[q], playbooks) /\ DOMAIN request = Requests
        /\ repo' = IF Exists THEN UpdateRepo(repo, request[q].patch) ELSE repo
    BY DEF SaveRepo, SettingsInv
  <1>2. StoreInv'
    <2>1. CASE Exists
      <3>1. IsPatch(request[q].patch) /\ ForUs(request[q].patch)
        BY <1>1 DEF RequestFits
      <3>2. NamesPlaybook(request[q].patch) =>
              /\ playbooks[request[q].patch.review.playbook].at # "none"
              /\ playbooks[request[q].patch.review.playbook].tenant = "ours"
        BY <1>1 DEF RequestFits
      <3>3. /\ repo' = UpdateRepo(repo, request[q].patch) /\ inputs' \in 0..MaxInputs
            /\ StoreInv /\ UNCHANGED playbooks
            /\ copy' # Empty => DOMAIN copy' = SentinelFields
        BY <1>1, <2>1 DEF SettingsInv, StoreInv
      <3> QED  BY <1>1, <2>1, <3>1, <3>2, <3>3, SavedStore
    <2>2. CASE ~Exists
      BY <1>1, <2>2, StoreStays DEF SettingsInv, StoreInv
    <2> QED  BY <2>1, <2>2
  <1>3. CASE Exists /\ request[q].ofForm
    <2> DEFINE new == [request[q] EXCEPT !.at = "second"]
    <2>1. request' = [request EXCEPT ![q] = new] /\ form' = form
      BY <1>1, <1>3 DEF SaveRepo, MovesTo
    <2>2. /\ DOMAIN new = RequestFields /\ new.at = "second"
          /\ \A f \in RequestFields \ {"at"} : new[f] = request[q][f]
      BY <1>1 DEF RequestFits, RequestFields
    <2> HIDE DEF new
    <2>3. /\ new.toCopy = request[q].toCopy /\ new.toRepo = request[q].toRepo
          /\ new.alone = request[q].alone /\ new.ofForm = request[q].ofForm
          /\ new.next = request[q].next
      BY <2>2 DEF RequestFields
    <2>4. RequestFits(new, playbooks)
      BY <1>1, <1>3, <2>2, <2>3 DEF RequestFits
    <2>5. /\ DOMAIN request' = Requests
          /\ \A o \in Requests : RequestFits(request'[o], playbooks')
          /\ \A o \in Requests \ {q} : ~request'[o].alone /\ request'[o] = request[o]
          /\ request'[q] = new /\ FormInv'
      BY <1>1, <2>1, <2>3, <2>4, MoveKeeps
    <2>6. \A o \in Requests : AloneInv(o)'
      BY <2>2, <2>3, <2>5 DEF AloneInv, SettingsInv
    <2> QED  BY <1>2, <2>5, <2>6 DEF SettingsInv
  <1>4. CASE ~(Exists /\ request[q].ofForm)
    <2>1. Ends(q, Exists) /\ Exists \in BOOLEAN
      BY <1>4 DEF SaveRepo, Exists
    <2>2. /\ DOMAIN request' = Requests
          /\ \A o \in Requests : RequestFits(request'[o], playbooks')
          /\ \A o \in Requests : ~request'[o].alone
          /\ FormInv'
      BY <1>1, <2>1, EndKeeps
    <2> QED  BY <1>2, <2>2 DEF SettingsInv, AloneInv
  <1> QED
    BY <1>3, <1>4

(* The config to write is the record's, with what the body names.            *)
LEMMA MergingFits ==
    ASSUME NEW r, NEW body, NEW books, RequestFits(r, books), IsSettled(repo),
           Partial(body, SentinelFields)
    PROVE  LET new == Merging(r, body) IN
           /\ RequestFits(new, books)
           /\ new.at = "write" /\ new.toCopy = "todo" /\ new.toRepo = "todo"
           /\ new.ofForm = r.ofForm /\ new.named = DOMAIN body
           /\ \A f \in SentinelFields \ new.named : new.config[f] = repo.sentinel[f]
  <1> DEFINE new == Merging(r, body)
             conf == MergeSentinel(repo.sentinel, body)
  <1>1. DOMAIN repo.sentinel = SentinelFields /\ DOMAIN body \subseteq SentinelFields
    BY FieldsOf DEF IsSettled, IsMerged, IsComplete, Sections, Partial
  <1>2. /\ conf = [f \in SentinelFields |-> conf[f]]
        /\ \A f \in SentinelFields \ DOMAIN body : conf[f] = repo.sentinel[f]
    <2>1. DOMAIN body \cup DOMAIN repo.sentinel = SentinelFields
      BY <1>1
    <2> QED  BY <1>1, <2>1 DEF MergeSentinel, Overlay
  <1> HIDE DEF conf
  <1>3. /\ DOMAIN new = RequestFields
        /\ new.at = "write" /\ new.toCopy = "todo" /\ new.toRepo = "todo"
        /\ new.named = DOMAIN body /\ new.config = conf
        /\ new.ofForm = r.ofForm /\ new.alone = r.alone /\ new.next = r.next
    BY DEF Merging, RequestFits, RequestFields, conf
  <1> HIDE DEF new
  <1>4. RequestFits(new, books)
    BY <1>1, <1>2, <1>3 DEF RequestFits
  <1> QED
    BY <1>2, <1>3, <1>4 DEF new

LEMMA MergingInv ==
    ASSUME SettingsInv, NEW q \in Requests, NEW r, NEW body, Begin(q, Merging(r, body)),
           RequestFits(r, playbooks), r.ofForm = request[q].ofForm, Exists,
           Partial(body, SentinelFields), UNCHANGED <<repo, copy, playbooks, form>>,
           inputs' \in 0..MaxInputs
    PROVE  SettingsInv'
  <1> DEFINE new == Merging(r, body)
  <1>1. /\ RequestFits(new, playbooks)
        /\ new.at = "write" /\ new.toCopy = "todo" /\ new.toRepo = "todo"
        /\ new.ofForm = r.ofForm
        /\ \A f \in SentinelFields \ new.named : new.config[f] = repo.sentinel[f]
    BY MergingFits DEF SettingsInv, StoreInv
  <1>2. Begin(q, new) /\ new.at # "idle" /\ UNCHANGED playbooks
    BY <1>1
  <1> HIDE DEF new
  <1>3. /\ DOMAIN request' = Requests
        /\ \A o \in Requests : RequestFits(request'[o], playbooks')
        /\ \A o \in Requests \ {q} :
              /\ ~request'[o].alone
              /\ request'[o].ofForm = request[o].ofForm /\ request'[o].at = request[o].at
        /\ request'[q] = [new EXCEPT !.alone = (Active \ {q} = {})]
        /\ \A f \in RequestFields \ {"alone"} : request'[q][f] = new[f]
        /\ request'[q].alone => \A o \in Requests \ {q} : request'[o].at = "idle"
    BY <1>1, <1>2, Begins
  <1>4. /\ request'[q].at = "write" /\ request'[q].toCopy = "todo" /\ request'[q].toRepo = "todo"
        /\ request'[q].ofForm = request[q].ofForm
        /\ request'[q].named = new.named /\ request'[q].config = new.config
    BY <1>1, <1>3 DEF RequestFields
  <1>5. FormInv'
    BY <1>3, <1>4, FormStays DEF SettingsInv
  <1>6. StoreInv'
    BY StoreStays DEF SettingsInv
  <1>7. AloneInv(q)'
    BY <1>1, <1>3, <1>4 DEF AloneInv, Exists
  <1>8. \A o \in Requests \ {q} : AloneInv(o)'
    BY <1>3 DEF AloneInv
  <1> QED
    BY <1>3, <1>5, <1>6, <1>7, <1>8 DEF SettingsInv

LEMMA AskSentinelInv ==
    ASSUME SettingsInv, NEW q \in Requests, NEW body \in SentinelBodies, AskSentinel(q, body)
    PROVE  SettingsInv'
  <1>1. /\ Begin(q, Merging(Resting, body)) /\ Exists /\ request[q].at = "idle"
        /\ UNCHANGED <<repo, copy, playbooks, form>> /\ inputs' \in 0..MaxInputs
    BY Counted DEF AskSentinel, SettingsInv
  <1>2. RequestFits(Resting, playbooks) /\ Resting.ofForm = FALSE
    BY RestingFits DEF Resting
  <1>3. request[q].ofForm = FALSE
    BY <1>1 DEF SettingsInv, RequestFits
  <1>4. Partial(body, SentinelFields)
    BY SettingsAssumption
  <1> QED
    BY <1>1, <1>2, <1>3, <1>4, MergingInv

LEMMA SecondCallInv ==
    ASSUME SettingsInv, NEW q \in Requests, SecondCall(q)
    PROVE  SettingsInv'
  <1>1. /\ request[q].at = "second" /\ UNCHANGED <<repo, copy, playbooks, inputs>>
        /\ RequestFits(request[q], playbooks) /\ inputs' \in 0..MaxInputs
    BY DEF SecondCall, SettingsInv, StoreInv
  <1>2. CASE Exists
    <2>1. Begin(q, Merging(request[q], request[q].next)) /\ form' = form
      BY <1>2 DEF SecondCall
    <2>2. Partial(request[q].next, SentinelFields)
      BY <1>1 DEF RequestFits
    <2> QED  BY <1>1, <1>2, <2>1, <2>2, MergingInv
  <1>3. CASE ~Exists
    <2>1. Ends(q, FALSE)
      BY <1>3 DEF SecondCall
    <2>2. /\ DOMAIN request' = Requests
          /\ \A o \in Requests : RequestFits(request'[o], playbooks')
          /\ \A o \in Requests : ~request'[o].alone
          /\ FormInv'
      BY <1>1, <2>1, EndKeeps
    <2>3. StoreInv'
      BY <1>1, StoreStays DEF SettingsInv
    <2> QED  BY <2>2, <2>3 DEF SettingsInv, AloneInv
  <1> QED
    BY <1>2, <1>3

(* One of the two writes is settled.                                         *)
LEMMA SettledWrite ==
    ASSUME NEW r, NEW new, NEW store \in {"toCopy", "toRepo"}, NEW result \in {"done", "failed"},
           new = [r EXCEPT ![store] = result], RequestFits(r, playbooks), r.at = "write"
    PROVE  /\ RequestFits(new, playbooks)
           /\ new[store] = result
           /\ \A f \in RequestFields \ {store} : new[f] = r[f]
  <1>1. /\ DOMAIN new = RequestFields /\ new[store] = result
        /\ \A f \in RequestFields \ {store} : new[f] = r[f]
    BY DEF RequestFits, RequestFields
  <1>2. /\ new.at = "write" /\ new.alone = r.alone /\ new.ofForm = r.ofForm /\ new.next = r.next
        /\ new.config = r.config /\ new.named = r.named
        /\ new.toCopy \in {result, r.toCopy} /\ new.toRepo \in {result, r.toRepo}
    BY <1>1 DEF RequestFields
  <1>3. RequestFits(new, playbooks)
    BY <1>1, <1>2 DEF RequestFits
  <1> QED
    BY <1>1, <1>3

LEMMA WriteCopyInv ==
    ASSUME SettingsInv, NEW q \in Requests, WriteCopy(q)
    PROVE  SettingsInv'
  <1> DEFINE new == [request[q] EXCEPT !["toCopy"] = "done"]
  <1>1. /\ request[q].at = "write" /\ UNCHANGED <<repo, playbooks, form, inputs>>
        /\ RequestFits(request[q], playbooks) /\ copy' = NormalizeSentinel(request[q].config)
        /\ request' = [request EXCEPT ![q] = new]
        /\ new = [request[q] EXCEPT !["toCopy"] = "done"]
    BY DEF WriteCopy, SettingsInv
  <1> HIDE DEF new
  <1>2. /\ RequestFits(new, playbooks) /\ new["toCopy"] = "done"
        /\ \A f \in RequestFields \ {"toCopy"} : new[f] = request[q][f]
    BY <1>1, SettledWrite
  <1>3. /\ new.at = "write" /\ new.alone = request[q].alone /\ new.config = request[q].config
        /\ new.named = request[q].named /\ new.toRepo = request[q].toRepo
        /\ new.ofForm = request[q].ofForm
    BY <1>1, <1>2 DEF RequestFields
  <1>4. /\ DOMAIN request' = Requests
        /\ \A o \in Requests : RequestFits(request'[o], playbooks')
        /\ \A o \in Requests \ {q} : ~request'[o].alone /\ request'[o] = request[o]
        /\ request'[q] = new /\ FormInv'
    BY <1>1, <1>2, <1>3, MoveKeeps
  <1>5. StoreInv'
    <2>1. DOMAIN copy' = SentinelFields
      BY <1>1 DEF NormalizeSentinel, Filled, DefaultSentinel
    <2> QED  BY <1>1, <2>1 DEF SettingsInv, StoreInv, Exists, PlaybookIsOurs
  <1>6. \A o \in Requests : AloneInv(o)'
    BY <1>1, <1>3, <1>4 DEF AloneInv, SettingsInv, Exists
  <1> QED
    BY <1>4, <1>5, <1>6 DEF SettingsInv

LEMMA SentinelPatch ==
    ASSUME NEW conf, conf = [f \in SentinelFields |-> conf[f]]
    PROVE  LET p == [Nothing EXCEPT !.sentinel = conf] IN
           /\ IsPatch(p) /\ ForUs(p) /\ ~NamesPlaybook(p)
           /\ p.sentinel = conf
           /\ \A s \in Sections \ {"sentinel"} : p[s] = Empty
  <1> DEFINE p == [Nothing EXCEPT !.sentinel = conf]
  <1>1. /\ p = [s \in Sections |-> p[s]] /\ p.sentinel = conf
        /\ \A s \in Sections \ {"sentinel"} : p[s] = Empty
    BY DEF Nothing, Sections
  <1> HIDE DEF p
  <1>2. p.llm = Empty /\ p.preview = Empty /\ p.review = Empty /\ p.basics = Empty
    BY <1>1 DEF Sections
  <1>3. \A s \in Sections : Partial(p[s], Fields[s])
    <2>1. \A x : Partial(Empty, x)
      BY DEF Partial, Empty
    <2>2. Partial(conf, Fields.sentinel)
      BY FieldsOf DEF Partial
    <2> QED  BY <1>1, <2>1, <2>2
  <1> QED
    BY <1>1, <1>2, <1>3, EmptyIsEmpty DEF IsPatch, ForUs, NamesPlaybook, Given, PreviewPairs, p

LEMMA SentinelWritten ==
    ASSUME IsSettled(repo), NEW conf, conf = [f \in SentinelFields |-> conf[f]]
    PROVE  UpdateRepo(repo, [Nothing EXCEPT !.sentinel = conf]).sentinel = NormalizeSentinel(conf)
  <1> DEFINE p == [Nothing EXCEPT !.sentinel = conf]
             m == Merge(repo, p)
  <1>1. IsPatch(p) /\ ForUs(p) /\ p.sentinel = conf
    BY SentinelPatch
  <1> HIDE DEF p
  <1>2. IsComplete(m) /\ IsComplete(repo)
    BY <1>1, MergedIsMerged DEF IsSettled, IsMerged
  <1>3. \A f \in SentinelFields : m.sentinel[f] = conf[f]
    <2>1. p = [s \in Sections |-> p[s]] /\ \A s \in Sections : Partial(p[s], Fields[s])
      BY <1>1 DEF IsPatch
    <2>2. "sentinel" \in Sections /\ Fields.sentinel = SentinelFields
      BY FieldsOf DEF Sections
    <2> QED  BY <1>1, <1>2, <2>1, <2>2, MergeValue
  <1>4. m.sentinel = conf
    <2>1. m.sentinel = [f \in SentinelFields |-> m.sentinel[f]]
      BY <1>2, FieldsOf DEF IsComplete, Sections
    <2> HIDE DEF m
    <2> QED  BY <1>3, <2>1
  <1> HIDE DEF m
  <1>5. BuildRepo(m).sentinel = NormalizeSentinel(m.sentinel)
    BY <1>2, BuildSections
  <1> QED
    BY <1>4, <1>5 DEF UpdateRepo, m, p

LEMMA WriteRepoInv ==
    ASSUME SettingsInv, NEW q \in Requests, WriteRepo(q)
    PROVE  SettingsInv'
  <1> DEFINE result == IF Exists THEN "done" ELSE "failed"
             new == [request[q] EXCEPT !["toRepo"] = result]
             conf == request[q].config
             p == [Nothing EXCEPT !.sentinel = conf]
  <1>1. /\ request[q].at = "write" /\ request[q].toRepo = "todo"
        /\ UNCHANGED <<copy, playbooks, form, inputs>>
        /\ RequestFits(request[q], playbooks)
        /\ repo' = IF Exists THEN UpdateRepo(repo, p) ELSE repo
        /\ request' = [request EXCEPT ![q] = new]
        /\ new = [request[q] EXCEPT !["toRepo"] = result] /\ result \in {"done", "failed"}
    BY DEF WriteRepo, SettingsInv
  <1> HIDE DEF new, result
  <1>2. /\ RequestFits(new, playbooks) /\ new["toRepo"] = result
        /\ \A f \in RequestFields \ {"toRepo"} : new[f] = request[q][f]
    BY <1>1, SettledWrite
  <1>3. /\ new.at = "write" /\ new.alone = request[q].alone /\ new.config = request[q].config
        /\ new.named = request[q].named /\ new.toCopy = request[q].toCopy
        /\ new.ofForm = request[q].ofForm
    BY <1>1, <1>2 DEF RequestFields
  <1>4. /\ DOMAIN request' = Requests
        /\ \A o \in Requests : RequestFits(request'[o], playbooks')
        /\ \A o \in Requests \ {q} : ~request'[o].alone /\ request'[o] = request[o]
        /\ request'[q] = new /\ FormInv'
    BY <1>1, <1>2, <1>3, MoveKeeps
  <1>5. conf = [f \in SentinelFields |-> conf[f]]
    BY <1>1 DEF RequestFits
  <1> HIDE DEF conf
  <1>6. CASE Exists
    <2>1. repo' = UpdateRepo(repo, p) /\ new.toRepo = "done"
      BY <1>1, <1>2, <1>6 DEF result
    <2>2. IsPatch(p) /\ ForUs(p) /\ ~NamesPlaybook(p)
      BY <1>5, SentinelPatch
    <2>3. IsSettled(repo)
      BY <1>6 DEF SettingsInv, StoreInv
    <2>4. repo'.sentinel = NormalizeSentinel(conf)
      BY <1>5, <2>1, <2>3, SentinelWritten
    <2> HIDE DEF p
    <2>5. StoreInv' /\ Exists'
      <3>1. StoreInv /\ (copy' # Empty => DOMAIN copy' = SentinelFields) /\ inputs' \in 0..MaxInputs
        BY <1>1 DEF SettingsInv, StoreInv
      <3> QED  BY <1>1, <1>6, <2>1, <2>2, <3>1, SavedStore
    <2>6. \A o \in Requests \ {q} : AloneInv(o)'
      BY <1>4 DEF AloneInv
    <2>7. AloneInv(q)'
      BY <1>1, <1>3, <1>4, <2>1, <2>4, <2>5 DEF AloneInv, SettingsInv, conf
    <2> QED  BY <1>4, <2>5, <2>6, <2>7 DEF SettingsInv
  <1>7. CASE ~Exists
    <2>1. ~request[q].alone
      BY <1>1, <1>7 DEF SettingsInv, AloneInv
    <2>2. \A o \in Requests : AloneInv(o)'
      BY <1>3, <1>4, <2>1 DEF AloneInv
    <2>3. StoreInv'
      BY <1>1, <1>7, StoreStays DEF SettingsInv, StoreInv
    <2> QED  BY <1>4, <2>2, <2>3 DEF SettingsInv
  <1> QED
    BY <1>6, <1>7

LEMMA AnswerInv ==
    ASSUME SettingsInv, NEW q \in Requests, Answer(q)
    PROVE  SettingsInv'
  <1>1. /\ request[q].at = "write" /\ UNCHANGED <<repo, copy, playbooks, inputs>>
        /\ Ends(q, {request[q].toCopy, request[q].toRepo} = {"done"})
    BY DEF Answer
  <1>2. /\ DOMAIN request' = Requests
        /\ \A o \in Requests : RequestFits(request'[o], playbooks')
        /\ \A o \in Requests : ~request'[o].alone
        /\ FormInv'
    BY <1>1, EndKeeps
  <1>3. StoreInv'
    BY <1>1, StoreStays DEF SettingsInv, StoreInv
  <1> QED
    BY <1>2, <1>3 DEF SettingsInv, AloneInv

LEMMA FailInv ==
    ASSUME SettingsInv, NEW q \in Requests, Fail(q)
    PROVE  SettingsInv'
  <1>1. UNCHANGED <<repo, copy, playbooks>> /\ inputs' \in 0..MaxInputs
    BY Counted DEF Fail, SettingsInv
  <1>2. StoreInv'
    BY <1>1, StoreStays DEF SettingsInv
  <1>3. CASE request[q].at \in {"playbook", "save", "second"} /\ Ends(q, FALSE)
    <2>1. /\ DOMAIN request' = Requests
          /\ \A o \in Requests : RequestFits(request'[o], playbooks')
          /\ \A o \in Requests : ~request'[o].alone
          /\ FormInv'
      BY <1>1, <1>3, EndKeeps
    <2> QED  BY <1>2, <2>1 DEF SettingsInv, AloneInv
  <1>4. ASSUME request[q].at = "write", NEW store \in {"toCopy", "toRepo"},
               request[q][store] = "todo",
               request' = [request EXCEPT ![q][store] = "failed"], UNCHANGED form
        PROVE  SettingsInv'
    <2> DEFINE new == [request[q] EXCEPT ![store] = "failed"]
    <2>0. RequestFits(request[q], playbooks)
      BY DEF SettingsInv
    <2>1. request' = [request EXCEPT ![q] = new] /\ new = [request[q] EXCEPT ![store] = "failed"]
      BY <1>4
    <2> HIDE DEF new
    <2>2. /\ RequestFits(new, playbooks) /\ new[store] = "failed"
          /\ \A f \in RequestFields \ {store} : new[f] = request[q][f]
      BY <1>4, <2>0, <2>1, SettledWrite
    <2>3. /\ new.at = "write" /\ new.alone = request[q].alone /\ new.config = request[q].config
          /\ new.named = request[q].named /\ new.ofForm = request[q].ofForm
          /\ new.toCopy \in {"failed", request[q].toCopy}
          /\ new.toRepo \in {"failed", request[q].toRepo}
      BY <1>4, <2>2 DEF RequestFields
    <2>4. /\ DOMAIN request' = Requests
          /\ \A o \in Requests : RequestFits(request'[o], playbooks')
          /\ \A o \in Requests \ {q} : ~request'[o].alone /\ request'[o] = request[o]
          /\ request'[q] = new /\ FormInv'
      BY <1>1, <1>4, <2>1, <2>2, <2>3, MoveKeeps
    <2>5. \A o \in Requests : AloneInv(o)'
      BY <1>1, <1>4, <2>3, <2>4 DEF AloneInv, SettingsInv, Exists
    <2> QED  BY <1>2, <2>4, <2>5 DEF SettingsInv
  <1> QED
    BY <1>3, <1>4 DEF Fail

LEMMA FormSteps ==
    ASSUME SettingsInv, \/ OpenForm \/ SeeUpdate \/ \E t \in Typings : Type(t)
    PROVE  SettingsInv'
  <1>1. UNCHANGED <<repo, copy, playbooks, request>>
    BY DEF OpenForm, SeeUpdate, Type
  <1>2. inputs' \in 0..MaxInputs
    BY Counted DEF OpenForm, SeeUpdate, Type, SettingsInv, StoreInv
  <1>3. StoreInv'
    BY <1>1, <1>2, StoreStays DEF SettingsInv
  <1>4. FormInv /\ (Exists => IsSettled(repo))
    BY DEF SettingsInv, StoreInv
  <1>5. FormInv'
    <2>1. /\ DOMAIN form' = {"at", "seen", "typed"} /\ form'.at \in {"closed", "open", "saving"}
          /\ form'.at = "saving" <=> form.at = "saving"
          /\ form'.at # "closed" => IsSettled(form'.seen) /\ IsTyping(form'.typed)
      <3>1. CASE OpenForm
        BY <1>4, <3>1, NothingIsTyping DEF OpenForm
      <3>2. CASE SeeUpdate
        <4>1. form' = Shown /\ form.at # "closed" /\ Exists
          BY <3>2 DEF SeeUpdate
        <4>2. /\ DOMAIN form' = {"at", "seen", "typed"} /\ form'.at = form.at /\ form'.seen = repo
              /\ form'.typed \in {form.typed, Nothing}
          BY <1>4, <4>1 DEF Shown, FormInv
        <4> QED  BY <1>4, <4>1, <4>2, NothingIsTyping DEF FormInv
      <3>3. ASSUME NEW t \in Typings, Type(t)
            PROVE  /\ DOMAIN form' = {"at", "seen", "typed"} /\ form'.at \in {"closed", "open", "saving"}
                   /\ form'.at = "saving" <=> form.at = "saving"
                   /\ form'.at # "closed" => IsSettled(form'.seen) /\ IsTyping(form'.typed)
        <4>1. /\ form' = [form EXCEPT !.typed = t] /\ form.at = "open" /\ IsTyping(t)
          BY <3>3, SettingsAssumption DEF Type
        <4>2. DOMAIN form' = {"at", "seen", "typed"} /\ form'.at = "open" /\ form'.seen = form.seen
              /\ form'.typed = t
          BY <1>4, <4>1 DEF FormInv
        <4> QED  BY <1>4, <4>1, <4>2 DEF FormInv
      <3> QED  BY <3>1, <3>2, <3>3
    <2> QED  BY <1>1, <1>4, <2>1, FormChanges
  <1> QED
    BY <1>1, <1>3, <1>5 DEF SettingsInv, AloneInv, Exists

LEMMA SubmitInv ==
    ASSUME SettingsInv, NEW q \in Requests, Submit(q)
    PROVE  SettingsInv'
  <1> DEFINE body == Payload(FormValues(form.seen, form.typed))
             n == [body EXCEPT !.sentinel = Empty]
             p == ReadPatch(n)
             new == [Opened(p) EXCEPT !.ofForm = TRUE, !.next = body.sentinel,
                                      !.seen = form.seen, !.typed = form.typed]
  <1>1. /\ form.at = "open" /\ request[q].at = "idle" /\ IsValid(body) /\ Begin(q, new)
        /\ form' = [form EXCEPT !.at = "saving"] /\ UNCHANGED <<repo, copy, playbooks>>
        /\ inputs' \in 0..MaxInputs
    BY Counted DEF Submit, SettingsInv
  <1>2. IsSettled(form.seen) /\ IsTyping(form.typed) /\ DOMAIN form = {"at", "seen", "typed"}
    BY <1>1 DEF SettingsInv, FormInv
  <1>3. /\ IsBody(n) /\ Given(n.basics, "tenant") = Unset /\ Partial(body.sentinel, SentinelFields)
        /\ \A s \in Sections \ {"sentinel"} : n[s] = body[s]
    BY <1>2, PayloadIsBody
  <1>a. n.sentinel = Empty
    BY DEF Payload
  <1> HIDE DEF n, body
  <1>4. IsValid(n)
    <2>1. n.llm = body.llm /\ n.review = body.review /\ n.preview = body.preview /\ n.commit = body.commit
      BY <1>3 DEF Sections
    <2>2. SentinelIsValid(n.sentinel)
      BY <1>a, EmptyIsEmpty DEF SentinelIsValid, Given, Unset
    <2> QED  BY <1>1, <2>1, <2>2 DEF IsValid
  <1>5. IsPatch(p) /\ ForUs(p)
    BY <1>3, <1>4, ReadPatchIsPatch DEF ForUs
  <1> HIDE DEF p
  <1>6. /\ RequestFits(Opened(p), playbooks) /\ Opened(p).at \in {"playbook", "save"}
        /\ Opened(p).patch = p
    BY <1>5, OpenedFits
  <1>7. /\ DOMAIN new = RequestFields /\ new.ofForm = TRUE /\ new.next = body.sentinel
        /\ \A f \in RequestFields \ {"ofForm", "next", "seen", "typed"} : new[f] = Opened(p)[f]
    BY <1>6 DEF RequestFits, RequestFields
  <1> HIDE DEF new
  <1>8. /\ new.at = Opened(p).at /\ new.patch = p /\ new.toCopy = Opened(p).toCopy
        /\ new.toRepo = Opened(p).toRepo /\ new.alone = Opened(p).alone
    BY <1>6, <1>7 DEF RequestFields
  <1>9. RequestFits(new, playbooks) /\ new.at # "idle" /\ UNCHANGED playbooks
    BY <1>1, <1>3, <1>6, <1>7, <1>8 DEF RequestFits
  <1>10. /\ DOMAIN request' = Requests
         /\ \A o \in Requests : RequestFits(request'[o], playbooks')
         /\ \A o \in Requests \ {q} :
               /\ ~request'[o].alone
               /\ request'[o].ofForm = request[o].ofForm /\ request'[o].at = request[o].at
         /\ request'[q] = [new EXCEPT !.alone = (Active \ {q} = {})]
         /\ \A f \in RequestFields \ {"alone"} : request'[q][f] = new[f]
         /\ request'[q].alone => \A o \in Requests \ {q} : request'[o].at = "idle"
    BY <1>1, <1>9, Begins
  <1>11. request'[q].at \in {"playbook", "save"} /\ request'[q].ofForm
    BY <1>6, <1>7, <1>8, <1>10 DEF RequestFields
  <1>12. FormInv'
    <2>1. \A o \in Requests \ {q} : ~request'[o].ofForm
      BY <1>1, <1>10 DEF SettingsInv, FormInv
    <2>2. {r \in Requests : request'[r].ofForm} = {q}
      BY <1>11, <2>1
    <2>3. DOMAIN form' = {"at", "seen", "typed"} /\ form'.at = "saving" /\ form'.seen = form.seen
          /\ form'.typed = form.typed
      BY <1>1, <1>2
    <2> QED  BY <1>2, <2>2, <2>3 DEF FormInv
  <1>13. StoreInv'
    BY <1>1, StoreStays DEF SettingsInv
  <1>14. \A o \in Requests : AloneInv(o)'
    BY <1>10, <1>11 DEF AloneInv
  <1> QED
    BY <1>10, <1>12, <1>13, <1>14 DEF SettingsInv

(* Every step keeps the invariant.                                           *)
LEMMA SettingsNext_Inv ==
    ASSUME SettingsInv, [SettingsNext]_settingsVars
    PROVE  SettingsInv'
  <1>1. CASE UNCHANGED settingsVars
    <2>1. UNCHANGED <<repo, copy, playbooks, request, form, inputs>>
      BY <1>1 DEF settingsVars
    <2>2. StoreInv' /\ FormInv'
      BY <2>1, StoreStays, FormStays DEF SettingsInv, StoreInv
    <2>3. \A q \in Requests : AloneInv(q)'
      BY <2>1 DEF AloneInv, SettingsInv, Exists
    <2> QED  BY <2>1, <2>2, <2>3 DEF SettingsInv
  <1>2. CASE Makes
    BY <1>2, CreateRepoInv, DeleteRepoInv, PlaybookSteps DEF Makes
  <1>3. CASE Edits
    BY <1>3, FormSteps DEF Edits
  <1>4. ASSUME NEW q \in Requests, Asks(q)
        PROVE  SettingsInv'
    BY <1>4, AskUpdateInv, AskSentinelInv, SubmitInv DEF Asks
  <1>5. ASSUME NEW q \in Requests, Works(q)
        PROVE  SettingsInv'
    BY <1>5, CheckPlaybookInv, SaveRepoInv, SecondCallInv, WriteCopyInv, WriteRepoInv, AnswerInv,
       FailInv DEF Works
  <1> QED
    BY <1>1, <1>2, <1>3, <1>4, <1>5 DEF SettingsNext

LEMMA SettingsHold == SettingsSpec => []SettingsInv
  BY SettingsInit_Inv, SettingsNext_Inv, PTL DEF SettingsSpec

LEMMA InvIsCoherent == SettingsInv => StoredIsCoherent
  <1> SUFFICES ASSUME SettingsInv PROVE StoredIsCoherent
    OBVIOUS
  <1>1. SettingsTypeOK
    <2>1. Exists => \A sec \in Sections : DOMAIN repo[sec] = Fields[sec]
      BY DEF SettingsInv, StoreInv, IsSettled, IsMerged, IsComplete
    <2>2. Cardinality({q \in Requests : request[q].ofForm}) = (IF form.at = "saving" THEN 1 ELSE 0)
      <3>1. CASE form.at = "saving"
        <4>1. PICK q \in Requests : {r \in Requests : request[r].ofForm} = {q}
          BY <3>1 DEF SettingsInv, FormInv
        <4> QED  BY <3>1, <4>1, FS_Singleton
      <3>2. CASE form.at # "saving"
        <4>1. {r \in Requests : request[r].ofForm} = {}
          BY <3>2 DEF SettingsInv, FormInv
        <4> QED  BY <3>2, <4>1, FS_EmptySet
      <3> QED  BY <3>1, <3>2
    <2>3. \A q \in Requests :
             /\ request[q].at \in {"idle", "playbook", "save", "second", "write"}
             /\ {request[q].toCopy, request[q].toRepo} \subseteq {"todo", "done", "failed"}
      BY DEF SettingsInv, RequestFits
    <2>4. /\ copy # Empty => DOMAIN copy = SentinelFields
          /\ \A p \in Playbooks : playbooks[p] \in PlaybookKinds
          /\ form.at \in {"closed", "open", "saving"} /\ inputs \in 0..MaxInputs
      BY DEF SettingsInv, StoreInv, FormInv
    <2> QED  BY <2>1, <2>2, <2>3, <2>4 DEF SettingsTypeOK, PlaybookKinds
  <1>2. StoredIsNormal
    BY SettledIsNormal DEF SettingsInv, StoreInv, StoredIsNormal
  <1>3. PreviewIsCoherent /\ PlaybookIsOurs
    BY DEF SettingsInv, StoreInv, PreviewIsCoherent, IsSettled, IsMerged, NamesAgree
  <1> QED
    BY <1>1, <1>2, <1>3 DEF StoredIsCoherent

(* However patches of repos and changes of the sentinel's config follow one  *)
(* another, the record in the BoardIndexDO is what a restart would make of it: *)
(* normalising and building it again leave it as it is, the two names of each *)
(* preview setting agree, and its playbook is, or was, one of its tenant.    *)
THEOREM SettingsCoherent == SettingsSpec => []StoredIsCoherent
  BY SettingsHold, InvIsCoherent, PTL

LEMMA InvHeals == SettingsInv => SaveHeals
  <1> SUFFICES ASSUME SettingsInv, NEW q \in Requests,
                      request[q].at = "write", request[q].alone,
                      request[q].toCopy = "done", request[q].toRepo = "done"
               PROVE  /\ Exists /\ copy = repo.sentinel
                      /\ \A f \in request[q].named :
                            repo.sentinel[f] = FirstOf(request[q].config[f], DefaultSentinel[f])
    BY DEF SaveHeals
  <1>1. /\ copy = NormalizeSentinel(request[q].config)
        /\ Exists /\ repo.sentinel = NormalizeSentinel(request[q].config)
    BY DEF SettingsInv, AloneInv
  <1>2. /\ request[q].config = [f \in SentinelFields |-> request[q].config[f]]
        /\ request[q].named \subseteq SentinelFields
    BY DEF SettingsInv, RequestFits
  <1>3. \A f \in SentinelFields :
           repo.sentinel[f] = FirstOf(request[q].config[f], DefaultSentinel[f])
    <2>1. DOMAIN DefaultSentinel = SentinelFields /\ DOMAIN request[q].config = SentinelFields
      BY <1>2 DEF DefaultSentinel
    <2> QED  BY <1>1, <2>1 DEF NormalizeSentinel, Filled, Given
  <1> QED
    BY <1>1, <1>2, <1>3

(* A change of the sentinel's config that ran alone and whose two writes are *)
(* done leaves the row in D1 and the record equal, and with what its body named, *)
(* however the two had differed before.                                      *)
THEOREM SavesHeal == SettingsSpec => []SaveHeals
  BY SettingsHold, InvHeals, PTL

-----------------------------------------------------------------------------
(* What a patch leaves.                                                      *)

(* A field that a patch names with the value it has, or does not name, stays. *)
LEMMA UpdateSame ==
    ASSUME NEW r, NEW p, IsSettled(r), IsPatch(p), ForUs(p),
           NEW s \in Sections \ {"preview"}, NEW f \in Fields[s],
           f \in DOMAIN p[s] => p[s][f] = r[s][f]
    PROVE  UpdateRepo(r, p)[s][f] = r[s][f]
  <1> DEFINE m == Merge(r, p)
             b == BuildRepo(m)
  <1>0. /\ IsComplete(r) /\ p = [t \in Sections |-> p[t]]
        /\ \A t \in Sections : Partial(p[t], Fields[t])
    BY DEF IsSettled, IsMerged, IsPatch
  <1>5. m[s][f] = r[s][f]
    BY <1>0, MergeValue
  <1>2. IsMerged(m)
    BY MergedIsMerged DEF IsSettled
  <1> HIDE DEF m
  <1>3. IsComplete(m)
    BY <1>2 DEF IsMerged
  <1>4. /\ b.basics = [tenant |-> FirstOf(m.basics.tenant, "ours"),
                       scm |-> IF m.basics.scm = "gitlab" THEN "gitlab" ELSE "github",
                       enabled |-> FirstOf(m.basics.enabled, "yes"),
                       defaultBranch |-> FirstOf(m.basics.defaultBranch, "main")]
        /\ b.llm = m.llm /\ b.commit = m.commit
        /\ b.preview = NormalizePreview(m.preview)
        /\ b.review = BuildReview(m.review, m.basics.scm)
        /\ b.sentinel = NormalizeSentinel(m.sentinel)
        /\ b.checkpoint = NormalizeCheckpoint(m.checkpoint)
    BY <1>3, BuildSections
  <1> HIDE DEF b
  <1>6. CASE s = "basics"
    <2>1. f \in {"tenant", "scm", "enabled", "defaultBranch"}
      BY <1>6, FieldsOf
    <2>2. FirstOf(r.basics.tenant, "ours") = r.basics.tenant
          /\ FirstOf(r.basics.enabled, "yes") = r.basics.enabled
          /\ FirstOf(r.basics.defaultBranch, "main") = r.basics.defaultBranch
          /\ (IF r.basics.scm = "gitlab" THEN "gitlab" ELSE "github") = r.basics.scm
      BY DEF IsSettled, FirstOf, Unset
    <2>3. b.basics[f] = r.basics[f]
      BY <1>4, <1>5, <1>6, <2>1, <2>2
    <2> QED  BY <1>6, <2>3 DEF UpdateRepo, b, m
  <1>7. CASE s \in {"llm", "commit"}
    BY <1>4, <1>5, <1>7 DEF UpdateRepo, b, m
  <1>9. CASE s = "review"
    <2>1. DOMAIN m.review = Fields.review
      BY <1>3 DEF IsComplete, Sections
    <2>2. f \in {"enabled", "provider", "inline", "posting"} => m.review[f] # Unset
      BY <1>5, <1>9 DEF IsSettled
    <2>3. b.review[f] = m.review[f]
      <3>1. f \in Fields.review
        BY <1>9
      <3>2. CASE f \notin {"enabled", "provider", "inline", "posting"}
        BY <1>4, <2>1, <3>1, <3>2 DEF BuildReview
      <3>3. CASE f = "enabled"
        BY <1>4, <2>1, <2>2, <3>1, <3>3 DEF BuildReview, FirstOf
      <3>4. CASE f = "provider"
        BY <1>4, <2>1, <2>2, <3>1, <3>4 DEF BuildReview, FirstOf
      <3>5. CASE f \in {"inline", "posting"}
        BY <1>4, <2>1, <2>2, <3>1, <3>5 DEF BuildReview, FirstOf
      <3> QED  BY <3>2, <3>3, <3>4, <3>5
    <2> QED  BY <1>5, <1>9, <2>3 DEF UpdateRepo, b, m
  <1>10. CASE s = "sentinel"
    <2>1. DOMAIN DefaultSentinel = SentinelFields /\ DOMAIN m.sentinel = SentinelFields
          /\ f \in SentinelFields
      BY <1>3, <1>10, FieldsOf DEF IsComplete, Sections, DefaultSentinel
    <2>2. r.sentinel[f] = FirstOf(r.sentinel[f], DefaultSentinel[f])
      BY <2>1 DEF IsSettled
    <2>3. b.sentinel[f] = FirstOf(m.sentinel[f], DefaultSentinel[f])
      BY <1>4, <2>1 DEF NormalizeSentinel, Filled, Given
    <2> QED  BY <1>5, <1>10, <2>2, <2>3 DEF UpdateRepo, b, m
  <1>11. CASE s = "checkpoint"
    <2>1. DOMAIN DefaultCheckpoint = CheckpointFields /\ DOMAIN m.checkpoint = CheckpointFields
          /\ f \in CheckpointFields
      BY <1>3, <1>11, FieldsOf DEF IsComplete, Sections, DefaultCheckpoint
    <2>2. r.checkpoint[f] = FirstOf(r.checkpoint[f], DefaultCheckpoint[f])
      BY <2>1 DEF IsSettled
    <2>3. b.checkpoint[f] = FirstOf(m.checkpoint[f], DefaultCheckpoint[f])
      BY <1>4, <2>1 DEF NormalizeCheckpoint, Filled, Given
    <2> QED  BY <1>5, <1>11, <2>2, <2>3 DEF UpdateRepo, b, m
  <1> QED
    BY <1>6, <1>7, <1>9, <1>10, <1>11 DEF Sections

(* An update leaves every field that the patch does not name.                *)
LEMMA UpdateKeeps ==
    ASSUME NEW r, NEW p, IsSettled(r), IsPatch(p), ForUs(p),
           NEW s \in Sections, NEW f \in Fields[s], f \notin DOMAIN p[s]
    PROVE  UpdateRepo(r, p)[s][f] = r[s][f]
  <1> DEFINE m == Merge(r, p)
             b == BuildRepo(m)
  <1>a. CASE s # "preview"
    BY <1>a, UpdateSame
  <1>0. /\ IsComplete(r) /\ p = [t \in Sections |-> p[t]]
        /\ \A t \in Sections : Partial(p[t], Fields[t])
    BY DEF IsSettled, IsMerged, IsPatch
  <1>1. ASSUME NEW g \in Fields[s], g \notin DOMAIN p[s]
        PROVE  m[s][g] = r[s][g]
    BY <1>0, <1>1, MergeValue
  <1>2. IsMerged(m)
    BY MergedIsMerged DEF IsSettled
  <1> HIDE DEF m
  <1>3. IsComplete(m)
    BY <1>2 DEF IsMerged
  <1>4. /\ b.basics = [tenant |-> FirstOf(m.basics.tenant, "ours"),
                       scm |-> IF m.basics.scm = "gitlab" THEN "gitlab" ELSE "github",
                       enabled |-> FirstOf(m.basics.enabled, "yes"),
                       defaultBranch |-> FirstOf(m.basics.defaultBranch, "main")]
        /\ b.llm = m.llm /\ b.commit = m.commit
        /\ b.preview = NormalizePreview(m.preview)
        /\ b.review = BuildReview(m.review, m.basics.scm)
        /\ b.sentinel = NormalizeSentinel(m.sentinel)
        /\ b.checkpoint = NormalizeCheckpoint(m.checkpoint)
    BY <1>3, BuildSections
  <1> HIDE DEF b
  <1>8. CASE s = "preview"
    <2>1. f \in {"adapter", "provider", "config", "checkName"}
      BY <1>8, FieldsOf
    <2>2. NamesAgree(r.preview) /\ NamesAgree(m.preview) /\ r.preview.adapter # Unset
      BY <1>2 DEF IsSettled, IsMerged
    <2>3. DOMAIN m.preview = Fields.preview
      BY <1>3 DEF IsComplete, Sections
    <2>4. PreviewAdapter(m.preview) = m.preview.adapter
      BY <2>2, <2>3, FieldsOf DEF NamesAgree, PreviewAdapter, Given, FirstOf, Unset
    <2>5. /\ m.preview.config = [check |-> m.preview.config.check, recipe |-> m.preview.config.recipe]
          /\ r.preview.config = [check |-> r.preview.config.check, recipe |-> r.preview.config.recipe]
      BY <1>0, <1>3 DEF IsComplete
    <2>6. /\ \A pair \in PreviewPairs : pair \subseteq DOMAIN p.preview \/ pair \cap DOMAIN p.preview = {}
      BY DEF IsPatch
    <2>7. CASE f \in {"adapter", "provider"}
      <3>1. "adapter" \notin DOMAIN p.preview /\ "provider" \notin DOMAIN p.preview
        BY <1>8, <2>6, <2>7 DEF PreviewPairs
      <3>2. m.preview.adapter = r.preview.adapter /\ m.preview.provider = r.preview.provider
        BY <1>1, <1>8, <3>1, FieldsOf
      <3>3. b.preview.adapter = r.preview.adapter
        BY <1>4, <2>2, <2>4, <3>2 DEF NormalizePreview, FirstOf
      <3>4. b.preview.provider = r.preview.provider
        BY <1>4, <2>2, <2>4, <3>2 DEF NormalizePreview, FirstOf, NamesAgree, Unset
      <3> QED  BY <1>8, <2>7, <3>3, <3>4 DEF UpdateRepo, b, m
    <2>8. CASE f \in {"config", "checkName"}
      <3>1. "config" \notin DOMAIN p.preview /\ "checkName" \notin DOMAIN p.preview
        BY <1>8, <2>6, <2>8 DEF PreviewPairs
      <3>2. m.preview.config = r.preview.config /\ m.preview.checkName = r.preview.checkName
        BY <1>1, <1>8, <3>1, FieldsOf
      <3>3. FirstOf(r.preview.config.check, r.preview.checkName) = r.preview.config.check
            /\ FirstOf(r.preview.checkName, r.preview.config.check) = r.preview.checkName
        BY <2>2 DEF FirstOf, NamesAgree
      <3>4. b.preview.config = [r.preview.config EXCEPT !.check = r.preview.config.check]
            /\ b.preview.checkName = r.preview.checkName
        BY <1>4, <3>2, <3>3 DEF NormalizePreview
      <3>5. b.preview.config = r.preview.config
        BY <2>5, <3>4
      <3> QED  BY <1>8, <2>8, <3>4, <3>5 DEF UpdateRepo, b, m
    <2> QED  BY <2>1, <2>7, <2>8
  <1> QED
    BY <1>a, <1>8

(* What a patch names of models is what the record then has. *)
LEMMA UpdateSets ==
    ASSUME NEW r, NEW p, IsSettled(r), IsPatch(p), ForUs(p)
    PROVE  LET new == UpdateRepo(r, p) IN
           /\ \A f \in Fields.llm : f \in DOMAIN p.llm => new.llm[f] = p.llm[f]
           /\ \A f \in {"model", "adapter"} : f \in DOMAIN p.review => new.review[f] = p.review[f]
  <1> DEFINE m == Merge(r, p)
             b == BuildRepo(m)
  <1>0. /\ IsComplete(r) /\ p = [t \in Sections |-> p[t]]
        /\ \A t \in Sections : Partial(p[t], Fields[t])
    BY DEF IsSettled, IsMerged, IsPatch
  <1>1. ASSUME NEW s \in {"llm", "review"}, NEW f \in Fields[s], f \in DOMAIN p[s]
        PROVE  m[s][f] = p[s][f]
    <2>1. s \in Sections
      BY DEF Sections
    <2> QED  BY <1>0, <1>1, <2>1, MergeValue
  <1>2. IsComplete(m)
    BY MergedIsMerged DEF IsSettled, IsMerged
  <1> HIDE DEF m
  <1>3. b.llm = m.llm /\ b.review = BuildReview(m.review, m.basics.scm)
    BY <1>2, BuildSections
  <1>4. DOMAIN m.review = Fields.review
    BY <1>2 DEF IsComplete, Sections
  <1> HIDE DEF b
  <1>5. \A f \in {"model", "adapter"} : b.review[f] = m.review[f]
    BY <1>3, <1>4, FieldsOf DEF BuildReview
  <1>6. \A f \in {"model", "adapter"} : f \in DOMAIN p.review => b.review[f] = p.review[f]
    BY <1>1, <1>5, FieldsOf
  <1>7. \A f \in Fields.llm : f \in DOMAIN p.llm => b.llm[f] = p.llm[f]
    BY <1>1, <1>3
  <1> QED
    BY <1>6, <1>7 DEF UpdateRepo, b, m

(* A model that an update changes is one its adapter takes.                  *)
LEMMA ModelFits ==
    ASSUME NEW r, NEW p, IsSettled(r), IsPatch(p), ForUs(p), NEW s \in {"llm", "review"},
           UpdateRepo(r, p)[s].model # r[s].model
    PROVE  Fits(UpdateRepo(r, p)[s])
  <1> DEFINE new == UpdateRepo(r, p)
  <1>1. "model" \in DOMAIN p[s]
    <2>1. s \in Sections /\ "model" \in Fields[s]
      BY FieldsOf DEF Sections
    <2> QED  BY <2>1, UpdateKeeps
  <1>2. /\ \A f \in Fields.llm : f \in DOMAIN p.llm => new.llm[f] = p.llm[f]
        /\ \A f \in {"model", "adapter"} : f \in DOMAIN p.review => new.review[f] = p.review[f]
    BY UpdateSets
  <1> HIDE DEF new
  <1>3. CASE s = "llm"
    <2>1. "adapter" \in DOMAIN p.llm /\ TakesModel(p.llm.adapter, p.llm.model)
      BY <1>1, <1>3 DEF IsPatch
    <2>2. new.llm.adapter = p.llm.adapter /\ new.llm.model = p.llm.model
      BY <1>1, <1>2, <1>3, <2>1, FieldsOf
    <2> QED  BY <1>3, <2>1, <2>2 DEF TakesModel, Fits, new
  <1>4. CASE s = "review"
    <2>1. TakesModel(Given(p.review, "adapter"), p.review.model)
      BY <1>1, <1>4 DEF IsPatch
    <2>2. new.review.model = p.review.model
      BY <1>1, <1>2, <1>4
    <2>3. "adapter" \in DOMAIN p.review => new.review.adapter = p.review.adapter
      BY <1>2
    <2>4. "adapter" \notin DOMAIN p.review => new.review.model \in CodexModels \cup {Unset}
      BY <2>1, <2>2 DEF TakesModel, Given, FirstOf, Unset
    <2>5. Fits(new.review)
      BY <2>1, <2>2, <2>3, <2>4 DEF TakesModel, Given, Fits
    <2> QED  BY <1>4, <2>5 DEF new
  <1> QED
    BY <1>3, <1>4

(* Only a save and a write change a record that stays.                       *)
LEMMA OnlySaves ==
    ASSUME SettingsInv, [SettingsNext]_settingsVars, Exists, repo' # Empty, repo' # repo
    PROVE  \E q \in Requests : SaveRepo(q) \/ WriteRepo(q)
  <1>1. CASE UNCHANGED settingsVars
    BY <1>1 DEF settingsVars
  <1>2. CASE Makes
    BY <1>2 DEF Makes, CreateRepo, DeleteRepo, SwitchPlaybook, DeletePlaybook, CreatePlaybook
  <1>3. CASE Edits
    BY <1>3 DEF Edits, OpenForm, SeeUpdate, Type
  <1>4. ASSUME NEW q \in Requests, Asks(q)
        PROVE  FALSE
    BY <1>4 DEF Asks, AskUpdate, AskSentinel, Submit
  <1>5. ASSUME NEW q \in Requests, Works(q)
        PROVE  SaveRepo(q) \/ WriteRepo(q)
    BY <1>5 DEF Works, CheckPlaybook, SecondCall, WriteCopy, Answer, Fail
  <1> QED
    BY <1>1, <1>2, <1>3, <1>4, <1>5 DEF SettingsNext

(* A patch is stored over the record it finds ...                            *)
LEMMA SaveStep ==
    ASSUME SettingsInv, NEW q \in Requests, SaveRepo(q), Exists
    PROVE  /\ IsSettled(repo) /\ IsPatch(request[q].patch) /\ ForUs(request[q].patch)
           /\ repo' = UpdateRepo(repo, request[q].patch)
           /\ Saving(q)
  <1>1. RequestFits(request[q], playbooks) /\ request[q].at = "save" /\ q \in DOMAIN request
    BY DEF SaveRepo, SettingsInv
  <1>2. request'[q].at # "save"
    BY <1>1 DEF SaveRepo, MovesTo, Ends, Resting, RequestFits, RequestFields
  <1> QED
    BY <1>1, <1>2 DEF SaveRepo, SettingsInv, StoreInv, RequestFits, Saving

(* ... and so is the config of the sentinel, whole.                          *)
LEMMA WriteStep ==
    ASSUME SettingsInv, NEW q \in Requests, WriteRepo(q), Exists
    PROVE  LET p == [Nothing EXCEPT !.sentinel = request[q].config] IN
           /\ IsSettled(repo) /\ IsPatch(p) /\ ForUs(p)
           /\ request[q].config = [f \in SentinelFields |-> request[q].config[f]]
           /\ p.sentinel = request[q].config
           /\ \A s \in Sections \ {"sentinel"} : p[s] = Empty
           /\ repo' = UpdateRepo(repo, p)
           /\ Writing(q)
  <1>1. /\ RequestFits(request[q], playbooks) /\ request[q].at = "write"
        /\ request[q].toRepo = "todo" /\ q \in DOMAIN request
        /\ request' = [request EXCEPT ![q].toRepo = "done"]
    BY DEF WriteRepo, SettingsInv
  <1>2. Writing(q)
    BY <1>1 DEF Writing, RequestFits, RequestFields
  <1>3. request[q].config = [f \in SentinelFields |-> request[q].config[f]]
    BY <1>1 DEF RequestFits
  <1> QED
    BY <1>2, <1>3, SentinelPatch DEF WriteRepo, SettingsInv, StoreInv

LEMMA StepNamesFields ==
    ASSUME SettingsInv, [SettingsNext]_settingsVars, Exists, repo' # Empty,
           NEW sec \in Sections, NEW f \in Fields[sec], repo'[sec][f] # repo[sec][f]
    PROVE  \E q \in Requests :
              \/ Saving(q) /\ f \in DOMAIN request[q].patch[sec]
              \/ Writing(q) /\ sec = "sentinel"
                   /\ (f \in request[q].named \/ ~request[q].alone)
  <1>1. PICK q \in Requests : SaveRepo(q) \/ WriteRepo(q)
    BY OnlySaves
  <1>2. CASE SaveRepo(q)
    <2>1. /\ IsSettled(repo) /\ IsPatch(request[q].patch) /\ ForUs(request[q].patch)
          /\ repo' = UpdateRepo(repo, request[q].patch)
          /\ Saving(q)
      BY <1>2, SaveStep
    <2>2. f \in DOMAIN request[q].patch[sec]
      BY <2>1, UpdateKeeps
    <2> QED  BY <2>1, <2>2
  <1>3. CASE WriteRepo(q)
    <2> DEFINE p == [Nothing EXCEPT !.sentinel = request[q].config]
    <2>1. /\ IsSettled(repo) /\ IsPatch(p) /\ ForUs(p)
          /\ request[q].config = [g \in SentinelFields |-> request[q].config[g]]
          /\ p.sentinel = request[q].config
          /\ \A s \in Sections \ {"sentinel"} : p[s] = Empty
          /\ repo' = UpdateRepo(repo, p)
          /\ Writing(q)
      BY <1>3, WriteStep
    <2>2. repo'.sentinel = NormalizeSentinel(request[q].config)
      BY <2>1, SentinelWritten
    <2> HIDE DEF p
    <2>3. sec = "sentinel"
      <3> SUFFICES ASSUME sec # "sentinel" PROVE FALSE
        OBVIOUS
      <3>1. f \notin DOMAIN p[sec]
        BY <2>1, EmptyIsEmpty
      <3> QED  BY <2>1, <3>1, UpdateKeeps
    <2>4. f \in request[q].named \/ ~request[q].alone
      <3> SUFFICES ASSUME f \notin request[q].named, request[q].alone PROVE FALSE
        BY DEF SettingsInv, RequestFits
      <3>1. f \in SentinelFields
        BY <2>3, FieldsOf
      <3>2. request[q].config[f] = repo.sentinel[f]
        BY <1>3, <3>1 DEF SettingsInv, AloneInv, WriteRepo
      <3>3. repo'.sentinel[f] = FirstOf(request[q].config[f], DefaultSentinel[f])
        <4>1. DOMAIN DefaultSentinel = SentinelFields /\ DOMAIN request[q].config = SentinelFields
          BY <2>1 DEF DefaultSentinel
        <4> QED  BY <2>2, <3>1, <4>1 DEF NormalizeSentinel, Filled, Given
      <3>4. repo.sentinel[f] = FirstOf(repo.sentinel[f], DefaultSentinel[f])
        BY <2>1, <3>1 DEF IsSettled
      <3> QED  BY <2>3, <3>2, <3>3, <3>4
    <2> QED  BY <2>1, <2>3, <2>4
  <1> QED
    BY <1>1, <1>2, <1>3

LEMMA StepNamesModels ==
    ASSUME SettingsInv, [SettingsNext]_settingsVars, Exists, repo' # Empty,
           NEW sec \in {"llm", "review"}, repo'[sec].model # repo[sec].model
    PROVE  Fits(repo'[sec])
  <1>1. PICK q \in Requests : SaveRepo(q) \/ WriteRepo(q)
    BY OnlySaves
  <1>2. CASE SaveRepo(q)
    <2>1. /\ IsSettled(repo) /\ IsPatch(request[q].patch) /\ ForUs(request[q].patch)
          /\ repo' = UpdateRepo(repo, request[q].patch)
      BY <1>2, SaveStep
    <2> QED  BY <2>1, ModelFits
  <1>3. CASE WriteRepo(q)
    <2> DEFINE p == [Nothing EXCEPT !.sentinel = request[q].config]
    <2>1. IsSettled(repo) /\ IsPatch(p) /\ ForUs(p) /\ repo' = UpdateRepo(repo, p)
      BY <1>3, WriteStep
    <2> HIDE DEF p
    <2> QED  BY <2>1, ModelFits
  <1> QED
    BY <1>1, <1>2, <1>3

(* A field of the record changes only by a patch that names it, or by a change *)
(* of the sentinel's config that names it or was not alone; and a model that *)
(* changes is one that the adapter then in force takes.                      *)
THEOREM PatchesKeep == SettingsSpec => PatchesKeepTheRest
  <1>1. SettingsInv /\ [SettingsNext]_settingsVars =>
          [Exists /\ repo' # Empty =>
             \A sec \in Sections : \A f \in Fields[sec] :
                repo'[sec][f] # repo[sec][f] =>
                   \E q \in Requests :
                      \/ Saving(q) /\ f \in DOMAIN request[q].patch[sec]
                      \/ Writing(q) /\ sec = "sentinel"
                           /\ (f \in request[q].named \/ ~request[q].alone)]_settingsVars
    BY StepNamesFields
  <1>2. SettingsInv /\ [SettingsNext]_settingsVars =>
          [Exists /\ repo' # Empty =>
             \A sec \in {"llm", "review"} :
                repo'[sec].model # repo[sec].model => Fits(repo'[sec])]_settingsVars
    BY StepNamesModels
  <1>3. SettingsSpec => OnlyNamedFields
    BY <1>1, SettingsHold, PTL DEF SettingsSpec, OnlyNamedFields
  <1>4. SettingsSpec => NamedModelFits
    BY <1>2, SettingsHold, PTL DEF SettingsSpec, NamedModelFits
  <1> QED
    BY <1>3, <1>4 DEF PatchesKeepTheRest

-----------------------------------------------------------------------------
(* What the form sends of a section in which nothing was typed.              *)

(* What the form sends, by section. *)
LEMMA PayloadSections ==
    ASSUME NEW v
    PROVE  LET b == Payload(v)
               conf == PreviewPayload(v.preview)
               sent == Restrict(v.review, Named(v.review) \cup {"playbook"}) IN
           /\ b = [s \in Sections |-> b[s]]
           /\ b.basics = Overlay([enabled |-> "yes"], v.basics)
           /\ b.llm = Restrict(v.llm, Named(v.llm))
           /\ b.preview = Restrict([adapter |-> v.preview.adapter, config |-> conf,
                                    checkName |-> v.preview.check],
                            {"adapter"}
                              \cup (IF conf = NoConfig THEN {} ELSE {"config"})
                              \cup (IF v.preview.check = Unset THEN {} ELSE {"checkName"}))
           /\ b.review \in {sent, Overlay(sent, [codexModel |-> v.review.model])}
           /\ b.commit = Restrict(v.commit, Named(v.commit))
           /\ b.checkpoint = Empty
  BY DEF Payload, Sections

(* What a patch has, by section. *)
LEMMA PatchSections ==
    ASSUME NEW b, b = [s \in Sections |-> b[s]], NEW p, p = ReadPatch(b)
    PROVE  /\ p.basics = b.basics /\ p.llm = ReadLlm(b.llm) /\ p.preview = ReadPreview(b.preview)
           /\ p.commit = b.commit /\ p.checkpoint = b.checkpoint /\ p.sentinel = b.sentinel
           /\ Given(ReadReview(b.review), "provider") # Unset => p.review = ReadReview(b.review)
  <1> DEFINE n == ReadBody(b)
             x == DefaultProvider(Given(b.basics, "scm"))
  <1>1. /\ n = [s \in Sections |-> n[s]]
        /\ n.basics = b.basics /\ n.commit = b.commit /\ n.sentinel = b.sentinel
        /\ n.checkpoint = b.checkpoint /\ n.llm = ReadLlm(b.llm)
        /\ n.preview = ReadPreview(b.preview) /\ n.review = ReadReview(b.review)
    BY DEF ReadBody, Sections
  <1>2. \/ p = n
        \/ /\ Given(n.review, "provider") = Unset
           /\ p = [n EXCEPT !.review = Overlay([provider |-> x], @)]
    BY DEF ReadPatch
  <1> HIDE DEF n, x
  <1>3. CASE p = n
    BY <1>1, <1>3
  <1>4. CASE /\ Given(n.review, "provider") = Unset
             /\ p = [n EXCEPT !.review = Overlay([provider |-> x], @)]
    <2>1. \A s \in Sections \ {"review"} : p[s] = n[s]
      BY <1>1, <1>4
    <2> QED  BY <1>1, <1>4, <2>1 DEF Sections
  <1> QED
    BY <1>2, <1>3, <1>4

LEMMA SentSections ==
    ASSUME NEW r, NEW t, NEW v, v = FormValues(r, t)
    PROVE  /\ SentBy(r, t) = [s \in Sections |-> SentBy(r, t)[s]]
           /\ SentBy(r, t).basics = Overlay([enabled |-> "yes"], v.basics)
           /\ SentBy(r, t).llm = Restrict(v.llm, Named(v.llm))
           /\ SentBy(r, t).commit = Restrict(v.commit, Named(v.commit))
           /\ SentBy(r, t).checkpoint = Empty
  BY PayloadSections DEF SentBy

LEMMA PatchOfSections ==
    ASSUME NEW r, NEW t, NEW b, b = SentBy(r, t), NEW p, p = PatchOf(r, t)
    PROVE  /\ p.basics = b.basics /\ p.llm = ReadLlm(b.llm) /\ p.preview = ReadPreview(b.preview)
           /\ p.commit = b.commit /\ p.checkpoint = Empty /\ p.sentinel = Empty
           /\ Given(ReadReview(b.review), "provider") # Unset => p.review = ReadReview(b.review)
  <1> DEFINE n == [b EXCEPT !.sentinel = Empty]
  <1>1. b = [s \in Sections |-> b[s]] /\ b.checkpoint = Empty
    BY SentSections
  <1>2. /\ n = [s \in Sections |-> n[s]] /\ n.sentinel = Empty
        /\ n.basics = b.basics /\ n.llm = b.llm /\ n.preview = b.preview
        /\ n.commit = b.commit /\ n.checkpoint = b.checkpoint /\ n.review = b.review
    BY <1>1 DEF Sections
  <1>3. p = ReadPatch(n)
    BY DEF PatchOf
  <1> HIDE DEF n
  <1>4. /\ p.basics = n.basics /\ p.llm = ReadLlm(n.llm) /\ p.preview = ReadPreview(n.preview)
        /\ p.commit = n.commit /\ p.checkpoint = n.checkpoint /\ p.sentinel = n.sentinel
        /\ Given(ReadReview(n.review), "provider") # Unset => p.review = ReadReview(n.review)
    BY <1>2, <1>3, PatchSections
  <1> QED
    BY <1>1, <1>2, <1>4

(* In a section in which nothing was typed, the form has what it showed ...  *)
LEMMA ValuesShown ==
    ASSUME NEW r, NEW t, IsSettled(r), IsTyping(t), NEW s \in FormSections, t[s] = Empty
    PROVE  /\ DOMAIN FormValues(r, t)[s] = FormFields[s]
           /\ \A f \in FormFields[s] : FormValues(r, t)[s][f] = FormOf(r)[s][f]
  <1> DEFINE v == FormValues(r, t)
  <1>1. \A x \in FormSections :
           /\ v[x] = [f \in FormFields[x] |-> v[x][f]]
           /\ \A f \in FormFields[x] :
                 v[x][f] = IF f \in DOMAIN t[x] THEN t[x][f] ELSE FormOf(r)[x][f]
    BY ValueFields
  <1> HIDE DEF v
  <1> QED
    BY <1>1, EmptyIsEmpty DEF v

(* ... which is what the record has, with the defaults that a run would take. *)
LEMMA FormShows ==
    ASSUME NEW r, IsSettled(r)
    PROVE  LET v == FormOf(r) IN
           /\ v.basics.scm = r.basics.scm /\ v.basics.defaultBranch = r.basics.defaultBranch
           /\ v.llm = ResolveLlm(r)
           /\ v.preview.adapter = r.preview.adapter /\ v.preview.check = r.preview.config.check
           /\ v.preview.recipe = r.preview.config.recipe
           /\ \A f \in {"enabled", "provider", "inline", "prompt", "playbook"} :
                 v.review[f] = r.review[f]
           /\ v.commit = r.commit /\ v.sentinel = r.sentinel
  <1>1. \A f \in {"enabled", "provider", "inline", "prompt", "playbook"} :
           ReviewShown(r.review)[f] = r.review[f]
    BY DEF ReviewShown, Overlay, Restrict
  <1> QED
    BY <1>1 DEF FormOf, Restrict

LEMMA FormSections6 ==
    FormSections = {"basics", "llm", "preview", "review", "commit", "sentinel"}
  BY DEF FormSections, Sections

(* Section by section, the patch of a form in which nothing was typed there  *)
(* changes nothing that the section means.                                   *)
LEMMA KeepsBasics ==
    ASSUME NEW r, NEW t, IsSettled(r), IsTyping(t), t.basics = Empty,
           IsPatch(PatchOf(r, t)), ForUs(PatchOf(r, t))
    PROVE  Meaning("basics", UpdateRepo(r, PatchOf(r, t))) = Meaning("basics", r)
  <1> DEFINE p == PatchOf(r, t)
             v == FormValues(r, t)
             new == UpdateRepo(r, p)
  <1>1. p.basics = Overlay([enabled |-> "yes"], v.basics)
    <2>1. p.basics = SentBy(r, t).basics
      BY PatchOfSections
    <2> QED  BY <2>1, SentSections
  <1>2. /\ DOMAIN v.basics = {"scm", "defaultBranch"}
        /\ v.basics.scm = r.basics.scm /\ v.basics.defaultBranch = r.basics.defaultBranch
    <2>1. "basics" \in FormSections /\ FormFields.basics = {"scm", "defaultBranch"}
      BY FormSections6 DEF FormFields
    <2> QED  BY <2>1, ValuesShown, FormShows
  <1> HIDE DEF p, v
  <1>3. /\ DOMAIN p.basics = {"enabled", "scm", "defaultBranch"}
        /\ p.basics.scm = r.basics.scm /\ p.basics.defaultBranch = r.basics.defaultBranch
    BY <1>1, <1>2 DEF Overlay
  <1>4. "basics" \in Sections \ {"preview"} /\ {"tenant", "scm", "defaultBranch"} \subseteq Fields.basics
    BY FieldsOf DEF Sections
  <1>5. \A f \in {"tenant", "scm", "defaultBranch"} : new.basics[f] = r.basics[f]
    BY <1>3, <1>4, UpdateSame DEF p
  <1>6. IsSettled(new)
    BY UpdateIsSettled DEF p
  <1> HIDE DEF new
  <1>7. /\ new.basics = [f \in Fields.basics |-> new.basics[f]]
        /\ r.basics = [f \in Fields.basics |-> r.basics[f]]
    BY <1>4, <1>6 DEF IsSettled, IsMerged, IsComplete
  <1>8. [new.basics EXCEPT !.enabled = "yes"] = [r.basics EXCEPT !.enabled = "yes"]
    BY <1>5, <1>7, FieldsOf
  <1> QED
    BY <1>8 DEF Meaning, new, p

LEMMA KeepsCommit ==
    ASSUME NEW r, NEW t, IsSettled(r), IsTyping(t), t.commit = Empty,
           IsPatch(PatchOf(r, t)), ForUs(PatchOf(r, t))
    PROVE  Meaning("commit", UpdateRepo(r, PatchOf(r, t))) = Meaning("commit", r)
  <1> DEFINE p == PatchOf(r, t)
             v == FormValues(r, t)
             new == UpdateRepo(r, p)
  <1>1. p.commit = Restrict(v.commit, Named(v.commit))
    <2>1. p.commit = SentBy(r, t).commit
      BY PatchOfSections
    <2> QED  BY <2>1, SentSections
  <1>2. DOMAIN v.commit = {"config"} /\ v.commit.config = r.commit.config
    <2>1. "commit" \in FormSections /\ FormFields.commit = {"config"}
      BY FormSections6 DEF FormFields
    <2> QED  BY <2>1, ValuesShown, FormShows
  <1> HIDE DEF p, v
  <1>3. "config" \in DOMAIN p.commit => p.commit.config = r.commit.config
    BY <1>1, <1>2 DEF Restrict
  <1>4. "commit" \in Sections \ {"preview"} /\ Fields.commit = {"config"}
    BY FieldsOf DEF Sections
  <1>5. new.commit.config = r.commit.config
    BY <1>3, <1>4, UpdateSame DEF p
  <1>6. IsSettled(new)
    BY UpdateIsSettled DEF p
  <1> HIDE DEF new
  <1>7. new.commit = [f \in Fields.commit |-> new.commit[f]] /\ r.commit = [f \in Fields.commit |-> r.commit[f]]
    BY <1>4, <1>6 DEF IsSettled, IsMerged, IsComplete
  <1>8. new.commit = r.commit
    BY <1>4, <1>5, <1>7
  <1> QED
    BY <1>8 DEF Meaning, new, p

LEMMA KeepsUnsent ==
    ASSUME NEW r, NEW t, IsSettled(r), NEW s \in {"sentinel", "checkpoint"},
           IsPatch(PatchOf(r, t)), ForUs(PatchOf(r, t))
    PROVE  Meaning(s, UpdateRepo(r, PatchOf(r, t))) = Meaning(s, r)
  <1> DEFINE p == PatchOf(r, t)
             new == UpdateRepo(r, p)
  <1>1. p[s] = Empty
    BY PatchOfSections
  <1>2. s \in Sections
    BY DEF Sections
  <1>3. \A f \in Fields[s] : new[s][f] = r[s][f]
    BY <1>1, <1>2, EmptyIsEmpty, UpdateKeeps
  <1>4. IsSettled(new)
    BY UpdateIsSettled
  <1> HIDE DEF new
  <1>5. new[s] = [f \in Fields[s] |-> new[s][f]] /\ r[s] = [f \in Fields[s] |-> r[s][f]]
    BY <1>2, <1>4 DEF IsSettled, IsMerged, IsComplete
  <1>6. new[s] = r[s]
    BY <1>3, <1>5
  <1> QED
    BY <1>6 DEF Meaning, new

LEMMA KeepsReview ==
    ASSUME NEW r, NEW t, IsSettled(r), IsTyping(t), t.review = Empty,
           IsPatch(PatchOf(r, t)), ForUs(PatchOf(r, t))
    PROVE  Meaning("review", UpdateRepo(r, PatchOf(r, t))) = Meaning("review", r)
  <1> DEFINE p == PatchOf(r, t)
             v == FormValues(r, t)
             b == SentBy(r, t)
             new == UpdateRepo(r, p)
             sent == Restrict(v.review, Named(v.review) \cup {"playbook"})
             Plain == {"enabled", "provider", "inline", "prompt", "playbook"}
  <1>1. \A f \in Plain : f \in DOMAIN v.review /\ v.review[f] = r.review[f]
    <2>1. "review" \in FormSections /\ Plain \subseteq FormFields.review
      BY FormSections6 DEF FormFields
    <2> QED  BY <2>1, ValuesShown, FormShows
  <1>2. b.review \in {sent, Overlay(sent, [codexModel |-> v.review.model])}
    BY PayloadSections DEF SentBy
  <1>3. Given(ReadReview(b.review), "provider") # Unset => p.review = ReadReview(b.review)
    BY PatchOfSections
  <1> HIDE DEF p, v, b
  <1>4. \A f \in Plain :
           /\ f \in DOMAIN b.review => b.review[f] = r.review[f]
           /\ r.review[f] # Unset => f \in DOMAIN b.review
    BY <1>1, <1>2 DEF Restrict, Named, Overlay
  <1> DEFINE read == ReadReview(b.review)
  <1>5. \A f \in Plain :
           /\ f \in DOMAIN read => read[f] = r.review[f]
           /\ r.review[f] # Unset => f \in DOMAIN read
    BY <1>4 DEF ReadReview, Restrict, Named, Overlay
  <1>6. "posting" \notin DOMAIN read
    <2>1. "posting" \notin DOMAIN v.review
      BY FormSections6, ValuesShown DEF FormFields, v
    <2>2. "posting" \notin DOMAIN b.review
      BY <1>2, <2>1, <1>1 DEF Restrict, Named, Overlay
    <2> QED  BY <2>2 DEF ReadReview, Restrict, Named, Overlay
  <1>7. r.review.provider # Unset
    BY DEF IsSettled
  <1> HIDE DEF read
  <1>8. p.review = read
    <2>1. Given(read, "provider") # Unset
      BY <1>5, <1>7 DEF Given
    <2> QED  BY <1>3, <2>1 DEF read
  <1>9. "review" \in Sections \ {"preview"} /\ Plain \cup {"posting"} \subseteq Fields.review
    BY FieldsOf DEF Sections
  <1>10. \A f \in Plain \cup {"posting"} : new.review[f] = r.review[f]
    BY <1>5, <1>6, <1>8, <1>9, UpdateSame DEF p
  <1>11. new.basics.tenant = r.basics.tenant
    BY UpdateIsSettled DEF IsSettled, p
  <1> HIDE DEF new
  <1>12. /\ new.review.enabled = r.review.enabled /\ new.review.provider = r.review.provider
         /\ new.review.inline = r.review.inline /\ new.review.prompt = r.review.prompt
         /\ new.review.playbook = r.review.playbook /\ new.review.posting = r.review.posting
    BY <1>10
  <1>13. \A x \in Tasks : ResolveReview(new, playbooks, x) = ResolveReview(r, playbooks, x)
    BY <1>11, <1>12 DEF ResolveReview
  <1>14. [x \in Tasks |-> ResolveReview(new, playbooks, x)] = [x \in Tasks |-> ResolveReview(r, playbooks, x)]
    BY <1>13
  <1> QED
    BY <1>14 DEF Meaning, new, p

LEMMA KeepsLlm ==
    ASSUME NEW r, NEW t, IsSettled(r), IsTyping(t), t.llm = Empty,
           IsPatch(PatchOf(r, t)), ForUs(PatchOf(r, t))
    PROVE  Meaning("llm", UpdateRepo(r, PatchOf(r, t))) = Meaning("llm", r)
  <1> DEFINE p == PatchOf(r, t)
             v == FormValues(r, t)
             b == Restrict(v.llm, Named(v.llm))
             new == UpdateRepo(r, p)
             adapter == FirstOf(r.llm.adapter, "codex")
             model == FirstOf(r.llm.model, DefaultModel(adapter))
             effort == FirstOf(r.llm.effort, "medium")
  <1>1. p.llm = ReadLlm(b)
    <2>1. p.llm = ReadLlm(SentBy(r, t).llm)
      BY PatchOfSections
    <2> QED  BY <2>1, SentSections
  <1>2. /\ DOMAIN v.llm = {"adapter", "model", "effort"}
        /\ v.llm.adapter = adapter /\ v.llm.model = model /\ v.llm.effort = effort
    <2>1. "llm" \in FormSections /\ FormFields.llm = {"adapter", "model", "effort"}
      BY FormSections6 DEF FormFields
    <2>2. /\ DOMAIN v.llm = {"adapter", "model", "effort"}
          /\ \A f \in {"adapter", "model", "effort"} : v.llm[f] = FormOf(r).llm[f]
      BY <2>1, ValuesShown
    <2>3. FormOf(r).llm = [adapter |-> adapter, model |-> model, effort |-> effort]
      BY DEF FormOf, ResolveLlm
    <2> HIDE DEF v, adapter, model, effort
    <2> QED  BY <2>2, <2>3
  <1>3. adapter # Unset /\ effort # Unset
    BY DEF FirstOf, Unset
  <1> HIDE DEF v, p, adapter, model, effort
  <1>4. /\ DOMAIN b = {"adapter", "effort"} \cup (IF model = Unset THEN {} ELSE {"model"})
        /\ b.adapter = adapter /\ b.effort = effort /\ (model # Unset => b.model = model)
    BY <1>2, <1>3 DEF Restrict, Named
  <1> HIDE DEF b
  <1>5. EffectiveAdapter(b) = adapter /\ (model # Unset => EffectiveModel(b) = model)
    BY <1>3, <1>4 DEF EffectiveAdapter, EffectiveModel, Given, FirstOf
  <1>6. /\ DOMAIN p.llm = {"adapter", "effort"} \cup (IF model = Unset THEN {} ELSE {"model"})
        /\ p.llm.adapter = adapter /\ p.llm.effort = effort /\ (model # Unset => p.llm.model = model)
    BY <1>1, <1>4, <1>5 DEF ReadLlm, Restrict, Given
  <1>7. \A f \in DOMAIN p.llm : new.llm[f] = p.llm[f]
    <2>1. DOMAIN p.llm \subseteq Fields.llm
      BY <1>6, FieldsOf
    <2> QED  BY <2>1, UpdateSets DEF p
  <1>8. model = Unset => new.llm.model = r.llm.model
    <2>1. "llm" \in Sections /\ "model" \in Fields.llm
      BY FieldsOf DEF Sections
    <2> QED  BY <1>6, <2>1, UpdateKeeps DEF p
  <1> HIDE DEF new
  <1>9. new.llm.adapter = adapter /\ new.llm.effort = effort /\ (model # Unset => new.llm.model = model)
    BY <1>6, <1>7
  <1>10. FirstOf(new.llm.model, DefaultModel(adapter)) = model
    BY <1>8, <1>9 DEF FirstOf, model
  <1>11. ResolveLlm(new) = [adapter |-> adapter, model |-> model, effort |-> effort]
    BY <1>3, <1>9, <1>10 DEF ResolveLlm, FirstOf
  <1>12. ResolveLlm(r) = [adapter |-> adapter, model |-> model, effort |-> effort]
    BY DEF ResolveLlm, adapter, model, effort
  <1> QED
    BY <1>11, <1>12 DEF Meaning, new, p

LEMMA KeepsPreview ==
    ASSUME NEW r, NEW t, IsSettled(r), IsTyping(t), t.preview = Empty,
           IsPatch(PatchOf(r, t)), ForUs(PatchOf(r, t))
    PROVE  Meaning("preview", UpdateRepo(r, PatchOf(r, t))) = Meaning("preview", r)
  <1> DEFINE p == PatchOf(r, t)
             v == FormValues(r, t)
             m == Merge(r, p)
             new == BuildRepo(m)
             adapter == r.preview.adapter
             check == r.preview.config.check
             recipe == r.preview.config.recipe
             conf == [check |-> IF adapter = "cloudflare_checks" THEN check ELSE Unset,
                        recipe |-> IF adapter = "prompt_recipe" THEN recipe ELSE Unset]
             names == {"adapter"} \cup (IF conf = NoConfig THEN {} ELSE {"config"})
                        \cup (IF check = Unset THEN {} ELSE {"checkName"})
             b == Restrict([adapter |-> adapter, config |-> conf, checkName |-> check], names)
  <1>1. v.preview.adapter = adapter /\ v.preview.check = check /\ v.preview.recipe = recipe
    <2>1. "preview" \in FormSections /\ FormFields.preview = {"adapter", "check", "recipe"}
      BY FormSections6 DEF FormFields
    <2> QED  BY <2>1, ValuesShown, FormShows
  <1>2. p.preview = ReadPreview(b)
    <2>1. PreviewPayload(v.preview) = conf
      BY <1>1 DEF PreviewPayload
    <2> HIDE DEF v, conf
    <2>2. Payload(v).preview = b
      BY <1>1, <2>1, PayloadSections
    <2>3. SentBy(r, t).preview = b
      BY <2>2 DEF SentBy, v
    <2> HIDE DEF b
    <2> QED  BY <2>3, PatchOfSections
  <1>3. adapter # Unset /\ r.preview.checkName = check
    BY DEF IsSettled, IsMerged, NamesAgree
  <1> HIDE DEF v, p
  <1>4. /\ DOMAIN b = names /\ b.adapter = adapter
        /\ ("config" \in names => b.config = conf) /\ ("checkName" \in names => b.checkName = check)
    BY DEF Restrict
  <1>5. /\ PreviewAdapter(b) = adapter
        /\ FirstOf(Config(b).check, Given(b, "checkName")) = check
        /\ Config(b).recipe = conf.recipe
    <2>1. PreviewAdapter(b) = adapter
      BY <1>3, <1>4 DEF PreviewAdapter, Given, FirstOf
    <2>2. Config(b) = conf
      BY <1>4 DEF Config, NoConfig
    <2>3. Given(b, "checkName") = check
      BY <1>4 DEF Given
    <2> QED  BY <2>1, <2>2, <2>3 DEF FirstOf
  <1> HIDE DEF b
  <1>6. /\ "adapter" \in DOMAIN p.preview /\ p.preview.adapter = adapter
        /\ "config" \in DOMAIN p.preview => p.preview.config = [check |-> check, recipe |-> conf.recipe]
        /\ "config" \notin DOMAIN p.preview => conf = NoConfig
        /\ "checkName" \in DOMAIN p.preview => p.preview.checkName = check
    <2> DEFINE named == UNION {pair \in PreviewPairs : pair \cap DOMAIN b # {}}
               provider == FirstOf(Given(b, "provider"),
                              IF adapter = "cloudflare_checks" THEN "cloudflare" ELSE Unset)
               read == [adapter |-> adapter, provider |-> provider,
                        config |-> [check |-> check, recipe |-> conf.recipe], checkName |-> check]
    <2>1. p.preview = [f \in named |-> read[f]]
      BY <1>2, <1>5 DEF ReadPreview, Restrict
    <2>2. "adapter" \in named /\ (conf # NoConfig => "config" \in named)
      BY <1>4 DEF PreviewPairs
    <2> HIDE DEF named, provider, conf
    <2> QED  BY <2>1, <2>2
  <1>7. /\ m.preview.adapter = adapter
        /\ m.preview.config.check = check
        /\ (adapter = "prompt_recipe" => m.preview.config.recipe = recipe)
        /\ m.preview.checkName = check
        /\ IsComplete(m)
        /\ NamesAgree(m.preview)
    <2>1. IsMerged(m)
      BY MergedIsMerged DEF IsSettled, p
    <2>2. \A f \in Fields.preview :
             m.preview[f] = IF f \in DOMAIN p.preview THEN p.preview[f] ELSE r.preview[f]
      <3>1. IsComplete(r) /\ p = [s \in Sections |-> p[s]] /\ \A s \in Sections : Partial(p[s], Fields[s])
        BY DEF IsSettled, IsMerged, IsPatch, p
      <3>2. "preview" \in Sections
        BY DEF Sections
      <3> QED  BY <3>1, <3>2, MergeValue
    <2> HIDE DEF m
    <2>3. m.preview.adapter = adapter /\ m.preview.checkName = check
      BY <1>3, <1>6, <2>2, FieldsOf
    <2>4. CASE "config" \in DOMAIN p.preview
      <3>1. m.preview.config = [check |-> check, recipe |-> conf.recipe]
        BY <1>6, <2>2, <2>4, FieldsOf
      <3> QED  BY <2>1, <2>3, <3>1 DEF IsMerged
    <2>5. CASE "config" \notin DOMAIN p.preview
      <3>1. m.preview.config = r.preview.config
        BY <2>2, <2>5, FieldsOf
      <3> QED  BY <2>1, <2>3, <3>1 DEF IsMerged
    <2> QED  BY <2>4, <2>5
  <1> HIDE DEF m, conf
  <1>8. new.preview = NormalizePreview(m.preview)
    BY <1>7, BuildSections
  <1>9. PreviewAdapter(m.preview) = adapter
    <2>1. DOMAIN m.preview = Fields.preview
      BY <1>7 DEF IsComplete, Sections
    <2> QED  BY <1>3, <1>7, <2>1, FieldsOf DEF PreviewAdapter, Given, FirstOf
  <1>10. /\ new.preview.adapter = adapter
         /\ new.preview.config = [m.preview.config EXCEPT !.check = check]
    BY <1>3, <1>7, <1>8, <1>9 DEF NormalizePreview, FirstOf
  <1>11. new.preview.config.check = check /\ new.preview.config.recipe = m.preview.config.recipe
    <2>1. m.preview.config = [check |-> m.preview.config.check, recipe |-> m.preview.config.recipe]
      BY <1>7 DEF IsComplete
    <2> QED  BY <1>10, <2>1
  <1> HIDE DEF new
  <1>12. <<new.preview.adapter, new.preview.config.check,
           IF new.preview.adapter = "prompt_recipe" THEN new.preview.config.recipe ELSE Unset>>
         = <<adapter, check, IF adapter = "prompt_recipe" THEN recipe ELSE Unset>>
    BY <1>7, <1>10, <1>11
  <1> QED
    BY <1>12 DEF Meaning, UpdateRepo, new, m, p

-----------------------------------------------------------------------------
(* From the form to its two calls: the request keeps what was sent.          *)

(* What SentByForm reads of a request. *)
SentFields == RequestFields \ {"alone", "toCopy", "toRepo"}
SameSent(r, s) == \A f \in SentFields : r[f] = s[f]

LEMMA SentStays ==
    ASSUME NEW r, NEW s, SentByForm(s), SameSent(r, s)
    PROVE  SentByForm(r)
  <1>1. /\ r.at = s.at /\ r.patch = s.patch /\ r.config = s.config /\ r.named = s.named
        /\ r.ofForm = s.ofForm /\ r.next = s.next /\ r.seen = s.seen /\ r.typed = s.typed
    BY DEF SameSent, SentFields, RequestFields
  <1> QED
    BY <1>1 DEF SentByForm

LEMMA NotOfForm ==
    ASSUME NEW r, r.ofForm = FALSE
    PROVE  SentByForm(r)
  BY DEF SentByForm

LEMMA RestingSent == SentByForm(Resting)
  BY NotOfForm DEF Resting

LEMMA DisturbedSent ==
    ASSUME SentInv, NEW q \in Requests
    PROVE  SameSent(Disturb(request)[q], request[q])
  <1>1. DOMAIN request = Requests /\ DOMAIN request[q] = RequestFields
    BY DEF SentInv, SettingsInv, RequestFits
  <1>2. Disturb(request)[q] = [request[q] EXCEPT !.alone = FALSE]
    BY <1>1 DEF Disturb
  <1> QED
    BY <1>1, <1>2 DEF SameSent, SentFields, RequestFields

LEMMA BeginSent ==
    ASSUME SentInv, NEW q \in Requests, NEW new, Begin(q, new), DOMAIN new = RequestFields,
           SentByForm(new)
    PROVE  \A o \in Requests : SentByForm(request'[o])
  <1> DEFINE d == Disturb(request)
             mine == [new EXCEPT !.alone = (Active \ {q} = {})]
  <1>1. request' = [d EXCEPT ![q] = mine] /\ DOMAIN d = Requests
    BY DEF Begin, Disturb
  <1>2. SameSent(mine, new)
    BY DEF SameSent, SentFields, RequestFields
  <1>3. \A o \in Requests \ {q} : SameSent(d[o], request[o])
    BY DisturbedSent
  <1> HIDE DEF d, mine
  <1>4. \A o \in Requests \ {q} : request'[o] = d[o]
    BY <1>1
  <1>5. request'[q] = mine
    BY <1>1
  <1> QED
    BY <1>2, <1>3, <1>4, <1>5, SentStays DEF SentInv

LEMMA OneSent ==
    ASSUME SentInv, NEW q \in Requests, NEW new, request' = [request EXCEPT ![q] = new],
           SentByForm(new)
    PROVE  \A o \in Requests : SentByForm(request'[o])
  <1>1. DOMAIN request = Requests
    BY DEF SentInv, SettingsInv
  <1> QED
    BY <1>1 DEF SentInv

LEMMA EndSent ==
    ASSUME SentInv, NEW q \in Requests, NEW well, Ends(q, well)
    PROVE  \A o \in Requests : SentByForm(request'[o])
  BY OneSent, RestingSent DEF Ends

LEMMA DisturbSent ==
    ASSUME SentInv, request' = Disturb(request)
    PROVE  \A o \in Requests : SentByForm(request'[o])
  BY DisturbedSent, SentStays DEF SentInv

LEMMA AskUpdateSent ==
    ASSUME SentInv, NEW q \in Requests, NEW body \in Bodies, AskUpdate(q, body)
    PROVE  \A o \in Requests : SentByForm(request'[o])
  <1> DEFINE new == Opened(ReadPatch(body))
  <1>1. DOMAIN new = RequestFields /\ new.ofForm = FALSE
    BY DEF Opened, Resting, RequestFields
  <1>2. Begin(q, new)
    BY DEF AskUpdate
  <1> HIDE DEF new
  <1> QED
    BY <1>1, <1>2, NotOfForm, BeginSent

LEMMA SubmitSent ==
    ASSUME SentInv, NEW q \in Requests, Submit(q)
    PROVE  \A o \in Requests : SentByForm(request'[o])
  <1> DEFINE p == PatchOf(form.seen, form.typed)
             new == [Opened(p) EXCEPT !.ofForm = TRUE,
                                      !.next = SentBy(form.seen, form.typed).sentinel,
                                      !.seen = form.seen, !.typed = form.typed]
  <1>1. Begin(q, new) /\ form.at = "open"
    BY DEF Submit, PatchOf, SentBy
  <1>2. IsSettled(form.seen) /\ IsTyping(form.typed)
    BY <1>1 DEF SentInv, SettingsInv, FormInv
  <1>3. /\ DOMAIN Opened(p) = RequestFields /\ Opened(p).at \in {"playbook", "save"}
        /\ Opened(p).patch = p
    BY DEF Opened, Resting, RequestFields
  <1> HIDE DEF p
  <1>4. /\ DOMAIN new = RequestFields /\ new.ofForm = TRUE
        /\ new.next = SentBy(form.seen, form.typed).sentinel
        /\ new.seen = form.seen /\ new.typed = form.typed
        /\ new.at \in {"playbook", "save"} /\ new.patch = p
    BY <1>3 DEF RequestFields
  <1> HIDE DEF new
  <1>5. SentByForm(new)
    BY <1>2, <1>4 DEF SentByForm, p
  <1> QED
    BY <1>1, <1>4, <1>5, BeginSent

LEMMA AskSentinelSent ==
    ASSUME SentInv, NEW q \in Requests, NEW body \in SentinelBodies, AskSentinel(q, body)
    PROVE  \A o \in Requests : SentByForm(request'[o])
  <1> DEFINE new == Merging(Resting, body)
  <1>1. DOMAIN new = RequestFields /\ new.ofForm = FALSE
    BY DEF Merging, Resting, RequestFields
  <1>2. Begin(q, new)
    BY DEF AskSentinel
  <1> HIDE DEF new
  <1> QED
    BY <1>1, <1>2, NotOfForm, BeginSent

LEMMA SecondCallSent ==
    ASSUME SentInv, NEW q \in Requests, SecondCall(q)
    PROVE  \A o \in Requests : SentByForm(request'[o])
  <1> DEFINE r == request[q]
             new == Merging(r, r.next)
  <1>1. /\ DOMAIN r = RequestFields /\ r.ofForm = TRUE /\ r.at = "second" /\ SentByForm(r)
    BY DEF SentInv, SettingsInv, RequestFits, SecondCall
  <1>2. CASE ~Exists
    BY <1>2, EndSent DEF SecondCall
  <1>3. CASE Exists
    <2>1. Begin(q, new)
      BY <1>3 DEF SecondCall
    <2>2. /\ DOMAIN new = RequestFields /\ new.at = "write" /\ new.named = DOMAIN r.next
          /\ new.config = MergeSentinel(repo.sentinel, r.next)
          /\ new.ofForm = TRUE /\ new.next = r.next /\ new.seen = r.seen /\ new.typed = r.typed
      BY <1>1 DEF Merging, RequestFields
    <2>3. \A f \in DOMAIN r.next : new.config[f] = r.next[f]
      BY <2>2 DEF MergeSentinel, Overlay
    <2> HIDE DEF new, r
    <2>4. SentByForm(new)
      BY <1>1, <2>2, <2>3 DEF SentByForm
    <2> QED  BY <2>1, <2>2, <2>4, BeginSent
  <1> QED
    BY <1>2, <1>3

LEMMA CheckPlaybookSent ==
    ASSUME SentInv, NEW q \in Requests, CheckPlaybook(q)
    PROVE  \A o \in Requests : SentByForm(request'[o])
  <1> DEFINE r == request[q]
             new == [r EXCEPT !.at = "save"]
  <1>1. DOMAIN r = RequestFields /\ r.at = "playbook" /\ SentByForm(r) /\ DOMAIN request = Requests
    BY DEF SentInv, SettingsInv, RequestFits, CheckPlaybook
  <1>2. CASE Ends(q, FALSE)
    BY <1>2, EndSent
  <1>3. CASE MovesTo(q, "save")
    <2>1. request' = [request EXCEPT ![q] = new]
      BY <1>1, <1>3 DEF MovesTo
    <2>2. new.at = "save" /\ \A f \in RequestFields \ {"at"} : new[f] = r[f]
      BY <1>1 DEF RequestFields
    <2> HIDE DEF new, r
    <2>3. /\ new.patch = r.patch /\ new.ofForm = r.ofForm /\ new.next = r.next
          /\ new.seen = r.seen /\ new.typed = r.typed
      BY <2>2 DEF RequestFields
    <2>4. SentByForm(new)
      BY <1>1, <2>2, <2>3 DEF SentByForm
    <2> QED  BY <2>1, <2>4, OneSent
  <1> QED
    BY <1>2, <1>3 DEF CheckPlaybook

LEMMA SaveRepoSent ==
    ASSUME SentInv, NEW q \in Requests, SaveRepo(q)
    PROVE  \A o \in Requests : SentByForm(request'[o])
  <1> DEFINE r == request[q]
             new == [r EXCEPT !.at = "second"]
  <1>1. DOMAIN r = RequestFields /\ SentByForm(r) /\ DOMAIN request = Requests
    BY DEF SentInv, SettingsInv, RequestFits
  <1>2. CASE Ends(q, Exists)
    BY <1>2, EndSent
  <1>3. CASE MovesTo(q, "second")
    <2>1. request' = [request EXCEPT ![q] = new]
      BY <1>1, <1>3 DEF MovesTo
    <2>2. new.at = "second" /\ \A f \in RequestFields \ {"at"} : new[f] = r[f]
      BY <1>1 DEF RequestFields
    <2> HIDE DEF new, r
    <2>3. new.ofForm = r.ofForm /\ new.next = r.next /\ new.seen = r.seen /\ new.typed = r.typed
      BY <2>2 DEF RequestFields
    <2>4. SentByForm(new)
      BY <1>1, <2>2, <2>3 DEF SentByForm
    <2> QED  BY <2>1, <2>4, OneSent
  <1> QED
    BY <1>2, <1>3 DEF SaveRepo

(* One of the two writes is done, or fails. *)
LEMMA StoreSent ==
    ASSUME SentInv, NEW q \in Requests, NEW store \in {"toCopy", "toRepo"}, NEW x,
           request' = [request EXCEPT ![q][store] = x]
    PROVE  \A o \in Requests : SentByForm(request'[o])
  <1> DEFINE r == request[q]
             new == [r EXCEPT ![store] = x]
  <1>1. DOMAIN r = RequestFields /\ SentByForm(r) /\ DOMAIN request = Requests
    BY DEF SentInv, SettingsInv, RequestFits
  <1>2. request' = [request EXCEPT ![q] = new]
    BY <1>1
  <1>3. SameSent(new, r)
    BY <1>1 DEF SameSent, SentFields, RequestFields
  <1> HIDE DEF new, r
  <1> QED
    BY <1>1, <1>2, <1>3, SentStays, OneSent

LEMMA FailSent ==
    ASSUME SentInv, NEW q \in Requests, Fail(q)
    PROVE  \A o \in Requests : SentByForm(request'[o])
  <1>1. CASE Ends(q, FALSE)
    BY <1>1, EndSent
  <1>2. CASE \E store \in {"toCopy", "toRepo"} : request' = [request EXCEPT ![q][store] = "failed"]
    BY <1>2, StoreSent
  <1> QED
    BY <1>1, <1>2 DEF Fail

(* Every step keeps it.                                                      *)
LEMMA SentInv_Next ==
    ASSUME SentInv, [SettingsNext]_settingsVars
    PROVE  SentInv'
  <1>1. SettingsInv'
    BY SettingsNext_Inv DEF SentInv
  <1>2. ASSUME UNCHANGED settingsVars \/ Edits
        PROVE  \A o \in Requests : SentByForm(request'[o])
    BY <1>2 DEF settingsVars, SentInv, Edits, OpenForm, SeeUpdate, Type
  <1>3. ASSUME Makes
        PROVE  \A o \in Requests : SentByForm(request'[o])
    <2>1. UNCHANGED request \/ request' = Disturb(request)
      BY <1>3 DEF Makes, CreateRepo, DeleteRepo, CreatePlaybook, SwitchPlaybook, DeletePlaybook
    <2> QED  BY <2>1, DisturbSent DEF SentInv
  <1>4. ASSUME NEW q \in Requests, Asks(q)
        PROVE  \A o \in Requests : SentByForm(request'[o])
    BY <1>4, AskUpdateSent, AskSentinelSent, SubmitSent DEF Asks
  <1>5. ASSUME NEW q \in Requests, Works(q)
        PROVE  \A o \in Requests : SentByForm(request'[o])
    <2>1. CASE WriteCopy(q)
      BY <2>1, StoreSent DEF WriteCopy
    <2>2. CASE WriteRepo(q)
      <3>1. \E x : request' = [request EXCEPT ![q]["toRepo"] = x]
        BY <2>2 DEF WriteRepo
      <3> QED  BY <3>1, StoreSent
    <2> QED
      BY <1>5, <2>1, <2>2, CheckPlaybookSent, SaveRepoSent, SecondCallSent, EndSent, FailSent
      DEF Works, Answer
  <1>6. \A o \in Requests : SentByForm(request'[o])
    BY <1>2, <1>3, <1>4, <1>5 DEF SettingsNext, SentInv
  <1>7. SentInv' <=> SettingsInv' /\ \A o \in Requests : SentByForm(request'[o])
    BY DEF SentInv, SentByForm
  <1> QED
    BY <1>1, <1>6, <1>7

LEMMA SentHolds == SettingsSpec => []SentInv
  <1>1. SettingsInit => SentInv
    BY SettingsInit_Inv, RestingSent DEF SentInv, SettingsInit
  <1>2. SentInv /\ [SettingsNext]_settingsVars => SentInv'
    BY SentInv_Next
  <1> QED
    BY <1>1, <1>2, PTL DEF SettingsSpec

-----------------------------------------------------------------------------
(* The two calls on a record that is still the one shown.                    *)

(* Of the sentinel's settings the form sends what it shows. *)
LEMMA SentinelShown ==
    ASSUME NEW r, NEW t, IsSettled(r), IsTyping(t), t.sentinel = Empty,
           NEW f \in DOMAIN SentBy(r, t).sentinel
    PROVE  SentBy(r, t).sentinel[f] = r.sentinel[f]
  <1> DEFINE v == FormValues(r, t).sentinel
             tag == IF v.globalMode = "yes" THEN Unset ELSE v.groupTag
             sent == [v EXCEPT !.groupTag = tag]
  <1>1. SentBy(r, t).sentinel = Restrict(sent, Named(sent))
    BY DEF SentBy, Payload
  <1>2. DOMAIN v = SentinelFields /\ \A g \in SentinelFields : v[g] = r.sentinel[g]
    <2>1. "sentinel" \in FormSections /\ FormFields.sentinel = SentinelFields
      BY FormSections6 DEF FormFields
    <2>2. FormOf(r).sentinel = r.sentinel
      BY FormShows
    <2> QED  BY <2>1, <2>2, ValuesShown
  <1>3. f = "groupTag" => sent[f] = tag /\ tag # Unset
    <2> HIDE DEF v, tag
    <2> QED  BY <1>1, <1>2 DEF Restrict, Named, SentinelFields
  <1>4. f \in SentinelFields /\ (f # "groupTag" => sent[f] = v[f])
    <2> HIDE DEF v, tag
    <2> QED  BY <1>1, <1>2 DEF Restrict, Named
  <1>5. SentBy(r, t).sentinel[f] = sent[f]
    <2> HIDE DEF sent
    <2> QED  BY <1>1 DEF Restrict
  <1>6. tag # Unset => tag = v.groupTag
    OBVIOUS
  <1> HIDE DEF v, tag, sent
  <1> QED
    BY <1>2, <1>3, <1>4, <1>5, <1>6

(* A form that is saved on the record it shows. *)
LEMMA SavedAsShown ==
    ASSUME SentInv, NEW q \in Requests, SaveRepo(q), Exists, request[q].ofForm,
           request[q].seen = repo, NEW sec \in Sections, request[q].typed[sec] = Empty
    PROVE  Meaning(sec, repo') = Meaning(sec, repo)
  <1> DEFINE t == request[q].typed
  <1>1. /\ IsSettled(repo) /\ IsPatch(request[q].patch) /\ ForUs(request[q].patch)
        /\ repo' = UpdateRepo(repo, request[q].patch)
    BY SaveStep DEF SentInv
  <1>2. request[q].patch = PatchOf(repo, t) /\ IsTyping(t)
    BY DEF SentInv, SentByForm, SaveRepo
  <1> HIDE DEF t
  <1>3. IsPatch(PatchOf(repo, t)) /\ ForUs(PatchOf(repo, t)) /\ t[sec] = Empty
        /\ repo' = UpdateRepo(repo, PatchOf(repo, t))
    BY <1>1, <1>2 DEF t
  <1>4. CASE sec = "basics"
    BY <1>1, <1>2, <1>3, <1>4, KeepsBasics
  <1>5. CASE sec = "llm"
    BY <1>1, <1>2, <1>3, <1>5, KeepsLlm
  <1>6. CASE sec = "preview"
    BY <1>1, <1>2, <1>3, <1>6, KeepsPreview
  <1>7. CASE sec = "review"
    BY <1>1, <1>2, <1>3, <1>7, KeepsReview
  <1>8. CASE sec = "commit"
    BY <1>1, <1>2, <1>3, <1>8, KeepsCommit
  <1>9. CASE sec \in {"sentinel", "checkpoint"}
    BY <1>1, <1>2, <1>3, <1>9, KeepsUnsent
  <1> QED
    BY <1>4, <1>5, <1>6, <1>7, <1>8, <1>9 DEF Sections

LEMMA StepSavesAsShown ==
    ASSUME SentInv, [SettingsNext]_settingsVars, Exists, repo' # Empty,
           NEW q \in Requests, request[q].ofForm, Saving(q), request[q].seen = repo,
           NEW sec \in Sections, request[q].typed[sec] = Empty
    PROVE  Meaning(sec, repo') = Meaning(sec, repo)
  <1>1. CASE repo' = repo
    BY <1>1
  <1>2. CASE repo' # repo
    <2>1. PICK o \in Requests : SaveRepo(o) \/ WriteRepo(o)
      BY <1>2, OnlySaves DEF SentInv
    <2>2. DOMAIN request = Requests
      BY DEF SentInv, SettingsInv
    <2>3. o # q => request'[q] = request[q]
      BY <2>1, <2>2 DEF SaveRepo, WriteRepo, MovesTo, Ends
    <2>4. o = q
      BY <2>3 DEF Saving
    <2>5. SaveRepo(q)
      BY <2>1, <2>4 DEF WriteRepo, Saving
    <2> QED  BY <2>5, SavedAsShown
  <1> QED
    BY <1>1, <1>2

LEMMA WrittenAsShown ==
    ASSUME SentInv, NEW q \in Requests, WriteRepo(q), Exists, request[q].ofForm,
           request[q].alone, request[q].seen.sentinel = repo.sentinel,
           request[q].typed.sentinel = Empty
    PROVE  repo'.sentinel = repo.sentinel
  <1> DEFINE r == request[q]
             p == [Nothing EXCEPT !.sentinel = r.config]
  <1>1. /\ IsSettled(repo) /\ r.config = [f \in SentinelFields |-> r.config[f]]
        /\ repo' = UpdateRepo(repo, p)
    BY WriteStep DEF SentInv
  <1>2. repo'.sentinel = NormalizeSentinel(r.config)
    BY <1>1, SentinelWritten
  <1>3. /\ r.at = "write" /\ r.toRepo = "todo" /\ AloneInv(q) /\ SentByForm(r)
        /\ RequestFits(r, playbooks)
    BY DEF WriteRepo, SentInv, SettingsInv
  <1> HIDE DEF p
  <1>4. \A f \in SentinelFields \ r.named : r.config[f] = repo.sentinel[f]
    BY <1>3 DEF AloneInv
  <1>5. /\ r.named = DOMAIN SentBy(r.seen, r.typed).sentinel
        /\ \A f \in r.named : r.config[f] = SentBy(r.seen, r.typed).sentinel[f]
        /\ IsSettled(r.seen) /\ IsTyping(r.typed)
    BY <1>3 DEF SentByForm
  <1>6. \A f \in r.named : r.config[f] = repo.sentinel[f]
    BY <1>5, SentinelShown
  <1>7. \A f \in SentinelFields : r.config[f] = repo.sentinel[f]
    BY <1>4, <1>6
  <1>8. DOMAIN DefaultSentinel = SentinelFields /\ DOMAIN r.config = SentinelFields
    BY <1>1 DEF DefaultSentinel
  <1>9. /\ repo'.sentinel = [f \in SentinelFields |-> repo'.sentinel[f]]
        /\ \A f \in SentinelFields : repo'.sentinel[f] = FirstOf(repo.sentinel[f], DefaultSentinel[f])
    BY <1>2, <1>7, <1>8 DEF NormalizeSentinel, Filled, Given
  <1>10. \A f \in SentinelFields : repo'.sentinel[f] = repo.sentinel[f]
    BY <1>1, <1>9 DEF IsSettled
  <1>11. repo.sentinel = [f \in SentinelFields |-> repo.sentinel[f]]
    BY <1>1, FieldsOf DEF IsSettled, IsMerged, IsComplete, Sections
  <1> QED
    BY <1>9, <1>10, <1>11

LEMMA StepWritesAsShown ==
    ASSUME SentInv, [SettingsNext]_settingsVars, Exists, repo' # Empty,
           NEW q \in Requests, request[q].ofForm, Writing(q), request[q].alone,
           request[q].seen.sentinel = repo.sentinel, request[q].typed.sentinel = Empty
    PROVE  repo'.sentinel = repo.sentinel
  <1>1. CASE repo' = repo
    BY <1>1
  <1>2. CASE repo' # repo
    <2>1. PICK o \in Requests : SaveRepo(o) \/ WriteRepo(o)
      BY <1>2, OnlySaves DEF SentInv
    <2>2. DOMAIN request = Requests /\ DOMAIN request[q] = RequestFields
      BY DEF SentInv, SettingsInv, RequestFits
    <2>3. o # q => request'[q] = request[q]
      BY <2>1, <2>2 DEF SaveRepo, WriteRepo, MovesTo, Ends
    <2>4. o = q
      BY <2>3 DEF Writing
    <2>5. ~SaveRepo(q)
      BY <2>2 DEF SaveRepo, MovesTo, Ends, Resting, Writing, RequestFields
    <2> QED  BY <2>1, <2>4, <2>5, WrittenAsShown
  <1> QED
    BY <1>1, <1>2

(* Saving the form, which sends every field it shows, changes nothing of what a *)
(* section means to tasks and runs if nothing was typed in it and the record is *)
(* still the one shown; nor does its second call, of the sentinel's config.  *)
THEOREM FormsKeep == SettingsSpec => FormKeepsMeaning
  <1>1. SentInv /\ [SettingsNext]_settingsVars =>
          [Exists /\ repo' # Empty =>
             \A q \in Requests : request[q].ofForm =>
                /\ Saving(q) /\ request[q].seen = repo =>
                      \A sec \in Sections : request[q].typed[sec] = Empty =>
                         Meaning(sec, repo') = Meaning(sec, repo)
                /\ Writing(q) /\ request[q].alone
                      /\ request[q].seen.sentinel = repo.sentinel
                      /\ request[q].typed.sentinel = Empty =>
                         repo'.sentinel = repo.sentinel]_settingsVars
    BY StepSavesAsShown, StepWritesAsShown
  <1> QED
    BY <1>1, SentHolds, PTL DEF SettingsSpec, FormKeepsMeaning
=============================================================================
