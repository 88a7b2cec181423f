--------------------------- MODULE SentinelProofs ---------------------------
(***************************************************************************)
(* Proofs about Sentinel, for any number of requests, tasks and rows; and  *)
(* about the calls of its merge engine (SentinelMerge), for any number of  *)
(* attempts and commits and any set of configs.                            *)
(***************************************************************************)
EXTENDS Sentinel, SentinelMerge, TLAPS

(* What statements write into rows keeps them well-typed. *)
LEMMA RowLeased ==
  ASSUME NEW row \in Row, NEW lease \in Requests \cup {NoOne, Lost}, NEW old \in BOOLEAN
  PROVE  /\ [row EXCEPT !.lease = lease, !.expired = old] \in Row
         /\ [row EXCEPT !.lease = lease] \in Row
         /\ [row EXCEPT !.expired = old] \in Row
BY DEF Row

LEMMA RowClaimed ==
  ASSUME NEW row \in Row, NEW t \in Tasks
  PROVE  [row EXCEPT !.task = t, !.run = NoRun] \in Row
<1>1. t \in Tasks \cup {NoTask} /\ NoRun \in 0..MaxRuns
  BY SentinelAssumption, ConfigAssumption DEF NoRun
<1> QED BY <1>1 DEF Row

LEMMA RowWritten ==
  ASSUME NEW row \in Row, NEW new \in Copy, NEW lease \in Requests \cup {NoOne, Lost},
         NEW old \in BOOLEAN
  PROVE  [row EXCEPT !.status = new.status, !.task = new.task, !.run = new.run,
                     !.attempts = new.attempts, !.lease = lease, !.expired = old] \in Row
BY DEF Row, Copy

LEMMA AbsentRowType == AbsentRow \in Row /\ [AbsentRow EXCEPT !.status = "running"] \in Row
<1>1. /\ NoTask \in Tasks \cup {NoTask} /\ NoRun \in 0..MaxRuns /\ 0 \in 0..MaxAttempts
      /\ NoOne \in Requests \cup {NoOne, Lost} /\ FALSE \in BOOLEAN
  BY SentinelAssumption, ConfigAssumption DEF NoRun
<1>2. AbsentRow \in Row
  BY <1>1 DEF AbsentRow, Row
<1> QED BY <1>2 DEF Row

LEMMA RowCopied ==
  ASSUME NEW row \in Row
  PROVE  [status |-> row.status, task |-> row.task, run |-> row.run,
          attempts |-> row.attempts] \in Copy
BY DEF Row, Copy

LEMMA NoCopyType == NoCopy \in Copy
BY SentinelAssumption, ConfigAssumption DEF NoCopy, Copy, NoTask, NoRun

(* Every update of a copy is a copy. *)
LEMMA UpdatedType ==
  ASSUME NEW copy \in Copy, NEW run \in 0..MaxRuns,
         NEW kind \in OperatorUpdate \cup ControllerUpdate
  PROVE  Updated(kind, copy, run) \in Copy
<1>1. NoTask \in Tasks \cup {NoTask} /\ NoRun \in 0..MaxRuns /\ 0 \in 0..MaxAttempts
      /\ MaxAttempts \in 0..MaxAttempts
  BY SentinelAssumption, ConfigAssumption DEF NoRun
<1>2. /\ [copy EXCEPT !.status = "running"] \in Copy
      /\ [copy EXCEPT !.status = "paused"] \in Copy
      /\ [copy EXCEPT !.status = "stopped", !.task = NoTask, !.run = NoRun] \in Copy
      /\ [copy EXCEPT !.task = NoTask, !.run = NoRun, !.attempts = 0] \in Copy
      /\ [copy EXCEPT !.run = run] \in Copy
      /\ [copy EXCEPT !.attempts = MaxAttempts] \in Copy
  BY <1>1 DEF Copy
<1> QED BY <1>2 DEF Updated, OperatorUpdate, ControllerUpdate

-----------------------------------------------------------------------------
(* Requests *)

LEMMA IdleType == IdleRequest \in Request /\ IdleRequest \in HeldRequest
<1>1. /\ NoTask \in Tasks \cup {NoTask} /\ NoRun \in 0..MaxRuns /\ 0 \in 0..MaxAttempts
      /\ NoRow \in 0..MaxRows
  BY SentinelAssumption, ConfigAssumption DEF NoRun, NoRow
<1>2. IdleRequest \in Request
  BY <1>1, NoCopyType DEF IdleRequest, Request, Place
<1> QED BY <1>2 DEF IdleRequest, HeldRequest

LEMMA OpenType ==
  ASSUME NEW i \in RowIds, NEW place \in {"insert", "acquire", "release"}
  PROVE  [IdleRequest EXCEPT !.at = place, !.row = i] \in HeldRequest
<1> DEFINE r == [IdleRequest EXCEPT !.at = place, !.row = i]
<1>1. i \in 0..MaxRows /\ place \in Place
  BY DEF RowIds, Place, ControllerAt
<1>2. r \in Request
  BY <1>1, IdleType DEF Request
<1>3. r.at = place /\ r.row = i /\ r.update = "none"
  BY DEF IdleRequest
<1> HIDE DEF r
<1>5. r \in HeldRequest
  BY <1>2, <1>3 DEF HeldRequest
<1> QED BY <1>5 DEF r

LEMMA OpenUpdateType ==
  ASSUME NEW i \in RowIds, NEW kind \in (OperatorUpdate \cup ControllerUpdate) \ {"link"}
  PROVE  [IdleRequest EXCEPT !.at = "read", !.row = i, !.update = kind] \in HeldRequest
<1> DEFINE r == [IdleRequest EXCEPT !.at = "read", !.row = i, !.update = kind]
<1>1. i \in 0..MaxRows /\ "read" \in Place
  BY DEF RowIds, Place
<1>2. r \in Request
  BY <1>1, IdleType DEF Request
<1>3. r.at = "read" /\ r.row = i /\ r.update = kind
  BY DEF IdleRequest
<1>4. kind # "none" /\ kind # "link"
  BY DEF OperatorUpdate, ControllerUpdate
<1> HIDE DEF r
<1>5. r \in HeldRequest
  BY <1>2, <1>3, <1>4 DEF HeldRequest
<1> QED BY <1>5 DEF r

LEMMA LinkType ==
  ASSUME NEW i \in RowIds, NEW n \in RunIds
  PROVE  [IdleRequest EXCEPT !.at = "read", !.row = i, !.update = "link", !.run = n]
           \in HeldRequest
<1> DEFINE r == [IdleRequest EXCEPT !.at = "read", !.row = i, !.update = "link", !.run = n]
<1>1. i \in 0..MaxRows /\ "read" \in Place /\ n \in 0..MaxRuns /\ "link" \in ControllerUpdate
  BY DEF RowIds, Place, RunIds, ControllerUpdate
<1>2. r \in Request
  BY <1>1, IdleType DEF Request
<1>3. r.at = "read" /\ r.row = i /\ r.update = "link" /\ r.run = n
  BY DEF IdleRequest
<1> HIDE DEF r
<1>5. r \in HeldRequest
  BY <1>2, <1>3 DEF HeldRequest
<1> QED BY <1>5 DEF r

(* Where a request may go with what it holds. *)
LEMMA GoType ==
  ASSUME NEW r \in HeldRequest, r.at \notin {"idle", "read", "write"}
  PROVE  /\ [r EXCEPT !.at = "select"] \in HeldRequest
         /\ [r EXCEPT !.at = "acquire"] \in HeldRequest
         /\ [r EXCEPT !.at = "own"] \in HeldRequest
         /\ [r EXCEPT !.at = "list"] \in HeldRequest
         /\ r.at = "merge" => [r EXCEPT !.at = "report"] \in HeldRequest
         /\ r.at = "report" => [r EXCEPT !.at = "finish"] \in HeldRequest
         /\ r.at = "claim" => [r EXCEPT !.at = "claimed"] \in HeldRequest
         /\ r.at = "claimed" => [r EXCEPT !.at = "start"] \in HeldRequest
         /\ r.at = "schedule" => [r EXCEPT !.at = "note"] \in HeldRequest
BY DEF HeldRequest, Request, Place, ControllerAt

(* How the requests of a step change. *)
Held == req \in [Requests -> HeldRequest]

LEMMA HeldByOne ==
  ASSUME Held, NEW q \in Requests, NEW new \in HeldRequest, req' = [req EXCEPT ![q] = new]
  PROVE  Held'
BY DEF Held

LEMMA Goes ==
  ASSUME Held, NEW q \in Requests, NEW place, Go(q, place),
         [req[q] EXCEPT !.at = place] \in HeldRequest
  PROVE  Held'
BY HeldByOne DEF Go

LEMMA Opens ==
  ASSUME Held, NEW q \in Requests, NEW i \in RowIds,
         NEW place \in {"insert", "acquire", "release"}, Open(q, i, place)
  PROVE  Held'
BY HeldByOne, OpenType DEF Open

LEMMA OpensUpdate ==
  ASSUME Held, NEW q \in Requests, NEW i \in RowIds,
         NEW kind \in (OperatorUpdate \cup ControllerUpdate) \ {"link"}, OpenUpdate(q, i, kind)
  PROVE  Held'
BY HeldByOne, OpenUpdateType DEF OpenUpdate

LEMMA Links ==
  ASSUME Held, NEW q \in Requests, ~At(q, "idle"), NEW r \in RunIds, Link(q, r)
  PROVE  Held'
<1>1. req[q] \in HeldRequest
  BY DEF Held
<1>2. req[q].row \in RowIds
  BY <1>1 DEF HeldRequest, At
<1> QED BY <1>2, HeldByOne, LinkType DEF Link

LEMMA Ends ==
  ASSUME Held, NEW q \in Requests, End(q)
  PROVE  Held'
BY HeldByOne, IdleType DEF End

(* What request q holds, wherever it is but idle. *)
LEMMA HoldsRow ==
  ASSUME Held, NEW q \in Requests, ~At(q, "idle")
  PROVE  req[q] \in HeldRequest /\ req[q] \in Request /\ req[q].row \in RowIds
BY DEF Held, HeldRequest, At

LEMMA Leaves ==
  ASSUME Held, NEW q \in Requests, ~At(q, "idle"), Leave(q)
  PROVE  Held'
BY HoldsRow, Opens DEF Leave

LEMMA Updates ==
  ASSUME Held, NEW q \in Requests, ~At(q, "idle"),
         NEW kind \in (OperatorUpdate \cup ControllerUpdate) \ {"link"}, Update(q, kind)
  PROVE  Held'
BY HoldsRow, OpensUpdate DEF Update

-----------------------------------------------------------------------------
(* How the rows of a step change. The rows are right when they are rows, at  *)
(* most one runs, and only it may have a lease.                              *)
RowsOK == rows \in [RowIds -> Row] /\ SingleRunning /\ LeaseOnlyWhenRunning

(* One row may be written if the index allows it and it has a lease only     *)
(* when it runs.                                                             *)
LEMMA OneWrite ==
  ASSUME RowsOK, NEW i \in RowIds, NEW new \in Row, rows' = [rows EXCEPT ![i] = new],
         new.status = "running" => Running(i) \/ ~AnotherRuns(i),
         new.lease # NoOne => new.status = "running"
  PROVE  RowsOK'
<1>1. rows' \in [RowIds -> Row]
  BY DEF RowsOK
<1>2. rows'[i] = new /\ \A j \in RowIds \ {i} : rows'[j] = rows[j]
  BY DEF RowsOK
<1>3. SingleRunning'
  <2> SUFFICES ASSUME NEW j \in RowIds, NEW k \in RowIds,
                      rows'[j].status = "running", rows'[k].status = "running"
               PROVE  j = k
    BY DEF SingleRunning, Running
  <2>1. CASE j # i /\ k # i
    BY <2>1, <1>2 DEF RowsOK, SingleRunning, Running
  <2>2. CASE j = i /\ k # i
    BY <2>2, <1>2 DEF RowsOK, SingleRunning, Running, AnotherRuns
  <2>3. CASE j # i /\ k = i
    BY <2>3, <1>2 DEF RowsOK, SingleRunning, Running, AnotherRuns
  <2> QED BY <2>1, <2>2, <2>3
<1>4. LeaseOnlyWhenRunning'
  BY <1>2 DEF RowsOK, LeaseOnlyWhenRunning, Running
<1> QED BY <1>1, <1>3, <1>4 DEF RowsOK

LEMMA NoWrite ==
  ASSUME RowsOK, UNCHANGED rows
  PROVE  RowsOK'
BY DEF RowsOK, SingleRunning, LeaseOnlyWhenRunning, Running

-----------------------------------------------------------------------------
(* The inductive invariant. *)
StampsOK == stamps \in 0..MaxRows
BoardOK  == board \in [Tasks -> BoardTask] /\ runs \in [RunIds -> BoardRun]
            /\ runCount \in 0..MaxRuns
Inv == RowsOK /\ StampsOK /\ Held /\ BoardOK

LEMMA InvIs == Inv <=> TypeOK /\ SingleRunning /\ LeaseOnlyWhenRunning
BY DEF Inv, RowsOK, StampsOK, Held, BoardOK, TypeOK

LEMMA SameStamps ==
  ASSUME StampsOK, UNCHANGED stamps
  PROVE  StampsOK'
BY DEF StampsOK

LEMMA SameBoard ==
  ASSUME BoardOK, UNCHANGED <<board, runs, runCount>>
  PROVE  BoardOK'
BY DEF BoardOK

LEMMA InitInv == Init => Inv
<1> SUFFICES ASSUME Init PROVE Inv
  OBVIOUS
<1>1. RowsOK
  <2>1. \A i \in RowIds : rows[i] = AbsentRow
    BY DEF Init
  <2>2. AbsentRow.status = "absent" /\ AbsentRow.lease = NoOne
    BY DEF AbsentRow
  <2> QED BY <2>1, <2>2, AbsentRowType
          DEF Init, RowsOK, SingleRunning, LeaseOnlyWhenRunning, Running
<1>2. StampsOK
  BY SentinelAssumption DEF Init, StampsOK
<1>3. Held
  BY IdleType DEF Init, Held
<1>4. BoardOK
  <2>1. NoRun \in 0..MaxRuns /\ 0 \in 0..MaxWorkflows /\ NoTask \in Tasks \cup {NoTask}
    BY SentinelAssumption DEF NoRun
  <2>2. [status |-> "READY", run |-> NoRun] \in BoardTask
    BY <2>1 DEF BoardTask
  <2>3. [task |-> NoTask, state |-> "active", merged |-> FALSE, workflows |-> 0] \in BoardRun
    BY <2>1 DEF BoardRun
  <2>4. runCount \in 0..MaxRuns
    BY <2>1 DEF Init, NoRun
  <2> QED BY <2>2, <2>3, <2>4 DEF Init, BoardOK
<1> QED BY <1>1, <1>2, <1>3, <1>4 DEF Inv

-----------------------------------------------------------------------------
(* Operators' requests *)

LEMMA AskForRowKeeps ==
  ASSUME StampsOK, Held, NEW q \in Requests, AskForRow(q)
  PROVE  StampsOK' /\ Held'
<1>1. stamps + 1 \in RowIds /\ stamps + 1 \in 0..MaxRows
  BY SentinelAssumption DEF AskForRow, StampsOK, RowIds
<1>2. StampsOK'
  BY <1>1 DEF AskForRow, StampsOK
<1>3. Held'
  BY <1>1, Opens DEF AskForRow
<1> QED BY <1>2, <1>3

LEMMA HandleKeeps ==
  ASSUME Inv, NEW q \in Requests, Handle(q)
  PROVE  Inv'
<1> USE DEF Inv
<1>0. "resume" \in OperatorUpdate /\ "pause" \in OperatorUpdate /\ "stop" \in OperatorUpdate
      /\ OperatorUpdate \subseteq (OperatorUpdate \cup ControllerUpdate) \ {"link"}
  BY DEF OperatorUpdate, ControllerUpdate
<1>1. CASE HandleStart(q)
  <2>1. RowsOK' /\ BoardOK'
    BY <1>1, NoWrite, SameBoard DEF HandleStart
  <2>2. CASE AskForRow(q)
    BY <2>1, <2>2, AskForRowKeeps
  <2>3. CASE UNCHANGED stamps /\ \E i \in RowIds : OpenUpdate(q, i, "resume")
    BY <2>1, <2>3, <1>0, OpensUpdate, SameStamps
  <2>4. CASE UNCHANGED stamps /\ \E i \in RowIds : Open(q, i, "acquire")
    BY <2>1, <2>4, Opens, SameStamps
  <2> QED BY <1>1, <2>2, <2>3, <2>4 DEF HandleStart
<1>2. CASE HandleResume(q)
  <2>1. RowsOK' /\ BoardOK' /\ StampsOK'
    BY <1>2, NoWrite, SameBoard, SameStamps DEF HandleResume
  <2>2. Held'
    BY <1>2, <1>0, OpensUpdate, Opens DEF HandleResume
  <2> QED BY <2>1, <2>2
<1>3. CASE HandlePause(q)
  <2>1. RowsOK' /\ BoardOK' /\ StampsOK'
    BY <1>3, NoWrite, SameBoard, SameStamps DEF HandlePause
  <2>2. Held'
    BY <1>3, <1>0, OpensUpdate DEF HandlePause
  <2> QED BY <2>1, <2>2
<1>4. CASE HandleStop(q)
  <2>1. RowsOK' /\ BoardOK' /\ StampsOK'
    BY <1>4, NoWrite, SameBoard, SameStamps DEF HandleStop
  <2>2. Held'
    BY <1>4, <1>0, OpensUpdate DEF HandleStop
  <2> QED BY <2>1, <2>2
<1> QED BY <1>1, <1>2, <1>3, <1>4 DEF Handle

-----------------------------------------------------------------------------
(* Statements on the rows *)

LEMMA InsertKeeps ==
  ASSUME Inv, NEW q \in Requests, InsertRow(q) \/ SelectRunning(q)
  PROVE  Inv'
<1> USE DEF Inv
<1>0. StampsOK' /\ BoardOK'
  BY SameStamps, SameBoard DEF InsertRow, SelectRunning
<1>1. CASE InsertRow(q)
  <2>0. ~At(q, "idle")
    BY <1>1 DEF InsertRow, At
  <2>1. req[q] \in HeldRequest /\ req[q].at = "insert" /\ req[q].row \in RowIds
    BY <1>1, <2>0, HoldsRow DEF InsertRow, At
  <2>2. Held'
    BY <1>1, <2>1, GoType, Goes DEF InsertRow
  <2>3. RowsOK'
    <3>1. CASE AnotherRuns(req[q].row)
      BY <1>1, <3>1, NoWrite DEF InsertRow
    <3>2. CASE ~AnotherRuns(req[q].row)
      <4> DEFINE new == [AbsentRow EXCEPT !.status = "running"]
      <4>1. new \in Row /\ new.status = "running"
        BY AbsentRowType DEF AbsentRow
      <4>2. rows' = [rows EXCEPT ![req[q].row] = new]
        BY <1>1, <3>2 DEF InsertRow
      <4> HIDE DEF new
      <4> QED BY <4>1, <4>2, <3>2, <2>1, OneWrite
    <3> QED BY <3>1, <3>2
  <2> QED BY <1>0, <2>2, <2>3
<1>2. CASE SelectRunning(q)
  <2>1. RowsOK'
    BY <1>2, NoWrite DEF SelectRunning
  <2>2. Held'
    BY <1>2, Opens, Ends DEF SelectRunning
  <2> QED BY <1>0, <2>1, <2>2
<1> QED BY <1>1, <1>2

LEMMA ReadRowKeeps ==
  ASSUME Inv, NEW q \in Requests, ReadRow(q)
  PROVE  Inv'
<1> USE DEF Inv
<1>0. StampsOK' /\ BoardOK' /\ RowsOK'
  BY SameStamps, SameBoard, NoWrite DEF ReadRow
<1>1. req[q].at = "read" /\ ~At(q, "idle")
  BY DEF ReadRow, At
<1>2. req[q] \in HeldRequest /\ req[q] \in Request /\ req[q].row \in RowIds
  BY <1>1, HoldsRow
<1> DEFINE row == rows[req[q].row]
           copy == [status |-> row.status, task |-> row.task, run |-> row.run,
                    attempts |-> row.attempts]
           new == [req[q] EXCEPT !.at = "write", !.copy = copy]
<1>3. row \in Row
  BY <1>2 DEF RowsOK
<1>4. copy \in Copy
  BY <1>3, RowCopied
<1>5. req' = [req EXCEPT ![q] = new]
  BY DEF ReadRow
<1> HIDE DEF row, copy
<1>6. new \in Request
  BY <1>2, <1>4 DEF Request, Place
<1>9. new.at = "write" /\ new.row = req[q].row /\ new.update = req[q].update
       /\ new.task = req[q].task /\ new.run = req[q].run
  BY <1>2 DEF Request
<1> HIDE DEF new
<1>7. new \in HeldRequest
  BY <1>6, <1>9, <1>2, <1>1 DEF HeldRequest
<1>8. Held'
  BY <1>5, <1>7, HeldByOne
<1> QED BY <1>0, <1>8

(* Where a request is after its update. *)
LEMMA UpdateDoneHeld ==
  ASSUME Held, NEW q \in Requests, At(q, "write"), UpdateDone(q)
  PROVE  Held'
<1> DEFINE kind == req[q].update
           next == AfterUpdate[kind]
           new == [req[q] EXCEPT !.at = next, !.copy = NoCopy,
                                 !.update = IF kind = "count" THEN "exhaust" ELSE "none"]
<1>1. req[q] \in HeldRequest /\ req[q] \in Request /\ req[q].row \in RowIds
  BY HoldsRow DEF At
<1>2. kind \in OperatorUpdate \cup ControllerUpdate
  BY <1>1 DEF At, HeldRequest, Request
<1>3. next \in {"acquire", "list", "release", "schedule", "read", "idle"}
      /\ (next = "schedule" => kind = "link") /\ (next = "read" <=> kind = "count")
  BY <1>2 DEF AfterUpdate, OperatorUpdate, ControllerUpdate
<1>4. kind = "link" => req[q].run \in RunIds
  BY <1>1 DEF HeldRequest
<1>5. CASE next = "idle"
  BY <1>5, Ends DEF UpdateDone
<1>6. CASE next # "idle"
  <2>1. req' = [req EXCEPT ![q] = new]
    BY <1>6 DEF UpdateDone
  <2>2. next \in Place /\ (IF kind = "count" THEN "exhaust" ELSE "none")
                            \in OperatorUpdate \cup ControllerUpdate \cup {"none"}
    BY <1>3 DEF Place, ControllerAt, ControllerUpdate
  <2> HIDE DEF next, kind
  <2>3. new \in Request
    BY <1>1, <2>2, NoCopyType DEF Request
  <2>4. new.at = next /\ new.row = req[q].row /\ new.task = req[q].task
        /\ new.run = req[q].run /\ new.update = IF kind = "count" THEN "exhaust" ELSE "none"
    BY <1>1 DEF Request
  <2> HIDE DEF new
  <2>5. new \in HeldRequest
    BY <1>1, <1>3, <1>4, <1>6, <2>3, <2>4 DEF HeldRequest
  <2> QED BY <2>1, <2>5, HeldByOne
<1> QED BY <1>5, <1>6

LEMMA UpdateRefusedHeld ==
  ASSUME Held, NEW q \in Requests, At(q, "write"), UpdateRefused(q)
  PROVE  Held'
<1> DEFINE kind == req[q].update
           next == AfterRefusal[kind]
           new == [req[q] EXCEPT !.at = next, !.copy = NoCopy,
                                 !.update = IF kind = "link" THEN "giveUp" ELSE "none"]
<1>1. req[q] \in HeldRequest /\ req[q] \in Request /\ req[q].row \in RowIds
  BY HoldsRow DEF At
<1>2. kind \in OperatorUpdate \cup ControllerUpdate
  BY <1>1 DEF At, HeldRequest, Request
<1>3. next \in {"release", "read", "idle"} /\ (next = "idle" \/ (next = "read" <=> kind = "link"))
  BY <1>2 DEF AfterRefusal, OperatorUpdate, ControllerUpdate
<1>5. CASE next = "idle"
  BY <1>5, Ends DEF UpdateRefused
<1>6. CASE next # "idle"
  <2>1. req' = [req EXCEPT ![q] = new]
    BY <1>6 DEF UpdateRefused
  <2>2. next \in Place /\ (IF kind = "link" THEN "giveUp" ELSE "none")
                            \in OperatorUpdate \cup ControllerUpdate \cup {"none"}
    BY <1>3 DEF Place, ControllerAt, ControllerUpdate
  <2> HIDE DEF next, kind
  <2>3. new \in Request
    BY <1>1, <2>2, NoCopyType DEF Request
  <2>4. new.at = next /\ new.row = req[q].row /\ new.task = req[q].task
        /\ new.run = req[q].run /\ new.update = IF kind = "link" THEN "giveUp" ELSE "none"
    BY <1>1 DEF Request
  <2> HIDE DEF new
  <2>5. new \in HeldRequest
    BY <1>1, <1>3, <1>6, <2>3, <2>4 DEF HeldRequest
  <2> QED BY <2>1, <2>5, HeldByOne
<1> QED BY <1>5, <1>6

LEMMA WriteRowKeeps ==
  ASSUME Inv, NEW q \in Requests, WriteRow(q)
  PROVE  Inv'
<1> USE DEF Inv
<1> DEFINE i == req[q].row
           copy == Updated(req[q].update, req[q].copy, req[q].run)
           new == Written(i, copy)
<1>0. StampsOK' /\ BoardOK'
  BY SameStamps, SameBoard DEF WriteRow
<1>1. At(q, "write") /\ ~At(q, "idle")
  BY DEF WriteRow, At
<1>2. req[q] \in HeldRequest /\ req[q] \in Request /\ i \in RowIds
  BY <1>1, HoldsRow
<1>3. Held'
  BY <1>1, UpdateDoneHeld, UpdateRefusedHeld DEF WriteRow
<1>4. RowsOK'
  <2>1. CASE UNCHANGED rows
    BY <2>1, NoWrite
  <2>2. CASE /\ ~(copy.status = "running" /\ AnotherRuns(i))
             /\ rows' = [rows EXCEPT ![i] = new]
    <3>1. rows[i] \in Row
      BY <1>2 DEF RowsOK
    <3>2. /\ req[q].update \in OperatorUpdate \cup ControllerUpdate
          /\ req[q].copy \in Copy /\ req[q].run \in 0..MaxRuns
      BY <1>1, <1>2 DEF At, HeldRequest, Request
    <3>3. copy \in Copy
      BY <3>2, UpdatedType
    <3> HIDE DEF copy, i
    <3>4. /\ (IF copy.status = "running" THEN rows[i].lease ELSE NoOne)
               \in Requests \cup {NoOne, Lost}
          /\ (rows[i].expired /\ copy.status = "running") \in BOOLEAN
      BY <3>1 DEF Row
    <3>5. new \in Row
      BY <3>1, <3>3, <3>4, RowWritten DEF Written
    <3>6. new.status = copy.status
          /\ new.lease = IF copy.status = "running" THEN rows[i].lease ELSE NoOne
      BY <3>1 DEF Written, Row
    <3> HIDE DEF new
    <3>7. i \in RowIds
      BY <1>2 DEF i
    <3> QED BY <2>2, <3>5, <3>6, <3>7, OneWrite
  <2> QED BY <2>1, <2>2 DEF WriteRow
<1> QED BY <1>0, <1>3, <1>4

LEMMA LeaseKeeps ==
  ASSUME Inv, NEW q \in Requests, AcquireLease(q) \/ OwnLease(q) \/ ReleaseLease(q)
  PROVE  Inv'
<1> USE DEF Inv
<1> DEFINE i == req[q].row
<1>0. StampsOK' /\ BoardOK'
  BY SameStamps, SameBoard DEF AcquireLease, OwnLease, ReleaseLease
<1>1. ~At(q, "idle")
  BY DEF AcquireLease, OwnLease, ReleaseLease, At
<1>2. req[q] \in HeldRequest /\ req[q] \in Request /\ req[q].row \in RowIds
      /\ req[q].at \in {"acquire", "own", "release"}
  BY <1>1, HoldsRow DEF AcquireLease, OwnLease, ReleaseLease, At
<1>3. rows[req[q].row] \in Row
  BY <1>2 DEF RowsOK
<1>4. CASE AcquireLease(q)
  <2>1. Held'
    BY <1>4, <1>2, GoType, Goes, Ends DEF AcquireLease
  <2>2. CASE UNCHANGED rows
    BY <1>0, <2>1, <2>2, NoWrite
  <2>3. CASE Running(i) /\ rows' = [rows EXCEPT ![i].lease = q, ![i].expired = FALSE]
    <3> DEFINE new == [rows[i] EXCEPT !.lease = q, !.expired = FALSE]
    <3>1. q \in Requests \cup {NoOne, Lost} /\ FALSE \in BOOLEAN
      OBVIOUS
    <3>2. new \in Row
      BY <3>1, <1>3, RowLeased
    <3>3. new.status = "running"
      BY <2>3, <1>3 DEF Running, Row
    <3>4. rows' = [rows EXCEPT ![i] = new]
      BY <2>3
    <3> HIDE DEF new
    <3>5. RowsOK'
      BY <3>2, <3>3, <3>4, <2>3, <1>2, OneWrite
    <3> QED BY <1>0, <2>1, <3>5
  <2> QED BY <1>4, <2>2, <2>3 DEF AcquireLease
<1>5. CASE OwnLease(q)
  <2>1. RowsOK'
    BY <1>5, NoWrite DEF OwnLease
  <2>2. CASE Go(q, "list") \/ End(q)
    BY <1>0, <1>2, <2>1, <2>2, GoType, Goes, Ends
  <2>3. CASE /\ rows[i].task # NoTask
             /\ req' = [req EXCEPT ![q].at = "settle", ![q].task = rows[i].task,
                                   ![q].run = rows[i].run, ![q].attempts = rows[i].attempts]
    <3> DEFINE new == [req[q] EXCEPT !.at = "settle", !.task = rows[i].task,
                                     !.run = rows[i].run, !.attempts = rows[i].attempts]
    <3>1. rows[i].task \in Tasks /\ rows[i].run \in 0..MaxRuns
          /\ rows[i].attempts \in 0..MaxAttempts
      BY <2>3, <1>3 DEF Row
    <3>2. new \in Request
      BY <3>1, <1>2 DEF Request, Place, ControllerAt
    <3>3. new.at = "settle" /\ new.row = req[q].row /\ new.update = req[q].update
          /\ new.task = rows[i].task
      BY <1>2 DEF Request
    <3>4. req[q].update # "link"
      BY <1>2, <1>5 DEF HeldRequest, OwnLease, At
    <3>5. req' = [req EXCEPT ![q] = new]
      BY <2>3
    <3> HIDE DEF new
    <3>6. new \in HeldRequest
      BY <1>2, <3>1, <3>2, <3>3, <3>4 DEF HeldRequest
    <3>7. Held'
      BY <3>5, <3>6, HeldByOne
    <3> QED BY <1>0, <2>1, <3>7
  <2> QED BY <1>5, <2>2, <2>3 DEF OwnLease
<1>6. CASE ReleaseLease(q)
  <2>1. Held'
    BY <1>6, Ends DEF ReleaseLease
  <2>2. CASE UNCHANGED rows
    BY <1>0, <2>1, <2>2, NoWrite
  <2>3. CASE rows' = [rows EXCEPT ![i].lease = NoOne, ![i].expired = FALSE]
    <3> DEFINE new == [rows[i] EXCEPT !.lease = NoOne, !.expired = FALSE]
    <3>1. NoOne \in Requests \cup {NoOne, Lost} /\ FALSE \in BOOLEAN
      OBVIOUS
    <3>2. new \in Row
      BY <3>1, <1>3, RowLeased
    <3>3. new.status = rows[i].status /\ new.lease = NoOne
      BY <1>3 DEF Row
    <3>4. rows' = [rows EXCEPT ![i] = new]
      BY <2>3
    <3> HIDE DEF new
    <3>5. RowsOK'
      BY <3>2, <3>3, <3>4, <1>2, OneWrite DEF Running
    <3> QED BY <1>0, <2>1, <3>5
  <2> QED BY <1>6, <2>2, <2>3 DEF ReleaseLease
<1> QED BY <1>4, <1>5, <1>6

-----------------------------------------------------------------------------
(* The controller *)

LEMMA ClaimKeeps ==
  ASSUME Inv, NEW q \in Requests, ClaimTask(q) \/ CheckClaim(q)
  PROVE  Inv'
<1> USE DEF Inv
<1> DEFINE i == req[q].row
<1>0. StampsOK' /\ BoardOK'
  BY SameStamps, SameBoard DEF ClaimTask, CheckClaim
<1>1. ~At(q, "idle")
  BY DEF ClaimTask, CheckClaim, At
<1>2. req[q] \in HeldRequest /\ req[q].row \in RowIds
      /\ req[q].at \in {"claim", "claimed"}
  BY <1>1, HoldsRow DEF ClaimTask, CheckClaim, At
<1>3. CASE ClaimTask(q)
  <2>0. req[q].at = "claim" /\ req[q].task \in Tasks
    BY <1>2, <1>3 DEF ClaimTask, At, HeldRequest
  <2>1. Held'
    BY <1>3, <1>2, <2>0, GoType, Goes DEF ClaimTask
  <2>2. CASE UNCHANGED rows
    BY <1>0, <2>1, <2>2, NoWrite
  <2>3. CASE Running(i) /\ rows' = [rows EXCEPT ![i].task = req[q].task, ![i].run = NoRun]
    <3> DEFINE new == [rows[i] EXCEPT !.task = req[q].task, !.run = NoRun]
    <3>1. rows[i] \in Row
      BY <1>2 DEF RowsOK
    <3>2. new \in Row
      BY <3>1, <2>0, RowClaimed
    <3>3. new.status = "running"
      BY <2>3, <3>1 DEF Running, Row
    <3>4. rows' = [rows EXCEPT ![i] = new]
      BY <2>3
    <3> HIDE DEF new
    <3>5. RowsOK'
      BY <3>2, <3>3, <3>4, <2>3, <1>2, OneWrite
    <3> QED BY <1>0, <2>1, <3>5
  <2> QED BY <1>3, <2>2, <2>3 DEF ClaimTask
<1>4. CASE CheckClaim(q)
  <2>0. req[q].at = "claimed"
    BY <1>4 DEF CheckClaim, At
  <2>1. RowsOK'
    BY <1>4, NoWrite DEF CheckClaim
  <2>2. Held'
    BY <1>4, <1>1, <1>2, <2>0, GoType, Goes, Leaves DEF CheckClaim
  <2> QED BY <1>0, <2>1, <2>2
<1> QED BY <1>3, <1>4

LEMMA RunWritten ==
  ASSUME BoardOK, NEW r \in RunIds
  PROVE  /\ [runs[r] EXCEPT !.merged = TRUE] \in BoardRun
         /\ [runs[r] EXCEPT !.state = "done"] \in BoardRun
         /\ [runs[r] EXCEPT !.state = "active"] \in BoardRun
         /\ [runs[r] EXCEPT !.state = "failed"] \in BoardRun
         /\ [runs[r] EXCEPT !.task = NoTask] \in BoardRun
         /\ \A n \in 0..MaxWorkflows : [runs[r] EXCEPT !.workflows = n] \in BoardRun
         /\ \A t \in Tasks, n \in 0..MaxWorkflows :
               [runs[r] EXCEPT !.task = t, !.workflows = n] \in BoardRun
<1>1. runs[r] \in BoardRun /\ TRUE \in BOOLEAN
  BY DEF BoardOK
<1> QED BY <1>1 DEF BoardRun

LEMMA TaskWritten ==
  ASSUME BoardOK, NEW t \in Tasks
  PROVE  /\ \A status \in {"READY", "ACTIVE", "REVIEW", "DONE", "FAILED", "gone"} :
               [board[t] EXCEPT !.status = status] \in BoardTask
         /\ \A status \in {"READY", "ACTIVE", "REVIEW", "DONE", "FAILED", "gone"},
               r \in 0..MaxRuns : [board[t] EXCEPT !.run = r, !.status = status] \in BoardTask
<1>1. board[t] \in BoardTask
  BY DEF BoardOK
<1> QED BY <1>1 DEF BoardTask

LEMMA SettleKeeps ==
  ASSUME Inv, NEW q \in Requests, SettleTask(q)
  PROVE  Inv'
<1> USE DEF Inv
<1> DEFINE t == req[q].task
           r == IF req[q].run # NoRun /\ runs[req[q].run].task = t
                THEN req[q].run ELSE board[t].run
<1>0. StampsOK' /\ BoardOK' /\ RowsOK'
  BY SameStamps, SameBoard, NoWrite DEF SettleTask
<1>1. ~At(q, "idle") /\ req[q].at = "settle"
  BY DEF SettleTask, At
<1>2. req[q] \in HeldRequest /\ req[q] \in Request /\ req[q].row \in RowIds
  BY <1>1, HoldsRow
<1>3. "clear" \in (OperatorUpdate \cup ControllerUpdate) \ {"link"}
  BY DEF ControllerUpdate
<1>4. CASE Update(q, "clear")
  BY <1>0, <1>1, <1>3, <1>4, Updates
<1>5. CASE Leave(q)
  BY <1>0, <1>1, <1>5, Leaves
<1>6. CASE r # NoRun /\ req' = [req EXCEPT ![q].at = "merge", ![q].run = r]
  <2> DEFINE new == [req[q] EXCEPT !.at = "merge", !.run = r]
  <2>1. t \in Tasks /\ req[q].run \in 0..MaxRuns
    BY <1>1, <1>2 DEF HeldRequest, Request
  <2>2. board[t] \in BoardTask
    BY <2>1 DEF BoardOK
  <2>3. r \in 0..MaxRuns
    BY <2>1, <2>2 DEF BoardTask
  <2>4. r \in RunIds
    BY <2>3, <1>6 DEF RunIds, NoRun
  <2>5. req' = [req EXCEPT ![q] = new]
    BY <1>6
  <2> HIDE DEF r
  <2>6. new \in Request
    BY <1>2, <2>3 DEF Request, Place, ControllerAt
  <2>7. new.at = "merge" /\ new.row = req[q].row /\ new.update = req[q].update
        /\ new.task = req[q].task /\ new.run = r
    BY <1>2 DEF Request
  <2> HIDE DEF new
  <2>8. new \in HeldRequest
    BY <1>1, <1>2, <2>1, <2>4, <2>6, <2>7 DEF HeldRequest, t
  <2>9. Held'
    BY <2>5, <2>8, HeldByOne
  <2> QED BY <1>0, <2>9
<1> QED BY <1>4, <1>5, <1>6 DEF SettleTask

LEMMA MergeKeeps ==
  ASSUME Inv, NEW q \in Requests, RunWithPolicy(q)
  PROVE  Inv'
<1> USE DEF Inv
<1>0. StampsOK' /\ RowsOK'
  BY SameStamps, NoWrite DEF RunWithPolicy
<1>1. ~At(q, "idle") /\ req[q].at = "merge"
  BY DEF RunWithPolicy, At
<1>2. req[q] \in HeldRequest /\ req[q].run \in RunIds
  BY <1>1, HoldsRow DEF HeldRequest
<1>3. /\ "count" \in (OperatorUpdate \cup ControllerUpdate) \ {"link"}
      /\ "exhaust" \in (OperatorUpdate \cup ControllerUpdate) \ {"link"}
  BY DEF ControllerUpdate
<1>4. Held'
  BY <1>1, <1>2, <1>3, GoType, Goes, Leaves, Updates DEF RunWithPolicy
<1>5. BoardOK'
  BY <1>2, RunWritten DEF RunWithPolicy, BoardOK
<1> QED BY <1>0, <1>4, <1>5

LEMMA ReportKeeps ==
  ASSUME Inv, NEW q \in Requests, ReportMerge(q)
  PROVE  Inv'
<1> USE DEF Inv
<1> DEFINE r == req[q].run
           t == runs[r].task
<1>0. StampsOK' /\ RowsOK'
  BY SameStamps, NoWrite DEF ReportMerge
<1>1. ~At(q, "idle") /\ req[q].at = "report"
  BY DEF ReportMerge, At
<1>2. req[q] \in HeldRequest /\ r \in RunIds
  BY <1>1, HoldsRow DEF HeldRequest
<1>3. Held'
  BY <1>1, <1>2, GoType, Goes, Leaves DEF ReportMerge
<1>4. CASE UNCHANGED <<board, runs>>
  BY <1>0, <1>3, <1>4 DEF ReportMerge, BoardOK
<1>5. CASE /\ t # NoTask
           /\ runs' = [runs EXCEPT ![r].state = "done"]
           /\ board' = [board EXCEPT ![t].run = r,
                                     ![t].status = IF @ = "DONE" THEN @ ELSE "REVIEW"]
  <2>0. runs[r] \in BoardRun /\ r \in 0..MaxRuns
    BY <1>2 DEF BoardOK, RunIds
  <2>1. t \in Tasks
    BY <1>5, <2>0 DEF BoardRun
  <2> DEFINE new == [board[t] EXCEPT !.run = r,
                                     !.status = IF @ = "DONE" THEN @ ELSE "REVIEW"]
  <2>2. new \in BoardTask
    <3>1. board[t] \in BoardTask
      BY <2>1 DEF BoardOK
    <3>2. (IF board[t].status = "DONE" THEN board[t].status ELSE "REVIEW")
            \in {"READY", "ACTIVE", "REVIEW", "DONE", "FAILED", "gone"}
      BY <3>1 DEF BoardTask
    <3> QED BY <2>0, <2>1, <3>2, TaskWritten
  <2>3. board' = [board EXCEPT ![t] = new]
    BY <1>5
  <2> HIDE DEF new, t
  <2>4. board' \in [Tasks -> BoardTask]
    BY <2>2, <2>3 DEF BoardOK
  <2>5. runs' \in [RunIds -> BoardRun]
    BY <1>2, <1>5, RunWritten DEF BoardOK
  <2> QED BY <1>0, <1>3, <2>4, <2>5 DEF ReportMerge, BoardOK
<1> QED BY <1>4, <1>5 DEF ReportMerge

LEMMA FinishKeeps ==
  ASSUME Inv, NEW q \in Requests, FinishTask(q)
  PROVE  Inv'
<1> USE DEF Inv
<1>0. StampsOK' /\ RowsOK'
  BY SameStamps, NoWrite DEF FinishTask
<1>1. ~At(q, "idle") /\ req[q].at = "finish"
  BY DEF FinishTask, At
<1>2. req[q].task \in Tasks
  BY <1>1, HoldsRow DEF HeldRequest
<1>3. "clear" \in (OperatorUpdate \cup ControllerUpdate) \ {"link"}
  BY DEF ControllerUpdate
<1>4. Held'
  BY <1>1, <1>3, Leaves, Updates DEF FinishTask
<1>5. BoardOK'
  BY <1>2, TaskWritten DEF FinishTask, BoardOK
<1> QED BY <1>0, <1>4, <1>5

LEMMA ListKeeps ==
  ASSUME Inv, NEW q \in Requests, ListTasks(q)
  PROVE  Inv'
<1> USE DEF Inv
<1>0. StampsOK' /\ RowsOK' /\ BoardOK'
  BY SameStamps, NoWrite, SameBoard DEF ListTasks
<1>1. ~At(q, "idle") /\ req[q].at = "list"
  BY DEF ListTasks, At
<1>2. req[q] \in HeldRequest /\ req[q] \in Request
  BY <1>1, HoldsRow
<1>3. CASE Leave(q)
  BY <1>0, <1>1, <1>3, Leaves
<1>4. ASSUME NEW t \in Tasks, req' = [req EXCEPT ![q].at = "claim", ![q].task = t]
      PROVE  Inv'
  <2> DEFINE new == [req[q] EXCEPT !.at = "claim", !.task = t]
  <2>1. new \in Request
    BY <1>2 DEF Request, Place, ControllerAt
  <2>2. new.at = "claim" /\ new.row = req[q].row /\ new.update = req[q].update
        /\ new.task = t /\ new.run = req[q].run
    BY <1>2 DEF Request
  <2>3. req' = [req EXCEPT ![q] = new]
    BY <1>4
  <2> HIDE DEF new
  <2>4. new \in HeldRequest
    BY <1>1, <1>2, <2>1, <2>2 DEF HeldRequest
  <2>5. Held'
    BY <2>3, <2>4, HeldByOne
  <2> QED BY <1>0, <2>5
<1> QED BY <1>3, <1>4 DEF ListTasks

LEMMA NewRunKeeps ==
  ASSUME BoardOK, NEW t \in Tasks, NEW workflows \in 0..MaxWorkflows, NewRun(t, workflows)
  PROVE  BoardOK' /\ runCount + 1 \in RunIds
<1>1. runCount + 1 \in RunIds /\ runCount + 1 \in 0..MaxRuns
  BY SentinelAssumption DEF NewRun, BoardOK, RunIds
<1>2. runs' \in [RunIds -> BoardRun]
  BY <1>1, RunWritten DEF NewRun, BoardOK
<1>3. [status |-> "ACTIVE", run |-> runCount + 1] \in BoardTask
  BY <1>1 DEF BoardTask
<1>4. board' \in [Tasks -> BoardTask]
  BY <1>3 DEF NewRun, BoardOK
<1> QED BY <1>1, <1>2, <1>4 DEF NewRun, BoardOK

LEMMA StartRunKeeps ==
  ASSUME Inv, NEW q \in Requests, StartRun(q)
  PROVE  Inv'
<1> USE DEF Inv
<1>0. StampsOK' /\ RowsOK'
  BY SameStamps, NoWrite DEF StartRun
<1>1. ~At(q, "idle") /\ req[q].at = "start"
  BY DEF StartRun, At
<1>2. req[q].task \in Tasks /\ "giveUp" \in (OperatorUpdate \cup ControllerUpdate) \ {"link"}
  BY <1>1, HoldsRow DEF HeldRequest, ControllerUpdate
<1>3. CASE Update(q, "giveUp") /\ UNCHANGED <<board, runs, runCount>>
  BY <1>0, <1>1, <1>2, <1>3, Updates, SameBoard
<1>4. CASE /\ \E r \in ActiveRuns(req[q].task) : Link(q, r)
           /\ UNCHANGED <<board, runs, runCount>>
  BY <1>0, <1>1, <1>4, Links, SameBoard DEF ActiveRuns
<1>5. CASE NewRun(req[q].task, 0) /\ Link(q, runCount + 1)
  <2>1. 0 \in 0..MaxWorkflows
    BY SentinelAssumption
  <2>2. BoardOK' /\ runCount + 1 \in RunIds
    BY <1>2, <1>5, <2>1, NewRunKeeps
  <2>3. Held'
    BY <1>1, <1>5, <2>2, Links
  <2> QED BY <1>0, <2>2, <2>3
<1> QED BY <1>3, <1>4, <1>5 DEF StartRun

LEMMA ScheduleKeeps ==
  ASSUME Inv, NEW q \in Requests, ScheduleRun(q) \/ NoteWorkflow(q)
  PROVE  Inv'
<1> USE DEF Inv
<1>0. StampsOK' /\ RowsOK'
  BY SameStamps, NoWrite DEF ScheduleRun, NoteWorkflow
<1>1. ~At(q, "idle") /\ req[q].at \in {"schedule", "note"}
  BY DEF ScheduleRun, NoteWorkflow, At
<1>2. req[q] \in HeldRequest /\ req[q].run \in RunIds
  BY <1>1, HoldsRow DEF HeldRequest
<1>3. CASE ScheduleRun(q)
  <2>1. req[q].at = "schedule"
    BY <1>3 DEF ScheduleRun, At
  <2>2. Held'
    BY <1>1, <1>2, <1>3, <2>1, GoType, Goes DEF ScheduleRun
  <2>3. runs[req[q].run] \in BoardRun
    BY <1>2 DEF BoardOK
  <2>4. runs[req[q].run].workflows + 1 \in 0..MaxWorkflows
    BY <1>3, <2>3, SentinelAssumption DEF ScheduleRun, BoardRun
  <2> DEFINE new == [runs[req[q].run] EXCEPT !.workflows = @ + 1]
  <2>5. new \in BoardRun
    BY <1>2, <2>4, RunWritten
  <2>6. runs' = [runs EXCEPT ![req[q].run] = new]
    BY <1>3 DEF ScheduleRun
  <2> HIDE DEF new
  <2>7. BoardOK'
    BY <1>3, <2>5, <2>6 DEF ScheduleRun, BoardOK
  <2> QED BY <1>0, <2>2, <2>7
<1>4. CASE NoteWorkflow(q)
  <2>1. "giveUp" \in (OperatorUpdate \cup ControllerUpdate) \ {"link"}
    BY DEF ControllerUpdate
  <2>2. Held'
    BY <1>1, <1>4, <2>1, Leaves, Updates DEF NoteWorkflow
  <2>3. BoardOK'
    BY <1>4, SameBoard DEF NoteWorkflow
  <2> QED BY <1>0, <2>2, <2>3
<1> QED BY <1>3, <1>4

LEMMA StepKeeps ==
  ASSUME Inv, NEW q \in Requests, Step(q)
  PROVE  Inv'
BY InsertKeeps, ReadRowKeeps, WriteRowKeeps, LeaseKeeps, SettleKeeps, MergeKeeps, ReportKeeps,
   FinishKeeps, ListKeeps, ClaimKeeps, StartRunKeeps, ScheduleKeeps DEF Step

-----------------------------------------------------------------------------
(* A worker that dies, and what goes on around the sentinel. *)

LEMMA CrashKeeps ==
  ASSUME Inv, NEW q \in Requests, Crash(q)
  PROVE  Inv'
<1> USE DEF Inv
<1>0. StampsOK' /\ BoardOK' /\ Held'
  BY SameStamps, SameBoard, Ends DEF Crash
<1>1. \A i \in RowIds : rows'[i] \in Row
                        /\ rows'[i].status = rows[i].status
                        /\ (rows'[i].lease # NoOne => rows[i].lease # NoOne)
  <2> TAKE i \in RowIds
  <2>1. rows[i] \in Row /\ Lost \in Requests \cup {NoOne, Lost}
    BY DEF RowsOK
  <2>2. CASE rows[i].lease = q
    <3>1. rows'[i] = [rows[i] EXCEPT !.lease = Lost]
      BY <2>2 DEF Crash
    <3>2. rows'[i] \in Row
      BY <2>1, <3>1, RowLeased
    <3>3. rows[i].lease # NoOne
      BY <2>2, SentinelAssumption
    <3>4. rows'[i].status = rows[i].status
      BY <2>1, <3>1 DEF Row
    <3> QED BY <3>2, <3>3, <3>4
  <2>3. CASE rows[i].lease # q
    BY <2>1, <2>3 DEF Crash
  <2> QED BY <2>2, <2>3
<1>2. rows' \in [RowIds -> Row]
  <2>1. DOMAIN rows' = RowIds /\ rows' = [i \in RowIds |-> rows'[i]]
    BY DEF Crash
  <2> QED BY <1>1, <2>1
<1>3. SingleRunning' /\ LeaseOnlyWhenRunning'
  BY <1>1 DEF RowsOK, SingleRunning, LeaseOnlyWhenRunning, Running
<1> QED BY <1>0, <1>2, <1>3 DEF RowsOK

LEMMA ExpireKeeps ==
  ASSUME Inv, NEW i \in RowIds, ExpireLease(i)
  PROVE  Inv'
<1> USE DEF Inv
<1>0. StampsOK' /\ BoardOK' /\ Held'
  BY SameStamps, SameBoard DEF ExpireLease, Held
<1> DEFINE new == [rows[i] EXCEPT !.expired = TRUE]
<1>1. rows[i] \in Row /\ TRUE \in BOOLEAN
  BY DEF RowsOK
<1>2. new \in Row
  BY <1>1, RowLeased
<1>3. new.status = rows[i].status /\ new.lease = rows[i].lease
  BY <1>1 DEF Row
<1>4. Running(i)
  BY DEF ExpireLease, RowsOK, LeaseOnlyWhenRunning
<1>5. rows' = [rows EXCEPT ![i] = new]
  BY DEF ExpireLease
<1> HIDE DEF new
<1>6. RowsOK'
  BY <1>2, <1>3, <1>4, <1>5, OneWrite DEF Running
<1> QED BY <1>0, <1>6

LEMMA AroundKeeps ==
  ASSUME Inv, Around
  PROVE  Inv'
<1> USE DEF Inv
<1>1. CASE \E i \in RowIds : ExpireLease(i)
  BY <1>1, ExpireKeeps
<1>2. ASSUME NEW t \in Tasks, \/ ExecutorReviews(t) \/ ExecutorFails(t) \/ StartByHand(t)
                              \/ FinishByHand(t) \/ DeleteTask(t)
      PROVE  Inv'
  <2>0. StampsOK' /\ RowsOK' /\ Held'
    BY <1>2, SameStamps, NoWrite
       DEF ExecutorReviews, ExecutorFails, StartByHand, FinishByHand, DeleteTask, Held
  <2>1. board[t] \in BoardTask
    BY DEF BoardOK
  <2>2. Executes(t) => board[t].run \in RunIds
    BY <2>1 DEF Executes, BoardTask, RunIds, NoRun
  <2>3. CASE ExecutorReviews(t)
    BY <2>0, <2>2, <2>3, TaskWritten, RunWritten DEF ExecutorReviews, BoardOK
  <2>4. CASE ExecutorFails(t)
    BY <2>0, <2>2, <2>4, TaskWritten, RunWritten DEF ExecutorFails, BoardOK
  <2>5. CASE FinishByHand(t)
    BY <2>0, <2>5, TaskWritten DEF FinishByHand, BoardOK
  <2>6. CASE DeleteTask(t)
    <3>1. [status |-> "gone", run |-> NoRun] \in BoardTask
      BY SentinelAssumption DEF BoardTask, NoRun
    <3>2. \A r \in RunIds : runs[r] \in BoardRun /\ [runs[r] EXCEPT !.task = NoTask] \in BoardRun
      BY RunWritten DEF BoardOK
    <3>3. runs' \in [RunIds -> BoardRun]
      BY <2>6, <3>2 DEF DeleteTask
    <3> QED BY <2>0, <2>6, <3>1, <3>3 DEF DeleteTask, BoardOK
  <2>7. CASE StartByHand(t)
    <3>1. 1 \in 0..MaxWorkflows
      BY SentinelAssumption
    <3> QED BY <2>0, <2>7, <3>1, NewRunKeeps DEF StartByHand
  <2> QED BY <1>2, <2>3, <2>4, <2>5, <2>6, <2>7
<1> QED BY <1>1, <1>2 DEF Around

-----------------------------------------------------------------------------
LEMMA SpecInv == Spec => []Inv
<1>1. Inv /\ [Next]_vars => Inv'
  <2> SUFFICES ASSUME Inv, [Next]_vars PROVE Inv'
    OBVIOUS
  <2>1. CASE Next
    BY <2>1, HandleKeeps, StepKeeps, CrashKeeps, AroundKeeps DEF Next
  <2>2. CASE UNCHANGED vars
    BY <2>2, NoWrite, SameStamps, SameBoard DEF vars, Inv, Held
  <2> QED BY <2>1, <2>2
<1> QED BY InitInv, <1>1, PTL DEF Spec

(* Whatever operators, controllers and executors do, and whenever workers    *)
(* die: the rows, the requests and the board are well-formed, so that no     *)
(* controller comes to a call without the row, the task or the run the call  *)
(* is about; late writes of old copies included, at most one sentinel run is *)
(* running; and a paused or stopped one never holds a lease.                 *)
THEOREM RowsCorrect == Spec => []RowsHold
<1>1. Inv => RowsHold
  BY InvIs DEF RowsHold
<1> QED BY SpecInv, <1>1, PTL

-----------------------------------------------------------------------------
(* The lease keeps a row to one controller, workers that die included.  It   *)
(* does so while nobody pauses or stops the sentinel (a pause frees the      *)
(* lease of a controller that goes on) and no lease expires under a          *)
(* controller still at work.                                                 *)
Undisturbed == Commands \cap {"pause", "stop"} = {} /\ "expire" \notin Events

(* What a request has in hand, at work on a row. *)
AtWork(r) == \/ r.at \in ControllerAt \ {"release"}
             \/ r.at \in {"read", "write"} /\ r.update \in ControllerUpdate

(* Request q, holding r, and the row it holds: a row is there once it has    *)
(* been inserted, a controller has the lease, and the copy a controller is   *)
(* about to write back is of a row that runs.                                *)
Fits(q, r, row) ==
    /\ r.at \notin {"idle", "insert", "select"} => row.status # "absent"
    /\ r.at = "insert" => row.status = "absent"
    /\ AtWork(r) => row.lease = q
    /\ r.at = "write" => /\ r.copy.status # "absent"
                         /\ r.update \in ControllerUpdate => r.copy.status = "running"
    /\ r.update \notin {"pause", "stop"}

RequestsFit == \A q \in Requests : ~At(q, "idle") => Fits(q, req[q], rows[req[q].row])

(* Only the lease of a dead worker runs out. *)
LostExpire == \A i \in RowIds : rows[i].expired => rows[i].lease = Lost

(* started_at values are handed out in order, each to one request. *)
StampsFresh ==
    /\ \A i \in RowIds : i > stamps => rows[i].status = "absent"
    /\ \A q \in Requests : At(q, "insert")
          => /\ req[q].row <= stamps
             /\ \A p \in Requests \ {q} : At(p, "insert") => req[p].row # req[q].row

LeaseInv == RequestsFit /\ LostExpire /\ StampsFresh

LEMMA InvHeld ==
  ASSUME Inv, NEW q \in Requests
  PROVE  /\ req[q] \in HeldRequest /\ req[q] \in Request
         /\ ~At(q, "idle") => req[q].row \in RowIds /\ rows[req[q].row] \in Row
BY DEF Inv, Held, HeldRequest, RowsOK, At

(* Request q comes to hold r and the rows stay as they are. *)
LEMMA RequestStep ==
  ASSUME Inv, LeaseInv, NEW q \in Requests, NEW r, req' = [req EXCEPT ![q] = r],
         UNCHANGED <<rows, stamps>>, r.at # "insert",
         r.at # "idle" => Fits(q, r, rows[r.row])
  PROVE  LeaseInv'
<1>1. \A p \in Requests : req'[p] = IF p = q THEN r ELSE req[p]
  BY DEF Inv, Held
<1>2. RequestsFit'
  BY <1>1 DEF LeaseInv, RequestsFit, At
<1>3. LostExpire'
  BY DEF LeaseInv, LostExpire
<1>4. StampsFresh'
  BY <1>1 DEF LeaseInv, StampsFresh, At
<1> QED BY <1>2, <1>3, <1>4 DEF LeaseInv

(* The same, and row i, in place already or not at all, becomes `new`, which  *)
(* takes no other request's lease.                                            *)
MovesRow(q, r, i, new) ==
    /\ req' = [req EXCEPT ![q] = r]
    /\ rows' = [rows EXCEPT ![i] = new]
    /\ UNCHANGED stamps
    /\ new.status = "absent" <=> rows[i].status = "absent"
    /\ \A p \in Requests \ {q} : rows[i].lease = p => new.lease = p
    /\ new.expired => new.lease = Lost
    /\ r.at # "insert"
    /\ r.at # "idle" => r.row = i /\ Fits(q, r, new)

LEMMA RowStep ==
  ASSUME Inv, LeaseInv, NEW q \in Requests, NEW r, NEW i \in RowIds, NEW new,
         MovesRow(q, r, i, new)
  PROVE  LeaseInv'
<1>1. \A p \in Requests : req'[p] = IF p = q THEN r ELSE req[p]
  BY DEF Inv, Held, MovesRow
<1>2. \A j \in RowIds : rows'[j] = IF j = i THEN new ELSE rows[j]
  BY DEF Inv, RowsOK, MovesRow
<1>3. RequestsFit'
  <2> SUFFICES ASSUME NEW p \in Requests, req'[p].at # "idle"
               PROVE  Fits(p, req'[p], rows'[req'[p].row])
    BY DEF RequestsFit, At
  <2>1. CASE p = q
    BY <1>1, <1>2, <2>1 DEF MovesRow
  <2>2. CASE p # q
    <3>1. Fits(p, req[p], rows[req[p].row]) /\ req'[p] = req[p] /\ req[p].row \in RowIds
      BY <1>1, <2>2, InvHeld DEF LeaseInv, RequestsFit, At
    <3>2. CASE req[p].row = i
      BY <1>2, <2>2, <3>1, <3>2 DEF Fits, MovesRow
    <3>3. CASE req[p].row # i
      BY <1>2, <3>1, <3>3
    <3> QED BY <3>2, <3>3
  <2> QED BY <2>1, <2>2
<1>4. LostExpire'
  BY <1>2 DEF LeaseInv, LostExpire, MovesRow
<1>5. StampsFresh'
  BY <1>1, <1>2 DEF LeaseInv, StampsFresh, At, MovesRow
<1> QED BY <1>3, <1>4, <1>5 DEF LeaseInv

(* A controller goes on with its row, to a statement other than a write, or   *)
(* ends.                                                                      *)
LEMMA Advances ==
  ASSUME Inv, LeaseInv, NEW q \in Requests, ~At(q, "idle"), AtWork(req[q]),
         NEW r, req' = [req EXCEPT ![q] = r], UNCHANGED <<rows, stamps>>,
         r.row = req[q].row, r.at \notin {"idle", "insert", "write"},
         r.update \notin {"pause", "stop"}
  PROVE  LeaseInv'
<1>1. Fits(q, req[q], rows[req[q].row])
  BY DEF LeaseInv, RequestsFit
<1>2. req[q].at \notin {"idle", "insert", "select"}
  BY DEF AtWork, ControllerAt
<1>3. Fits(q, r, rows[r.row])
  BY <1>1, <1>2 DEF Fits
<1> QED BY <1>3, RequestStep

LEMMA GoesWork ==
  ASSUME Inv, LeaseInv, NEW q \in Requests, ~At(q, "idle"), AtWork(req[q]),
         NEW place \in Place \ {"idle", "insert", "write"}, Go(q, place),
         UNCHANGED <<rows, stamps>>
  PROVE  LeaseInv'
<1>1. req[q] \in Request
  BY InvHeld
<1>2. /\ [req[q] EXCEPT !.at = place].row = req[q].row
      /\ [req[q] EXCEPT !.at = place].at = place
      /\ [req[q] EXCEPT !.at = place].update = req[q].update
  BY <1>1 DEF Request
<1>3. req[q].update \notin {"pause", "stop"}
  BY DEF LeaseInv, RequestsFit, Fits
<1> QED BY <1>2, <1>3, Advances DEF Go

LEMMA LeavesWork ==
  ASSUME Inv, LeaseInv, NEW q \in Requests, ~At(q, "idle"), AtWork(req[q]), Leave(q),
         UNCHANGED <<rows, stamps>>
  PROVE  LeaseInv'
<1> DEFINE r == [IdleRequest EXCEPT !.at = "release", !.row = req[q].row]
<1>1. r.at = "release" /\ r.row = req[q].row /\ r.update = "none"
  BY DEF IdleRequest
<1>2. req' = [req EXCEPT ![q] = r]
  BY DEF Leave, Open
<1> HIDE DEF r
<1> QED BY <1>1, <1>2, Advances

LEMMA UpdatesWork ==
  ASSUME Inv, LeaseInv, NEW q \in Requests, ~At(q, "idle"), AtWork(req[q]),
         NEW kind \in ControllerUpdate, Update(q, kind), UNCHANGED <<rows, stamps>>
  PROVE  LeaseInv'
<1> DEFINE r == [IdleRequest EXCEPT !.at = "read", !.row = req[q].row, !.update = kind]
<1>1. r.at = "read" /\ r.row = req[q].row /\ r.update = kind
  BY DEF IdleRequest
<1>2. req' = [req EXCEPT ![q] = r] /\ kind \notin {"pause", "stop"}
  BY DEF Update, OpenUpdate, ControllerUpdate
<1> HIDE DEF r
<1> QED BY <1>1, <1>2, Advances

LEMMA LinksWork ==
  ASSUME Inv, LeaseInv, NEW q \in Requests, ~At(q, "idle"), AtWork(req[q]), NEW n,
         Link(q, n), UNCHANGED <<rows, stamps>>
  PROVE  LeaseInv'
<1> DEFINE r == [IdleRequest EXCEPT !.at = "read", !.row = req[q].row,
                                    !.update = "link", !.run = n]
<1>1. r.at = "read" /\ r.row = req[q].row /\ r.update = "link"
  BY DEF IdleRequest
<1>2. req' = [req EXCEPT ![q] = r]
  BY DEF Link
<1> HIDE DEF r
<1> QED BY <1>1, <1>2, Advances

LEMMA EndsWork ==
  ASSUME Inv, LeaseInv, NEW q \in Requests, End(q), UNCHANGED <<rows, stamps>>
  PROVE  LeaseInv'
<1>1. IdleRequest.at = "idle"
  BY DEF IdleRequest
<1> QED BY <1>1, RequestStep DEF End

(* A request without the lease yet is sent to a row that runs or is paused.   *)
LEMMA OpensRow ==
  ASSUME Inv, LeaseInv, NEW q \in Requests, NEW i \in RowIds, rows[i].status # "absent",
         Open(q, i, "acquire") \/ OpenUpdate(q, i, "resume"), UNCHANGED <<rows, stamps>>
  PROVE  LeaseInv'
<1>1. CASE Open(q, i, "acquire")
  <2> DEFINE r == [IdleRequest EXCEPT !.at = "acquire", !.row = i]
  <2>1. r.at = "acquire" /\ r.row = i /\ r.update = "none"
    BY DEF IdleRequest
  <2>2. req' = [req EXCEPT ![q] = r]
    BY <1>1 DEF Open
  <2> HIDE DEF r
  <2>3. Fits(q, r, rows[i])
    BY <2>1 DEF Fits, AtWork, ControllerAt
  <2> QED BY <2>1, <2>2, <2>3, RequestStep
<1>2. CASE OpenUpdate(q, i, "resume")
  <2> DEFINE r == [IdleRequest EXCEPT !.at = "read", !.row = i, !.update = "resume"]
  <2>1. r.at = "read" /\ r.row = i /\ r.update = "resume"
    BY DEF IdleRequest
  <2>2. req' = [req EXCEPT ![q] = r]
    BY <1>2 DEF OpenUpdate
  <2> HIDE DEF r
  <2>3. Fits(q, r, rows[i])
    BY <2>1 DEF Fits, AtWork, ControllerAt, ControllerUpdate
  <2> QED BY <2>1, <2>2, <2>3, RequestStep
<1> QED BY <1>1, <1>2

-----------------------------------------------------------------------------
(* Requests, up to the lease *)

LEMMA AskLease ==
  ASSUME Inv, LeaseInv, NEW q \in Requests, AskForRow(q), UNCHANGED rows
  PROVE  LeaseInv'
<1> DEFINE r == [IdleRequest EXCEPT !.at = "insert", !.row = stamps + 1]
<1>1. r.at = "insert" /\ r.row = stamps + 1 /\ r.update = "none"
  BY DEF IdleRequest
<1>2. req' = [req EXCEPT ![q] = r] /\ stamps' = stamps + 1 /\ stamps < MaxRows
  BY DEF AskForRow, Open
<1> HIDE DEF r
<1>3. stamps \in Nat /\ stamps + 1 \in RowIds
  BY <1>2, SentinelAssumption DEF Inv, StampsOK, RowIds
<1>4. \A p \in Requests : req'[p] = IF p = q THEN r ELSE req[p]
  BY <1>2 DEF Inv, Held
<1>5. rows[stamps + 1].status = "absent"
  BY <1>3 DEF LeaseInv, StampsFresh
<1>6. Fits(q, r, rows[r.row])
  BY <1>1, <1>5 DEF Fits, AtWork, ControllerAt
<1>7. RequestsFit'
  BY <1>4, <1>6 DEF LeaseInv, RequestsFit, At
<1>8. LostExpire'
  BY DEF LeaseInv, LostExpire
<1>9. StampsFresh'
  <2>1. \A i \in RowIds : i > stamps' => rows'[i].status = "absent"
    BY <1>2, <1>3 DEF LeaseInv, StampsFresh, RowIds
  <2>2. \A p \in Requests : At(p, "insert") => req[p].row <= stamps /\ req[p].row \in Nat
    BY InvHeld DEF LeaseInv, StampsFresh, At, RowIds
  <2>3. ASSUME NEW p \in Requests, At(p, "insert")'
        PROVE  /\ req'[p].row <= stamps'
               /\ \A o \in Requests \ {p} : At(o, "insert")' => req'[o].row # req'[p].row
    <3>1. CASE p = q
      BY <1>1, <1>2, <1>3, <1>4, <2>2, <3>1 DEF At
    <3>2. CASE p # q
      BY <1>1, <1>2, <1>3, <1>4, <2>2, <2>3, <3>2 DEF LeaseInv, StampsFresh, At
    <3> QED BY <3>1, <3>2
  <2> QED BY <2>1, <2>3 DEF StampsFresh
<1> QED BY <1>7, <1>8, <1>9 DEF LeaseInv

LEMMA HandleLease ==
  ASSUME Undisturbed, Inv, LeaseInv, NEW q \in Requests, Handle(q)
  PROVE  LeaseInv'
<1>1. CASE HandleStart(q)
  <2>1. CASE AskForRow(q)
    BY <1>1, <2>1, AskLease DEF HandleStart
  <2>2. CASE ~AskForRow(q)
    BY <1>1, <2>2, OpensRow DEF HandleStart, IsLatest
  <2> QED BY <2>1, <2>2
<1>2. CASE HandleResume(q)
  BY <1>2, OpensRow DEF HandleResume, IsLatest
<1>3. CASE HandlePause(q) \/ HandleStop(q)
  BY <1>3 DEF HandlePause, HandleStop, Undisturbed
<1> QED BY <1>1, <1>2, <1>3 DEF Handle

(* A row is inserted where nobody else has anything in hand. *)
LEMMA InsertLease ==
  ASSUME Inv, LeaseInv, NEW q \in Requests, InsertRow(q)
  PROVE  LeaseInv'
<1> DEFINE i == req[q].row
<1>1. ~At(q, "idle") /\ req[q].at = "insert" /\ i \in RowIds /\ req[q] \in Request
  BY InvHeld DEF InsertRow, At
<1>2. rows[i].status = "absent" /\ req[q].update \notin {"pause", "stop"}
  BY <1>1 DEF LeaseInv, RequestsFit, Fits
<1>3. CASE AnotherRuns(i)
  <2> DEFINE r == [req[q] EXCEPT !.at = "select"]
  <2>1. r.at = "select" /\ r.row = i /\ r.update = req[q].update
    BY <1>1 DEF Request
  <2>2. req' = [req EXCEPT ![q] = r] /\ UNCHANGED <<rows, stamps>>
    BY <1>3 DEF InsertRow, Go
  <2> HIDE DEF r
  <2>3. Fits(q, r, rows[r.row])
    BY <1>2, <2>1 DEF Fits, AtWork, ControllerAt
  <2> QED BY <2>1, <2>2, <2>3, RequestStep
<1>4. CASE ~AnotherRuns(i)
  <2> DEFINE r   == [req[q] EXCEPT !.at = "acquire"]
             new == [AbsentRow EXCEPT !.status = "running"]
  <2>1. r.at = "acquire" /\ r.row = i /\ r.update = req[q].update
    BY <1>1 DEF Request
  <2>2. new.status = "running" /\ new.lease = NoOne /\ new.expired = FALSE
    BY DEF AbsentRow
  <2>3. /\ req' = [req EXCEPT ![q] = r] /\ stamps' = stamps
        /\ rows' = [rows EXCEPT ![i] = new]
    BY <1>4 DEF InsertRow, Go
  <2> HIDE DEF r, new, i
  <2>4. \A p \in Requests : req'[p] = IF p = q THEN r ELSE req[p]
    BY <2>3 DEF Inv, Held
  <2>5. \A j \in RowIds : rows'[j] = IF j = i THEN new ELSE rows[j]
    BY <2>3 DEF Inv, RowsOK
  <2>6. RequestsFit'
    <3> SUFFICES ASSUME NEW p \in Requests, req'[p].at # "idle"
                 PROVE  Fits(p, req'[p], rows'[req'[p].row])
      BY DEF RequestsFit, At
    <3>1. CASE p = q
      BY <1>1, <1>2, <2>1, <2>2, <2>4, <2>5, <3>1 DEF Fits, AtWork, ControllerAt
    <3>2. CASE p # q
      <4>1. Fits(p, req[p], rows[req[p].row]) /\ req'[p] = req[p] /\ req[p].row \in RowIds
        BY <2>4, <3>2, InvHeld DEF LeaseInv, RequestsFit, At
      <4>2. CASE req[p].row = i
        <5>1. req[p].at # "insert"
          BY <1>1, <3>2, <4>2 DEF LeaseInv, StampsFresh, At, i
        <5>2. req[p].at = "select"
          BY <1>2, <3>2, <4>1, <4>2, <5>1 DEF Fits
        <5> QED BY <4>1, <5>2 DEF Fits, AtWork, ControllerAt
      <4>3. CASE req[p].row # i
        BY <2>5, <4>1, <4>3
      <4> QED BY <4>2, <4>3
    <3> QED BY <3>1, <3>2
  <2>7. LostExpire'
    BY <2>2, <2>5 DEF LeaseInv, LostExpire
  <2>8. StampsFresh'
    <3>1. i <= stamps
      BY <1>1 DEF LeaseInv, StampsFresh, At, i
    <3>2. stamps \in Nat /\ i \in Nat
      BY <1>1 DEF Inv, StampsOK, RowIds, i
    <3> QED BY <2>1, <2>3, <2>4, <2>5, <3>1, <3>2 DEF LeaseInv, StampsFresh, At
  <2> QED BY <2>6, <2>7, <2>8 DEF LeaseInv
<1> QED BY <1>3, <1>4

LEMMA SelectLease ==
  ASSUME Inv, LeaseInv, NEW q \in Requests, SelectRunning(q)
  PROVE  LeaseInv'
<1>1. ASSUME NEW i \in RowIds, Running(i), Open(q, i, "acquire") PROVE LeaseInv'
  BY <1>1, OpensRow DEF SelectRunning, Running
<1> QED BY <1>1, EndsWork DEF SelectRunning

-----------------------------------------------------------------------------
(* Updates of a row *)

LEMMA ReadLease ==
  ASSUME Inv, LeaseInv, NEW q \in Requests, ReadRow(q)
  PROVE  LeaseInv'
<1> DEFINE i == req[q].row
           copy == [status |-> rows[i].status, task |-> rows[i].task, run |-> rows[i].run,
                    attempts |-> rows[i].attempts]
           r == [req[q] EXCEPT !.at = "write", !.copy = copy]
<1>1. ~At(q, "idle") /\ req[q].at = "read" /\ i \in RowIds /\ req[q] \in Request
  BY InvHeld DEF ReadRow, At
<1>2. r.at = "write" /\ r.row = i /\ r.update = req[q].update /\ r.copy = copy
  BY <1>1 DEF Request
<1>3. copy.status = rows[i].status
  OBVIOUS
<1>4. req' = [req EXCEPT ![q] = r] /\ UNCHANGED <<rows, stamps>>
  BY DEF ReadRow
<1> HIDE DEF r, copy, i
<1>5. Fits(q, req[q], rows[i])
  BY <1>1 DEF LeaseInv, RequestsFit, i
<1>6. req[q].update \in ControllerUpdate => rows[i].lease = q /\ rows[i].status = "running"
  <2>1. req[q].update \in ControllerUpdate => rows[i].lease = q
    BY <1>1, <1>5 DEF Fits, AtWork
  <2> QED BY <1>1, <2>1, SentinelAssumption
          DEF Inv, RowsOK, LeaseOnlyWhenRunning, Running
<1>7. Fits(q, r, rows[i])
  BY <1>1, <1>2, <1>3, <1>5, <1>6 DEF Fits, AtWork, ControllerAt
<1> QED BY <1>2, <1>4, <1>7, RequestStep

(* What a request that may write may be about to do, and where it goes on.    *)
LEMMA WritePlaces ==
  /\ AfterUpdate["resume"] = "acquire" /\ AfterUpdate["clear"] = "list"
  /\ AfterUpdate["giveUp"] = "release" /\ AfterUpdate["link"] = "schedule"
  /\ AfterUpdate["count"] = "read"     /\ AfterUpdate["exhaust"] = "release"
  /\ AfterRefusal["resume"] = "idle"   /\ AfterRefusal["clear"] = "release"
  /\ AfterRefusal["giveUp"] = "release" /\ AfterRefusal["link"] = "read"
  /\ AfterRefusal["count"] = "release" /\ AfterRefusal["exhaust"] = "release"
BY DEF AfterUpdate, AfterRefusal

LEMMA WriteLease ==
  ASSUME Inv, LeaseInv, NEW q \in Requests, WriteRow(q)
  PROVE  LeaseInv'
<1> DEFINE i == req[q].row
           kind == req[q].update
           copy == req[q].copy
           new == Updated(kind, copy, req[q].run)
<1>1. /\ ~At(q, "idle") /\ req[q].at = "write" /\ i \in RowIds /\ req[q] \in Request
      /\ req[q] \in HeldRequest
  BY InvHeld DEF WriteRow, At
<1>2. Fits(q, req[q], rows[i])
  BY <1>1 DEF LeaseInv, RequestsFit
<1>3. kind \in {"resume"} \cup ControllerUpdate
  BY <1>1, <1>2 DEF Fits, HeldRequest, Request, OperatorUpdate
<1>4. rows[i].status # "absent" /\ rows[i] \in Row /\ copy \in Copy
  BY <1>1, <1>2, InvHeld DEF Fits, Request
<1>5. kind # "resume" => rows[i].lease = q /\ copy.status = "running"
  BY <1>1, <1>2, <1>3 DEF Fits, AtWork
<1>6. /\ kind # "exhaust" => new.status = "running"
      /\ kind = "exhaust" => new.status = "paused"
  BY <1>3, <1>4, <1>5 DEF Updated, Copy, ControllerUpdate
<1>7. ASSUME NEW place, NEW update \in {"none", "exhaust", "giveUp"}
      PROVE  LET r == [req[q] EXCEPT !.at = place, !.copy = NoCopy, !.update = update]
             IN r.at = place /\ r.row = i /\ r.update = update
  BY <1>1 DEF Request
<1>8. IdleRequest.at = "idle"
  BY DEF IdleRequest
<1>9. CASE new.status = "running" /\ AnotherRuns(i)
  <2>1. UpdateRefused(q) /\ UNCHANGED <<rows, stamps>>
    BY <1>9 DEF WriteRow
  <2>2. CASE kind = "resume"
    BY <2>1, <2>2, WritePlaces, EndsWork DEF UpdateRefused
  <2>3. CASE kind # "resume"
    <3> DEFINE place == AfterRefusal[kind]
               update == IF kind = "link" THEN "giveUp" ELSE "none"
               r == [req[q] EXCEPT !.at = place, !.copy = NoCopy, !.update = update]
    <3>1. /\ place \in {"release", "read"} /\ update \in {"none", "exhaust", "giveUp"}
      BY <1>3, <2>3, WritePlaces DEF ControllerUpdate
    <3>2. r.at = place /\ r.row = i /\ r.update = update
      BY <1>7, <3>1
    <3>3. req' = [req EXCEPT ![q] = r]
      BY <2>1, <3>1 DEF UpdateRefused
    <3>4. AtWork(req[q])
      BY <1>1, <1>3, <2>3 DEF AtWork
    <3> HIDE DEF r, place, update
    <3> QED BY <1>1, <2>1, <3>1, <3>2, <3>3, <3>4, Advances
  <2> QED BY <2>2, <2>3
<1>10. CASE ~(new.status = "running" /\ AnotherRuns(i))
  <2> DEFINE row == Written(i, new)
             place == AfterUpdate[kind]
             update == IF kind = "count" THEN "exhaust" ELSE "none"
             r == [req[q] EXCEPT !.at = place, !.copy = NoCopy, !.update = update]
  <2>1. UpdateDone(q) /\ rows' = [rows EXCEPT ![i] = row] /\ stamps' = stamps
    BY <1>10 DEF WriteRow
  <2> HIDE DEF new
  <2>2. /\ row.status = new.status
        /\ row.lease = IF new.status = "running" THEN rows[i].lease ELSE NoOne
        /\ row.expired = (rows[i].expired /\ new.status = "running")
    BY <1>4 DEF Written, Row
  <2>3. /\ place \in {"acquire", "list", "release", "schedule", "read"}
        /\ update \in {"none", "exhaust", "giveUp"}
    BY <1>3, WritePlaces DEF ControllerUpdate
  <2>4. /\ place \in {"list", "schedule", "read"} => kind \notin {"resume", "exhaust"}
    BY <1>3, WritePlaces DEF ControllerUpdate
  <2>5. r.at = place /\ r.row = i /\ r.update = update
    BY <1>7, <2>3
  <2>6. req' = [req EXCEPT ![q] = r]
    BY <2>1, <2>3 DEF UpdateDone
  <2> HIDE DEF r, row, place, update
  <2>7. row.status # "absent"
    BY <1>6, <2>2
  <2>8. \A p \in Requests \ {q} : rows[i].lease = p => row.lease = p
    BY <1>5, <1>6, <2>2
  <2>9. row.expired => row.lease = Lost
    BY <1>1, <2>2, Zenon DEF LeaseInv, LostExpire
  <2>10. Fits(q, r, row)
    <3>1. AtWork(r) => row.lease = q
      BY <1>5, <1>6, <2>2, <2>3, <2>4, <2>5 DEF AtWork, ControllerAt
    <3> QED BY <2>3, <2>5, <2>7, <3>1 DEF Fits
  <2>11. r.at # "insert" /\ (row.status = "absent" <=> rows[i].status = "absent")
    BY <1>4, <2>3, <2>5, <2>7
  <2> HIDE DEF i
  <2>12. MovesRow(q, r, i, row)
    BY <1>1, <2>1, <2>5, <2>6, <2>8, <2>9, <2>10, <2>11 DEF MovesRow
  <2> QED BY <1>1, <2>12, RowStep
<1> QED BY <1>9, <1>10

-----------------------------------------------------------------------------
(* The lease *)

LEMMA AcquireKeepsLease ==
  ASSUME Inv, LeaseInv, NEW q \in Requests, AcquireLease(q)
  PROVE  LeaseInv'
<1> DEFINE i == req[q].row
           r == [req[q] EXCEPT !.at = "own"]
           new == [rows[i] EXCEPT !.lease = q, !.expired = FALSE]
<1>1. /\ ~At(q, "idle") /\ req[q].at = "acquire" /\ i \in RowIds /\ req[q] \in Request
      /\ req[q] \in HeldRequest /\ rows[i] \in Row
  BY InvHeld DEF AcquireLease, At
<1>2. CASE ~(Running(i) /\ Available(i, q))
  BY <1>2, EndsWork DEF AcquireLease
<1>3. CASE Running(i) /\ Available(i, q)
  <2>1. r.at = "own" /\ r.row = i /\ r.update = "none"
    BY <1>1 DEF HeldRequest, Request
  <2>2. new.status = "running" /\ new.lease = q /\ new.expired = FALSE
    BY <1>1, <1>3 DEF Row, Running
  <2>3. req' = [req EXCEPT ![q] = r] /\ rows' = [rows EXCEPT ![i] = new] /\ stamps' = stamps
    BY <1>3 DEF AcquireLease, Go
  <2>4. rows[i].lease \in {NoOne, q, Lost} /\ rows[i].status = "running"
    BY <1>1, <1>3 DEF Available, Running, LeaseInv, LostExpire
  <2> HIDE DEF r, new, i
  <2>5. Fits(q, r, new)
    BY <2>1, <2>2 DEF Fits, AtWork, ControllerAt
  <2>6. \A p \in Requests \ {q} : rows[i].lease = p => new.lease = p
    BY <2>4, SentinelAssumption
  <2>12. MovesRow(q, r, i, new)
    BY <1>1, <2>1, <2>2, <2>3, <2>4, <2>5, <2>6 DEF MovesRow
  <2> QED BY <1>1, <2>12, RowStep
<1> QED BY <1>2, <1>3

LEMMA OwnKeepsLease ==
  ASSUME Inv, LeaseInv, NEW q \in Requests, OwnLease(q)
  PROVE  LeaseInv'
<1> DEFINE i == req[q].row
<1>1. /\ ~At(q, "idle") /\ req[q].at = "own" /\ i \in RowIds /\ req[q] \in Request
      /\ req[q] \in HeldRequest
  BY InvHeld DEF OwnLease, At
<1>2. req[q].update = "none"
  BY <1>1 DEF HeldRequest
<1>3. CASE rows[i].status = "running" /\ rows[i].lease = q
  <2>1. \E r : /\ req' = [req EXCEPT ![q] = r]
               /\ r.at \in {"list", "settle"} /\ r.row = i /\ r.update = "none"
    <3>1. CASE rows[i].task = NoTask
      <4>1. req' = [req EXCEPT ![q] = [req[q] EXCEPT !.at = "list"]]
        BY <1>3, <3>1 DEF OwnLease, Go
      <4>2. /\ [req[q] EXCEPT !.at = "list"].at = "list"
            /\ [req[q] EXCEPT !.at = "list"].row = i
            /\ [req[q] EXCEPT !.at = "list"].update = "none"
        BY <1>1, <1>2 DEF Request
      <4> QED BY <4>1, <4>2
    <3>2. CASE rows[i].task # NoTask
      <4> DEFINE r == [req[q] EXCEPT !.at = "settle", !.task = rows[i].task,
                                     !.run = rows[i].run, !.attempts = rows[i].attempts]
      <4>1. req' = [req EXCEPT ![q] = r]
        BY <1>3, <3>2 DEF OwnLease
      <4>2. r.at = "settle" /\ r.row = i /\ r.update = "none"
        BY <1>1, <1>2 DEF Request
      <4> HIDE DEF r
      <4> QED BY <4>1, <4>2
    <3> QED BY <3>1, <3>2
  <2>2. PICK r : /\ req' = [req EXCEPT ![q] = r]
                 /\ r.at \in {"list", "settle"} /\ r.row = i /\ r.update = "none"
    BY <2>1
  <2>3. Fits(q, r, rows[r.row])
    BY <1>3, <2>2 DEF Fits
  <2> QED BY <2>2, <2>3, RequestStep DEF OwnLease
<1>4. CASE ~(rows[i].status = "running" /\ rows[i].lease = q)
  BY <1>4, EndsWork DEF OwnLease
<1> QED BY <1>3, <1>4

LEMMA ReleaseKeepsLease ==
  ASSUME Inv, LeaseInv, NEW q \in Requests, ReleaseLease(q)
  PROVE  LeaseInv'
<1> DEFINE i == req[q].row
           new == [rows[i] EXCEPT !.lease = NoOne, !.expired = FALSE]
<1>1. i \in RowIds /\ rows[i] \in Row
  BY InvHeld DEF ReleaseLease, At
<1>2. CASE rows[i].lease = q
  <2>1. new.status = rows[i].status /\ new.lease = NoOne /\ new.expired = FALSE
    BY <1>1 DEF Row
  <2>2. /\ req' = [req EXCEPT ![q] = IdleRequest] /\ stamps' = stamps
        /\ rows' = [rows EXCEPT ![i] = new]
    BY <1>2 DEF ReleaseLease, End
  <2>3. IdleRequest.at = "idle"
    BY DEF IdleRequest
  <2> HIDE DEF new, i
  <2>12. MovesRow(q, IdleRequest, i, new)
    BY <1>1, <1>2, <2>1, <2>2, <2>3 DEF MovesRow
  <2> QED BY <1>1, <2>12, RowStep
<1>3. CASE rows[i].lease # q
  BY <1>3, EndsWork DEF ReleaseLease
<1> QED BY <1>2, <1>3

-----------------------------------------------------------------------------
(* The controller *)

LEMMA ClaimLease ==
  ASSUME Inv, LeaseInv, NEW q \in Requests, ClaimTask(q)
  PROVE  LeaseInv'
<1> DEFINE i == req[q].row
           r == [req[q] EXCEPT !.at = "claimed"]
           new == [rows[i] EXCEPT !.task = req[q].task, !.run = NoRun]
<1>1. /\ ~At(q, "idle") /\ req[q].at = "claim" /\ i \in RowIds /\ req[q] \in Request
      /\ req[q] \in HeldRequest /\ rows[i] \in Row
  BY InvHeld DEF ClaimTask, At
<1>2. CASE ~(Running(i) /\ rows[i].task = NoTask)
  <2>1. AtWork(req[q]) /\ "claimed" \in Place \ {"idle", "insert", "write"}
    BY <1>1 DEF AtWork, ControllerAt, Place
  <2> QED BY <1>1, <1>2, <2>1, GoesWork DEF ClaimTask
<1>3. CASE Running(i) /\ rows[i].task = NoTask
  <2>1. r.at = "claimed" /\ r.row = i /\ r.update = "none"
    BY <1>1 DEF HeldRequest, Request
  <2>2. /\ new.status = rows[i].status /\ new.lease = rows[i].lease
        /\ new.expired = rows[i].expired
    BY <1>1 DEF Row
  <2>3. req' = [req EXCEPT ![q] = r] /\ rows' = [rows EXCEPT ![i] = new] /\ stamps' = stamps
    BY <1>3 DEF ClaimTask, Go
  <2>4. rows[i].lease = q /\ rows[i].status # "absent"
    BY <1>1 DEF LeaseInv, RequestsFit, Fits, AtWork, ControllerAt
  <2> HIDE DEF r, new, i
  <2>5. Fits(q, r, new)
    BY <2>1, <2>2, <2>4 DEF Fits
  <2>6. new.expired => new.lease = Lost
    BY <1>1, <2>2 DEF LeaseInv, LostExpire
  <2>12. MovesRow(q, r, i, new)
    BY <1>1, <2>1, <2>2, <2>3, <2>5, <2>6 DEF MovesRow
  <2> QED BY <1>1, <2>12, RowStep
<1> QED BY <1>2, <1>3

LEMMA SettleLease ==
  ASSUME Inv, LeaseInv, NEW q \in Requests, SettleTask(q)
  PROVE  LeaseInv'
<1>1. ~At(q, "idle") /\ AtWork(req[q]) /\ req[q] \in Request /\ req[q].at = "settle"
  BY InvHeld DEF SettleTask, At, AtWork, ControllerAt
<1>2. "clear" \in ControllerUpdate /\ UNCHANGED <<rows, stamps>>
  BY DEF ControllerUpdate, SettleTask
<1>3. CASE Update(q, "clear") \/ Leave(q)
  BY <1>1, <1>2, <1>3, UpdatesWork, LeavesWork
<1>4. ASSUME NEW n, req' = [req EXCEPT ![q].at = "merge", ![q].run = n] PROVE LeaseInv'
  <2> DEFINE r == [req[q] EXCEPT !.at = "merge", !.run = n]
  <2>1. r.at = "merge" /\ r.row = req[q].row /\ r.update = req[q].update
    BY <1>1 DEF Request
  <2>2. req' = [req EXCEPT ![q] = r]
    BY <1>4 DEF Inv, Held
  <2>3. req[q].update \notin {"pause", "stop"}
    BY <1>1 DEF LeaseInv, RequestsFit, Fits
  <2> HIDE DEF r
  <2> QED BY <1>1, <1>2, <2>1, <2>2, <2>3, Advances
<1> QED BY <1>3, <1>4 DEF SettleTask

LEMMA ListLease ==
  ASSUME Inv, LeaseInv, NEW q \in Requests, ListTasks(q)
  PROVE  LeaseInv'
<1>1. ~At(q, "idle") /\ AtWork(req[q]) /\ req[q] \in Request
  BY InvHeld DEF ListTasks, At, AtWork, ControllerAt
<1>2. UNCHANGED <<rows, stamps>>
  BY DEF ListTasks
<1>3. CASE Leave(q)
  BY <1>1, <1>2, <1>3, LeavesWork
<1>4. ASSUME NEW t, req' = [req EXCEPT ![q].at = "claim", ![q].task = t] PROVE LeaseInv'
  <2> DEFINE r == [req[q] EXCEPT !.at = "claim", !.task = t]
  <2>1. r.at = "claim" /\ r.row = req[q].row /\ r.update = req[q].update
    BY <1>1 DEF Request
  <2>2. req' = [req EXCEPT ![q] = r]
    BY <1>4 DEF Inv, Held
  <2>3. req[q].update \notin {"pause", "stop"}
    BY <1>1 DEF LeaseInv, RequestsFit, Fits
  <2> HIDE DEF r
  <2> QED BY <1>1, <1>2, <2>1, <2>2, <2>3, Advances
<1> QED BY <1>3, <1>4 DEF ListTasks

(* The controller's other statements leave the rows alone. *)
LEMMA WorkLease ==
  ASSUME Inv, LeaseInv, NEW q \in Requests,
         \/ RunWithPolicy(q) \/ ReportMerge(q) \/ FinishTask(q) \/ CheckClaim(q)
         \/ StartRun(q) \/ ScheduleRun(q) \/ NoteWorkflow(q)
  PROVE  LeaseInv'
<1>1. /\ ~At(q, "idle") /\ AtWork(req[q]) /\ UNCHANGED <<rows, stamps>>
  BY DEF RunWithPolicy, ReportMerge, FinishTask, CheckClaim, StartRun, ScheduleRun,
         NoteWorkflow, At, AtWork, ControllerAt
<1>2. /\ {"clear", "giveUp", "count", "exhaust"} \subseteq ControllerUpdate
      /\ {"report", "finish", "start", "note"} \subseteq Place \ {"idle", "insert", "write"}
  BY DEF ControllerUpdate, Place, ControllerAt
<1>3. \/ Leave(q)
      \/ \E kind \in {"clear", "giveUp", "count", "exhaust"} : Update(q, kind)
      \/ \E place \in {"report", "finish", "start", "note"} : Go(q, place)
      \/ \E n : Link(q, n)
  <2>1. CASE RunWithPolicy(q)
    BY <2>1 DEF RunWithPolicy
  <2>2. CASE ReportMerge(q)
    BY <2>2 DEF ReportMerge
  <2>3. CASE FinishTask(q)
    BY <2>3 DEF FinishTask
  <2>4. CASE CheckClaim(q)
    BY <2>4 DEF CheckClaim
  <2>5. CASE StartRun(q)
    BY <2>5 DEF StartRun
  <2>6. CASE ScheduleRun(q)
    BY <2>6 DEF ScheduleRun
  <2>7. CASE NoteWorkflow(q)
    BY <2>7 DEF NoteWorkflow
  <2> QED BY <2>1, <2>2, <2>3, <2>4, <2>5, <2>6, <2>7
<1> QED BY <1>1, <1>2, <1>3, LeavesWork, UpdatesWork, GoesWork, LinksWork

-----------------------------------------------------------------------------
LEMMA CrashLease ==
  ASSUME Inv, LeaseInv, NEW q \in Requests, Crash(q)
  PROVE  LeaseInv'
<1>1. \A p \in Requests : req'[p] = IF p = q THEN IdleRequest ELSE req[p]
  BY DEF Crash, End, Inv, Held
<1>2. IdleRequest.at = "idle"
  BY DEF IdleRequest
<1>3. ASSUME NEW i \in RowIds
      PROVE  /\ rows'[i].status = rows[i].status /\ rows'[i].expired = rows[i].expired
             /\ rows'[i].lease = IF rows[i].lease = q THEN Lost ELSE rows[i].lease
  <2>1. rows[i] \in Row
    BY DEF Inv, RowsOK
  <2>2. rows'[i] = IF rows[i].lease = q THEN [rows[i] EXCEPT !.lease = Lost] ELSE rows[i]
    BY DEF Crash
  <2> QED BY <2>1, <2>2 DEF Row
<1>4. RequestsFit'
  <2> SUFFICES ASSUME NEW p \in Requests, req'[p].at # "idle"
               PROVE  Fits(p, req'[p], rows'[req'[p].row])
    BY DEF RequestsFit, At
  <2>1. p # q /\ req'[p] = req[p]
    BY <1>1, <1>2
  <2>2. req[p].row \in RowIds /\ Fits(p, req[p], rows[req[p].row])
    BY <2>1, InvHeld DEF LeaseInv, RequestsFit, At
  <2> QED BY <1>3, <2>1, <2>2 DEF Fits
<1>5. LostExpire'
  BY <1>3, Zenon DEF LeaseInv, LostExpire
<1>6. StampsFresh'
  <2>1. stamps' = stamps
    BY DEF Crash
  <2> QED BY <1>1, <1>2, <1>3, <2>1 DEF LeaseInv, StampsFresh, At
<1> QED BY <1>4, <1>5, <1>6 DEF LeaseInv

LEMMA AroundLease ==
  ASSUME Undisturbed, Inv, LeaseInv, Around
  PROVE  LeaseInv'
<1>1. CASE UNCHANGED <<rows, req, stamps>>
  BY <1>1 DEF LeaseInv, RequestsFit, LostExpire, StampsFresh, At
<1>2. ASSUME NEW i \in RowIds, ExpireLease(i) PROVE LeaseInv'
  <2>1. /\ rows[i].lease = Lost /\ req' = req /\ stamps' = stamps
        /\ rows' = [rows EXCEPT ![i] = [rows[i] EXCEPT !.expired = TRUE]]
    BY <1>2 DEF ExpireLease, Undisturbed
  <2>2. \A j \in RowIds : /\ rows'[j].status = rows[j].status
                          /\ rows'[j].lease = rows[j].lease
                          /\ j # i => rows'[j].expired = rows[j].expired
    BY <2>1 DEF Inv, RowsOK, Row
  <2>3. RequestsFit'
    <3> SUFFICES ASSUME NEW p \in Requests, req[p].at # "idle"
                 PROVE  Fits(p, req[p], rows'[req[p].row])
      BY <2>1 DEF RequestsFit, At
    <3>1. req[p].row \in RowIds /\ Fits(p, req[p], rows[req[p].row])
      BY InvHeld DEF LeaseInv, RequestsFit, At
    <3> QED BY <2>2, <3>1 DEF Fits
  <2>4. LostExpire'
    <3> SUFFICES ASSUME NEW j \in RowIds, rows'[j].expired PROVE rows'[j].lease = Lost
      BY DEF LostExpire
    <3>1. CASE j = i
      BY <2>1, <2>2, <3>1
    <3>2. CASE j # i
      <4>1. rows'[j] = rows[j]
        BY <2>1, <3>2 DEF Inv, RowsOK
      <4> QED BY <4>1 DEF LeaseInv, LostExpire
    <3> QED BY <3>1, <3>2
  <2>5. StampsFresh'
    BY <2>1, <2>2 DEF LeaseInv, StampsFresh, At
  <2> QED BY <2>3, <2>4, <2>5 DEF LeaseInv
<1> QED BY <1>1, <1>2 DEF Around, ExecutorReviews, ExecutorFails, StartByHand, FinishByHand,
                          DeleteTask

LEMMA NextLease ==
  ASSUME Undisturbed, Inv, LeaseInv, [Next]_vars
  PROVE  LeaseInv'
<1>1. CASE UNCHANGED vars
  BY <1>1 DEF vars, LeaseInv, RequestsFit, LostExpire, StampsFresh, At
<1>2. ASSUME NEW q \in Requests, Step(q) PROVE LeaseInv'
  BY <1>2, InsertLease, SelectLease, ReadLease, WriteLease, AcquireKeepsLease, OwnKeepsLease,
     ReleaseKeepsLease, SettleLease, ListLease, ClaimLease, WorkLease DEF Step
<1> QED BY <1>1, <1>2, HandleLease, CrashLease, AroundLease DEF Next

LEMMA InitLease == Init => LeaseInv
BY DEF Init, LeaseInv, RequestsFit, LostExpire, StampsFresh, At, IdleRequest, AbsentRow

(* The lease belongs to whoever works on the row. *)
LEMMA LeaseExcludes ==
  ASSUME LeaseInv
  PROVE  OneController
<1> SUFFICES ASSUME NEW p \in Requests, NEW q \in Requests, NEW i \in RowIds,
                    Controls(p, i), Controls(q, i)
             PROVE  p = q
  BY DEF OneController
<1>1. ASSUME NEW o \in Requests, Controls(o, i) PROVE rows[i].lease = o
  BY <1>1 DEF Controls, LeaseInv, RequestsFit, Fits, AtWork, At, ControllerAt
<1> QED BY <1>1

(* At most one controller is at work on a sentinel run, whoever starts or     *)
(* resumes it and whichever workers die, while nobody pauses or stops it and  *)
(* no lease runs out under a controller.                                      *)
THEOREM OneAtWork ==
  ASSUME Undisturbed
  PROVE  Spec => []OneController
<1>1. Inv /\ LeaseInv /\ [Next]_vars => LeaseInv'
  BY NextLease
<1> QED BY <1>1, InitLease, LeaseExcludes, SpecInv, PTL DEF Spec

-----------------------------------------------------------------------------
(* Turns.  Where operators only start and resume the sentinel, and no call   *)
(* of a controller is rejected, no attempts are used up and nobody starts a  *)
(* task by hand, the sentinel implements SentinelTurns.                      *)
StartsOnly == /\ Commands \subseteq {"start", "resume"}
              /\ Events \subseteq {"finishByHand", "delete", "crash"}

(* A row that is there runs, with its attempts to come. *)
RowsTurn ==
    \A i \in RowIds : /\ rows[i].status \in {"absent", "running"}
                      /\ rows[i].status = "absent" => rows[i].task = NoTask
                      /\ rows[i].attempts = 0

(* A task has one run at most, and what has begun and is not over is the     *)
(* current task.                                                             *)
BoardTurns ==
    /\ \A t \in Tasks :
          /\ board[t].run = NoRun <=> board[t].status \in {"READY", "gone"}
          /\ board[t].run # NoRun => runs[board[t].run].task = t
          /\ board[t].status \in {"ACTIVE", "REVIEW", "FAILED"}
                => \E i \in RowIds : rows[i].task = t
    /\ \A r \in RunIds :
          /\ runs[r].task # NoTask => board[runs[r].task].run = r
          /\ r > runCount => runs[r].task = NoTask /\ runs[r].workflows = 0

(* What a controller that holds r knows of its row's task and of the board.  *)
Knows(r) ==
    LET t == rows[r.row].task
    IN /\ r.at = "write" => r.copy.task = t /\ r.copy.attempts = 0
       /\ r.at \in {"list", "claim"} => t = NoTask
       /\ r.at \in {"claim", "claimed", "start"} => board[r.task].status \in {"READY", "gone"}
       /\ r.at \in {"claimed", "start", "settle", "merge", "report", "finish"} => t = r.task
       /\ r.at \in {"merge", "report", "finish"} => board[r.task].status # "READY"
       /\ r.at \in {"merge", "report"} => runs[r.run].task \in {r.task, NoTask}
       /\ r.update \in {"clear", "giveUp"} => t # NoTask /\ Over(t)
       /\ r.update = "link" \/ r.at \in {"schedule", "note"}
             => t # NoTask /\ (runs[r.run].task = t \/ board[t].status = "gone")
       /\ r.update = "link" \/ r.at = "schedule"
             => r.run <= runCount /\ runs[r.run].workflows = 0

RequestsTurn ==
    \A q \in Requests : /\ req[q].update \in {"none", "clear", "giveUp", "link"}
                        /\ req[q].attempts = 0
                        /\ AtWork(req[q]) => Knows(req[q])

TurnsInv == RowsTurn /\ BoardTurns /\ RequestsTurn

(* Nothing changes for the turns. *)
Still == UNCHANGED <<CurrentTask, OpenTasks, Worked>>

LEMMA ChosenRow ==
  ASSUME NEW f, NEW i \in RowIds, \A j \in RowIds \ {i} : f[j].task = NoTask
  PROVE  f[i].task = IF \E j \in RowIds : f[j].task # NoTask
                     THEN f[CHOOSE j \in RowIds : f[j].task # NoTask].task ELSE NoTask
<1>1. CASE f[i].task = NoTask
  BY <1>1
<1>2. CASE f[i].task # NoTask
  <2>1. (CHOOSE j \in RowIds : f[j].task # NoTask) \in RowIds
        /\ f[CHOOSE j \in RowIds : f[j].task # NoTask].task # NoTask
    BY <1>2
  <2>2. (CHOOSE j \in RowIds : f[j].task # NoTask) = i
    BY <2>1
  <2> QED BY <1>2, <2>2
<1> QED BY <1>1, <1>2

LEMMA ChosenOf ==
  ASSUME NEW i \in RowIds
  PROVE  /\ (\A j \in RowIds \ {i} : rows[j].task = NoTask) => CurrentTask = rows[i].task
         /\ (\A j \in RowIds \ {i} : rows'[j].task = NoTask) => CurrentTask' = rows'[i].task
BY ChosenRow DEF CurrentTask

(* The row that runs is the only one with a task. *)
LEMMA OnlyTask ==
  ASSUME Inv, TurnsInv, NEW i \in RowIds, Running(i)
  PROVE  /\ \A j \in RowIds \ {i} : rows[j].task = NoTask
         /\ CurrentTask = rows[i].task
<1>1. \A j \in RowIds \ {i} : rows[j].task = NoTask
  BY DEF Inv, RowsOK, SingleRunning, Running, TurnsInv, RowsTurn
<1> QED BY <1>1, ChosenOf

LEMMA TaskRuns ==
  ASSUME TurnsInv, NEW i \in RowIds, rows[i].task # NoTask
  PROVE  Running(i)
BY DEF TurnsInv, RowsTurn, Running

LEMMA SameTurn ==
  ASSUME Inv, TurnsInv, \A i \in RowIds : rows'[i].task = rows[i].task
  PROVE  CurrentTask' = CurrentTask
<1>1. CASE \E i \in RowIds : rows[i].task # NoTask
  <2>1. PICK i \in RowIds : rows[i].task # NoTask
    BY <1>1
  <2>2. \A j \in RowIds \ {i} : rows[j].task = NoTask
    BY <2>1, TaskRuns, OnlyTask
  <2> QED BY <2>2, ChosenOf
<1>2. CASE \A i \in RowIds : rows[i].task = NoTask
  BY <1>2 DEF CurrentTask
<1> QED BY <1>1, <1>2

(* What has begun and is not over is the current task. *)
LEMMA UnderWay ==
  ASSUME Inv, TurnsInv, NEW t \in Tasks, board[t].run # NoRun, board[t].status # "DONE"
  PROVE  /\ board[t].status \in {"ACTIVE", "REVIEW", "FAILED"}
         /\ t = CurrentTask /\ t # NoTask
<1>1. board[t].status \in {"ACTIVE", "REVIEW", "FAILED"}
  BY DEF TurnsInv, BoardTurns, Inv, BoardOK, BoardTask
<1>2. PICK i \in RowIds : rows[i].task = t
  BY <1>1 DEF TurnsInv, BoardTurns
<1>3. t # NoTask
  BY DEF Tasks, NoTask
<1> QED BY <1>1, <1>2, <1>3, TaskRuns, OnlyTask

LEMMA OpenIsCurrent ==
  ASSUME Inv, TurnsInv
  PROVE  /\ OpenTasks \subseteq {CurrentTask}
         /\ CurrentTask = NoTask => OpenTasks = {}
BY UnderWay DEF OpenTasks, Begun

(* One controller is at work, and its row runs. *)
LEMMA OneWorker ==
  ASSUME Inv, LeaseInv, NEW q \in Requests, AtWork(req[q])
  PROVE  /\ ~At(q, "idle") /\ req[q].row \in RowIds /\ Running(req[q].row)
         /\ req[q] \in HeldRequest /\ req[q] \in Request
         /\ \A p \in Requests \ {q} : ~AtWork(req[p])
<1>1. ASSUME NEW p \in Requests, AtWork(req[p])
      PROVE  /\ ~At(p, "idle") /\ req[p].row \in RowIds
             /\ rows[req[p].row].lease = p /\ Running(req[p].row)
  <2>1. ~At(p, "idle")
    BY <1>1 DEF AtWork, At, ControllerAt
  <2>2. req[p].row \in RowIds /\ rows[req[p].row].lease = p
    BY <1>1, <2>1, InvHeld DEF LeaseInv, RequestsFit, Fits
  <2> QED BY <2>1, <2>2, SentinelAssumption DEF Inv, RowsOK, LeaseOnlyWhenRunning
<1>2. ASSUME NEW p \in Requests, AtWork(req[p]) PROVE p = q
  BY <1>1, <1>2 DEF Inv, RowsOK, SingleRunning
<1> QED BY <1>1, <1>2, InvHeld

-----------------------------------------------------------------------------
(* The board's tasks, their runs and the rows' tasks stay as they are. *)
Quiet == /\ board' = board /\ runCount' = runCount
         /\ \A n \in RunIds : /\ runs'[n].task = runs[n].task
                              /\ runs'[n].workflows = runs[n].workflows
         /\ \A i \in RowIds : rows'[i].task = rows[i].task

(* What a request holds is in order. *)
Orderly(r) == r.update \in {"none", "clear", "giveUp", "link"} /\ r.attempts = 0

LEMMA QuietMoves ==
  ASSUME Inv, Inv', TurnsInv, Quiet, RowsTurn',
         \A p \in Requests : Orderly(req'[p]) /\ (AtWork(req'[p]) => Knows(req'[p]))
  PROVE  TurnsInv' /\ Still
<1>1. RequestsTurn'
  <2> SUFFICES ASSUME NEW p \in Requests
               PROVE  Orderly(req'[p]) /\ (AtWork(req'[p]) => Knows(req[p])')
    BY DEF RequestsTurn, Orderly, AtWork
  <2>1. ASSUME AtWork(req'[p]) PROVE Knows(req[p])'
    <3> DEFINE r == req'[p]
    <3>1. r \in HeldRequest /\ AtWork(r) /\ Knows(r)
      BY <2>1 DEF Inv, Held
    <3>2. r.row \in RowIds
      BY <3>1 DEF HeldRequest, AtWork, ControllerAt
    <3>3. rows'[r.row].task = rows[r.row].task
      BY <3>2 DEF Quiet
    <3>4. r.update = "link" \/ r.at \in {"schedule", "note", "merge", "report"}
             => r.run \in RunIds
      BY <3>1 DEF HeldRequest
    <3> QED BY <3>1, <3>3, <3>4 DEF Knows, Quiet, Over
  <2> QED BY <2>1
<1>2. \A t \in Tasks : board[t].run # NoRun => board[t].run \in RunIds
  BY SentinelAssumption DEF Inv, BoardOK, BoardTask, RunIds, NoRun
<1>3. BoardTurns'
  <2>1. \A n \in RunIds : runs'[n].task = runs[n].task /\ runs'[n].workflows = runs[n].workflows
    BY DEF Quiet
  <2> QED BY <1>2, <2>1 DEF TurnsInv, BoardTurns, Quiet
<1>4. CurrentTask' = CurrentTask
  BY SameTurn DEF Quiet
<1>5. Worked' = Worked
  BY DEF Worked, Quiet
<1>6. OpenTasks' = OpenTasks
  BY <1>2 DEF OpenTasks, Begun, Quiet
<1> QED BY <1>1, <1>3, <1>4, <1>5, <1>6 DEF TurnsInv, Still

LEMMA QuietStep ==
  ASSUME Inv, Inv', TurnsInv, Quiet, RowsTurn', NEW q \in Requests, NEW r,
         req' = [req EXCEPT ![q] = r], Orderly(r), AtWork(r) => Knows(r)
  PROVE  TurnsInv' /\ Still
<1>1. \A p \in Requests : req'[p] = IF p = q THEN r ELSE req[p]
  BY DEF Inv, Held
<1>2. \A p \in Requests : Orderly(req[p]) /\ (AtWork(req[p]) => Knows(req[p]))
  BY DEF TurnsInv, RequestsTurn, Orderly
<1> QED BY <1>1, <1>2, QuietMoves

LEMMA RequestTurns ==
  ASSUME Inv, Inv', TurnsInv, UNCHANGED <<rows, board, runs, runCount>>,
         NEW q \in Requests, NEW r, req' = [req EXCEPT ![q] = r], Orderly(r),
         AtWork(r) => Knows(r)
  PROVE  TurnsInv' /\ Still
<1>1. Quiet /\ RowsTurn'
  BY DEF Quiet, TurnsInv, RowsTurn
<1> QED BY <1>1, QuietStep

LEMMA EndTurns ==
  ASSUME Inv, Inv', TurnsInv, UNCHANGED <<rows, board, runs, runCount>>,
         NEW q \in Requests, End(q)
  PROVE  TurnsInv' /\ Still
<1>1. Orderly(IdleRequest) /\ ~AtWork(IdleRequest)
  BY DEF Orderly, AtWork, IdleRequest, ControllerAt
<1> QED BY <1>1, RequestTurns DEF End

(* A request goes to a row, or leaves it. *)
LEMMA OpenTurns ==
  ASSUME Inv, Inv', TurnsInv, UNCHANGED <<rows, board, runs, runCount>>,
         NEW q \in Requests, NEW i, NEW place \in {"insert", "acquire", "release"},
         Open(q, i, place)
  PROVE  TurnsInv' /\ Still
<1> DEFINE r == [IdleRequest EXCEPT !.at = place, !.row = i]
<1>1. Orderly(r) /\ ~AtWork(r)
  BY DEF Orderly, AtWork, IdleRequest, ControllerAt
<1>2. req' = [req EXCEPT ![q] = r]
  BY DEF Open
<1> HIDE DEF r
<1> QED BY <1>1, <1>2, RequestTurns

LEMMA LeaveTurns ==
  ASSUME Inv, Inv', TurnsInv, UNCHANGED <<rows, board, runs, runCount>>,
         NEW q \in Requests, Leave(q)
  PROVE  TurnsInv' /\ Still
BY OpenTurns DEF Leave

(* A controller is about to let go of its row's task. *)
LEMMA UpdateTurns ==
  ASSUME Inv, Inv', TurnsInv, UNCHANGED <<rows, board, runs, runCount>>,
         NEW q \in Requests, NEW kind \in {"clear", "giveUp"}, Update(q, kind),
         rows[req[q].row].task # NoTask, Over(rows[req[q].row].task)
  PROVE  TurnsInv' /\ Still
<1> DEFINE r == [IdleRequest EXCEPT !.at = "read", !.row = req[q].row, !.update = kind]
<1>1. r.at = "read" /\ r.row = req[q].row /\ r.update = kind /\ r.attempts = 0
  BY DEF IdleRequest
<1>2. req' = [req EXCEPT ![q] = r]
  BY DEF Update, OpenUpdate
<1> HIDE DEF r
<1>3. Orderly(r) /\ Knows(r)
  BY <1>1 DEF Orderly, Knows
<1> QED BY <1>2, <1>3, RequestTurns

(* A controller goes on with what it holds. *)
LEMMA GoTurns ==
  ASSUME Inv, Inv', TurnsInv, UNCHANGED <<rows, board, runs, runCount>>,
         NEW q \in Requests, NEW place, Go(q, place),
         AtWork([req[q] EXCEPT !.at = place]) => Knows([req[q] EXCEPT !.at = place])
  PROVE  TurnsInv' /\ Still
<1> DEFINE r == [req[q] EXCEPT !.at = place]
<1>1. r.update = req[q].update /\ r.attempts = req[q].attempts
  BY InvHeld DEF Request
<1>2. req' = [req EXCEPT ![q] = r] /\ (AtWork(r) => Knows(r))
  BY DEF Go
<1> HIDE DEF r
<1>3. Orderly(r)
  BY <1>1 DEF Orderly, TurnsInv, RequestsTurn
<1> QED BY <1>2, <1>3, RequestTurns

LEMMA HandleTurns ==
  ASSUME StartsOnly, Inv, Inv', TurnsInv, NEW q \in Requests, Handle(q)
  PROVE  TurnsInv' /\ Still
<1>1. \A i \in RowIds : rows[i].status \in {"absent", "running"}
  BY DEF TurnsInv, RowsTurn
<1>2. CASE HandleStart(q)
  <2>1. UNCHANGED <<rows, board, runs, runCount>>
    BY <1>2 DEF HandleStart
  <2>2. CASE AskForRow(q)
    BY <2>1, <2>2, OpenTurns DEF AskForRow
  <2>3. CASE ~AskForRow(q)
    <3>1. PICK i \in RowIds : Open(q, i, "acquire")
      BY <1>1, <1>2, <2>3 DEF HandleStart
    <3> QED BY <2>1, <3>1, OpenTurns
  <2> QED BY <2>2, <2>3
<1>3. CASE HandleResume(q)
  <2>1. UNCHANGED <<rows, board, runs, runCount>>
    BY <1>3 DEF HandleResume
  <2>2. PICK i \in RowIds : Open(q, i, "acquire")
    BY <1>1, <1>3 DEF HandleResume
  <2> QED BY <2>1, <2>2, OpenTurns
<1>4. CASE HandlePause(q) \/ HandleStop(q)
  BY <1>4 DEF HandlePause, HandleStop, StartsOnly
<1> QED BY <1>2, <1>3, <1>4 DEF Handle

LEMMA InsertTurns ==
  ASSUME Inv, Inv', LeaseInv, TurnsInv, NEW q \in Requests, InsertRow(q)
  PROVE  TurnsInv' /\ Still
<1> DEFINE i == req[q].row
<1>1. ~At(q, "idle") /\ req[q].at = "insert" /\ i \in RowIds /\ req[q] \in Request
  BY InvHeld DEF InsertRow, At
<1>2. rows[i].status = "absent" /\ rows[i].task = NoTask
  BY <1>1 DEF LeaseInv, RequestsFit, Fits, At, TurnsInv, RowsTurn
<1>3. CASE AnotherRuns(i)
  <2>1. Go(q, "select") /\ UNCHANGED <<rows, board, runs, runCount>>
    BY <1>3 DEF InsertRow
  <2>2. [req[q] EXCEPT !.at = "select"].at = "select"
    BY <1>1 DEF Request
  <2>3. ~AtWork([req[q] EXCEPT !.at = "select"])
    BY <2>2 DEF AtWork, ControllerAt
  <2> QED BY <2>1, <2>3, GoTurns
<1>4. CASE ~AnotherRuns(i)
  <2> DEFINE r == [req[q] EXCEPT !.at = "acquire"]
             new == [AbsentRow EXCEPT !.status = "running"]
  <2>1. r.at = "acquire" /\ r.update = req[q].update /\ r.attempts = req[q].attempts
    BY <1>1 DEF Request
  <2>2. new.status = "running" /\ new.task = NoTask /\ new.attempts = 0
    BY DEF AbsentRow
  <2>3. /\ req' = [req EXCEPT ![q] = r] /\ UNCHANGED <<board, runs, runCount>>
        /\ rows' = [rows EXCEPT ![i] = new]
    BY <1>4 DEF InsertRow, Go
  <2> HIDE DEF r, new, i
  <2>4. \A j \in RowIds : rows'[j] = IF j = i THEN new ELSE rows[j]
    BY <2>3 DEF Inv, RowsOK
  <2>5. Quiet
    BY <1>1, <1>2, <2>2, <2>3, <2>4 DEF Quiet
  <2>6. RowsTurn'
    BY <2>2, <2>4 DEF RowsTurn, TurnsInv
  <2>7. Orderly(r) /\ ~AtWork(r)
    BY <2>1 DEF Orderly, AtWork, ControllerAt, TurnsInv, RequestsTurn
  <2> QED BY <2>3, <2>5, <2>6, <2>7, QuietStep
<1> QED BY <1>3, <1>4

LEMMA SelectTurns ==
  ASSUME Inv, Inv', TurnsInv, NEW q \in Requests, SelectRunning(q)
  PROVE  TurnsInv' /\ Still
BY OpenTurns, EndTurns DEF SelectRunning

LEMMA ReadTurns ==
  ASSUME Inv, Inv', LeaseInv, TurnsInv, NEW q \in Requests, ReadRow(q)
  PROVE  TurnsInv' /\ Still
<1> DEFINE i == req[q].row
           copy == [status |-> rows[i].status, task |-> rows[i].task, run |-> rows[i].run,
                    attempts |-> rows[i].attempts]
           r == [req[q] EXCEPT !.at = "write", !.copy = copy]
<1>1. ~At(q, "idle") /\ req[q].at = "read" /\ i \in RowIds /\ req[q] \in Request
      /\ req[q] \in HeldRequest
  BY InvHeld DEF ReadRow, At
<1>2. /\ r.at = "write" /\ r.row = i /\ r.update = req[q].update /\ r.copy = copy
      /\ r.attempts = req[q].attempts /\ r.run = req[q].run
  BY <1>1 DEF Request
<1>3. copy.task = rows[i].task /\ copy.attempts = rows[i].attempts
  OBVIOUS
<1>4. req' = [req EXCEPT ![q] = r] /\ UNCHANGED <<rows, board, runs, runCount>>
  BY DEF ReadRow
<1>5. AtWork(req[q])
  BY <1>1 DEF HeldRequest, AtWork, ControllerUpdate, TurnsInv, RequestsTurn
<1>6. rows[i].attempts = 0
  BY <1>1 DEF TurnsInv, RowsTurn
<1> HIDE DEF r, copy
<1>7. Knows(req[q])
  BY <1>5 DEF TurnsInv, RequestsTurn
<1>8. Orderly(r) /\ Knows(r)
  BY <1>1, <1>2, <1>3, <1>6, <1>7 DEF Orderly, Knows, TurnsInv, RequestsTurn
<1> QED BY <1>4, <1>8, RequestTurns

LEMMA AcquireTurns ==
  ASSUME Inv, Inv', TurnsInv, NEW q \in Requests, AcquireLease(q)
  PROVE  TurnsInv' /\ Still
<1> DEFINE i == req[q].row
           r == [req[q] EXCEPT !.at = "own"]
           new == [rows[i] EXCEPT !.lease = q, !.expired = FALSE]
<1>1. /\ ~At(q, "idle") /\ req[q].at = "acquire" /\ i \in RowIds /\ req[q] \in Request
      /\ rows[i] \in Row
  BY InvHeld DEF AcquireLease, At
<1>2. CASE ~(Running(i) /\ Available(i, q))
  BY <1>2, EndTurns DEF AcquireLease
<1>3. CASE Running(i) /\ Available(i, q)
  <2>1. r.at = "own" /\ r.update = req[q].update /\ r.attempts = req[q].attempts
    BY <1>1 DEF Request
  <2>2. /\ new.status = rows[i].status /\ new.task = rows[i].task
        /\ new.attempts = rows[i].attempts
    BY <1>1 DEF Row
  <2>3. /\ req' = [req EXCEPT ![q] = r] /\ rows' = [rows EXCEPT ![i] = new]
        /\ UNCHANGED <<board, runs, runCount>>
    BY <1>3 DEF AcquireLease, Go
  <2> HIDE DEF r, new, i
  <2>4. \A j \in RowIds : rows'[j] = IF j = i THEN new ELSE rows[j]
    BY <2>3 DEF Inv, RowsOK
  <2>5. Quiet /\ RowsTurn'
    BY <2>2, <2>3, <2>4 DEF Quiet, RowsTurn, TurnsInv
  <2>6. Orderly(r) /\ ~AtWork(r)
    BY <2>1 DEF Orderly, AtWork, ControllerAt, TurnsInv, RequestsTurn
  <2> QED BY <2>3, <2>5, <2>6, QuietStep
<1> QED BY <1>2, <1>3

LEMMA OwnTurns ==
  ASSUME Inv, Inv', TurnsInv, NEW q \in Requests, OwnLease(q)
  PROVE  TurnsInv' /\ Still
<1> DEFINE i == req[q].row
<1>1. /\ req[q].at = "own" /\ i \in RowIds /\ req[q] \in Request /\ req[q].update = "none"
      /\ UNCHANGED <<rows, board, runs, runCount>>
  BY InvHeld DEF OwnLease, At, HeldRequest
<1>2. CASE ~(rows[i].status = "running" /\ rows[i].lease = q)
  BY <1>1, <1>2, EndTurns DEF OwnLease
<1>3. CASE rows[i].status = "running" /\ rows[i].lease = q /\ rows[i].task = NoTask
  <2> DEFINE r == [req[q] EXCEPT !.at = "list"]
  <2>1. r.at = "list" /\ r.row = i /\ r.update = "none"
    BY <1>1 DEF Request
  <2> HIDE DEF r
  <2>2. Knows(r)
    BY <1>3, <2>1 DEF Knows
  <2>3. Go(q, "list")
    BY <1>3 DEF OwnLease
  <2> QED BY <1>1, <2>2, <2>3, GoTurns DEF r
<1>4. CASE rows[i].status = "running" /\ rows[i].lease = q /\ rows[i].task # NoTask
  <2> DEFINE r == [req[q] EXCEPT !.at = "settle", !.task = rows[i].task,
                                 !.run = rows[i].run, !.attempts = rows[i].attempts]
  <2>1. /\ r.at = "settle" /\ r.row = i /\ r.update = "none" /\ r.task = rows[i].task
        /\ r.attempts = rows[i].attempts
    BY <1>1 DEF Request
  <2>2. req' = [req EXCEPT ![q] = r]
    BY <1>4 DEF OwnLease
  <2> HIDE DEF r
  <2>3. Orderly(r) /\ Knows(r)
    BY <1>1, <2>1 DEF Orderly, Knows, TurnsInv, RowsTurn
  <2> QED BY <1>1, <2>2, <2>3, RequestTurns
<1> QED BY <1>2, <1>3, <1>4

LEMMA ReleaseTurns ==
  ASSUME Inv, Inv', TurnsInv, NEW q \in Requests, ReleaseLease(q)
  PROVE  TurnsInv' /\ Still
<1> DEFINE i == req[q].row
           new == [rows[i] EXCEPT !.lease = NoOne, !.expired = FALSE]
<1>1. i \in RowIds /\ rows[i] \in Row
  BY InvHeld DEF ReleaseLease, At
<1>2. CASE rows[i].lease = q
  <2>1. /\ new.status = rows[i].status /\ new.task = rows[i].task
        /\ new.attempts = rows[i].attempts
    BY <1>1 DEF Row
  <2>2. /\ req' = [req EXCEPT ![q] = IdleRequest] /\ UNCHANGED <<board, runs, runCount>>
        /\ rows' = [rows EXCEPT ![i] = new]
    BY <1>2 DEF ReleaseLease, End
  <2> HIDE DEF new, i
  <2>3. \A j \in RowIds : rows'[j] = IF j = i THEN new ELSE rows[j]
    BY <2>2 DEF Inv, RowsOK
  <2>4. Quiet /\ RowsTurn'
    BY <2>1, <2>2, <2>3 DEF Quiet, RowsTurn, TurnsInv
  <2>5. Orderly(IdleRequest) /\ ~AtWork(IdleRequest)
    BY DEF Orderly, AtWork, IdleRequest, ControllerAt
  <2> QED BY <2>2, <2>4, <2>5, QuietStep
<1>3. CASE rows[i].lease # q
  BY <1>3, EndTurns DEF ReleaseLease
<1> QED BY <1>2, <1>3

-----------------------------------------------------------------------------
(* The controller, whose steps change the board and its row's task. *)

(* A controller at work at its row. *)
LEMMA WorkerKnows ==
  ASSUME Inv, LeaseInv, TurnsInv, NEW q \in Requests, AtWork(req[q])
  PROVE  /\ Knows(req[q]) /\ req[q].attempts = 0
         /\ CurrentTask = rows[req[q].row].task
         /\ \A j \in RowIds \ {req[q].row} : rows[j].task = NoTask /\ ~Running(j)
<1>1. req[q].row \in RowIds /\ Running(req[q].row)
  BY OneWorker
<1> QED BY <1>1, OnlyTask DEF TurnsInv, RequestsTurn, Inv, RowsOK, SingleRunning

LEMMA WorkerMoves ==
  ASSUME Inv, Inv', LeaseInv, TurnsInv, RowsTurn', BoardTurns',
         NEW q \in Requests, AtWork(req[q]), \A p \in Requests \ {q} : req'[p] = req[p],
         Orderly(req'[q]), AtWork(req'[q]) => Knows(req[q])'
  PROVE  TurnsInv'
<1>1. \A p \in Requests \ {q} : ~AtWork(req[p])
  BY OneWorker
<1>2. ASSUME NEW p \in Requests
      PROVE  Orderly(req'[p]) /\ (AtWork(req'[p]) => Knows(req[p])')
  BY <1>1 DEF Orderly, TurnsInv, RequestsTurn
<1>3. RequestsTurn'
  BY <1>2 DEF RequestsTurn, Orderly, AtWork
<1> QED BY <1>3 DEF TurnsInv

LEMMA WriteTurns ==
  ASSUME Inv, Inv', LeaseInv, TurnsInv, NEW q \in Requests, WriteRow(q)
  PROVE  TurnsInv' /\ (Still \/ Turns!Yield)
<1> DEFINE i == req[q].row
           kind == req[q].update
           copy == req[q].copy
           new == Updated(kind, copy, req[q].run)
           row == Written(i, new)
<1>1. /\ req[q].at = "write" /\ i \in RowIds /\ req[q] \in HeldRequest /\ req[q] \in Request
      /\ Fits(q, req[q], rows[i]) /\ rows[i] \in Row
  BY InvHeld DEF WriteRow, At, LeaseInv, RequestsFit
<1>2. kind \in {"clear", "giveUp", "link"}
  BY <1>1 DEF HeldRequest, TurnsInv, RequestsTurn
<1>3. AtWork(req[q])
  BY <1>1, <1>2 DEF AtWork, ControllerUpdate
<1>4. Knows(req[q]) /\ CurrentTask = rows[i].task /\ ~AnotherRuns(i) /\ req[q].attempts = 0
      /\ \A j \in RowIds \ {i} : rows[j].task = NoTask
  BY <1>3, WorkerKnows DEF AnotherRuns
<1>5. /\ copy.status = "running" /\ copy.task = rows[i].task /\ copy.attempts = 0
      /\ copy \in Copy
  BY <1>1, <1>2, <1>4 DEF Fits, ControllerUpdate, Knows, Request
<1>6. /\ new.status = "running" /\ new.attempts = 0
      /\ new.task = IF kind = "link" THEN rows[i].task ELSE NoTask
  BY <1>2, <1>5 DEF Updated, Copy
<1>7. UpdateDone(q) /\ rows' = [rows EXCEPT ![i] = row] /\ UNCHANGED <<board, runs, runCount>>
  BY <1>4 DEF WriteRow
<1> HIDE DEF new
<1>8. row.status = "running" /\ row.task = new.task /\ row.attempts = 0
  BY <1>1, <1>6 DEF Written, Row
<1> DEFINE place == AfterUpdate[kind]
           r == [req[q] EXCEPT !.at = place, !.copy = NoCopy, !.update = "none"]
<1>9. place \in {"list", "release", "schedule"} /\ (place = "schedule" <=> kind = "link")
  BY <1>2, WritePlaces
<1>10. /\ r.at = place /\ r.row = i /\ r.update = "none" /\ r.attempts = req[q].attempts
       /\ r.run = req[q].run
  BY <1>1 DEF Request
<1>11. req' = [req EXCEPT ![q] = r]
  BY <1>2, <1>7, <1>9 DEF UpdateDone
<1> HIDE DEF r, row, place
<1>12. \A j \in RowIds : rows'[j] = IF j = i THEN row ELSE rows[j]
  BY <1>7 DEF Inv, RowsOK
<1>13. RowsTurn'
  BY <1>8, <1>12 DEF RowsTurn, TurnsInv
<1>14. Orderly(r)
  BY <1>4, <1>10 DEF Orderly
<1>15. CASE kind = "link"
  <2>1. Quiet
    BY <1>6, <1>7, <1>8, <1>12, <1>15 DEF Quiet
  <2>2. Knows(r)
    BY <1>1, <1>4, <1>9, <1>10, <1>15 DEF Knows
  <2> QED BY <1>11, <1>13, <1>14, <2>1, <2>2, QuietStep
<1>16. CASE kind # "link"
  <2>1. rows[i].task # NoTask /\ Over(rows[i].task)
    BY <1>2, <1>4, <1>16 DEF Knows
  <2>2. rows'[i].task = NoTask /\ \A j \in RowIds \ {i} : rows'[j].task = NoTask
    BY <1>1, <1>4, <1>6, <1>8, <1>12, <1>16
  <2>3. CurrentTask' = NoTask
    BY <1>1, <2>2, ChosenOf
  <2>4. OpenTasks = {}
    BY <1>4, <2>1, OpenIsCurrent DEF OpenTasks, Over
  <2>5. OpenTasks' = OpenTasks /\ Worked' = Worked
    BY <1>7 DEF OpenTasks, Begun, Worked
  <2>6. Turns!Yield
    BY <1>4, <2>1, <2>3, <2>4, <2>5 DEF Turns!Yield, NoTask
  <2>7. BoardTurns'
    <3>1. ASSUME NEW t \in Tasks, board[t].status \in {"ACTIVE", "REVIEW", "FAILED"} PROVE FALSE
      <4>1. PICK j \in RowIds : rows[j].task = t
        BY <3>1 DEF TurnsInv, BoardTurns
      <4>2. t = rows[i].task
        BY <1>4, <4>1 DEF Tasks, NoTask
      <4> QED BY <2>1, <3>1, <4>2 DEF Over
    <3> QED BY <1>7, <3>1 DEF TurnsInv, BoardTurns
  <2>8. AtWork(req'[q]) => Knows(req[q])'
    <3>1. req'[q] = r
      BY <1>11 DEF Inv, Held
    <3> QED BY <1>9, <1>10, <1>16, <2>2, <3>1 DEF AtWork, Knows, ControllerAt
  <2>9. req'[q] = r /\ \A p \in Requests \ {q} : req'[p] = req[p]
    BY <1>11 DEF Inv, Held
  <2> QED BY <1>3, <1>13, <1>14, <2>6, <2>7, <2>8, <2>9, WorkerMoves
<1> QED BY <1>15, <1>16

LEMMA SettleTurns ==
  ASSUME StartsOnly, Inv, Inv', LeaseInv, TurnsInv, NEW q \in Requests, SettleTask(q)
  PROVE  TurnsInv' /\ Still
<1> DEFINE i == req[q].row
           t == req[q].task
           n == IF req[q].run # NoRun /\ runs[req[q].run].task = t
                THEN req[q].run ELSE board[t].run
<1>1. /\ req[q].at = "settle" /\ AtWork(req[q]) /\ req[q] \in HeldRequest /\ req[q] \in Request
      /\ UNCHANGED <<rows, board, runs, runCount>> /\ t \in Tasks
  BY InvHeld DEF SettleTask, At, AtWork, ControllerAt, HeldRequest
<1>2. rows[i].task = t /\ t # NoTask /\ req[q].attempts = 0 /\ req[q].update = "none"
  BY <1>1, WorkerKnows DEF Knows, Tasks, NoTask, HeldRequest
<1>3. CASE Leave(q)
  BY <1>1, <1>3, LeaveTurns
<1>4. CASE Over(t) /\ Update(q, "clear")
  BY <1>1, <1>2, <1>4, UpdateTurns
<1>5. CASE /\ board[t].status = "REVIEW" /\ n # NoRun
           /\ req' = [req EXCEPT ![q].at = "merge", ![q].run = n]
  <2> DEFINE r == [req[q] EXCEPT !.at = "merge", !.run = n]
  <2>1. runs[n].task = t
    BY <1>1, <1>5 DEF TurnsInv, BoardTurns
  <2>2. /\ r.at = "merge" /\ r.row = i /\ r.update = "none" /\ r.attempts = 0
        /\ r.task = t /\ r.run = n
    BY <1>1, <1>2 DEF Request
  <2>3. req' = [req EXCEPT ![q] = r]
    BY <1>5 DEF Inv, Held
  <2> HIDE DEF r, n
  <2>4. Orderly(r) /\ Knows(r)
    BY <1>2, <1>5, <2>1, <2>2 DEF Orderly, Knows
  <2> QED BY <1>1, <2>3, <2>4, RequestTurns
<1> QED BY <1>3, <1>4, <1>5 DEF SettleTask, Rejects, StartsOnly

LEMMA RunPolicyTurns ==
  ASSUME StartsOnly, Inv, Inv', LeaseInv, TurnsInv, NEW q \in Requests, RunWithPolicy(q)
  PROVE  TurnsInv' /\ Still
<1>1. /\ req[q].at = "merge" /\ AtWork(req[q]) /\ req[q] \in HeldRequest /\ req[q] \in Request
      /\ UNCHANGED <<rows, board, runCount>> /\ req[q].run \in RunIds
  BY InvHeld DEF RunWithPolicy, At, AtWork, ControllerAt, HeldRequest
<1>2. Knows(req[q]) /\ req[q].attempts = 0 /\ req[q].update = "none"
  BY <1>1, WorkerKnows DEF HeldRequest
<1>3. ~(req[q].attempts >= MaxAttempts) /\ "exhaust" \notin Events
  BY <1>2, ConfigAssumption DEF StartsOnly
<1>4. CASE Leave(q) /\ UNCHANGED runs
  BY <1>1, <1>4, LeaveTurns
<1>5. CASE runs' = [runs EXCEPT ![req[q].run].merged = TRUE] /\ Go(q, "report")
  <2> DEFINE r == [req[q] EXCEPT !.at = "report"]
  <2>1. \A n \in RunIds : runs'[n].task = runs[n].task /\ runs'[n].workflows = runs[n].workflows
    BY <1>1, <1>5 DEF Inv, BoardOK, BoardRun
  <2>2. Quiet /\ RowsTurn'
    BY <1>1, <2>1 DEF Quiet, TurnsInv, RowsTurn
  <2>3. /\ r.at = "report" /\ r.row = req[q].row /\ r.update = "none" /\ r.attempts = 0
        /\ r.task = req[q].task /\ r.run = req[q].run
    BY <1>1, <1>2 DEF Request
  <2>4. req' = [req EXCEPT ![q] = r]
    BY <1>5 DEF Go
  <2> HIDE DEF r
  <2>5. Orderly(r) /\ Knows(r)
    BY <1>1, <1>2, <2>3 DEF Orderly, Knows
  <2> QED BY <2>2, <2>4, <2>5, QuietStep
<1> QED BY <1>3, <1>4, <1>5 DEF RunWithPolicy

LEMMA ReportTurns ==
  ASSUME StartsOnly, Inv, Inv', LeaseInv, TurnsInv, NEW q \in Requests, ReportMerge(q)
  PROVE  TurnsInv' /\ Still
<1> DEFINE i == req[q].row
           n == req[q].run
           t == runs[n].task
           r == [req[q] EXCEPT !.at = "finish"]
<1>1. /\ req[q].at = "report" /\ AtWork(req[q]) /\ req[q] \in HeldRequest /\ req[q] \in Request
      /\ UNCHANGED <<rows, runCount>> /\ n \in RunIds /\ i \in RowIds
  BY InvHeld DEF ReportMerge, At, AtWork, ControllerAt, HeldRequest
<1>2. Knows(req[q]) /\ req[q].attempts = 0 /\ req[q].update = "none"
  BY <1>1, WorkerKnows DEF HeldRequest
<1>3. CASE Leave(q) /\ UNCHANGED <<board, runs>>
  BY <1>1, <1>3, LeaveTurns
<1>4. ASSUME t # NoTask, Go(q, "finish")
      PROVE  /\ r.at = "finish" /\ r.row = i /\ r.update = "none" /\ r.attempts = 0
             /\ r.task = req[q].task
             /\ req' = [req EXCEPT ![q] = r] /\ req'[q] = r
             /\ \A p \in Requests \ {q} : req'[p] = req[p]
             /\ t = req[q].task /\ t \in Tasks /\ rows[i].task = t
             /\ board[t].run = n /\ board[t].status \notin {"READY", "gone"}
  <2>1. /\ r.at = "finish" /\ r.row = i /\ r.update = "none" /\ r.attempts = 0
        /\ r.task = req[q].task
    BY <1>1, <1>2 DEF Request
  <2>2. req' = [req EXCEPT ![q] = r]
    BY <1>4 DEF Go
  <2>3. req'[q] = r /\ \A p \in Requests \ {q} : req'[p] = req[p]
    BY <2>2 DEF Inv, Held
  <2>4. t = req[q].task /\ rows[i].task = t /\ t \in Tasks
    BY <1>1, <1>2, <1>4 DEF Knows, HeldRequest
  <2>5. board[t].run = n
    BY <1>1, <1>4 DEF TurnsInv, BoardTurns
  <2>6. board[t].status \notin {"READY", "gone"}
    BY <1>1, <2>4, <2>5, SentinelAssumption DEF TurnsInv, BoardTurns, RunIds, NoRun
  <2> QED BY <2>1, <2>2, <2>3, <2>4, <2>5, <2>6
<1>5. CASE t # NoTask /\ Go(q, "finish") /\ UNCHANGED <<board, runs>>
  <2>1. Orderly(r) /\ Knows(r)
    BY <1>4, <1>5 DEF Orderly, Knows
  <2>2. req' = [req EXCEPT ![q] = r]
    BY <1>4, <1>5
  <2> HIDE DEF r
  <2> QED BY <1>1, <1>5, <2>1, <2>2, RequestTurns
<1>6. CASE /\ t # NoTask /\ Go(q, "finish")
           /\ runs' = [runs EXCEPT ![n].state = "done"]
           /\ board' = [board EXCEPT ![t].run = n,
                                     ![t].status = IF @ = "DONE" THEN @ ELSE "REVIEW"]
  <2> HIDE DEF r
  <2>1. \A m \in RunIds : runs'[m].task = runs[m].task /\ runs'[m].workflows = runs[m].workflows
    <3> HIDE DEF n, t
    <3>1. \A m \in RunIds : runs[m] \in BoardRun
      BY DEF Inv, BoardOK
    <3>2. \A m \in RunIds : runs'[m] = IF m = n THEN [runs[m] EXCEPT !.state = "done"]
                                       ELSE runs[m]
      BY <1>6 DEF Inv, BoardOK
    <3> QED BY <3>1, <3>2 DEF BoardRun
  <2> DEFINE status == IF board[t].status = "DONE" THEN "DONE" ELSE "REVIEW"
             card == [board[t] EXCEPT !.run = n, !.status = status]
  <2>2. /\ t = req[q].task /\ t \in Tasks /\ rows[i].task = t /\ t # NoTask
        /\ board[t].run = n /\ board[t].status \notin {"READY", "gone"}
        /\ r.at = "finish" /\ r.row = i /\ r.update = "none" /\ r.attempts = 0
        /\ r.task = t /\ req'[q] = r /\ \A p \in Requests \ {q} : req'[p] = req[p]
    BY <1>4, <1>6
  <2>3. board' = [board EXCEPT ![t] = card]
    BY <1>6, <2>2 DEF Inv, BoardOK
  <2>4. card.run = board[t].run /\ card.status = status
    BY <2>2 DEF Inv, BoardOK, BoardTask
  <2> HIDE DEF card, t
  <2>5. \A u \in Tasks : /\ board'[u].run = board[u].run
                         /\ board'[u].status = IF u = t THEN status ELSE board[u].status
    BY <2>3, <2>4 DEF Inv, BoardOK
  <2>6. \A u \in Tasks : board[u].run # NoRun => board[u].run \in RunIds
    BY SentinelAssumption DEF Inv, BoardOK, BoardTask, RunIds, NoRun
  <2>7. BoardTurns'
    <3>1. ASSUME NEW u \in Tasks
          PROVE  /\ board'[u].run = NoRun <=> board'[u].status \in {"READY", "gone"}
                 /\ board'[u].run # NoRun => runs'[board'[u].run].task = u
                 /\ board'[u].status \in {"ACTIVE", "REVIEW", "FAILED"}
                       => \E j \in RowIds : rows'[j].task = u
      <4>1. CASE u = t
        <5>1. n # NoRun /\ runs[n].task = t
          BY <1>1, <2>2, SentinelAssumption DEF RunIds, NoRun, t
        <5>2. board'[t].run = n /\ runs'[n].task = t /\ rows'[i].task = t
          BY <1>1, <2>1, <2>5, <2>2, <5>1
        <5>3. board'[t].status \notin {"READY", "gone"}
          BY <2>5, <2>2
        <5> QED BY <1>1, <4>1, <5>1, <5>2, <5>3
      <4>2. CASE u # t
        BY <1>1, <2>1, <2>5, <2>6, <4>2 DEF TurnsInv, BoardTurns
      <4> QED BY <4>1, <4>2
    <3>2. \A m \in RunIds : runs[m].task # NoTask => runs[m].task \in Tasks
      BY DEF Inv, BoardOK, BoardRun
    <3>3. \A m \in RunIds :
             /\ runs'[m].task # NoTask => board'[runs'[m].task].run = m
             /\ m > runCount' => runs'[m].task = NoTask /\ runs'[m].workflows = 0
      BY <1>1, <2>1, <2>5, <3>2 DEF TurnsInv, BoardTurns
    <3> QED BY <3>1, <3>3 DEF BoardTurns
  <2>8. RowsTurn'
    BY <1>1 DEF TurnsInv, RowsTurn
  <2>9. Knows(req[q])'
    <3>1. board'[t].status # "READY" /\ rows'[i].task = t
      BY <1>1, <2>5, <2>2
    <3> QED BY <2>2, <3>1 DEF Knows
  <2>10. Orderly(req'[q])
    BY <2>2 DEF Orderly
  <2>11. TurnsInv'
    BY <1>1, <2>7, <2>8, <2>9, <2>10, <2>2, WorkerMoves
  <2>12. OpenTasks' = OpenTasks
    <3>1. \A u \in Tasks : board'[u].status \in {"DONE", "gone"}
                            <=> board[u].status \in {"DONE", "gone"}
      BY <2>5, <2>2
    <3> QED BY <2>1, <2>5, <2>6, <3>1 DEF OpenTasks, Begun
  <2>13. Worked' = Worked
    BY <2>1 DEF Worked
  <2>14. CurrentTask' = CurrentTask
    BY <1>1, SameTurn
  <2> QED BY <2>11, <2>12, <2>13, <2>14 DEF Still
<1> QED BY <1>3, <1>5, <1>6 DEF ReportMerge, Rejects, StartsOnly

LEMMA FinishTurns ==
  ASSUME StartsOnly, Inv, Inv', LeaseInv, TurnsInv, NEW q \in Requests, FinishTask(q)
  PROVE  TurnsInv' /\ (Still \/ Turns!Settle)
<1> DEFINE i == req[q].row
           t == req[q].task
<1>1. /\ req[q].at = "finish" /\ AtWork(req[q]) /\ UNCHANGED <<rows, runs, runCount>>
      /\ t \in Tasks /\ i \in RowIds
  BY InvHeld DEF FinishTask, At, AtWork, ControllerAt, HeldRequest
<1>2. /\ rows[i].task = t /\ t # NoTask /\ board[t].status # "READY" /\ CurrentTask = t
  BY <1>1, WorkerKnows DEF Knows, Tasks, NoTask
<1>3. CASE Leave(q) /\ UNCHANGED board
  BY <1>1, <1>3, LeaveTurns
<1>4. CASE OnBoard(t) /\ board' = [board EXCEPT ![t].status = "DONE"] /\ Update(q, "clear")
  <2> DEFINE r == [IdleRequest EXCEPT !.at = "read", !.row = i, !.update = "clear"]
  <2>1. r.at = "read" /\ r.row = i /\ r.update = "clear" /\ r.attempts = 0
    BY DEF IdleRequest
  <2>2. req'[q] = r /\ \A p \in Requests \ {q} : req'[p] = req[p]
    BY <1>4 DEF Update, OpenUpdate, Inv, Held
  <2> HIDE DEF r
  <2>3. \A u \in Tasks : /\ board'[u].run = board[u].run
                         /\ board'[u].status = IF u = t THEN "DONE" ELSE board[u].status
    BY <1>1, <1>4 DEF Inv, BoardOK, BoardTask
  <2>4. BoardTurns'
    <3>1. board[t].run # NoRun
      BY <1>1, <1>2, <1>4 DEF TurnsInv, BoardTurns, OnBoard
    <3>2. \A m \in RunIds : runs[m].task # NoTask => runs[m].task \in Tasks
      BY DEF Inv, BoardOK, BoardRun
    <3> QED BY <1>1, <2>3, <3>1, <3>2 DEF TurnsInv, BoardTurns
  <2>5. RowsTurn' /\ CurrentTask' = CurrentTask
    BY <1>1, SameTurn DEF TurnsInv, RowsTurn
  <2>6. Knows(req[q])'
    BY <1>1, <1>2, <2>1, <2>2, <2>3 DEF Knows, Over
  <2>7. TurnsInv'
    BY <1>1, <2>1, <2>2, <2>4, <2>5, <2>6, WorkerMoves DEF Orderly
  <2>8. Worked' = Worked
    BY <1>1 DEF Worked
  <2>9. OpenTasks' = {}
    <3>1. OpenTasks' = OpenTasks \ {t}
      BY <1>1, <2>3 DEF OpenTasks, Begun
    <3> QED BY <1>2, <3>1, OpenIsCurrent
  <2> QED BY <2>5, <2>7, <2>8, <2>9 DEF Still, Turns!Settle
<1> QED BY <1>3, <1>4 DEF FinishTask, Rejects, StartsOnly

LEMMA ListTurns ==
  ASSUME Inv, Inv', LeaseInv, TurnsInv, NEW q \in Requests, ListTasks(q)
  PROVE  TurnsInv' /\ Still
<1>1. /\ req[q].at = "list" /\ AtWork(req[q]) /\ req[q] \in HeldRequest /\ req[q] \in Request
      /\ UNCHANGED <<rows, board, runs, runCount>>
  BY InvHeld DEF ListTasks, At, AtWork, ControllerAt
<1>2. /\ rows[req[q].row].task = NoTask /\ CurrentTask = NoTask /\ req[q].attempts = 0
      /\ req[q].update = "none"
  BY <1>1, WorkerKnows DEF Knows, HeldRequest
<1>3. CASE Leave(q)
  BY <1>1, <1>3, LeaveTurns
<1>4. ASSUME NEW t \in Tasks, PickNextTask(t), req' = [req EXCEPT ![q].at = "claim", ![q].task = t]
      PROVE  TurnsInv' /\ Still
  <2> DEFINE r == [req[q] EXCEPT !.at = "claim", !.task = t]
  <2>1. /\ r.at = "claim" /\ r.row = req[q].row /\ r.update = "none" /\ r.attempts = 0
        /\ r.task = t
    BY <1>1, <1>2 DEF Request
  <2>2. req' = [req EXCEPT ![q] = r]
    BY <1>4 DEF Inv, Held
  <2> HIDE DEF r
  <2>3. board[t].status \in {"READY", "gone"}
    <3>1. board[t].status # "DONE"
      BY <1>4 DEF PickNextTask, Eligible
    <3>2. board[t].run = NoRun
      BY <1>2, <3>1, UnderWay
    <3> QED BY <3>2 DEF TurnsInv, BoardTurns
  <2>4. Orderly(r) /\ Knows(r)
    BY <1>2, <2>1, <2>3 DEF Orderly, Knows
  <2> QED BY <1>1, <2>2, <2>4, RequestTurns
<1> QED BY <1>3, <1>4 DEF ListTasks

LEMMA ClaimTurns ==
  ASSUME Inv, Inv', LeaseInv, TurnsInv, NEW q \in Requests, ClaimTask(q)
  PROVE  TurnsInv' /\ (\E t \in Tasks : Turns!Take(t))
<1> DEFINE i == req[q].row
           t == req[q].task
           r == [req[q] EXCEPT !.at = "claimed"]
           new == [rows[i] EXCEPT !.task = t, !.run = NoRun]
<1>1. /\ req[q].at = "claim" /\ AtWork(req[q]) /\ req[q] \in HeldRequest /\ req[q] \in Request
      /\ UNCHANGED <<board, runs, runCount>> /\ t \in Tasks /\ i \in RowIds /\ rows[i] \in Row
  BY InvHeld DEF ClaimTask, At, AtWork, ControllerAt, HeldRequest
<1>2. /\ rows[i].task = NoTask /\ CurrentTask = NoTask /\ req[q].attempts = 0
      /\ req[q].update = "none" /\ board[t].status \in {"READY", "gone"}
      /\ \A j \in RowIds \ {i} : rows[j].task = NoTask
  BY <1>1, WorkerKnows DEF Knows, HeldRequest
<1>3. Running(i)
  BY <1>1, OneWorker
<1>4. /\ r.at = "claimed" /\ r.row = i /\ r.update = "none" /\ r.attempts = 0 /\ r.task = t
  BY <1>1, <1>2 DEF Request
<1>5. new.status = rows[i].status /\ new.attempts = rows[i].attempts /\ new.task = t
  BY <1>1 DEF Row
<1>6. req'[q] = r /\ \A p \in Requests \ {q} : req'[p] = req[p]
  BY DEF ClaimTask, Go, Inv, Held
<1>7. rows' = [rows EXCEPT ![i] = new]
  BY <1>2, <1>3 DEF ClaimTask
<1> HIDE DEF r, new
<1>8. \A j \in RowIds : rows'[j] = IF j = i THEN new ELSE rows[j]
  BY <1>7 DEF Inv, RowsOK
<1>9. RowsTurn'
  BY <1>3, <1>5, <1>8 DEF TurnsInv, RowsTurn, Running
<1>10. CurrentTask' = t
  BY <1>1, <1>2, <1>5, <1>8, ChosenOf
<1>11. BoardTurns'
  <2>1. \A u \in Tasks : board[u].status \notin {"ACTIVE", "REVIEW", "FAILED"}
    <3> SUFFICES ASSUME NEW u \in Tasks, board[u].status \in {"ACTIVE", "REVIEW", "FAILED"}
                 PROVE  FALSE
      OBVIOUS
    <3>1. board[u].run # NoRun
      BY DEF TurnsInv, BoardTurns
    <3> QED BY <1>2, <3>1, UnderWay
  <2> QED BY <1>1, <2>1 DEF TurnsInv, BoardTurns
<1>12. Knows(req[q])'
  BY <1>1, <1>2, <1>4, <1>5, <1>6, <1>8 DEF Knows
<1>13. TurnsInv'
  BY <1>1, <1>4, <1>6, <1>9, <1>11, <1>12, WorkerMoves DEF Orderly
<1>14. OpenTasks = {} /\ OpenTasks' = OpenTasks /\ Worked' = Worked
  BY <1>1, <1>2, OpenIsCurrent DEF OpenTasks, Begun, Worked
<1>15. Turns!Take(t)
  BY <1>2, <1>10, <1>14 DEF Turns!Take, NoTask
<1> QED BY <1>1, <1>13, <1>15

LEMMA CheckTurns ==
  ASSUME Inv, Inv', LeaseInv, TurnsInv, NEW q \in Requests, CheckClaim(q)
  PROVE  TurnsInv' /\ Still
<1>1. /\ req[q].at = "claimed" /\ AtWork(req[q]) /\ req[q] \in HeldRequest /\ req[q] \in Request
      /\ UNCHANGED <<rows, board, runs, runCount>>
  BY InvHeld DEF CheckClaim, At, AtWork, ControllerAt
<1>2. Knows(req[q]) /\ req[q].update = "none"
  BY <1>1, WorkerKnows DEF HeldRequest
<1>3. CASE Go(q, "start")
  <2> DEFINE r == [req[q] EXCEPT !.at = "start"]
  <2>1. r.at = "start" /\ r.row = req[q].row /\ r.update = "none" /\ r.task = req[q].task
    BY <1>1, <1>2 DEF Request
  <2> HIDE DEF r
  <2>2. Knows(r)
    BY <1>1, <1>2, <2>1 DEF Knows
  <2> QED BY <1>1, <1>3, <2>2, GoTurns DEF r
<1> QED BY <1>1, <1>3, LeaveTurns DEF CheckClaim

LEMMA StartTurns ==
  ASSUME StartsOnly, Inv, Inv', LeaseInv, TurnsInv, NEW q \in Requests, StartRun(q)
  PROVE  TurnsInv' /\ Still
<1> DEFINE i == req[q].row
           t == req[q].task
           n == runCount + 1
<1>1. /\ req[q].at = "start" /\ AtWork(req[q]) /\ req[q] \in HeldRequest /\ req[q] \in Request
      /\ rows' = rows /\ t \in Tasks /\ i \in RowIds
  BY InvHeld DEF StartRun, At, AtWork, ControllerAt, HeldRequest
<1>2. /\ rows[i].task = t /\ t # NoTask /\ board[t].status \in {"READY", "gone"}
  BY <1>1, WorkerKnows DEF Knows, Tasks, NoTask
<1>3. board[t].run = NoRun /\ \A m \in RunIds : runs[m].task # t
  BY <1>1, <1>2, SentinelAssumption DEF TurnsInv, BoardTurns, RunIds, NoRun
<1>4. CASE ~OnBoard(t) /\ Update(q, "giveUp") /\ UNCHANGED <<board, runs, runCount>>
  BY <1>1, <1>2, <1>4, UpdateTurns DEF OnBoard, Over
<1>5. ActiveRuns(t) = {}
  BY <1>3 DEF ActiveRuns
<1>6. CASE NewRun(t, 0) /\ Link(q, n)
  <2> DEFINE r == [IdleRequest EXCEPT !.at = "read", !.row = i, !.update = "link", !.run = n]
  <2>1. n \in RunIds /\ runCount' = n /\ n > runCount /\ runCount \in Nat
    BY <1>6, SentinelAssumption DEF NewRun, RunIds, Inv, BoardOK
  <2>2. r.at = "read" /\ r.row = i /\ r.update = "link" /\ r.run = n /\ r.attempts = 0
    BY DEF IdleRequest
  <2>3. req'[q] = r /\ \A p \in Requests \ {q} : req'[p] = req[p]
    BY <1>6 DEF Link, Inv, Held
  <2> HIDE DEF r
  <2>4. runs[n].task = NoTask /\ runs[n].workflows = 0
    BY <2>1 DEF TurnsInv, BoardTurns
  <2>5. \A m \in RunIds : /\ runs'[m].task = IF m = n THEN t ELSE runs[m].task
                          /\ runs'[m].workflows = runs[m].workflows
    BY <1>6, <2>1, <2>4 DEF NewRun, Inv, BoardOK, BoardRun
  <2>6. \A u \in Tasks : board'[u] = IF u = t THEN [status |-> "ACTIVE", run |-> n] ELSE board[u]
    BY <1>6 DEF NewRun, Inv, BoardOK
  <2>7. \A u \in Tasks : /\ board[u].run # NoRun => board[u].run \in RunIds
                         /\ board[u].run # n
    <3> SUFFICES ASSUME NEW u \in Tasks
                 PROVE  /\ board[u].run # NoRun => board[u].run \in RunIds
                        /\ board[u].run # n
      OBVIOUS
    <3>1. board[u].run # NoRun => board[u].run \in RunIds
      BY SentinelAssumption DEF Inv, BoardOK, BoardTask, RunIds, NoRun
    <3>2. n # NoRun
      BY <2>1 DEF NoRun
    <3>3. u # NoTask
      BY DEF Tasks, NoTask
    <3> QED BY <2>4, <3>1, <3>2, <3>3 DEF TurnsInv, BoardTurns
  <2>8. n # NoRun
    BY <2>1 DEF NoRun
  <2>9. BoardTurns'
    <3>1. ASSUME NEW u \in Tasks
          PROVE  /\ board'[u].run = NoRun <=> board'[u].status \in {"READY", "gone"}
                 /\ board'[u].run # NoRun => runs'[board'[u].run].task = u
                 /\ board'[u].status \in {"ACTIVE", "REVIEW", "FAILED"}
                       => \E j \in RowIds : rows'[j].task = u
      BY <1>1, <1>2, <2>1, <2>5, <2>6, <2>7, <2>8 DEF TurnsInv, BoardTurns
    <3>2. ASSUME NEW m \in RunIds
          PROVE  /\ runs'[m].task # NoTask => board'[runs'[m].task].run = m
                 /\ m > runCount' => runs'[m].task = NoTask /\ runs'[m].workflows = 0
      <4>1. runs[m].task # NoTask => runs[m].task \in Tasks /\ runs[m].task # t
        BY <1>3 DEF Inv, BoardOK, BoardRun
      <4>2. m > runCount' => m > runCount /\ m # n
        BY <2>1 DEF RunIds
      <4> QED BY <1>1, <2>1, <2>5, <2>6, <4>1, <4>2 DEF TurnsInv, BoardTurns
    <3> QED BY <3>1, <3>2 DEF BoardTurns
  <2>10. RowsTurn' /\ CurrentTask' = CurrentTask
    BY <1>1, SameTurn DEF TurnsInv, RowsTurn
  <2>11. Knows(req[q])'
    BY <1>1, <1>2, <2>1, <2>2, <2>3, <2>4, <2>5 DEF Knows
  <2>12. TurnsInv'
    BY <1>1, <2>2, <2>3, <2>9, <2>10, <2>11, WorkerMoves DEF Orderly
  <2>13. Worked' = Worked
    BY <2>5 DEF Worked
  <2>14. OpenTasks' = OpenTasks
    <3> SUFFICES ASSUME NEW u \in Tasks PROVE u \in OpenTasks' <=> u \in OpenTasks
      BY DEF OpenTasks
    <3>1. CASE u = t
      BY <1>3, <2>1, <2>4, <2>5, <2>6, <3>1 DEF OpenTasks, Begun
    <3>2. CASE u # t
      BY <2>5, <2>6, <2>7, <3>2 DEF OpenTasks, Begun
    <3> QED BY <3>1, <3>2
  <2> QED BY <2>10, <2>12, <2>13, <2>14 DEF Still
<1> QED BY <1>4, <1>5, <1>6 DEF StartRun, Rejects, StartsOnly

LEMMA ScheduleTurns ==
  ASSUME Inv, Inv', LeaseInv, TurnsInv, NEW q \in Requests, ScheduleRun(q)
  PROVE  TurnsInv' /\ (\E n \in RunIds : Turns!Work(n))
<1> DEFINE i == req[q].row
           n == req[q].run
           t == rows[i].task
           r == [req[q] EXCEPT !.at = "note"]
<1>1. /\ req[q].at = "schedule" /\ AtWork(req[q]) /\ req[q] \in HeldRequest
      /\ req[q] \in Request /\ UNCHANGED <<rows, board, runCount>> /\ n \in RunIds
      /\ i \in RowIds /\ rows[i] \in Row
  BY InvHeld DEF ScheduleRun, At, AtWork, ControllerAt, HeldRequest
<1>2. /\ t # NoTask /\ CurrentTask = t /\ (runs[n].task = t \/ board[t].status = "gone")
      /\ n <= runCount /\ runs[n].workflows = 0 /\ req[q].attempts = 0 /\ req[q].update = "none"
      /\ t \in Tasks
  BY <1>1, WorkerKnows DEF Knows, HeldRequest, Row
<1>3. /\ r.at = "note" /\ r.row = i /\ r.update = "none" /\ r.attempts = 0 /\ r.run = n
  BY <1>1, <1>2 DEF Request
<1>4. req'[q] = r /\ \A p \in Requests \ {q} : req'[p] = req[p]
  BY DEF ScheduleRun, Go, Inv, Held
<1> HIDE DEF r
<1>5. \A m \in RunIds : /\ runs'[m].task = runs[m].task
                        /\ runs'[m].workflows = IF m = n THEN 1 ELSE runs[m].workflows
  BY <1>1, <1>2 DEF ScheduleRun, Inv, BoardOK, BoardRun
<1>6. \A u \in Tasks : board[u].run # NoRun => board[u].run \in RunIds
  BY SentinelAssumption DEF Inv, BoardOK, BoardTask, RunIds, NoRun
<1>7. BoardTurns'
  <2>1. \A m \in RunIds : m > runCount => m # n
    BY <1>2 DEF RunIds, Inv, BoardOK
  <2> QED BY <1>1, <1>5, <1>6, <2>1 DEF TurnsInv, BoardTurns
<1>8. RowsTurn' /\ CurrentTask' = CurrentTask
  BY <1>1, SameTurn DEF TurnsInv, RowsTurn
<1>9. Knows(req[q])'
  BY <1>1, <1>2, <1>3, <1>4, <1>5 DEF Knows
<1>10. TurnsInv'
  BY <1>1, <1>3, <1>4, <1>7, <1>8, <1>9, WorkerMoves DEF Orderly
<1>11. OpenTasks = {}
  <2>1. t \notin OpenTasks
    BY <1>1, <1>2 DEF OpenTasks, Begun, TurnsInv, BoardTurns
  <2> QED BY <1>2, <2>1, OpenIsCurrent
<1>12. OpenTasks' \in {{t}, {}}
  BY <1>1, <1>2, UnderWay DEF OpenTasks, Begun
<1>13. Worked' = [Worked EXCEPT ![n] = 1] /\ Worked[n] = 0
  BY <1>1, <1>2, <1>5 DEF Worked
<1>14. Turns!Work(n)
  BY <1>2, <1>8, <1>11, <1>12, <1>13 DEF Turns!Work, NoTask
<1> QED BY <1>1, <1>10, <1>14

LEMMA NoteTurns ==
  ASSUME StartsOnly, Inv, Inv', LeaseInv, TurnsInv, NEW q \in Requests, NoteWorkflow(q)
  PROVE  TurnsInv' /\ Still
<1>1. /\ req[q].at = "note" /\ AtWork(req[q]) /\ UNCHANGED <<rows, board, runs, runCount>>
  BY DEF NoteWorkflow, At, AtWork, ControllerAt
<1>2. Knows(req[q])
  BY <1>1, WorkerKnows
<1>3. CASE Leave(q)
  BY <1>1, <1>3, LeaveTurns
<1>4. CASE runs[req[q].run].task = NoTask /\ Update(q, "giveUp")
  BY <1>1, <1>2, <1>4, UpdateTurns DEF Knows, Over
<1> QED BY <1>3, <1>4 DEF NoteWorkflow, Rejects, StartsOnly

-----------------------------------------------------------------------------
(* What goes on around the controller. *)

LEMMA CrashTurns ==
  ASSUME Inv, Inv', TurnsInv, NEW q \in Requests, Crash(q)
  PROVE  TurnsInv' /\ Still
<1>1. ASSUME NEW i \in RowIds
      PROVE  /\ rows'[i].status = rows[i].status /\ rows'[i].task = rows[i].task
             /\ rows'[i].attempts = rows[i].attempts
  <2>1. rows[i] \in Row
    BY DEF Inv, RowsOK
  <2>2. rows'[i] = IF rows[i].lease = q THEN [rows[i] EXCEPT !.lease = Lost] ELSE rows[i]
    BY DEF Crash
  <2> QED BY <2>1, <2>2 DEF Row
<1>2. Quiet /\ RowsTurn'
  BY <1>1 DEF Quiet, Crash, TurnsInv, RowsTurn
<1>3. Orderly(IdleRequest) /\ ~AtWork(IdleRequest)
  BY DEF Orderly, AtWork, IdleRequest, ControllerAt
<1> QED BY <1>2, <1>3, QuietStep DEF Crash, End

(* Where no request moves. *)
LEMMA NobodyMoves ==
  ASSUME Inv, Inv', TurnsInv, Quiet, RowsTurn', req' = req
  PROVE  TurnsInv' /\ Still
BY QuietMoves DEF TurnsInv, RequestsTurn, Orderly

LEMMA ExpireTurns ==
  ASSUME Inv, Inv', TurnsInv, NEW i \in RowIds, ExpireLease(i)
  PROVE  TurnsInv' /\ Still
<1> DEFINE new == [rows[i] EXCEPT !.expired = TRUE]
<1>1. /\ new.status = rows[i].status /\ new.task = rows[i].task
      /\ new.attempts = rows[i].attempts
  BY DEF Inv, RowsOK, Row
<1>2. rows' = [rows EXCEPT ![i] = new] /\ UNCHANGED <<req, board, runs, runCount>>
  BY DEF ExpireLease
<1> HIDE DEF new
<1>3. \A j \in RowIds : rows'[j] = IF j = i THEN new ELSE rows[j]
  BY <1>2 DEF Inv, RowsOK
<1>4. Quiet /\ RowsTurn'
  BY <1>1, <1>2, <1>3 DEF Quiet, RowsTurn, TurnsInv
<1> QED BY <1>2, <1>4, NobodyMoves

(* People and executors take tasks forward, or off the board with their runs. *)
Forward ==
    /\ UNCHANGED <<rows, req, runCount>>
    /\ \A t \in Tasks :
          \/ board'[t] = board[t]
          \/ board'[t].status = "gone" /\ board'[t].run = NoRun
          \/ /\ board[t].status \in {"ACTIVE", "REVIEW"}
             /\ board'[t].status \in {"REVIEW", "FAILED", "DONE"}
             /\ board'[t].run = board[t].run
    /\ \A n \in RunIds :
          /\ runs'[n].workflows = runs[n].workflows
          /\ \/ runs'[n].task = runs[n].task /\ (runs[n].task # NoTask
                   => board'[runs[n].task].status # "gone")
             \/ runs'[n].task = NoTask /\ board'[runs[n].task].status = "gone"

LEMMA ForwardTurns ==
  ASSUME Inv, LeaseInv, TurnsInv, Forward
  PROVE  TurnsInv' /\ (Still \/ Turns!Settle)
<1>1. RowsTurn' /\ CurrentTask' = CurrentTask
  BY SameTurn DEF TurnsInv, RowsTurn, Forward
<1>2. \A t \in Tasks : board[t].run # NoRun => board[t].run \in RunIds
  BY SentinelAssumption DEF Inv, BoardOK, BoardTask, RunIds, NoRun
<1>3. \A n \in RunIds : runs[n].task # NoTask => runs[n].task \in Tasks
  BY DEF Inv, BoardOK, BoardRun
<1>4. BoardTurns'
  <2>1. ASSUME NEW t \in Tasks
        PROVE  /\ board'[t].run = NoRun <=> board'[t].status \in {"READY", "gone"}
               /\ board'[t].run # NoRun => runs'[board'[t].run].task = t
               /\ board'[t].status \in {"ACTIVE", "REVIEW", "FAILED"}
                     => \E i \in RowIds : rows'[i].task = t
    <3>1. CASE board'[t].status = "gone" /\ board'[t].run = NoRun
      BY <3>1
    <3>2. CASE board'[t].run = board[t].run /\ ~(board'[t].status = "gone" /\ board'[t].run = NoRun)
      <4>1. \/ board'[t] = board[t]
            \/ /\ board[t].status \in {"ACTIVE", "REVIEW"}
               /\ board'[t].status \in {"REVIEW", "FAILED", "DONE"}
        BY <3>2 DEF Forward
      <4>2. board'[t].run = NoRun <=> board'[t].status \in {"READY", "gone"}
        BY <3>2, <4>1 DEF TurnsInv, BoardTurns
      <4>3. board'[t].run # NoRun => runs'[board'[t].run].task = t
        BY <1>2, <3>2, <4>2 DEF TurnsInv, BoardTurns, Forward
      <4>4. board'[t].status \in {"ACTIVE", "REVIEW", "FAILED"}
               => \E i \in RowIds : rows'[i].task = t
        BY <4>1 DEF TurnsInv, BoardTurns, Forward
      <4> QED BY <4>2, <4>3, <4>4
    <3> QED BY <3>1, <3>2 DEF Forward
  <2>2. ASSUME NEW n \in RunIds
        PROVE  /\ runs'[n].task # NoTask => board'[runs'[n].task].run = n
               /\ n > runCount' => runs'[n].task = NoTask /\ runs'[n].workflows = 0
    <3>1. ASSUME runs'[n].task # NoTask PROVE board'[runs'[n].task].run = n
      <4> DEFINE t == runs[n].task
      <4>1. runs'[n].task = t /\ t \in Tasks /\ board[t].run = n /\ board'[t].status # "gone"
        BY <1>3, <3>1 DEF TurnsInv, BoardTurns, Forward
      <4>2. board'[t].run = board[t].run
        BY <4>1 DEF Forward
      <4> QED BY <4>1, <4>2
    <3> QED BY <3>1 DEF TurnsInv, BoardTurns, Forward
  <2> QED BY <2>1, <2>2 DEF BoardTurns
<1>5. ASSUME NEW p \in Requests, AtWork(req[p]) PROVE Knows(req[p])'
  <2> DEFINE r == req[p]
  <2>1. r \in HeldRequest /\ r \in Request /\ Knows(r) /\ r.row \in RowIds
        /\ req' = req /\ rows' = rows /\ runCount' = runCount
    BY <1>5, OneWorker, WorkerKnows DEF Forward
  <2>2. \A t \in Tasks : /\ board[t].status \in {"READY", "gone"}
                               => board'[t].status \in {"READY", "gone"}
                         /\ board[t].status # "READY" => board'[t].status # "READY"
                         /\ board[t].status = "gone" => board'[t].status = "gone"
                         /\ Over(t) => Over(t)'
    BY DEF Forward, Over
  <2>3. r.at \in {"claim", "claimed", "start", "settle", "merge", "report", "finish"}
           => r.task \in Tasks
    BY <2>1 DEF HeldRequest
  <2>4. r.update = "link" \/ r.at \in {"schedule", "note", "merge", "report"} => r.run \in RunIds
    BY <2>1 DEF HeldRequest
  <2>5. rows[r.row].task # NoTask => rows[r.row].task \in Tasks
    BY <2>1 DEF Inv, RowsOK, Row
  <2>6. /\ r.at \in {"claim", "claimed", "start"} => board'[r.task].status \in {"READY", "gone"}
        /\ r.at \in {"merge", "report", "finish"} => board'[r.task].status # "READY"
    BY <2>1, <2>2, <2>3 DEF Knows
  <2>7. r.at \in {"merge", "report"} => runs'[r.run].task \in {r.task, NoTask}
    BY <2>1, <2>4 DEF Knows, Forward
  <2>8. r.update \in {"clear", "giveUp"}
           => rows[r.row].task # NoTask /\ Over(rows[r.row].task)'
    BY <2>1, <2>2, <2>5 DEF Knows
  <2>9. r.update = "link" \/ r.at \in {"schedule", "note"}
           => /\ rows[r.row].task # NoTask
              /\ runs'[r.run].task = rows[r.row].task \/ board'[rows[r.row].task].status = "gone"
    BY <2>1, <2>2, <2>4, <2>5 DEF Knows, Forward
  <2>10. r.update = "link" \/ r.at = "schedule"
            => r.run <= runCount /\ runs'[r.run].workflows = 0
    BY <2>1, <2>4 DEF Knows, Forward
  <2> QED BY <2>1, <2>6, <2>7, <2>8, <2>9, <2>10 DEF Knows, Over
<1>6. RequestsTurn'
  BY <1>5 DEF TurnsInv, RequestsTurn, Forward, AtWork
<1>7. Worked' = Worked
  BY DEF Worked, Forward
<1>8. OpenTasks' \subseteq OpenTasks
  <2> SUFFICES ASSUME NEW t \in Tasks, t \in OpenTasks' PROVE t \in OpenTasks
    BY DEF OpenTasks
  <2>1. board'[t].status \notin {"DONE", "gone"} /\ board'[t].run # NoRun
    BY DEF OpenTasks, Begun
  <2>2. board'[t].run = board[t].run /\ board[t].status \notin {"DONE", "gone"}
    BY <2>1 DEF Forward
  <2> QED BY <1>2, <2>1, <2>2 DEF OpenTasks, Begun, Forward
<1>9. OpenTasks' = OpenTasks \/ (OpenTasks # {} /\ OpenTasks' = {})
  BY <1>8, OpenIsCurrent
<1> QED BY <1>1, <1>4, <1>6, <1>7, <1>9 DEF TurnsInv, Still, Turns!Settle

LEMMA ExecutorMoves ==
  ASSUME Inv, TurnsInv, NEW t \in Tasks, ExecutorReviews(t) \/ ExecutorFails(t)
  PROVE  Forward
<1>1. PICK state \in {"active", "done", "failed"}, status \in {"REVIEW", "FAILED"} :
         /\ board[t].status = "ACTIVE" /\ board[t].run # NoRun
         /\ board' = [board EXCEPT ![t].status = status]
         /\ runs' = [runs EXCEPT ![board[t].run].state = state]
         /\ UNCHANGED <<rows, req, runCount>>
  BY DEF ExecutorReviews, ExecutorFails, Executes
<1>2. \A u \in Tasks : /\ u # t => board'[u] = board[u]
                       /\ board'[u].run = board[u].run
                       /\ board'[t].status = status
  BY <1>1 DEF Inv, BoardOK, BoardTask
<1>3. \A n \in RunIds : runs'[n].task = runs[n].task /\ runs'[n].workflows = runs[n].workflows
  BY <1>1 DEF Inv, BoardOK, BoardRun
<1>4. \A n \in RunIds : runs[n].task # NoTask => board'[runs[n].task].status # "gone"
  <2> SUFFICES ASSUME NEW n \in RunIds, runs[n].task # NoTask
               PROVE  board'[runs[n].task].status # "gone"
    OBVIOUS
  <2>1. runs[n].task \in Tasks /\ board[runs[n].task].run = n /\ n # NoRun
    BY SentinelAssumption DEF Inv, BoardOK, BoardRun, TurnsInv, BoardTurns, RunIds, NoRun
  <2>2. board[runs[n].task].status # "gone"
    BY <2>1 DEF TurnsInv, BoardTurns
  <2> QED BY <1>1, <1>2, <2>1, <2>2
<1> QED BY <1>1, <1>2, <1>3, <1>4 DEF Forward

LEMMA FinishMoves ==
  ASSUME Inv, TurnsInv, NEW t \in Tasks, FinishByHand(t)
  PROVE  Forward
<1>1. /\ board[t].status = "REVIEW" /\ board' = [board EXCEPT ![t].status = "DONE"]
      /\ UNCHANGED <<rows, req, runs, runCount>>
  BY DEF FinishByHand
<1>2. \A u \in Tasks : /\ u # t => board'[u] = board[u]
                       /\ board'[u].run = board[u].run
                       /\ board'[t].status = "DONE"
  BY <1>1 DEF Inv, BoardOK, BoardTask
<1>3. \A n \in RunIds : runs[n].task # NoTask => board'[runs[n].task].status # "gone"
  <2> SUFFICES ASSUME NEW n \in RunIds, runs[n].task # NoTask
               PROVE  board'[runs[n].task].status # "gone"
    OBVIOUS
  <2>1. runs[n].task \in Tasks /\ board[runs[n].task].run = n /\ n # NoRun
    BY SentinelAssumption DEF Inv, BoardOK, BoardRun, TurnsInv, BoardTurns, RunIds, NoRun
  <2>2. board[runs[n].task].status # "gone"
    BY <2>1 DEF TurnsInv, BoardTurns
  <2> QED BY <1>2, <2>1, <2>2
<1> QED BY <1>1, <1>2, <1>3 DEF Forward

LEMMA DeleteMoves ==
  ASSUME Inv, TurnsInv, NEW t \in Tasks, DeleteTask(t)
  PROVE  Forward
<1>1. /\ UNCHANGED <<rows, req, runCount>>
      /\ \A u \in Tasks : board'[u] = IF u = t THEN [status |-> "gone", run |-> NoRun]
                                      ELSE board[u]
      /\ \A n \in RunIds : runs'[n] = IF runs[n].task = t THEN [runs[n] EXCEPT !.task = NoTask]
                                      ELSE runs[n]
  BY DEF DeleteTask, Inv, BoardOK
<1>2. \A n \in RunIds : /\ runs'[n].task = IF runs[n].task = t THEN NoTask ELSE runs[n].task
                        /\ runs'[n].workflows = runs[n].workflows
  BY <1>1 DEF Inv, BoardOK, BoardRun
<1>3. ASSUME NEW n \in RunIds, runs[n].task # NoTask, runs[n].task # t
      PROVE  board'[runs[n].task].status # "gone"
  <2>1. runs[n].task \in Tasks /\ board[runs[n].task].run = n /\ n # NoRun
    BY <1>3, SentinelAssumption DEF Inv, BoardOK, BoardRun, TurnsInv, BoardTurns, RunIds, NoRun
  <2>2. board[runs[n].task].status # "gone"
    BY <2>1 DEF TurnsInv, BoardTurns
  <2> QED BY <1>1, <1>3, <2>1, <2>2
<1>4. board'[t].status = "gone" /\ board'[t].run = NoRun
  BY <1>1
<1> QED BY <1>1, <1>2, <1>3, <1>4 DEF Forward

LEMMA NextTurns ==
  ASSUME StartsOnly, Inv, Inv', LeaseInv, TurnsInv, [Next]_vars
  PROVE  TurnsInv' /\ [Turns!Next]_(Turns!vars)
<1>1. \/ TurnsInv' /\ (Still \/ Turns!Settle \/ Turns!Yield)
      \/ TurnsInv' /\ \E t \in Tasks : Turns!Take(t)
      \/ TurnsInv' /\ \E n \in RunIds : Turns!Work(n)
  <2>1. CASE UNCHANGED vars
    <3>1. Quiet /\ RowsTurn' /\ req' = req
      BY <2>1 DEF vars, Quiet, TurnsInv, RowsTurn
    <3> QED BY <3>1, NobodyMoves
  <2>2. ASSUME NEW q \in Requests, Handle(q) \/ Crash(q) PROVE TurnsInv' /\ Still
    BY <2>2, HandleTurns, CrashTurns
  <2>3. ASSUME NEW q \in Requests, Step(q)
        PROVE  \/ TurnsInv' /\ (Still \/ Turns!Settle \/ Turns!Yield)
               \/ TurnsInv' /\ \E t \in Tasks : Turns!Take(t)
               \/ TurnsInv' /\ \E n \in RunIds : Turns!Work(n)
    BY <2>3, InsertTurns, SelectTurns, ReadTurns, WriteTurns, AcquireTurns, OwnTurns,
       ReleaseTurns, SettleTurns, RunPolicyTurns, ReportTurns, FinishTurns, ListTurns,
       ClaimTurns, CheckTurns, StartTurns, ScheduleTurns, NoteTurns DEF Step
  <2>4. CASE Around
    BY <2>4, ExpireTurns, ExecutorMoves, FinishMoves, DeleteMoves, ForwardTurns
       DEF Around, StartByHand, StartsOnly
  <2> QED BY <2>1, <2>2, <2>3, <2>4 DEF Next
<1> QED BY <1>1 DEF Still, Turns!Next, Turns!vars, Tasks, RunIds

(* Where operators only start and resume the sentinel, and nothing is        *)
(* rejected, exhausted or started by hand, the sentinel works the tasks of   *)
(* its repo in turns, whoever asks for it how often and whichever workers    *)
(* die: it takes a task when none is open, gives each run to one workflow,   *)
(* and takes the next when the task is done or gone.                         *)
THEOREM TasksTakeTurns ==
  ASSUME StartsOnly
  PROVE  Spec => TurnsSpec
<1>1. Undisturbed
  BY DEF Undisturbed, StartsOnly
<1>2. Init => TurnsInv
  BY DEF Init, TurnsInv, RowsTurn, BoardTurns, RequestsTurn, IdleRequest, AbsentRow, AtWork,
         ControllerAt, NoTask, NoRun
<1>3. Init => Turns!Init
  BY DEF Init, Turns!Init, CurrentTask, OpenTasks, Begun, Worked, AbsentRow, NoTask, RunIds
<1>4. Inv /\ LeaseInv /\ [Next]_vars => LeaseInv'
  BY <1>1, NextLease
<1>5. Inv /\ Inv' /\ LeaseInv /\ TurnsInv /\ [Next]_vars
         => TurnsInv' /\ [Turns!Next]_(Turns!vars)
  BY NextTurns
<1> QED BY <1>2, <1>3, <1>4, <1>5, InitLease, SpecInv, PTL DEF Spec, TurnsSpec, Turns!Spec

-----------------------------------------------------------------------------
(* The merge engine. *)

(* The attempts of a call, and of the row. *)
CallOK ==
    /\ AttemptsAllOrNone
    /\ ~EngineAt("idle") => /\ attempts = 0 /\ engine.attempt >= 1
                      /\ engine.outcome = "none" /\ engine.policy \in Policies
    /\ engine.rebase => engine.policy.rebase /\ ~EngineAt("idle")
    /\ engine.rebase \/ EngineAt("remedy") => engine.attempt < MaxAttempts

(* What was seen of the review when the engine goes on with it. *)
SeenOK ==
    /\ engine.at \in {"checks", "merge"} =>
          engine.seen.head \in Heads /\ engine.seen.head <= review.head
    /\ EngineAt("merge") /\ ~engine.rebase => engine.seen.head \in engine.passed

(* After the sentinel's merge the engine at most looks at the review again. *)
LandedOK ==
    review.by = "sentinel" =>
       /\ review.state = "merged" /\ attempts = 0
       /\ engine.outcome \notin {"blocked", "exhausted"}
       /\ engine.at \in {"idle", "look"}

MergeInv == MergeTypeOK /\ CallOK /\ SeenOK /\ LandedOK

EngineOK == engine \in Engine /\ attempts \in 0..MaxAttempts /\ CallOK

-----------------------------------------------------------------------------
LEMMA MergeFacts ==
  /\ NoSeen \in Seen /\ NoPolicy \in Policy
  /\ RunHead \in Heads
  /\ 0 \in 0..MaxAttempts /\ FALSE \in BOOLEAN /\ TRUE \in BOOLEAN
  /\ MaxAttempts \in Nat \ {0} /\ MaxHeads \in Nat \ {0}
  /\ Policies \subseteq Policy /\ Providers \subseteq {"github", "gitlab"}
BY MergeAssumption, ConfigAssumption
   DEF NoSeen, Seen, Mergeability, NoPolicy, Policy, RunHead, Heads, NoHead

(* How a call ends. *)
LEMMA CallAnswers ==
  ASSUME EngineOK, ~EngineAt("idle"), NEW outcome \in Outcome \ {"none"}, Answer(outcome),
         outcome = "exhausted" => engine.attempt >= MaxAttempts
  PROVE  EngineOK' /\ engine'.at = "idle" /\ engine'.outcome = outcome
         /\ (outcome # "exhausted" => attempts' = 0)
<1>1. engine.attempt \in 0..MaxAttempts /\ attempts = 0
  BY DEF EngineOK, Engine, CallOK
<1>2. engine' \in Engine
  BY MergeFacts DEF Answer, EngineOK, Engine
<1>3. engine'.at = "idle" /\ engine'.outcome = outcome /\ engine'.rebase = FALSE
  BY DEF Answer, EngineOK, Engine
<1>4. outcome = "exhausted" => attempts' = MaxAttempts
  BY <1>1, MergeFacts DEF Answer
<1>5. outcome # "exhausted" => attempts' = 0
  BY <1>1 DEF Answer
<1>6. attempts' \in 0..MaxAttempts
  BY <1>4, <1>5, MergeFacts
<1> QED BY <1>2, <1>3, <1>4, <1>5, <1>6 DEF EngineOK, CallOK, AttemptsAllOrNone, EngineAt

(* How it goes on to another attempt. *)
LEMMA CallTries ==
  ASSUME EngineOK, ~EngineAt("idle"), UNCHANGED attempts,
         engine.attempt < MaxAttempts,
         (TryRebase /\ engine.policy.rebase) \/ TryRemedy \/ TryAgain
  PROVE  EngineOK' /\ engine'.at \in {"look", "remedy"} /\ engine'.outcome = "none"
<1>1. engine.attempt \in 0..MaxAttempts /\ engine.attempt >= 1 /\ attempts = 0
      /\ engine.outcome = "none" /\ engine.policy \in Policies
  BY DEF EngineOK, Engine, CallOK
<1>2. CASE TryRebase /\ engine.policy.rebase
  <2>1. engine' \in Engine
    BY <1>2, MergeFacts DEF TryRebase, EngineOK, Engine
  <2>2. engine'.at = "look" /\ engine'.rebase = TRUE /\ engine'.policy = engine.policy
        /\ engine'.attempt = engine.attempt /\ engine'.outcome = "none"
    BY <1>1, <1>2 DEF TryRebase, EngineOK, Engine
  <2> QED BY <1>1, <1>2, <2>1, <2>2 DEF EngineOK, CallOK, AttemptsAllOrNone, EngineAt
<1>3. CASE TryRemedy
  <2>1. engine' \in Engine
    BY <1>3, MergeFacts DEF TryRemedy, EngineOK, Engine
  <2>2. engine'.at = "remedy" /\ engine'.rebase = FALSE /\ engine'.policy = engine.policy
        /\ engine'.attempt = engine.attempt /\ engine'.outcome = "none"
    BY <1>1, <1>3 DEF TryRemedy, EngineOK, Engine
  <2> QED BY <1>1, <2>1, <2>2 DEF EngineOK, CallOK, AttemptsAllOrNone, EngineAt
<1>4. CASE TryAgain
  <2>1. engine.attempt + 1 \in 0..MaxAttempts /\ engine.attempt + 1 >= 1
    BY <1>1, <1>4, MergeFacts
  <2>2. engine' \in Engine
    BY <1>4, <2>1, MergeFacts DEF TryAgain, NextAttempt, EngineOK, Engine
  <2>3. engine'.at = "look" /\ engine'.rebase = FALSE /\ engine'.policy = engine.policy
        /\ engine'.attempt = engine.attempt + 1 /\ engine'.outcome = "none"
    BY <1>1, <1>4 DEF TryAgain, NextAttempt, EngineOK, Engine
  <2> QED BY <1>1, <2>1, <2>2, <2>3 DEF EngineOK, CallOK, AttemptsAllOrNone, EngineAt
<1> QED BY <1>2, <1>3, <1>4

LEMMA NotMergedKeeps ==
  ASSUME EngineOK, ~EngineAt("idle"), ~EngineAt("remedy"), NotMerged
  PROVE  EngineOK' /\ engine'.at \in {"idle", "look", "remedy"}
         /\ engine'.outcome \in {"none", "exhausted"}
<1>1. CASE Answer("exhausted") /\ LastAttempt(engine.attempt)
  BY <1>1, CallAnswers DEF LastAttempt, Outcome
<1>2. CASE /\ UNCHANGED attempts
           /\ engine.attempt < MaxAttempts
           /\ (TryRebase /\ engine.policy.rebase) \/ TryRemedy \/ TryAgain
  BY <1>2, CallTries
<1>3. engine.attempt \in 0..MaxAttempts
  BY DEF EngineOK, Engine
<1> QED BY <1>1, <1>2, <1>3, MergeFacts DEF NotMerged, LastAttempt, EngineOK, CallOK

LEMMA GateFailsKeeps ==
  ASSUME EngineOK, ~EngineAt("idle"), ~EngineAt("remedy"), GateFails
  PROVE  EngineOK' /\ engine'.at \in {"idle", "look", "remedy"}
BY NotMergedKeeps, CallAnswers DEF GateFails, Outcome

(* A call that has come to an end, or is to look again, has nothing to go on *)
(* with, so only the review and the checks are left to be right.             *)
LEMMA CallOver ==
  ASSUME EngineOK', engine'.at \in {"idle", "look", "remedy"},
         review' \in Review, checks' \in [Heads -> {"none", "pending", "green", "red"}],
         findings' \in Findings, LandedOK'
  PROVE  MergeInv'
BY DEF MergeInv, MergeTypeOK, EngineOK, SeenOK, EngineAt

-----------------------------------------------------------------------------
LEMMA MergeInitInv ==
  ASSUME MergeInit
  PROVE  MergeInv
<1>1. review \in Review
  BY MergeFacts DEF MergeInit, Review, Mergeability
<1>2. engine \in Engine
  BY MergeFacts DEF MergeInit, Engine, Findings, Outcome
<1>3. MergeTypeOK
  BY <1>1, <1>2, MergeFacts DEF MergeInit, MergeTypeOK, Findings
<1>4. CallOK
  BY DEF MergeInit, CallOK, AttemptsAllOrNone, EngineAt
<1>5. SeenOK /\ LandedOK
  BY DEF MergeInit, SeenOK, LandedOK, EngineAt
<1> QED BY <1>3, <1>4, <1>5 DEF MergeInv

LEMMA BeginKeeps ==
  ASSUME MergeInv, Begin
  PROVE  MergeInv'
<1>1. PICK policy \in Policies :
        IF attempts >= MaxAttempts
        THEN engine' = [engine EXCEPT !.policy = policy, !.findings = findings,
                                      !.attempt = attempts, !.outcome = "exhausted"]
        ELSE engine' = [engine EXCEPT !.policy = policy, !.findings = findings,
                                      !.attempt = attempts + 1,
                                      !.at = "look", !.outcome = "none"]
  BY DEF Begin, NextAttempt
<1>2. engine \in Engine /\ policy \in Policy
      /\ findings \in Findings /\ attempts \in 0..MaxAttempts
  BY MergeFacts DEF MergeInv, MergeTypeOK
<1>3. EngineAt("idle") /\ engine.at = "idle" /\ ~engine.rebase /\ attempts \in {0, MaxAttempts}
  BY DEF Begin, EngineAt, MergeInv, CallOK, AttemptsAllOrNone
<1>4. review' \in Review /\ checks' \in [Heads -> {"none", "pending", "green", "red"}]
      /\ findings' \in Findings
  BY DEF Begin, MergeInv, MergeTypeOK
<1>5. CASE attempts >= MaxAttempts
  <2>1. attempts = MaxAttempts /\ attempts # 0
    BY <1>2, <1>5, MergeFacts
  <2>2. engine' \in Engine
    BY <1>1, <1>2, <1>5 DEF Engine, Outcome
  <2>3. engine'.at = "idle" /\ engine'.rebase = engine.rebase /\ engine'.outcome = "exhausted"
    BY <1>1, <1>2, <1>3, <1>5 DEF Engine
  <2>4. EngineOK'
    BY <1>2, <1>3, <2>1, <2>2, <2>3 DEF EngineOK, CallOK, AttemptsAllOrNone, EngineAt, Begin
  <2>5. LandedOK'
    BY <2>1 DEF Begin, MergeInv, LandedOK
  <2> QED BY <1>4, <2>3, <2>4, <2>5, CallOver
<1>6. CASE ~(attempts >= MaxAttempts)
  <2>1. attempts = 0 /\ attempts + 1 \in 0..MaxAttempts
    BY <1>2, <1>3, <1>6, MergeFacts
  <2>2. engine' \in Engine
    BY <1>1, <1>2, <1>6, <2>1 DEF Engine, Outcome
  <2>3. engine'.at = "look" /\ engine'.rebase = engine.rebase /\ engine'.outcome = "none"
        /\ engine'.policy = policy /\ engine'.attempt = attempts + 1
    BY <1>1, <1>2, <1>3, <1>6 DEF Engine
  <2>4. EngineOK'
    BY <1>2, <1>3, <2>1, <2>2, <2>3 DEF EngineOK, CallOK, AttemptsAllOrNone, EngineAt, Begin
  <2>5. LandedOK'
    BY <2>1, <2>3 DEF Begin, MergeInv, LandedOK
  <2> QED BY <1>4, <2>3, <2>4, <2>5, CallOver
<1> QED BY <1>5, <1>6

(* The requests of a call change nothing on the host but at "merge".        *)
LEMMA LookKeeps ==
  ASSUME MergeInv, LookAtReview \/ RunRemediationPlan
  PROVE  MergeInv'
<1>1. review' \in Review /\ checks' \in [Heads -> {"none", "pending", "green", "red"}]
      /\ findings' \in Findings /\ UNCHANGED review
  BY DEF LookAtReview, RunRemediationPlan, MergeInv, MergeTypeOK
<1>2. EngineOK /\ ~EngineAt("idle")
  BY DEF MergeInv, MergeTypeOK, EngineOK, LookAtReview, RunRemediationPlan, EngineAt
<1>3. CASE RunRemediationPlan
  <2>1. engine.attempt < MaxAttempts
    BY <1>3 DEF MergeInv, CallOK, RunRemediationPlan
  <2>2. EngineOK' /\ engine'.at \in {"idle", "look", "remedy"}
    BY <1>2, <1>3, <2>1, CallTries, CallAnswers DEF RunRemediationPlan, Outcome
  <2>3. review.by # "sentinel"
    BY <1>3 DEF MergeInv, LandedOK, RunRemediationPlan, EngineAt
  <2>4. LandedOK'
    BY <1>1, <2>3 DEF LandedOK
  <2> QED BY <1>1, <2>2, <2>4, CallOver
<1>4. CASE LookAtReview
  <2>0. engine.at = "look" /\ ~EngineAt("remedy")
    BY <1>4 DEF LookAtReview, EngineAt
  <2>1. CASE Answer("failed") \/ (IsMerged /\ Answer("merged"))
    <3>1. EngineOK' /\ engine'.at = "idle" /\ engine'.outcome \in {"failed", "merged"}
          /\ attempts' = 0
      BY <1>2, <2>1, CallAnswers DEF Outcome
    <3>2. LandedOK'
      BY <1>1, <3>1 DEF MergeInv, LandedOK
    <3> QED BY <1>1, <3>1, <3>2, CallOver
  <2>2. CASE ~IsMerged
    <3>1. review.by # "sentinel"
      BY <2>2 DEF MergeInv, LandedOK, IsMerged
    <3>2. LandedOK'
      BY <1>1, <3>1 DEF LandedOK
    <3>3. CASE Answer("failed") \/ NotMerged \/ GateFails
      <4>1. EngineOK' /\ engine'.at \in {"idle", "look", "remedy"}
        BY <1>2, <2>0, <3>3, CallAnswers, NotMergedKeeps, GateFailsKeeps DEF Outcome
      <4> QED BY <1>1, <3>2, <4>1, CallOver
    <3>4. CASE engine' = [engine EXCEPT !.at = "gate"] /\ UNCHANGED attempts
      <4>1. engine' \in Engine
        BY <3>4 DEF MergeInv, MergeTypeOK, Engine
      <4>2. engine'.at = "gate" /\ engine'.rebase = engine.rebase
            /\ engine'.policy = engine.policy /\ engine'.attempt = engine.attempt
            /\ engine'.outcome = engine.outcome
        BY <3>4 DEF MergeInv, MergeTypeOK, Engine
      <4>3. CallOK' /\ SeenOK'
        BY <2>0, <3>4, <4>2 DEF MergeInv, CallOK, AttemptsAllOrNone, SeenOK, EngineAt
      <4> QED BY <1>1, <3>2, <3>4, <4>1, <4>3 DEF MergeInv, MergeTypeOK
    <3> QED BY <1>4, <2>2, <3>3, <3>4 DEF LookAtReview
  <2> QED BY <1>4, <2>1, <2>2 DEF LookAtReview, IsMerged
<1> QED BY <1>3, <1>4

LEMMA GatePassesKeeps ==
  ASSUME MergeInv, engine.at \in {"gate", "checks"}, UNCHANGED <<review, checks, findings>>,
         NEW seen \in Seen, seen.head \in Heads, seen.head <= review.head, GatePasses(seen)
  PROVE  MergeInv'
<1> DEFINE passed == IF engine.rebase THEN engine.passed ELSE engine.passed \cup {seen.head}
<1>1. engine \in Engine /\ engine.passed \subseteq Heads
  BY DEF MergeInv, MergeTypeOK, Engine
<1>2. passed \in SUBSET Heads
  BY <1>1
<1>3. engine' = [engine EXCEPT !.at = "merge", !.seen = seen, !.passed = passed]
      /\ UNCHANGED attempts
  BY DEF GatePasses
<1>4. ~engine.rebase => seen.head \in passed
  OBVIOUS
<1> HIDE DEF passed
<1>5. engine' \in Engine
  BY <1>1, <1>2, <1>3 DEF Engine
<1>6. engine'.at = "merge" /\ engine'.rebase = engine.rebase /\ engine'.policy = engine.policy
      /\ engine'.attempt = engine.attempt /\ engine'.outcome = engine.outcome
      /\ engine'.seen = seen /\ engine'.passed = passed
  BY <1>1, <1>3 DEF Engine
<1>7. CallOK' /\ SeenOK'
  BY <1>3, <1>4, <1>6 DEF MergeInv, CallOK, AttemptsAllOrNone, SeenOK, EngineAt
<1>8. LandedOK'
  BY DEF MergeInv, LandedOK
<1> QED BY <1>3, <1>5, <1>7, <1>8 DEF MergeInv, MergeTypeOK

LEMMA GateKeeps ==
  ASSUME MergeInv, EvaluateReviewGate \/ ListCommitChecks
  PROVE  MergeInv'
<1>1. review' \in Review /\ checks' \in [Heads -> {"none", "pending", "green", "red"}]
      /\ findings' \in Findings /\ UNCHANGED <<review, checks, findings>>
  BY DEF EvaluateReviewGate, ListCommitChecks, MergeInv, MergeTypeOK
<1>2. EngineOK /\ ~EngineAt("idle") /\ ~EngineAt("remedy") /\ engine.at \in {"gate", "checks"}
  BY DEF MergeInv, MergeTypeOK, EngineOK, EvaluateReviewGate, ListCommitChecks, EngineAt
<1>3. LandedOK' /\ review.by # "sentinel"
  BY <1>1, <1>2 DEF MergeInv, LandedOK
<1>4. CASE Answer("failed") \/ GateFails
  <2>1. EngineOK' /\ engine'.at \in {"idle", "look", "remedy"}
    BY <1>2, <1>4, CallAnswers, GateFailsKeeps DEF Outcome
  <2> QED BY <1>1, <1>3, <2>1, CallOver
<1>5. CASE ListCommitChecks
  <2>1. CASE GatePasses(engine.seen)
    <3>1. engine.seen \in Seen /\ engine.seen.head \in Heads /\ engine.seen.head <= review.head
      BY <1>5 DEF ListCommitChecks, EngineAt, MergeInv, SeenOK, MergeTypeOK, Engine
    <3> QED BY <1>1, <1>2, <2>1, <3>1, GatePassesKeeps
  <2> QED BY <1>4, <1>5, <2>1 DEF ListCommitChecks
<1>6. CASE EvaluateReviewGate
  <2> DEFINE seen == [head |-> review.head, mergeable |-> review.mergeable,
                      open |-> review.state = "open"]
  <2>1. review \in Review /\ review.head \in Heads /\ review.head \in 0..MaxHeads
    BY MergeFacts DEF MergeInv, MergeTypeOK, Review, Heads
  <2>2. (review.state = "open") \in BOOLEAN
    OBVIOUS
  <2>3. seen \in Seen
    BY <2>1, <2>2 DEF Review, Seen
  <2>4. seen.head = review.head /\ seen.head <= review.head
    BY <2>1 DEF Heads
  <2>5. CASE GatePasses(seen)
    <3> HIDE DEF seen
    <3> QED BY <1>1, <1>2, <2>1, <2>3, <2>4, <2>5, GatePassesKeeps
  <2>6. CASE engine' = [engine EXCEPT !.at = "checks", !.seen = seen] /\ UNCHANGED attempts
    <3> HIDE DEF seen
    <3>1. engine' \in Engine
      BY <2>3, <2>6 DEF MergeInv, MergeTypeOK, Engine
    <3>2. engine'.at = "checks" /\ engine'.rebase = engine.rebase
          /\ engine'.policy = engine.policy /\ engine'.attempt = engine.attempt
          /\ engine'.outcome = engine.outcome /\ engine'.seen = seen
      BY <2>6 DEF MergeInv, MergeTypeOK, Engine
    <3>3. CallOK' /\ SeenOK'
      BY <1>1, <1>2, <2>1, <2>4, <2>6, <3>2 DEF MergeInv, CallOK, AttemptsAllOrNone,
         SeenOK, EngineAt
    <3> QED BY <1>1, <1>3, <2>6, <3>1, <3>3 DEF MergeInv, MergeTypeOK
  <2> QED BY <1>4, <1>6, <2>5, <2>6 DEF EvaluateReviewGate
<1> QED BY <1>5, <1>6

LEMMA MergeReviewKeeps ==
  ASSUME MergeInv, MergeReview
  PROVE  MergeInv'
<1>1. EngineOK /\ ~EngineAt("idle") /\ ~EngineAt("remedy") /\ engine.at = "merge" /\ review \in Review
  BY DEF MergeInv, MergeTypeOK, EngineOK, MergeReview, EngineAt
<1>2. checks' \in [Heads -> {"none", "pending", "green", "red"}] /\ findings' \in Findings
  BY DEF MergeReview, MergeInv, MergeTypeOK
<1>3. review.by # "sentinel"
  BY <1>1 DEF MergeInv, LandedOK
<1>4. CASE UNCHANGED review /\ (NotMerged \/ Answer("failed"))
  <2>1. EngineOK' /\ engine'.at \in {"idle", "look", "remedy"}
    BY <1>1, <1>4, NotMergedKeeps, CallAnswers DEF Outcome
  <2>2. LandedOK'
    BY <1>3, <1>4 DEF LandedOK
  <2> QED BY <1>1, <1>2, <1>4, <2>1, <2>2, CallOver
<1>5. CASE /\ review' = [review EXCEPT !.state = "merged", !.by = "sentinel"]
           /\ Answer("merged") \/ Answer("failed")
  <2>1. EngineOK' /\ engine'.at = "idle" /\ engine'.outcome \in {"merged", "failed"}
        /\ attempts' = 0
    BY <1>1, <1>5, CallAnswers DEF Outcome
  <2>2. review' \in Review /\ review'.state = "merged"
    BY <1>1, <1>5 DEF Review
  <2>3. LandedOK'
    BY <2>1, <2>2 DEF LandedOK
  <2> QED BY <1>2, <2>1, <2>2, <2>3, CallOver
<1> QED BY <1>4, <1>5 DEF MergeReview

LEMMA HostKeeps ==
  ASSUME MergeInv, Host
  PROVE  MergeInv'
<1>1. UNCHANGED <<engine, attempts>>
  BY DEF Host, Push, ReportChecks, JudgeMergeability, PostFindings, ByHand
<1>2. CallOK' /\ engine' \in Engine /\ attempts' \in 0..MaxAttempts
  BY <1>1 DEF MergeInv, MergeTypeOK, CallOK, AttemptsAllOrNone, EngineAt
<1>3. review \in Review /\ review.head \in Heads
  BY DEF MergeInv, MergeTypeOK, Review
<1>4. review' \in Review /\ review.head <= review'.head
      /\ (review'.by = "sentinel" => review' = review)
  <2>1. CASE Push
    <3>1. review.head + 1 \in Heads /\ "unknown" \in Mergeability
      BY <2>1, <1>3, MergeFacts DEF Push, Heads, Mergeability
    <3>2. review' \in Review /\ review'.head = review.head + 1 /\ review'.by = review.by
      BY <1>3, <2>1, <3>1 DEF Push, Review
    <3>3. review.by # "sentinel"
      BY <2>1 DEF Push, IsOpen, MergeInv, LandedOK
    <3> QED BY <1>3, <3>2, <3>3 DEF Heads
  <2>2. CASE JudgeMergeability
    <3>1. review' \in Review /\ review'.head = review.head /\ review'.by = review.by
      BY <1>3, <2>2 DEF JudgeMergeability, Review
    <3>2. review.by # "sentinel"
      BY <2>2 DEF JudgeMergeability, IsOpen, MergeInv, LandedOK
    <3> QED BY <1>3, <3>1, <3>2 DEF Heads
  <2>3. CASE ByHand
    <3>1. review' \in Review /\ review'.head = review.head
          /\ (review'.by = review.by \/ review'.by = "person")
      BY <1>3, <2>3 DEF ByHand, Review
    <3>2. review.by # "sentinel"
      BY <2>3 DEF ByHand, MergeInv, LandedOK
    <3> QED BY <1>3, <3>1, <3>2 DEF Heads
  <2>4. CASE PostFindings \/ \E h \in Heads : ReportChecks(h)
    BY <1>3, <2>4 DEF PostFindings, ReportChecks, Heads
  <2> QED BY <2>1, <2>2, <2>3, <2>4 DEF Host
<1>5. checks' \in [Heads -> {"none", "pending", "green", "red"}] /\ findings' \in Findings
  BY DEF MergeInv, MergeTypeOK, Host, Push, ReportChecks, JudgeMergeability,
     PostFindings, ByHand, Findings
<1>6. SeenOK'
  <2>1. review'.head \in Nat
    BY <1>4 DEF Review, Heads
  <2> QED BY <1>1, <1>3, <1>4, <2>1 DEF MergeInv, SeenOK, EngineAt, Heads
<1>7. LandedOK'
  BY <1>1, <1>4 DEF MergeInv, LandedOK
<1> QED BY <1>2, <1>4, <1>5, <1>6, <1>7 DEF MergeInv, MergeTypeOK

LEMMA MergeSpecInv == MergeSpec => []MergeInv
<1>1. MergeInv /\ [MergeNext]_mergeVars => MergeInv'
  <2> SUFFICES ASSUME MergeInv, [MergeNext]_mergeVars PROVE MergeInv'
    OBVIOUS
  <2>1. CASE MergeNext
    BY <2>1, BeginKeeps, LookKeeps, GateKeeps, MergeReviewKeeps, HostKeeps DEF MergeNext, Call
  <2>2. CASE UNCHANGED mergeVars
    BY <2>2 DEF mergeVars, MergeInv, MergeTypeOK, CallOK, AttemptsAllOrNone, SeenOK, LandedOK, EngineAt
  <2> QED BY <2>1, <2>2
<1> QED BY MergeInitInv, <1>1, PTL DEF MergeSpec

-----------------------------------------------------------------------------
(* The review, the call and the row are well-formed whatever happens on the  *)
(* host; no call makes more than maxAttempts attempts, or ends with some of  *)
(* the attempts counted and some not.                                        *)
THEOREM AttemptsCounted == MergeSpec => []AttemptsAreWhole
<1>1. MergeInv => AttemptsAreWhole
  BY DEF MergeInv, CallOK, AttemptsAreWhole
<1> QED BY MergeSpecInv, <1>1, PTL

(* A merge whose answer was lost is never taken for a refusal.              *)
THEOREM LandedMergesStand == MergeSpec => []LandedNeverRefused
<1>1. MergeInv => LandedNeverRefused
  BY DEF MergeInv, LandedOK, LandedNeverRefused
<1> QED BY MergeSpecInv, <1>1, PTL

(* On GitHub, and where the config does not rebase, the sentinel merges only *)
(* what has passed the repo's review gate, whatever is pushed and reported   *)
(* while it evaluates the gate.                                              *)
THEOREM GateHolds == MergeSpec => GateBeforePlainMerge
<1> DEFINE Plain == SentinelMerges /\ review.scmProvider = "github" /\ ~engine.policy.rebase
<1>1. MergeInv /\ [MergeNext]_mergeVars => [Plain => review.head \in engine.passed]_mergeVars
  <2> SUFFICES ASSUME MergeInv, MergeNext, Plain PROVE review.head \in engine.passed
    OBVIOUS
  <2>1. MergeReview
    BY DEF MergeNext, Call, Host, Begin, LookAtReview, EvaluateReviewGate,
       ListCommitChecks,
           RunRemediationPlan, Push, ReportChecks, JudgeMergeability, PostFindings,
           ByHand,
           SentinelMerges, MergeInv, MergeTypeOK, Review
  <2>2. engine.at = "merge" /\ HeadAccepted
    BY <2>1 DEF MergeReview, EngineAt, SentinelMerges
  <2>3. ~engine.rebase
    BY <2>2 DEF MergeInv, CallOK
  <2>4. engine.seen.head \in engine.passed /\ engine.seen.head \in Heads
        /\ engine.seen.head <= review.head
    BY <2>2, <2>3 DEF MergeInv, SeenOK, EngineAt
  <2>5. review.head = 1
    BY <2>2 DEF HeadAccepted, RunHead
  <2> QED BY <2>4, <2>5 DEF Heads
<1> QED BY MergeSpecInv, <1>1, PTL DEF MergeSpec, GateBeforePlainMerge
=============================================================================
