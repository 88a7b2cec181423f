-------------------------- MODULE SlackLoopProofs --------------------------
(***************************************************************************)
(* Proofs about SlackLoop, for any channels, any number of requests at     *)
(* once, and any bounds.                                                   *)
(*                                                                         *)
(* The type invariant comes first, action by action (Typed).  Then three   *)
(* counts that have nothing to do with one another, each with the part of  *)
(* the state it needs: decisions against approvals and reruns              *)
(* (DecisionsInv), rounds against the runs they stand for (DepthInv), and  *)
(* decisions against the notes that asked for them (NotesInv).             *)
(***************************************************************************)
EXTENDS SlackLoop, FiniteSetTheorems, TLAPS

-----------------------------------------------------------------------------
(* Runs and loop states.                                                   *)

Run == [base: Nat, status: RunStatus, review: BOOLEAN,
        by: {"intake", "slack", "operator"}, loop: LoopState]

LEMMA Bounds == MaxRuns \in Nat /\ MaxRuns >= 1 /\ MaxInputs \in Nat
BY LoopAssumption

(* A decision becomes due only where one is requested in a review, and a   *)
(* review is pending only where that was requested.                        *)
Follows(old, new, request) ==
  /\ new = "DECISION_REQUIRED" =>
       \/ old = "DECISION_REQUIRED"
       \/ old = "REVIEW_PENDING" /\ request = "DECISION_REQUIRED"
  /\ new = "REVIEW_PENDING" => old = "REVIEW_PENDING" \/ request = "REVIEW_PENDING"

LEMMA LoopStates ==
  ASSUME NEW loop \in LoopState, NEW request \in LoopState \cup {NoRequest},
         NEW status \in RunStatus
  PROVE  /\ ResolveLoopState(loop, request, status) \in LoopState
         /\ Follows(loop, ResolveLoopState(loop, request, status), request)
<1> DEFINE new == ResolveLoopState(loop, request, status)
<1>1. CASE request = NoRequest
  <2>1. new = InferLoopState(status, loop)
    BY <1>1 DEF ResolveLoopState
  <2>2. \/ new = loop
        \/ new \in {"RERUN_QUEUED", "QUEUED", "DONE", "PAUSED", "FAILED", "RUNNING", "MR_OPEN"}
    <3>1. CASE status = "QUEUED"
      BY <2>1, <3>1 DEF InferLoopState
    <3>2. CASE status = "DONE"
      BY <2>1, <3>2 DEF InferLoopState
    <3>3. CASE status = "FAILED"
      BY <2>1, <3>3 DEF InferLoopState
    <3>4. CASE status \in RunStatus \ {"QUEUED", "DONE", "FAILED"}
      BY <2>1, <3>4 DEF InferLoopState
    <3> QED BY <3>1, <3>2, <3>3, <3>4
  <2> HIDE DEF new
  <2>3. new \in LoopState /\ Follows(loop, new, request)
    BY <2>2 DEF LoopState, Follows
  <2> QED BY <2>3 DEF new
<1>2. CASE request \in LoopState
  <2>1. request # NoRequest
    BY <1>2 DEF LoopState, NoRequest
  <2>2. \/ new = loop
        \/ new = request /\ (loop = request \/ request \in LoopSuccessors[loop])
    BY <2>1 DEF ResolveLoopState, CanPersistLoopTransition
  <2>3. request = "DECISION_REQUIRED" /\ request \in LoopSuccessors[loop] => loop = "REVIEW_PENDING"
    BY DEF LoopState, LoopSuccessors
  <2> HIDE DEF new
  <2>4. new \in LoopState /\ Follows(loop, new, request)
    BY <1>2, <2>2, <2>3 DEF Follows
  <2> QED BY <2>4 DEF new
<1> QED BY <1>1, <1>2

(* The runs stay what they are based on, and whom they come from.          *)
Grows ==
  /\ runs' \in Seq(Run) /\ Len(runs') \in Len(runs)..MaxRuns
  /\ \A r \in 1..Len(runs') : runs'[r].base < r
  /\ \A r \in RunIds : runs'[r].base = runs[r].base /\ runs'[r].by = runs[r].by
Stays == Grows /\ Len(runs') = Len(runs)

(* Loop states in step with the request for run r.                         *)
Loops(r, request) ==
  /\ Follows(runs[r].loop, runs'[r].loop, request)
  /\ \A s \in RunIds \ {r} : runs'[s].loop = runs[s].loop

(* A decision that becomes due is noted.                                   *)
Noted(r) ==
  \/ /\ decisions' = decisions
     /\ runs'[r].loop = "DECISION_REQUIRED" => runs[r].loop = "DECISION_REQUIRED"
  \/ decisions' = Append(decisions, r) /\ runs[r].loop # "DECISION_REQUIRED"

LEMMA RunsAreRuns ==
  ASSUME TypeOK
  PROVE  /\ runs \in Seq(Run) /\ Len(runs) \in Nat /\ Len(runs) \in 1..MaxRuns
         /\ \A r \in RunIds : runs[r] \in Run /\ runs[r].base < r /\ runs[r].base \in Nat
<1>1. runs \in Seq(Run) /\ Len(runs) \in 1..MaxRuns /\ \A r \in RunIds : runs[r].base < r
  BY DEF TypeOK, Run
<1>2. \A r \in RunIds : runs[r] \in Run
  BY <1>1 DEF RunIds
<1> QED BY <1>1, <1>2, Bounds DEF Run

LEMMA MovedRuns ==
  ASSUME TypeOK, NEW r \in RunIds, NEW request \in LoopState \cup {NoRequest},
         NEW status \in RunStatus
  PROVE  LET new == Moved(runs[r], request, status) IN
         /\ new \in Run
         /\ new.base = runs[r].base /\ new.by = runs[r].by /\ new.review = runs[r].review
         /\ Follows(runs[r].loop, new.loop, request)
<1> DEFINE loop == ResolveLoopState(runs[r].loop, request, status)
<1>1. runs[r] \in Run /\ runs[r].loop \in LoopState
  BY RunsAreRuns DEF Run
<1>2. loop \in LoopState /\ Follows(runs[r].loop, loop, request)
  BY <1>1, LoopStates
<1>3. Moved(runs[r], request, status) = [runs[r] EXCEPT !.status = status, !.loop = loop]
  BY DEF Moved
<1> HIDE DEF loop
<1> QED BY <1>1, <1>2, <1>3 DEF Run

LEMMA WriteRun ==
  ASSUME TypeOK, NEW r \in RunIds, NEW new \in Run, new.base = runs[r].base, new.by = runs[r].by,
         runs' = [runs EXCEPT ![r] = new]
  PROVE  Stays /\ runs'[r] = new /\ \A s \in RunIds \ {r} : runs'[s] = runs[s]
<1>1. runs \in Seq(Run) /\ Len(runs) \in 1..MaxRuns /\ \A s \in RunIds : runs[s].base < s
  BY RunsAreRuns
<1>2. runs' \in Seq(Run) /\ Len(runs') = Len(runs)
  BY <1>1 DEF RunIds
<1>3. runs'[r] = new /\ \A s \in RunIds \ {r} : runs'[s] = runs[s]
  BY <1>1 DEF RunIds
<1> QED BY <1>1, <1>2, <1>3 DEF Stays, Grows, RunIds

LEMMA MoveWrites ==
  ASSUME TypeOK, NEW r \in RunIds, NEW request \in LoopState \cup {NoRequest},
         NEW status \in RunStatus, Move(r, request, status)
  PROVE  /\ Stays /\ Loops(r, request) /\ Noted(r)
         /\ request # "DECISION_REQUIRED" => decisions' = decisions
<1> DEFINE new == Moved(runs[r], request, status)
<1>1. /\ new \in Run /\ new.base = runs[r].base /\ new.by = runs[r].by
      /\ Follows(runs[r].loop, new.loop, request)
  BY MovedRuns
<1>2. /\ runs' = [runs EXCEPT ![r] = new]
      /\ decisions' = IF new.loop = "DECISION_REQUIRED" /\ runs[r].loop # "DECISION_REQUIRED"
                      THEN Append(decisions, r) ELSE decisions
  BY DEF Move
<1> HIDE DEF new
<1>3. Stays /\ runs'[r] = new /\ \A s \in RunIds \ {r} : runs'[s] = runs[s]
  BY <1>1, <1>2, WriteRun
<1> QED BY <1>1, <1>2, <1>3 DEF Loops, Noted, Follows

LEMMA StepWrites ==
  ASSUME TypeOK, NEW r \in RunIds, NEW status \in RunStatus, Step(r, status)
  PROVE  Stays /\ Loops(r, NoRequest) /\ Noted(r) /\ decisions' = decisions
BY MoveWrites DEF Step, NoRequest

LEMMA RequestWrites ==
  ASSUME TypeOK, NEW r \in RunIds, NEW loop \in LoopState, Request(r, loop)
  PROVE  /\ Stays /\ Loops(r, loop) /\ Noted(r)
         /\ loop # "DECISION_REQUIRED" => decisions' = decisions
<1>1. runs[r].status \in RunStatus
  BY RunsAreRuns DEF Run
<1> QED BY <1>1, MoveWrites DEF Request

LEMMA PublishWrites ==
  ASSUME TypeOK, NEW r \in RunIds, Publish(r)
  PROVE  Stays /\ Loops(r, NoRequest) /\ Noted(r) /\ decisions' = decisions
<1> DEFINE moved == Moved(runs[r], NoRequest, "PR_OPEN")
           new == [moved EXCEPT !.review = TRUE]
<1>1. /\ moved \in Run /\ moved.base = runs[r].base /\ moved.by = runs[r].by
      /\ Follows(runs[r].loop, moved.loop, NoRequest)
  BY MovedRuns DEF NoRequest, RunStatus, ReviewPhase
<1>2. runs' = [runs EXCEPT ![r] = new] /\ decisions' = decisions
  BY RunsAreRuns DEF Publish, RunIds
<1> HIDE DEF moved
<1>3. new \in Run /\ new.base = moved.base /\ new.by = moved.by /\ new.loop = moved.loop
  BY <1>1 DEF Run
<1> HIDE DEF new
<1>4. Stays /\ runs'[r] = new /\ \A s \in RunIds \ {r} : runs'[s] = runs[s]
  BY <1>1, <1>2, <1>3, WriteRun
<1> QED BY <1>1, <1>2, <1>3, <1>4 DEF Loops, Noted, Follows, NoRequest

(* Another run, based on r.                                                *)
Added(r, by) ==
  /\ Grows /\ Len(runs') = Len(runs) + 1
  /\ \A s \in RunIds : runs'[s] = runs[s]
  /\ runs'[Len(runs) + 1].base = r /\ runs'[Len(runs) + 1].by = by
  /\ runs'[Len(runs) + 1].loop = "RERUN_QUEUED"

LEMMA RerunWrites ==
  ASSUME TypeOK, NEW r \in RunIds, NEW by \in {"slack", "operator"}, Len(runs) < MaxRuns,
         runs' = WithRerun(r, by)
  PROVE  Added(r, by)
<1> DEFINE new == NewRun(r, runs[r].review, by)
<1>1. /\ runs \in Seq(Run) /\ Len(runs) \in 1..MaxRuns /\ runs[r].review \in BOOLEAN
      /\ \A s \in RunIds : runs[s].base < s
  BY RunsAreRuns DEF Run
<1>2. new \in Run /\ new.base = r /\ new.by = by /\ new.loop = "RERUN_QUEUED"
  BY <1>1 DEF NewRun, Run, RunIds, RunStatus, ExecutionPhase, LoopState
<1>3. runs' = Append(runs, new)
  BY DEF WithRerun
<1> HIDE DEF new
<1>4. /\ runs' \in Seq(Run) /\ Len(runs') = Len(runs) + 1 /\ runs'[Len(runs) + 1] = new
      /\ \A s \in RunIds : runs'[s] = runs[s]
  BY <1>1, <1>2, <1>3 DEF RunIds
<1>5. Grows
  BY <1>1, <1>2, <1>4, Bounds DEF Grows, RunIds
<1> QED BY <1>2, <1>4, <1>5 DEF Added

-----------------------------------------------------------------------------
(* Requests and threads.                                                   *)

Places == {"idle"} \cup ClickPlaces \cup EventPlaces
Clicks(n) == [action: Actions, chan: Channels \cup {NoThread}, run: 0..n, round: Nat]

(* x may be a request when there are n runs and m events.                  *)
Fits(x, n, m) ==
  /\ x \in [at: Places, click: Clicks(n), event: 0..m, run: 0..n]
  /\ x.at \in EventPlaces => x.event # 0
  /\ x.at \in ClickPlaces \cup {"transition"} => x.run # 0
  /\ x.at \in ClickPlaces => x.click.chan \in Channels /\ x.click.run # 0

LEMMA RequestsFit ==
  ASSUME TypeOK
  PROVE  \A q \in Requests : Fits(req[q], Len(runs), Len(events))
BY DEF TypeOK, Fits, Places, Clicks, Clicked, InClick, InEvent

LEMMA LaterFits ==
  ASSUME NEW x, NEW n \in Nat, NEW m \in Nat, NEW n1 \in Nat, NEW m1 \in Nat, n <= n1, m <= m1,
         Fits(x, n, m)
  PROVE  Fits(x, n1, m1)
<1>1. 0..n \subseteq 0..n1 /\ 0..m \subseteq 0..m1
  OBVIOUS
<1>2. x.click \in Clicks(n1)
  BY <1>1 DEF Fits, Clicks
<1> QED BY <1>1, <1>2 DEF Fits

LEMMA IdleFits ==
  ASSUME NEW n \in Nat, NEW m \in Nat
  PROVE  Fits(Idle, n, m)
BY DEF Fits, Idle, NoClick, Clicks, Places, Actions, ClickPlaces, EventPlaces

(* The parts of TypeOK that a step is checked for.                         *)
RequestsOK == /\ req \in [Requests -> [at: Places, click: Clicks(Len(runs)),
                                      event: 0..Len(events), run: 0..Len(runs)]]
              /\ \A q \in Requests : Fits(req[q], Len(runs), Len(events))
ThreadsOK == /\ bindings \in [Channels -> [run: RunIds, round: Nat] \cup {NoThread}]
             /\ buttons \subseteq [chan: Channels, run: RunIds, round: Nat]
EventsOK == /\ events \in Seq({"merge_request", "note"}) /\ inputs \in 0..MaxInputs
            /\ raced \subseteq DOMAIN events
HistoryOK == decisions \in Seq(RunIds) /\ granted \cup lost \cup pended \subseteq RunIds

LEMMA Parts ==
  ASSUME TypeOK
  PROVE  RequestsOK /\ ThreadsOK /\ EventsOK /\ HistoryOK
<1>1. RequestsOK
  BY RequestsFit DEF TypeOK, RequestsOK, Places, Clicks, Clicked
<1>2. ThreadsOK /\ EventsOK /\ HistoryOK
  BY DEF TypeOK, ThreadsOK, EventsOK, HistoryOK
<1> QED BY <1>1, <1>2

LEMMA Together ==
  ASSUME TypeOK, Grows, RequestsOK', ThreadsOK', EventsOK', HistoryOK'
  PROVE  TypeOK'
<1>1. /\ runs' \in Seq(Run) /\ Len(runs') \in 1..MaxRuns
      /\ \A r \in 1..Len(runs') : runs'[r].base < r
  BY RunsAreRuns, Bounds DEF Grows
<1>2. RunIds' = 1..Len(runs')
  BY DEF RunIds
<1>3. (\A q \in Requests : /\ InEvent(q) => req[q].event # 0
                           /\ InClick(q) \/ req[q].at = "transition" => req[q].run # 0
                           /\ InClick(q) => req[q].click.chan \in Channels /\ req[q].click.run # 0)'
  BY DEF RequestsOK, Fits, InEvent, InClick
<1>4. (req \in [Requests -> [at: {"idle"} \cup ClickPlaces \cup EventPlaces, click: Clicked,
                             event: 0..Len(events), run: 0..Len(runs)]])'
  BY DEF RequestsOK, Places, Clicks, Clicked
<1> QED BY <1>1, <1>2, <1>3, <1>4 DEF TypeOK, Run, ThreadsOK, EventsOK, HistoryOK

Longer == /\ Len(runs') \in Nat /\ Len(runs) <= Len(runs')
          /\ Len(events') \in Nat /\ Len(events) <= Len(events')

(* Request q becomes x, the others stay as they are.                       *)
LEMMA BecomesFits ==
  ASSUME TypeOK, Longer, NEW q \in Requests, NEW x, Fits(x, Len(runs'), Len(events')),
         req' = [req EXCEPT ![q] = x]
  PROVE  RequestsOK' /\ req'[q] = x /\ \A p \in Requests \ {q} : req'[p] = req[p]
<1>1. req'[q] = x /\ \A p \in Requests \ {q} : req'[p] = req[p]
  BY DEF TypeOK
<1>2. DOMAIN req' = Requests /\ req' = [p \in Requests |-> req'[p]]
  BY DEF TypeOK
<1>3. ASSUME NEW p \in Requests
      PROVE  Fits(req'[p], Len(runs'), Len(events'))
  <2>1. CASE p = q
    BY <1>1, <2>1
  <2>2. CASE p # q
    BY <1>1, <2>2, RequestsFit, LaterFits, RunsAreRuns, Parts DEF Longer, EventsOK
  <2> QED BY <2>1, <2>2
<1>4. \A p \in Requests : req'[p] \in [at: Places, click: Clicks(Len(runs')),
                                      event: 0..Len(events'), run: 0..Len(runs')]
  BY <1>3 DEF Fits
<1> QED BY <1>1, <1>2, <1>3, <1>4 DEF RequestsOK

LEMMA FinishFits ==
  ASSUME TypeOK, Longer, NEW q \in Requests, Finish(q)
  PROVE  RequestsOK' /\ req'[q] = Idle /\ \A p \in Requests \ {q} : req'[p] = req[p]
BY BecomesFits, IdleFits DEF Finish, Longer

LEMMA GoFits ==
  ASSUME TypeOK, Longer, NEW q \in Requests, NEW place \in Places, Go(q, place),
         place \in EventPlaces => req[q].at \in EventPlaces,
         place # "transition", place \in ClickPlaces => req[q].at \in ClickPlaces
  PROVE  /\ RequestsOK' /\ req'[q].at = place
         /\ req'[q].run = req[q].run /\ req'[q].click = req[q].click /\ req'[q].event = req[q].event
         /\ \A p \in Requests \ {q} : req'[p] = req[p]
<1> DEFINE x == [req[q] EXCEPT !.at = place]
<1>1. Fits(req[q], Len(runs'), Len(events'))
  BY RequestsFit, LaterFits, RunsAreRuns, Parts DEF Longer, EventsOK
<1>2. /\ x.at = place /\ x.run = req[q].run /\ x.click = req[q].click /\ x.event = req[q].event
      /\ x \in [at: Places, click: Clicks(Len(runs')), event: 0..Len(events'), run: 0..Len(runs')]
  BY <1>1 DEF Fits
<1>3. req' = [req EXCEPT ![q] = x]
  BY DEF Go, TypeOK
<1> HIDE DEF x
<1>4. Fits(x, Len(runs'), Len(events'))
  BY <1>1, <1>2 DEF Fits, ClickPlaces, EventPlaces
<1> QED BY <1>2, <1>3, <1>4, BecomesFits

-----------------------------------------------------------------------------
(* Every action keeps the types.                                           *)

LEMMA StaysLonger ==
  ASSUME TypeOK, Stays, UNCHANGED events
  PROVE  Longer /\ RunIds' = RunIds
BY RunsAreRuns, Parts DEF Longer, Stays, Grows, RunIds, EventsOK

LEMMA AddedLonger ==
  ASSUME TypeOK, NEW r, NEW by, Added(r, by), UNCHANGED events
  PROVE  Longer /\ RunIds \subseteq RunIds' /\ Len(runs) + 1 \in RunIds'
BY RunsAreRuns, Parts DEF Longer, Added, Grows, RunIds, EventsOK

LEMMA StaysOK ==
  ASSUME TypeOK, UNCHANGED runs
  PROVE  Stays /\ RunIds' = RunIds
BY RunsAreRuns, Bounds DEF Stays, Grows, RunIds

LEMMA UnmovedRequests ==
  ASSUME TypeOK, Longer, UNCHANGED req
  PROVE  RequestsOK'
<1>1. \A p \in Requests : Fits(req'[p], Len(runs'), Len(events'))
  BY RequestsFit, LaterFits, RunsAreRuns, Parts DEF Longer, EventsOK
<1>2. req' = [p \in Requests |-> req'[p]]
  BY DEF TypeOK
<1> QED BY <1>1, <1>2 DEF RequestsOK, Fits

LEMMA UnmovedThreads ==
  ASSUME TypeOK, RunIds \subseteq RunIds', UNCHANGED <<bindings, buttons>>
  PROVE  ThreadsOK'
<1>1. [run: RunIds, round: Nat] \subseteq [run: RunIds', round: Nat]
      /\ [chan: Channels, run: RunIds, round: Nat] \subseteq [chan: Channels, run: RunIds', round: Nat]
  OBVIOUS
<1> QED BY <1>1, Parts DEF ThreadsOK

LEMMA UnmovedHistory ==
  ASSUME TypeOK, RunIds \subseteq RunIds', UNCHANGED <<decisions, history>>
  PROVE  HistoryOK'
<1>1. Seq(RunIds) \subseteq Seq(RunIds')
  OBVIOUS
<1> QED BY <1>1, Parts DEF HistoryOK, history

LEMMA NotedOK ==
  ASSUME TypeOK, NEW r \in RunIds, Noted(r), RunIds' = RunIds
  PROVE  decisions' \in Seq(RunIds')
BY Parts DEF Noted, HistoryOK

LEMMA CountOK ==
  ASSUME TypeOK, Count
  PROVE  inputs' \in 0..MaxInputs
BY Parts, Bounds DEF Count, EventsOK

LEMMA BindOK ==
  ASSUME TypeOK, NEW c \in Channels, NEW run \in RunIds, NEW round \in Nat,
         Bind(c, run, round), Show, UNCHANGED runs
  PROVE  /\ ThreadsOK'
         /\ bindings'[c] = [run |-> run, round |-> round]
         /\ \A d \in Channels \ {c} : bindings'[d] = bindings[d]
<1>1. /\ bindings' \in [Channels -> [run: RunIds', round: Nat] \cup {NoThread}]
      /\ bindings'[c] = [run |-> run, round |-> round]
      /\ \A d \in Channels \ {c} : bindings'[d] = bindings[d]
  BY Parts DEF ThreadsOK, Bind, RunIds
<1>2. buttons' \subseteq [chan: Channels, run: RunIds', round: Nat]
  <2>1. \A d \in Channels : bindings'[d] # NoThread =>
           [chan |-> d, run |-> bindings'[d].run, round |-> bindings'[d].round]
             \in [chan: Channels, run: RunIds', round: Nat]
    BY <1>1
  <2>2. buttons \subseteq [chan: Channels, run: RunIds', round: Nat]
    BY Parts DEF ThreadsOK, RunIds
  <2> QED BY <2>1, <2>2 DEF Show
<1> QED BY <1>1, <1>2 DEF ThreadsOK

(* Who handles a click, and who an event.                                  *)
LEMMA ClickHandled ==
  ASSUME TypeOK, NEW q \in Requests, req[q].at \in ClickPlaces
  PROVE  /\ req[q].run \in RunIds /\ req[q].click.chan \in Channels
         /\ req[q].click.round \in Nat /\ req[q].click.run \in RunIds
BY RequestsFit, RunsAreRuns DEF Fits, Clicks, RunIds, ClickPlaces, EventPlaces

LEMMA EventHandled ==
  ASSUME TypeOK, NEW q \in Requests, req[q].at \in EventPlaces
  PROVE  /\ req[q].event \in DOMAIN events
         /\ Kind(q) \in {"merge_request", "note"}
         /\ req[q].at = "transition" => req[q].run \in RunIds
<1>1. Fits(req[q], Len(runs), Len(events)) /\ events \in Seq({"merge_request", "note"})
  BY RequestsFit, Parts DEF EventsOK
<1>2. req[q].event \in DOMAIN events
  BY <1>1 DEF Fits
<1> QED BY <1>1, <1>2, RunsAreRuns DEF Fits, Kind, RunIds

LEMMA ExecuteTyped ==
  ASSUME TypeOK, NEW r \in RunIds, Execute(r)
  PROVE  TypeOK' /\ Stays /\ Loops(r, NoRequest) /\ Noted(r) /\ decisions' = decisions
<1>1. Stays /\ Loops(r, NoRequest) /\ Noted(r) /\ decisions' = decisions
  BY StepWrites, PublishWrites DEF Execute, RunStatus, ExecutionPhase, ReviewPhase
<1>2. UNCHANGED <<bindings, buttons, kv, events, req, history>> /\ (Count \/ UNCHANGED inputs)
  BY DEF Execute
<1>3. Longer /\ RunIds' = RunIds
  BY <1>1, <1>2, StaysLonger
<1>4. RequestsOK' /\ ThreadsOK' /\ HistoryOK'
  BY <1>1, <1>2, <1>3, UnmovedRequests, UnmovedThreads, UnmovedHistory
<1>5. EventsOK'
  BY <1>2, CountOK, Parts DEF EventsOK, history
<1> QED BY <1>1, <1>4, <1>5, Together DEF Stays

LEMMA RequestChangesTyped ==
  ASSUME TypeOK, NEW r \in RunIds, RequestChanges(r)
  PROVE  TypeOK' /\ Added(r, "operator")
<1>1. Added(r, "operator")
  BY RerunWrites DEF RequestChanges
<1>2. UNCHANGED <<bindings, buttons, kv, events, req, decisions, history>> /\ Count
  BY DEF RequestChanges
<1>3. Longer /\ RunIds \subseteq RunIds'
  BY <1>1, <1>2, AddedLonger
<1>4. RequestsOK' /\ ThreadsOK' /\ HistoryOK'
  BY <1>2, <1>3, UnmovedRequests, UnmovedThreads, UnmovedHistory
<1>5. EventsOK'
  BY <1>2, CountOK, Parts DEF EventsOK, history
<1> QED BY <1>1, <1>4, <1>5, Together DEF Added

(* What an action without effect on the board is checked for.              *)
LEMMA Aside ==
  ASSUME TypeOK, UNCHANGED <<board, events, history>>, RequestsOK', ThreadsOK',
         Count \/ UNCHANGED inputs
  PROVE  TypeOK'
<1>1. UNCHANGED runs /\ UNCHANGED decisions
  BY DEF board
<1>2. Grows /\ RunIds' = RunIds
  BY <1>1, StaysOK DEF Stays
<1>3. HistoryOK' /\ EventsOK'
  BY <1>1, <1>2, UnmovedHistory, CountOK, Parts DEF EventsOK, history
<1> QED BY <1>2, <1>3, Together

LEMMA StillLonger ==
  ASSUME TypeOK, UNCHANGED <<runs, events>>
  PROVE  Longer /\ RunIds' = RunIds /\ Grows
BY StaysOK, StaysLonger DEF Stays

(* What a click on button b leads to.                                      *)
Clicking(b, action) ==
  [Idle EXCEPT !.at = ActionPlace[action], !.run = b.run,
               !.click = [action |-> action, chan |-> b.chan, run |-> b.run, round |-> b.round]]

LEMMA ClickTyped ==
  ASSUME TypeOK, NEW q \in Requests, NEW action \in Actions, Click(q, action)
  PROVE  /\ TypeOK' /\ req'[q].at \in {"approve", "pause", "close"}
         /\ \E b \in buttons :
              /\ req'[q].run = b.run
              /\ req'[q].click = [action |-> action, chan |-> b.chan, run |-> b.run, round |-> b.round]
         /\ \A p \in Requests \ {q} : req'[p] = req[p]
<1>1. PICK b \in buttons : req' = [req EXCEPT ![q] = Clicking(b, action)]
  BY DEF Click, Clicking
<1>2. b \in [chan: Channels, run: RunIds, round: Nat] /\ b.run \in 1..Len(runs)
  BY Parts DEF ThreadsOK, RunIds
<1>3. UNCHANGED <<runs, events, board, history, bindings, buttons>> /\ Count
  BY DEF Click, board
<1>4. Longer /\ RunIds' = RunIds
  BY <1>3, StillLonger
<1> DEFINE click == [action |-> action, chan |-> b.chan, run |-> b.run, round |-> b.round]
           x == Clicking(b, action)
<1>5. ActionPlace[action] \in {"approve", "pause", "close"}
  BY DEF ActionPlace, Actions
<1>6. /\ x.at = ActionPlace[action] /\ x.event = 0 /\ x.run = b.run /\ x.click = click
      /\ Idle \in [at: Places, click: Clicks(Len(runs')), event: 0..Len(events'), run: 0..Len(runs')]
  BY <1>4, IdleFits DEF Clicking, Idle, Longer, Fits
<1>7. click \in Clicks(Len(runs'))
  BY <1>2, <1>3 DEF Clicks
<1> HIDE DEF click
<1>8. x \in [at: Places, click: Clicks(Len(runs')), event: 0..Len(events'), run: 0..Len(runs')]
  <2>1. ASSUME NEW C, NEW Event, NEW RunId, NEW at \in Places, NEW run \in RunId, NEW c \in C,
               NEW y \in [at: Places, click: C, event: Event, run: RunId]
        PROVE  [y EXCEPT !.at = at, !.run = run, !.click = c]
                 \in [at: Places, click: C, event: Event, run: RunId]
    OBVIOUS
  <2>2. ActionPlace[action] \in Places /\ b.run \in 0..Len(runs')
    BY <1>2, <1>3, <1>5 DEF Places, ClickPlaces
  <2> QED BY <1>6, <1>7, <2>1, <2>2 DEF Clicking, click
<1>9. Fits(x, Len(runs'), Len(events'))
  BY <1>2, <1>5, <1>6, <1>8 DEF Fits, ClickPlaces, EventPlaces, click
<1> HIDE DEF x
<1>10. RequestsOK' /\ req'[q] = x /\ \A p \in Requests \ {q} : req'[p] = req[p]
  BY <1>1, <1>4, <1>9, BecomesFits DEF x
<1>11. TypeOK'
  BY <1>3, <1>4, <1>10, UnmovedThreads, Aside
<1> QED BY <1>5, <1>6, <1>10, <1>11 DEF click
(* An approval is granted where a decision is due, and takes the decision.  *)
Granted(q) ==
  LET r == req[q].run IN
  /\ Stays /\ Loops(r, "RERUN_QUEUED") /\ Noted(r) /\ decisions' = decisions
  /\ runs[r].loop = "DECISION_REQUIRED" /\ runs'[r].loop = "RERUN_QUEUED"
  /\ granted' = granted \cup {r}
  /\ req'[q].at = "changes" /\ req'[q].run = r /\ req'[q].click = req[q].click

LEMMA DecisionIsTaken ==
  ASSUME TypeOK, NEW r \in RunIds, runs[r].loop = "DECISION_REQUIRED", Request(r, "RERUN_QUEUED")
  PROVE  runs'[r].loop = "RERUN_QUEUED"
<1> DEFINE new == Moved(runs[r], "RERUN_QUEUED", runs[r].status)
<1>1. ResolveLoopState("DECISION_REQUIRED", "RERUN_QUEUED", runs[r].status) = "RERUN_QUEUED"
  BY DEF ResolveLoopState, NoRequest, IsTerminalLoopState, CanPersistLoopTransition, LoopSuccessors
<1>2. runs' = [runs EXCEPT ![r] = new]
  BY DEF Request, Move
<1>3. runs'[r] = new
  BY <1>2, RunsAreRuns DEF RunIds
<1>4. runs[r] \in Run
  BY RunsAreRuns
<1> QED BY <1>1, <1>3, <1>4 DEF Moved, Run

LEMMA ApproveTyped ==
  ASSUME TypeOK, NEW q \in Requests, Approve(q)
  PROVE  /\ TypeOK' /\ \A p \in Requests \ {q} : req'[p] = req[p]
         /\ \/ Granted(q)
            \/ UNCHANGED <<board, granted>> /\ req'[q] = Idle
<1>1. req[q].at = "approve" /\ req[q].at \in ClickPlaces
  BY DEF Approve, ClickPlaces
<1>2. req[q].run \in RunIds
  BY <1>1, ClickHandled
<1>3. UNCHANGED <<bindings, buttons, kv, events, inputs, pended, lost, raced>>
  BY DEF Approve
<1>4. CASE MayRerun(runs[req[q].run])
  <2>1. /\ Request(req[q].run, "RERUN_QUEUED") /\ granted' = granted \cup {req[q].run}
        /\ Go(q, "changes") /\ runs[req[q].run].loop = "DECISION_REQUIRED"
    BY <1>4 DEF Approve, AfterApproval, MayRerun
  <2>2. /\ Stays /\ Loops(req[q].run, "RERUN_QUEUED") /\ Noted(req[q].run) /\ decisions' = decisions
        /\ runs'[req[q].run].loop = "RERUN_QUEUED"
    BY <1>2, <2>1, RequestWrites, DecisionIsTaken DEF LoopState
  <2>3. Longer /\ RunIds' = RunIds
    BY <1>3, <2>2, StaysLonger
  <2>4. RequestsOK' /\ req'[q].at = "changes" /\ req'[q].run = req[q].run
        /\ req'[q].click = req[q].click /\ \A p \in Requests \ {q} : req'[p] = req[p]
    BY <1>1, <2>1, <2>3, GoFits DEF Places, ClickPlaces, EventPlaces
  <2>5. ThreadsOK' /\ EventsOK' /\ HistoryOK'
    BY <1>2, <1>3, <2>1, <2>2, <2>3, UnmovedThreads, Parts DEF EventsOK, HistoryOK
  <2> QED BY <2>1, <2>2, <2>4, <2>5, Together DEF Stays, Granted
<1>5. CASE ~MayRerun(runs[req[q].run])
  <2>1. UNCHANGED <<board, granted>> /\ Finish(q)
    BY <1>5 DEF Approve, AfterApproval
  <2>2. Longer /\ RunIds' = RunIds
    BY <1>3, <2>1, StillLonger DEF board
  <2>3. RequestsOK' /\ req'[q] = Idle /\ \A p \in Requests \ {q} : req'[p] = req[p]
    BY <2>1, <2>2, FinishFits
  <2> QED BY <1>3, <2>1, <2>2, <2>3, UnmovedThreads, Aside DEF history
<1> QED BY <1>4, <1>5

LEMMA RerunTyped ==
  ASSUME TypeOK, NEW q \in Requests, Rerun(q)
  PROVE  /\ TypeOK' /\ req[q].run \in RunIds /\ Added(req[q].run, "slack")
         /\ req'[q].at = "schedule" /\ req'[q].run = Len(runs) + 1
         /\ req'[q].click = req[q].click
         /\ \A p \in Requests \ {q} : req'[p] = req[p]
<1>1. req[q].at = "changes" /\ req[q].at \in ClickPlaces
  BY DEF Rerun, ClickPlaces
<1>2. req[q].run \in RunIds
  BY <1>1, ClickHandled
<1>3. Added(req[q].run, "slack")
  BY <1>2, RerunWrites DEF Rerun
<1>4. UNCHANGED <<bindings, buttons, kv, events, inputs, decisions, history>>
  BY DEF Rerun
<1>5. Longer /\ RunIds \subseteq RunIds' /\ Len(runs) + 1 \in RunIds' /\ Len(runs) + 1 # 0
  BY <1>3, <1>4, AddedLonger, RunsAreRuns
<1> DEFINE x == [req[q] EXCEPT !.at = "schedule", !.run = Len(runs) + 1]
<1>6. Fits(req[q], Len(runs'), Len(events'))
  BY <1>5, RequestsFit, LaterFits, RunsAreRuns, Parts DEF Longer, EventsOK
<1>7. x.at = "schedule" /\ x.run = Len(runs) + 1 /\ x.click = req[q].click
      /\ x \in [at: Places, click: Clicks(Len(runs')), event: 0..Len(events'), run: 0..Len(runs')]
  <2>1. req[q] \in [at: Places, click: Clicks(Len(runs')), event: 0..Len(events'), run: 0..Len(runs')]
    BY <1>6 DEF Fits
  <2>2. "schedule" \in Places /\ Len(runs) + 1 \in 0..Len(runs')
    BY <1>5, RunsAreRuns DEF Places, ClickPlaces, RunIds
  <2> QED BY <2>1, <2>2
<1>8. req' = [req EXCEPT ![q] = x]
  BY DEF Rerun, TypeOK
<1> HIDE DEF x
<1>9. Fits(x, Len(runs'), Len(events'))
  BY <1>1, <1>5, <1>6, <1>7 DEF Fits, ClickPlaces, EventPlaces
<1>10. RequestsOK' /\ req'[q] = x /\ \A p \in Requests \ {q} : req'[p] = req[p]
  BY <1>5, <1>8, <1>9, BecomesFits
<1>11. ThreadsOK' /\ HistoryOK' /\ EventsOK'
  BY <1>4, <1>5, UnmovedThreads, UnmovedHistory, Parts DEF EventsOK, history
<1> QED BY <1>2, <1>3, <1>7, <1>10, <1>11, Together DEF Added

(* A request goes on, and nothing else happens but to its binding.         *)
GoesOn(q, places) ==
  /\ req'[q].at \in places
  /\ req'[q].run = req[q].run /\ req'[q].click = req[q].click /\ req'[q].event = req[q].event
  /\ \A p \in Requests \ {q} : req'[p] = req[p]

LEMMA ScheduleTyped ==
  ASSUME TypeOK, NEW q \in Requests, Schedule(q)
  PROVE  TypeOK' /\ GoesOn(q, {"note"})
<1>1. /\ UNCHANGED <<board, events, history, runs, bindings, buttons, inputs>>
      /\ Go(q, "note") /\ req[q].at = "schedule"
  BY DEF Schedule, board
<1>2. Longer /\ RunIds' = RunIds
  BY <1>1, StillLonger
<1>3. RequestsOK' /\ GoesOn(q, {"note"})
  BY <1>1, <1>2, GoFits DEF Places, ClickPlaces, EventPlaces, GoesOn
<1> QED BY <1>1, <1>2, <1>3, UnmovedThreads, Aside

LEMMA RequestTyped ==
  ASSUME TypeOK, NEW q \in Requests, NEW loop \in LoopState, NEW place \in ClickPlaces,
         req[q].at \in ClickPlaces, Request(req[q].run, loop), loop # "DECISION_REQUIRED",
         Go(q, place), UNCHANGED <<bindings, buttons, kv, events, inputs, history>>
  PROVE  /\ TypeOK' /\ GoesOn(q, {place})
         /\ req[q].run \in RunIds
         /\ Stays /\ Loops(req[q].run, loop) /\ Noted(req[q].run) /\ decisions' = decisions
<1>1. req[q].run \in RunIds
  BY ClickHandled
<1>2. Stays /\ Loops(req[q].run, loop) /\ Noted(req[q].run) /\ decisions' = decisions
  BY <1>1, RequestWrites
<1>3. Longer /\ RunIds' = RunIds
  BY <1>2, StaysLonger
<1>4. RequestsOK' /\ GoesOn(q, {place})
  BY <1>3, GoFits DEF Places, ClickPlaces, EventPlaces, GoesOn
<1>5. ThreadsOK' /\ HistoryOK' /\ EventsOK'
  BY <1>2, <1>3, UnmovedThreads, UnmovedHistory, Parts DEF EventsOK, history
<1> QED BY <1>1, <1>2, <1>4, <1>5, Together DEF Stays

LEMMA NoteWorkflowTyped ==
  ASSUME TypeOK, NEW q \in Requests, NoteWorkflow(q)
  PROVE  /\ TypeOK' /\ GoesOn(q, {"bind"}) /\ req[q].run \in RunIds
         /\ Stays /\ Loops(req[q].run, "RERUN_QUEUED") /\ Noted(req[q].run) /\ decisions' = decisions
BY RequestTyped DEF NoteWorkflow, ClickPlaces, LoopState

LEMMA PauseTyped ==
  ASSUME TypeOK, NEW q \in Requests, Pause(q)
  PROVE  /\ TypeOK' /\ GoesOn(q, {"update"}) /\ req[q].run \in RunIds
         /\ Stays /\ Loops(req[q].run, "PAUSED") /\ Noted(req[q].run) /\ decisions' = decisions
BY RequestTyped DEF Pause, ClickPlaces, LoopState

(* A request ends.                                                         *)
Ends(q) == req'[q] = Idle /\ \A p \in Requests \ {q} : req'[p] = req[p]

LEMMA BindRerunTyped ==
  ASSUME TypeOK, NEW q \in Requests, BindRerun(q)
  PROVE  TypeOK' /\ Ends(q)
<1>1. /\ UNCHANGED <<board, events, history, runs, inputs>> /\ req[q].at \in ClickPlaces
      /\ Bind(req[q].click.chan, req[q].run, NextRound(req[q].click.round)) /\ Show /\ Finish(q)
  BY DEF BindRerun, board, ClickPlaces
<1>2. RequestsOK' /\ Ends(q)
  BY <1>1, StillLonger, FinishFits DEF Ends
<1>3. /\ req[q].click.chan \in Channels /\ req[q].run \in RunIds
      /\ NextRound(req[q].click.round) \in Nat
  BY <1>1, ClickHandled DEF NextRound
<1>4. ThreadsOK'
  BY <1>1, <1>3, BindOK
<1> QED BY <1>1, <1>2, <1>4, Aside

LEMMA CloseThreadTyped ==
  ASSUME TypeOK, NEW q \in Requests, CloseThread(q)
  PROVE  TypeOK' /\ Ends(q)
<1>1. /\ UNCHANGED <<board, events, history, runs, inputs, buttons>> /\ req[q].at \in ClickPlaces
      /\ bindings' = [bindings EXCEPT ![req[q].click.chan] = NoThread] /\ Finish(q)
  BY DEF CloseThread, board, ClickPlaces
<1>2. RequestsOK' /\ RunIds' = RunIds /\ Ends(q)
  BY <1>1, StillLonger, FinishFits DEF Ends
<1>3. ThreadsOK'
  BY <1>1, <1>2, ClickHandled, Parts DEF ThreadsOK
<1> QED BY <1>1, <1>2, <1>3, Aside

LEMMA UpdateBindingTyped ==
  ASSUME TypeOK, NEW q \in Requests, UpdateBinding(q)
  PROVE  TypeOK' /\ Ends(q)
<1>1. /\ UNCHANGED <<board, events, history, runs, inputs>> /\ req[q].at \in ClickPlaces
      /\ Bind(req[q].click.chan, req[q].click.run, req[q].click.round) /\ Show /\ Finish(q)
  BY DEF UpdateBinding, board, ClickPlaces
<1>2. RequestsOK' /\ Ends(q)
  BY <1>1, StillLonger, FinishFits DEF Ends
<1>3. ThreadsOK'
  BY <1>1, ClickHandled, BindOK
<1> QED BY <1>1, <1>2, <1>3, Aside

LEMMA MarkDeliveryTyped ==
  ASSUME TypeOK, NEW q \in Requests, MarkDelivery(q)
  PROVE  TypeOK' /\ GoesOn(q, {"slice"})
<1>1. /\ UNCHANGED <<board, events, history, runs, bindings, buttons, inputs>>
      /\ Go(q, "slice") /\ req[q].at = "mark"
  BY DEF MarkDelivery, board
<1>2. Longer /\ RunIds' = RunIds
  BY <1>1, StillLonger
<1>3. RequestsOK' /\ GoesOn(q, {"slice"})
  BY <1>1, <1>2, GoFits DEF Places, ClickPlaces, EventPlaces, GoesOn
<1> QED BY <1>1, <1>2, <1>3, UnmovedThreads, Aside

LEMMA ReadSliceTyped ==
  ASSUME TypeOK, NEW q \in Requests, ReadSlice(q)
  PROVE  /\ TypeOK' /\ req'[q].at = "transition" /\ req'[q].event = req[q].event
         /\ \A p \in Requests \ {q} : req'[p] = req[p]
<1>1. PICK r \in RunIds : req' = [req EXCEPT ![q].at = "transition", ![q].run = r]
  BY DEF ReadSlice, Reviewed
<1>2. UNCHANGED <<board, events, history, runs, bindings, buttons, inputs>> /\ req[q].at = "slice"
  BY DEF ReadSlice, board
<1>3. Longer /\ RunIds' = RunIds
  BY <1>2, StillLonger
<1> DEFINE x == [req[q] EXCEPT !.at = "transition", !.run = r]
<1>4. Fits(req[q], Len(runs'), Len(events'))
  BY <1>3, RequestsFit, LaterFits, RunsAreRuns, Parts DEF Longer, EventsOK
<1>5. x.at = "transition" /\ x.run = r /\ x.event = req[q].event
      /\ x \in [at: Places, click: Clicks(Len(runs')), event: 0..Len(events'), run: 0..Len(runs')]
  <2>1. req[q] \in [at: Places, click: Clicks(Len(runs')), event: 0..Len(events'), run: 0..Len(runs')]
    BY <1>4 DEF Fits
  <2>2. "transition" \in Places /\ r \in 0..Len(runs')
    BY <1>2, RunsAreRuns DEF Places, EventPlaces, RunIds
  <2> QED BY <2>1, <2>2
<1>6. req' = [req EXCEPT ![q] = x] /\ r # 0
  <2>1. r # 0
    BY RunsAreRuns DEF RunIds
  <2>2. q \in DOMAIN req
    BY DEF TypeOK
  <2> QED BY <1>1, <2>1, <2>2
<1> HIDE DEF x
<1>7. Fits(x, Len(runs'), Len(events'))
  BY <1>2, <1>4, <1>5, <1>6 DEF Fits, ClickPlaces, EventPlaces
<1>8. RequestsOK' /\ req'[q] = x /\ \A p \in Requests \ {q} : req'[p] = req[p]
  BY <1>3, <1>6, <1>7, BecomesFits
<1> QED BY <1>2, <1>3, <1>5, <1>8, UnmovedThreads, Aside

LEMMA MoveLoopTyped ==
  ASSUME TypeOK, NEW q \in Requests, MoveLoop(q)
  PROVE  /\ TypeOK' /\ Ends(q) /\ req[q].run \in RunIds
         /\ LoopStateFor[Kind(q)] \in {"REVIEW_PENDING", "DECISION_REQUIRED"}
         /\ Stays /\ Loops(req[q].run, LoopStateFor[Kind(q)]) /\ Noted(req[q].run)
         /\ decisions' # decisions => Kind(q) = "note"
         /\ LoopStateFor[Kind(q)] = "REVIEW_PENDING" => req[q].run \in pended'
         /\ pended \subseteq pended'
<1>1. /\ req[q].at = "transition" /\ Request(req[q].run, LoopStateFor[Kind(q)]) /\ Finish(q)
      /\ pended' = IF Kind(q) = "merge_request" THEN pended \cup {req[q].run} ELSE pended
      /\ UNCHANGED <<bindings, buttons, kv, events, inputs, granted, lost, raced>>
  BY DEF MoveLoop
<1>2. req[q].run \in RunIds /\ Kind(q) \in {"merge_request", "note"}
  BY <1>1, EventHandled DEF EventPlaces
<1>3. /\ LoopStateFor[Kind(q)] \in {"REVIEW_PENDING", "DECISION_REQUIRED"}
      /\ LoopStateFor[Kind(q)] = "REVIEW_PENDING" => Kind(q) = "merge_request"
      /\ LoopStateFor[Kind(q)] = "DECISION_REQUIRED" => Kind(q) = "note"
  BY <1>2 DEF LoopStateFor
<1>4. /\ Stays /\ Loops(req[q].run, LoopStateFor[Kind(q)]) /\ Noted(req[q].run)
      /\ LoopStateFor[Kind(q)] # "DECISION_REQUIRED" => decisions' = decisions
  BY <1>1, <1>2, <1>3, RequestWrites DEF LoopState
<1>5. Longer /\ RunIds' = RunIds
  BY <1>1, <1>4, StaysLonger
<1>6. RequestsOK' /\ Ends(q)
  BY <1>1, <1>5, FinishFits DEF Ends
<1>7. ThreadsOK' /\ HistoryOK' /\ EventsOK'
  <2>1. HistoryOK'
    BY <1>1, <1>2, <1>4, <1>5, NotedOK, Parts DEF HistoryOK
  <2> QED BY <2>1, <1>1, <1>5, UnmovedThreads, Parts DEF EventsOK
<1>8. TypeOK'
  BY <1>4, <1>6, <1>7, Together DEF Stays
<1> QED BY <1>1, <1>2, <1>3, <1>4, <1>6, <1>8

(* What the delivery of event n leads to.                                  *)
LEMMA ArriveFits ==
  ASSUME TypeOK, Longer, NEW q \in Requests, NEW n \in 1..Len(events'), Arrive(q, n)
  PROVE  /\ RequestsOK' /\ req'[q].at = "mark" /\ req'[q].event = n
         /\ \A p \in Requests \ {q} : req'[p] = req[p]
<1> DEFINE x == [Idle EXCEPT !.at = "mark", !.event = n]
<1>1. x.at = "mark" /\ x.event = n
  BY DEF Idle
<1>2. x \in [at: Places, click: Clicks(Len(runs')), event: 0..Len(events'), run: 0..Len(runs')]
  <2>1. Idle \in [at: Places, click: Clicks(Len(runs')), event: 0..Len(events'), run: 0..Len(runs')]
    BY IdleFits DEF Longer, Fits
  <2>2. "mark" \in Places /\ n \in 0..Len(events')
    BY DEF Places, EventPlaces, Longer
  <2> QED BY <2>1, <2>2
<1>3. req' = [req EXCEPT ![q] = x]
  BY DEF Arrive
<1> HIDE DEF x
<1>4. Fits(x, Len(runs'), Len(events'))
  BY <1>1, <1>2 DEF Fits, ClickPlaces, EventPlaces, Longer
<1> QED BY <1>1, <1>3, <1>4, BecomesFits

LEMMA DeliverTyped ==
  ASSUME TypeOK, NEW q \in Requests, NEW kind \in {"merge_request", "note"}, Deliver(q, kind)
  PROVE  /\ TypeOK' /\ req'[q].at = "mark" /\ req'[q].event = Len(events) + 1
         /\ \A p \in Requests \ {q} : req'[p] = req[p]
         /\ Len(events') = Len(events) + 1 /\ Len(events) \in Nat
         /\ \A n \in DOMAIN events : events'[n] = events[n]
<1>1. /\ events' = Append(events, kind) /\ Arrive(q, Len(events) + 1) /\ Count
      /\ UNCHANGED <<runs, bindings, buttons, kv, decisions, history>>
  BY DEF Deliver
<1>2. events \in Seq({"merge_request", "note"})
  BY Parts DEF EventsOK
<1>3. /\ events' \in Seq({"merge_request", "note"}) /\ Len(events) \in Nat
      /\ Len(events') = Len(events) + 1 /\ DOMAIN events \subseteq DOMAIN events'
      /\ \A n \in DOMAIN events : events'[n] = events[n]
  BY <1>1, <1>2
<1>4. Grows /\ RunIds' = RunIds
  BY <1>1, StaysOK DEF Stays
<1>5. Longer
  BY <1>1, <1>3, RunsAreRuns DEF Longer
<1>6. RequestsOK' /\ req'[q].at = "mark" /\ req'[q].event = Len(events) + 1
      /\ \A p \in Requests \ {q} : req'[p] = req[p]
  <2>1. Len(events) + 1 \in 1..Len(events')
    BY <1>3
  <2> QED BY <1>1, <1>5, <2>1, ArriveFits
<1>7. ThreadsOK' /\ HistoryOK' /\ EventsOK'
  BY <1>1, <1>3, <1>4, UnmovedThreads, UnmovedHistory, CountOK, Parts DEF EventsOK, history
<1> QED BY <1>3, <1>4, <1>6, <1>7, Together

LEMMA RedeliverTyped ==
  ASSUME TypeOK, NEW q \in Requests, NEW n \in DOMAIN events, Redeliver(q, n)
  PROVE  /\ TypeOK' /\ req'[q].at = "mark" /\ req'[q].event = n
         /\ \A p \in Requests \ {q} : req'[p] = req[p]
<1>1. /\ Arrive(q, n) /\ Count /\ raced' \subseteq raced \cup {n}
      /\ UNCHANGED <<runs, bindings, buttons, kv, events, decisions, pended, granted, lost>>
  BY DEF Redeliver
<1>2. Longer /\ RunIds' = RunIds /\ Grows
  BY <1>1, StillLonger
<1>3. n \in 1..Len(events')
  BY <1>1, Parts DEF EventsOK
<1>4. RequestsOK' /\ req'[q].at = "mark" /\ req'[q].event = n
      /\ \A p \in Requests \ {q} : req'[p] = req[p]
  BY <1>1, <1>2, <1>3, ArriveFits
<1>5. ThreadsOK' /\ EventsOK' /\ HistoryOK'
  BY <1>1, <1>2, UnmovedThreads, CountOK, Parts DEF EventsOK, HistoryOK
<1> QED BY <1>2, <1>4, <1>5, Together

LEMMA FailTyped ==
  ASSUME TypeOK, NEW q \in Requests, Fail(q)
  PROVE  TypeOK' /\ Ends(q)
<1>1. /\ req[q].at \in ClickPlaces /\ Count /\ lost' \subseteq lost \cup {req[q].run} /\ Finish(q)
      /\ UNCHANGED <<runs, bindings, buttons, kv, events, decisions, pended, granted, raced>>
  BY DEF Fail, ClickPlaces
<1>2. Longer /\ RunIds' = RunIds /\ Grows
  BY <1>1, StillLonger
<1>3. RequestsOK' /\ Ends(q)
  BY <1>1, <1>2, FinishFits DEF Ends
<1>4. ThreadsOK' /\ EventsOK' /\ HistoryOK'
  BY <1>1, <1>2, ClickHandled, UnmovedThreads, CountOK, Parts DEF EventsOK, HistoryOK
<1> QED BY <1>2, <1>3, <1>4, Together

LEMMA StutterTyped ==
  ASSUME TypeOK, UNCHANGED vars
  PROVE  TypeOK'
<1>1. UNCHANGED <<board, events, history, runs, bindings, buttons, inputs, req>>
  BY DEF vars, board, history
<1>2. Longer /\ RunIds' = RunIds
  BY <1>1, StillLonger
<1> QED BY <1>1, <1>2, UnmovedRequests, UnmovedThreads, Aside

LEMMA InitTyped ==
  ASSUME Init
  PROVE  TypeOK
<1> DEFINE run == [NewRun(0, FALSE, "intake") EXCEPT !.status = "RUNNING_CODEX", !.loop = "RUNNING"]
<1>1. run \in Run /\ run.base = 0
  BY DEF NewRun, Run, RunStatus, ExecutionPhase, LoopState
<1>2. runs = <<run>>
  BY DEF Init
<1> HIDE DEF run
<1>3. runs \in Seq(Run) /\ Len(runs) = 1 /\ RunIds = {1} /\ runs[1].base = 0
  BY <1>1, <1>2 DEF RunIds
<1>4. req = [q \in Requests |-> Idle]
  BY DEF Init
<1>5. events = <<>> /\ Len(events) = 0
  BY DEF Init
<1>6. Fits(Idle, Len(runs), Len(events))
  BY <1>3, <1>5, IdleFits
<1>7. /\ req \in [Requests -> [at: {"idle"} \cup ClickPlaces \cup EventPlaces, click: Clicked,
                               event: 0..Len(events), run: 0..Len(runs)]]
      /\ \A q \in Requests : /\ InEvent(q) => req[q].event # 0
                             /\ InClick(q) \/ req[q].at = "transition" => req[q].run # 0
                             /\ InClick(q) => req[q].click.chan \in Channels /\ req[q].click.run # 0
  BY <1>4, <1>6 DEF Fits, Places, Clicks, Clicked, InEvent, InClick
<1>8. /\ bindings \in [Channels -> [run: RunIds, round: Nat] \cup {NoThread}]
      /\ buttons \subseteq [chan: Channels, run: RunIds, round: Nat]
  BY <1>3 DEF Init
<1>9. /\ events \in Seq({"merge_request", "note"}) /\ inputs \in 0..MaxInputs
      /\ decisions \in Seq(RunIds) /\ granted \cup lost \cup pended \subseteq RunIds
      /\ raced \subseteq DOMAIN events
  BY Bounds DEF Init
<1>10. Len(runs) \in 1..MaxRuns /\ \A r \in RunIds : runs[r].base < r
  BY <1>3, Bounds
<1> QED BY <1>3, <1>7, <1>8, <1>9, <1>10 DEF TypeOK, Run

-----------------------------------------------------------------------------
(* An approval that was granted is on its way, has its rerun, or is lost.  *)

(* Nobody forgets what was granted.                                        *)
LEMMA KeptStep ==
  ASSUME TypeOK, ApprovalsAreKept, Grows, lost \subseteq lost',
         \A r \in granted' \ granted : \E p \in Requests : req'[p].at = "changes" /\ req'[p].run = r,
         \A p \in Requests : req[p].at = "changes" =>
           \/ req'[p].at = "changes" /\ req'[p].run = req[p].run
           \/ req[p].run \in lost'
           \/ \E s \in RunIds' : runs'[s].base = req[p].run /\ runs'[s].by = "slack"
  PROVE  ApprovalsAreKept'
<1>1. ASSUME NEW r \in granted'
      PROVE  \/ \E s \in RunIds' : runs'[s].base = r /\ runs'[s].by = "slack"
             \/ r \in lost'
             \/ \E p \in Requests : req'[p].at = "changes" /\ req'[p].run = r
  <2>1. CASE r \in granted
    <3>1. CASE Reruns(r) # {}
      <4>1. PICK s \in RunIds : runs[s].base = r /\ runs[s].by = "slack"
        BY <3>1 DEF Reruns
      <4>2. s \in RunIds' /\ runs'[s].base = r /\ runs'[s].by = "slack"
        BY <4>1, RunsAreRuns DEF Grows, RunIds
      <4> QED BY <4>2
    <3>2. CASE r \in lost
      BY <3>2
    <3>3. CASE \E p \in Requests : req[p].at = "changes" /\ req[p].run = r
      <4>1. PICK p \in Requests : req[p].at = "changes" /\ req[p].run = r
        BY <3>3
      <4> QED BY <4>1
    <3> QED BY <2>1, <3>1, <3>2, <3>3 DEF ApprovalsAreKept
  <2>2. CASE r \notin granted
    BY <2>2
  <2> QED BY <2>1, <2>2
<1> QED BY <1>1 DEF ApprovalsAreKept, Reruns

-----------------------------------------------------------------------------
(* Decisions against approvals and reruns: each decision that was due is   *)
(* still open, was taken by a request that is about to ask for a rerun, or *)
(* has its rerun; or it came to nothing.                                   *)

Pending(r) == {q \in Requests : req[q].at = "changes" /\ req[q].run = r}
Open(r) == IF runs[r].loop = "DECISION_REQUIRED" THEN 1 ELSE 0

DecisionsInv ==
  \A r \in RunIds :
    /\ IsFiniteSet(Pending(r))
    /\ Cardinality(Reruns(r)) + Cardinality(Pending(r)) + Open(r) <= Cardinality(Decided(r))

LEMMA Finite ==
  ASSUME TypeOK, NEW r
  PROVE  /\ IsFiniteSet(Reruns(r)) /\ Cardinality(Reruns(r)) \in Nat
         /\ IsFiniteSet(Decided(r)) /\ Cardinality(Decided(r)) \in Nat
<1>1. IsFiniteSet(RunIds)
  BY RunsAreRuns, FS_Interval DEF RunIds
<1>2. IsFiniteSet(DOMAIN decisions)
  <2>1. DOMAIN decisions = 1..Len(decisions) /\ Len(decisions) \in Nat
    BY Parts DEF HistoryOK
  <2> QED BY <2>1, FS_Interval
<1>3. IsFiniteSet(Reruns(r)) /\ IsFiniteSet(Decided(r))
  BY <1>1, <1>2, FS_Subset DEF Reruns, Decided
<1> QED BY <1>3, FS_CardinalityType

LEMMA DecidedGrows ==
  ASSUME TypeOK, NEW r \in RunIds, NEW s, decisions' = Append(decisions, s)
  PROVE  /\ s = r => Cardinality({i \in DOMAIN decisions' : decisions'[i] = r})
                       = Cardinality(Decided(r)) + 1
         /\ s # r => {i \in DOMAIN decisions' : decisions'[i] = r} = Decided(r)
<1>1. /\ decisions \in Seq(RunIds) /\ Len(decisions) \in Nat /\ Len(decisions') = Len(decisions) + 1
      /\ DOMAIN decisions = 1..Len(decisions) /\ DOMAIN decisions' = 1..(Len(decisions) + 1)
      /\ \A i \in DOMAIN decisions : decisions'[i] = decisions[i]
      /\ decisions'[Len(decisions) + 1] = s
  BY Parts DEF HistoryOK
<1>2. CASE s = r
  <2>1. {i \in DOMAIN decisions' : decisions'[i] = r} = Decided(r) \cup {Len(decisions) + 1}
        /\ Len(decisions) + 1 \notin Decided(r)
    BY <1>1, <1>2 DEF Decided
  <2> QED BY <1>2, <2>1, Finite, FS_AddElement
<1>3. CASE s # r
  BY <1>1, <1>3 DEF Decided
<1> QED BY <1>2, <1>3

(* The reruns and the decisions of the others stay what they are.          *)
LEMMA RerunsStay ==
  ASSUME TypeOK, NEW r \in RunIds, Stays
  PROVE  {s \in RunIds' : runs'[s].base = r /\ runs'[s].by = "slack"} = Reruns(r)
BY DEF Stays, Grows, RunIds, Reruns

(* A step that moves a run, if anything, and brings nobody to `changes`.   *)
LEMMA DecisionsStep ==
  ASSUME TypeOK, TypeOK', DecisionsInv, Stays, NEW m \in RunIds, Noted(m),
         \A s \in RunIds \ {m} : runs'[s].loop = runs[s].loop,
         \A p \in Requests : req'[p].at = "changes" => req[p].at = "changes" /\ req'[p].run = req[p].run
  PROVE  DecisionsInv'
<1> DEFINE Reruns1(r) == {s \in RunIds' : runs'[s].base = r /\ runs'[s].by = "slack"}
           Pending1(r) == {p \in Requests : req'[p].at = "changes" /\ req'[p].run = r}
           Decided1(r) == {i \in DOMAIN decisions' : decisions'[i] = r}
           Open1(r) == IF runs'[r].loop = "DECISION_REQUIRED" THEN 1 ELSE 0
<1>1. ASSUME NEW r \in RunIds
      PROVE  /\ IsFiniteSet(Pending1(r))
             /\ Cardinality(Reruns1(r)) + Cardinality(Pending1(r)) + Open1(r) <= Cardinality(Decided1(r))
  <2>1. IsFiniteSet(Pending(r))
        /\ Cardinality(Reruns(r)) + Cardinality(Pending(r)) + Open(r) <= Cardinality(Decided(r))
    BY DEF DecisionsInv
  <2>2. Pending1(r) \subseteq Pending(r)
    BY DEF Pending
  <2>3. /\ IsFiniteSet(Pending1(r)) /\ Cardinality(Pending1(r)) <= Cardinality(Pending(r))
        /\ Cardinality(Pending1(r)) \in Nat /\ Cardinality(Pending(r)) \in Nat
    BY <2>1, <2>2, FS_Subset, FS_CardinalityType
  <2>4. Reruns1(r) = Reruns(r)
    BY RerunsStay
  <2>5. \/ Cardinality(Decided1(r)) = Cardinality(Decided(r))
           /\ (runs'[r].loop = "DECISION_REQUIRED" => runs[r].loop = "DECISION_REQUIRED")
        \/ Cardinality(Decided1(r)) = Cardinality(Decided(r)) + 1
    <3>1. CASE decisions' = decisions
      <4>1. decisions # Append(decisions, m)
        BY Parts DEF HistoryOK
      <4> QED BY <3>1, <4>1 DEF Noted, Decided
    <3>2. CASE decisions' = Append(decisions, m) /\ runs[m].loop # "DECISION_REQUIRED"
      BY <3>2, DecidedGrows
    <3> QED BY <3>1, <3>2 DEF Noted
  <2> HIDE DEF Reruns1, Pending1, Decided1
  <2> QED BY <2>1, <2>3, <2>4, <2>5, Finite DEF Open
<1>2. RunIds' = RunIds
  BY DEF Stays, RunIds
<1> QED BY <1>1, <1>2 DEF DecisionsInv, Reruns, Pending, Decided, Open

LEMMA DecisionsUnmoved ==
  ASSUME TypeOK, TypeOK', DecisionsInv, UNCHANGED board,
         \A p \in Requests : req'[p].at = "changes" => req[p].at = "changes" /\ req'[p].run = req[p].run
  PROVE  DecisionsInv'
<1>1. UNCHANGED runs /\ UNCHANGED decisions /\ 1 \in RunIds
  BY RunsAreRuns DEF board, RunIds
<1>2. Stays /\ Noted(1)
  BY <1>1, StaysOK DEF Noted
<1> QED BY <1>1, <1>2, DecisionsStep

(* The decision taken is the one that was open.                            *)
LEMMA DecisionsGranted ==
  ASSUME TypeOK, TypeOK', DecisionsInv, NEW q \in Requests, req[q].at = "approve",
         req[q].run \in RunIds, Granted(q), \A p \in Requests \ {q} : req'[p] = req[p]
  PROVE  DecisionsInv'
<1> DEFINE a == req[q].run
           Reruns1(r) == {s \in RunIds' : runs'[s].base = r /\ runs'[s].by = "slack"}
           Pending1(r) == {p \in Requests : req'[p].at = "changes" /\ req'[p].run = r}
           Decided1(r) == {i \in DOMAIN decisions' : decisions'[i] = r}
           Open1(r) == IF runs'[r].loop = "DECISION_REQUIRED" THEN 1 ELSE 0
<1>1. /\ Stays /\ decisions' = decisions /\ a \in RunIds
      /\ runs[a].loop = "DECISION_REQUIRED" /\ runs'[a].loop = "RERUN_QUEUED"
      /\ \A s \in RunIds \ {a} : runs'[s].loop = runs[s].loop
      /\ req'[q].at = "changes" /\ req'[q].run = a
  BY DEF Granted, Loops
<1> HIDE DEF a
<1>2. ASSUME NEW r \in RunIds
      PROVE  /\ IsFiniteSet(Pending1(r))
             /\ Cardinality(Reruns1(r)) + Cardinality(Pending1(r)) + Open1(r) <= Cardinality(Decided1(r))
  <2>1. IsFiniteSet(Pending(r)) /\ Cardinality(Pending(r)) \in Nat
        /\ Cardinality(Reruns(r)) + Cardinality(Pending(r)) + Open(r) <= Cardinality(Decided(r))
    BY FS_CardinalityType DEF DecisionsInv
  <2>2. Reruns1(r) = Reruns(r) /\ Decided1(r) = Decided(r)
    BY <1>1, RerunsStay DEF Decided
  <2>3. CASE r = a
    <3>1. Pending1(r) = Pending(r) \cup {q} /\ q \notin Pending(r)
      BY <1>1, <2>3 DEF Pending
    <3>2. IsFiniteSet(Pending1(r)) /\ Cardinality(Pending1(r)) = Cardinality(Pending(r)) + 1
      BY <2>1, <3>1, FS_AddElement
    <3>3. Open(r) = 1 /\ Open1(r) = 0
      BY <1>1, <2>3 DEF Open
    <3> HIDE DEF Pending1, Reruns1, Decided1, Open1
    <3> QED BY <2>1, <2>2, <3>2, <3>3, Finite
  <2>4. CASE r # a
    <3>1. Pending1(r) = Pending(r) /\ Open1(r) = Open(r)
      BY <1>1, <2>4 DEF Pending, Open
    <3> HIDE DEF Pending1, Reruns1, Decided1, Open1
    <3> QED BY <2>1, <2>2, <3>1
  <2> QED BY <2>3, <2>4
<1>3. RunIds' = RunIds
  BY <1>1 DEF Stays, RunIds
<1> QED BY <1>2, <1>3 DEF DecisionsInv, Reruns, Pending, Decided, Open

(* A rerun: who asks for it no longer waits to.                            *)
LEMMA DecisionsRerun ==
  ASSUME TypeOK, TypeOK', DecisionsInv, NEW a \in RunIds, NEW by \in {"slack", "operator"},
         Added(a, by), decisions' = decisions,
         \A p \in Requests : req'[p].at = "changes" => req[p].at = "changes" /\ req'[p].run = req[p].run,
         by = "slack" => \E q \in Requests : /\ req[q].at = "changes" /\ req[q].run = a
                                             /\ req'[q].at # "changes"
  PROVE  DecisionsInv'
<1> DEFINE new == Len(runs) + 1
           Reruns1(r) == {s \in RunIds' : runs'[s].base = r /\ runs'[s].by = "slack"}
           Pending1(r) == {p \in Requests : req'[p].at = "changes" /\ req'[p].run = r}
           Decided1(r) == {i \in DOMAIN decisions' : decisions'[i] = r}
           Open1(r) == IF runs'[r].loop = "DECISION_REQUIRED" THEN 1 ELSE 0
<1>1. /\ RunIds' = RunIds \cup {new} /\ new \notin RunIds /\ new \in Nat
      /\ \A s \in RunIds : runs'[s] = runs[s] /\ s < new
      /\ runs'[new].base = a /\ runs'[new].by = by /\ runs'[new].loop = "RERUN_QUEUED"
  BY RunsAreRuns DEF Added, Grows, RunIds
<1> HIDE DEF new
<1>2. ASSUME NEW r \in RunIds
      PROVE  /\ IsFiniteSet(Pending1(r))
             /\ Cardinality(Reruns1(r)) + Cardinality(Pending1(r)) + Open1(r) <= Cardinality(Decided1(r))
  <2>1. IsFiniteSet(Pending(r)) /\ Cardinality(Pending(r)) \in Nat
        /\ Cardinality(Reruns(r)) + Cardinality(Pending(r)) + Open(r) <= Cardinality(Decided(r))
    BY FS_CardinalityType DEF DecisionsInv
  <2>2. Open1(r) = Open(r) /\ Decided1(r) = Decided(r) /\ Open(r) \in Nat
    BY <1>1 DEF Open, Decided
  <2>3. Pending1(r) \subseteq Pending(r)
    BY DEF Pending
  <2>4. IsFiniteSet(Pending1(r)) /\ Cardinality(Pending1(r)) <= Cardinality(Pending(r))
        /\ Cardinality(Pending1(r)) \in Nat
    BY <2>1, <2>3, FS_Subset, FS_CardinalityType
  <2>5. CASE r = a /\ by = "slack"
    <3>1. Reruns1(r) = Reruns(r) \cup {new} /\ new \notin Reruns(r)
      BY <1>1, <2>5 DEF Reruns
    <3>2. Cardinality(Reruns1(r)) = Cardinality(Reruns(r)) + 1
      <4>1. IsFiniteSet(Reruns(r))
        BY Finite
      <4> HIDE DEF Reruns1
      <4> QED BY <3>1, <4>1, FS_AddElement
    <3>3. PICK q \in Requests : q \in Pending(r) /\ q \notin Pending1(r)
      BY <2>5 DEF Pending
    <3>4. Pending1(r) \subseteq Pending(r) \ {q}
      BY <2>3, <3>3
    <3>5. /\ IsFiniteSet(Pending(r) \ {q})
          /\ Cardinality(Pending(r) \ {q}) = Cardinality(Pending(r)) - 1
      BY <2>1, <3>3, FS_RemoveElement
    <3>6. Cardinality(Pending1(r)) <= Cardinality(Pending(r)) - 1
      BY <3>4, <3>5, FS_Subset
    <3> HIDE DEF Pending1, Reruns1, Decided1, Open1
    <3> QED BY <2>1, <2>2, <2>4, <3>2, <3>6, Finite
  <2>6. CASE ~(r = a /\ by = "slack")
    <3>1. Reruns1(r) = Reruns(r)
      BY <1>1, <2>6 DEF Reruns
    <3> HIDE DEF Pending1, Reruns1, Decided1, Open1
    <3> QED BY <2>1, <2>2, <2>4, <3>1, Finite
  <2> QED BY <2>5, <2>6
<1>3. /\ IsFiniteSet(Pending1(new))
      /\ Cardinality(Reruns1(new)) + Cardinality(Pending1(new)) + Open1(new) <= Cardinality(Decided1(new))
  <2>1. Pending1(new) = {}
    <3>1. \A p \in Requests : req[p].run # new
      BY RequestsFit, RunsAreRuns DEF Fits, new
    <3> QED BY <3>1
  <2>2. Reruns1(new) = {}
    <3>1. \A s \in RunIds : runs'[s].base # new
      BY <1>1, RunsAreRuns DEF RunIds
    <3>2. runs'[new].base # new
      BY <1>1
    <3> QED BY <1>1, <3>1, <3>2
  <2>3. Open1(new) = 0
    BY <1>1
  <2>4. Cardinality(Decided1(new)) \in Nat
    <3>1. Decided1(new) = Decided(new)
      BY DEF Decided
    <3> QED BY <3>1, Finite
  <2> HIDE DEF Pending1, Reruns1, Decided1, Open1
  <2> QED BY <2>1, <2>2, <2>3, <2>4, FS_EmptySet
<1>4. \A r \in RunIds' :
        /\ IsFiniteSet(Pending1(r))
        /\ Cardinality(Reruns1(r)) + Cardinality(Pending1(r)) + Open1(r) <= Cardinality(Decided1(r))
  <2> HIDE DEF Pending1, Reruns1, Decided1, Open1
  <2> QED BY <1>1, <1>2, <1>3
<1> QED BY <1>4 DEF DecisionsInv, Reruns, Pending, Decided, Open

-----------------------------------------------------------------------------
(* Rounds against runs: buttons and threads show the depth of their run,   *)
(* and a click leads to a run that is one deeper.                          *)

Led(x, d) ==
  x.at \in ClickPlaces =>
    /\ x.click.round = d[x.click.run]
    /\ x.at \in {"approve", "changes"} => x.run = x.click.run
    /\ x.at \in {"schedule", "note", "bind"} => d[x.run] = x.click.round + 1

Shows(d) ==
  /\ \A b \in buttons : b.round = d[b.run]
  /\ \A c \in Channels : bindings[c] # NoThread => bindings[c].round = d[bindings[c].run]
  /\ \A q \in Requests : Led(req[q], d)

DepthInv ==
  \E d \in [RunIds -> Nat] : IsDepth(d) /\ (\A r \in RunIds : d[r] < r) /\ Shows(d)

LEMMA DepthStay ==
  ASSUME TypeOK, Stays, NEW d \in [RunIds -> Nat], IsDepth(d), \A r \in RunIds : d[r] < r,
         Shows(d)'
  PROVE  DepthInv'
<1>1. RunIds' = RunIds /\ IsDepth(d)'
  BY DEF Stays, Grows, IsDepth, RunIds
<1> QED BY <1>1 DEF DepthInv

(* What is shown stays right when nothing new is shown.                    *)
LEMMA ShowsUnmoved ==
  ASSUME TypeOK, NEW d, Shows(d), UNCHANGED <<bindings, buttons>>, NEW q \in Requests,
         Led(req'[q], d), \A p \in Requests \ {q} : req'[p] = req[p]
  PROVE  Shows(d)'
<1>1. \A p \in Requests : Led(req'[p], d)
  BY DEF Shows
<1> QED BY <1>1 DEF Shows, Led

LEMMA IdleLed ==
  ASSUME NEW d
  PROVE  Led(Idle, d)
BY DEF Led, Idle, ClickPlaces

LEMMA ShowsBound ==
  ASSUME TypeOK, NEW d \in [RunIds -> Nat], Shows(d), NEW q \in Requests, Ends(q),
         NEW c \in Channels, NEW run \in RunIds, Bind(c, run, d[run]), Show, UNCHANGED runs
  PROVE  Shows(d)'
<1>1. /\ bindings'[c] = [run |-> run, round |-> d[run]]
      /\ \A e \in Channels \ {c} : bindings'[e] = bindings[e]
  BY BindOK
<1>2. \A e \in Channels : bindings'[e] # NoThread => bindings'[e].round = d[bindings'[e].run]
  BY <1>1 DEF Shows
<1>3. \A b \in buttons' : b.round = d[b.run]
  BY <1>2 DEF Shows, Show
<1>4. \A p \in Requests : Led(req'[p], d)
  BY IdleLed DEF Ends, Shows
<1> QED BY <1>2, <1>3, <1>4 DEF Shows, Led

(* A new run is one deeper than the one it is based on.                    *)
LEMMA DepthAdded ==
  ASSUME TypeOK, TypeOK', DepthInv, NEW a \in RunIds, NEW by, Added(a, by),
         UNCHANGED <<bindings, buttons>>,
         \A p \in Requests : req'[p] = req[p] \/
           /\ req[p].at = "changes" /\ req[p].run = a
           /\ req'[p].at = "schedule" /\ req'[p].run = Len(runs) + 1 /\ req'[p].click = req[p].click
  PROVE  DepthInv'
<1> DEFINE new == Len(runs) + 1
<1>1. /\ RunIds' = RunIds \cup {new} /\ new \notin RunIds /\ new \in Nat
      /\ \A s \in RunIds : runs'[s] = runs[s] /\ runs[s].base < new /\ s < new
      /\ runs'[new].base = a /\ a # 0 /\ a \in Nat
      /\ \A s \in RunIds : runs[s].base # 0 => runs[s].base \in RunIds
      /\ RunIds \subseteq Nat
  BY RunsAreRuns DEF Added, Grows, RunIds
<1> HIDE DEF new
<1>2. PICK d \in [RunIds -> Nat] : IsDepth(d) /\ (\A r \in RunIds : d[r] < r) /\ Shows(d)
  BY DEF DepthInv
<1>3. PICK e \in [RunIds' -> Nat] : e[new] = d[a] + 1 /\ \A r \in RunIds : e[r] = d[r]
  <2> DEFINE f == [r \in RunIds \cup {new} |-> IF r = new THEN d[a] + 1 ELSE d[r]]
  <2>1. f \in [RunIds \cup {new} -> Nat] /\ f[new] = d[a] + 1 /\ \A r \in RunIds : f[r] = d[r]
    <3>1. \A r \in RunIds : d[r] \in Nat
      OBVIOUS
    <3>2. d[a] + 1 \in Nat
      BY <3>1
    <3>3. \A r \in RunIds : r # new
      BY <1>1
    <3>4. f[new] = d[a] + 1 /\ \A r \in RunIds : f[r] = d[r]
      BY <3>3
    <3>5. f \in [RunIds \cup {new} -> Nat]
      BY <3>1, <3>2
    <3> QED BY <3>4, <3>5
  <2> HIDE DEF f
  <2>2. f \in [RunIds' -> Nat]
    BY <1>1, <2>1
  <2> QED BY <2>1, <2>2
<1>4. IsDepth(e)'
  <2>1. ASSUME NEW r \in RunIds
        PROVE  e[r] = IF runs'[r].base = 0 THEN 0 ELSE e[runs'[r].base] + 1
    <3>1. d[r] = IF runs[r].base = 0 THEN 0 ELSE d[runs[r].base] + 1
      BY <1>2 DEF IsDepth
    <3>2. runs'[r] = runs[r] /\ e[r] = d[r]
      BY <1>1, <1>3
    <3>3. runs[r].base # 0 => e[runs[r].base] = d[runs[r].base]
      BY <1>1, <1>3
    <3> QED BY <3>1, <3>2, <3>3
  <2>2. e[new] = IF runs'[new].base = 0 THEN 0 ELSE e[runs'[new].base] + 1
    BY <1>1, <1>3
  <2> QED BY <1>1, <2>1, <2>2 DEF IsDepth
<1>5. \A r \in RunIds' : e[r] < r
  <2>1. \A r \in RunIds : e[r] < r
    BY <1>2, <1>3
  <2>2. e[new] < new
    <3>1. d[a] < a /\ a < new /\ d[a] \in Nat
      BY <1>1, <1>2
    <3> QED BY <1>1, <1>3, <3>1
  <2> QED BY <1>1, <2>1, <2>2
<1>6. \A b \in buttons' : b.round = e[b.run]
  BY <1>2, <1>3, Parts DEF ThreadsOK, Shows
<1>7. \A c \in Channels : bindings'[c] # NoThread => bindings'[c].round = e[bindings'[c].run]
  BY <1>2, <1>3, Parts DEF ThreadsOK, Shows
<1>8. ASSUME NEW p \in Requests
      PROVE  Led(req'[p], e)
  <2>1. Led(req[p], d)
    BY <1>2 DEF Shows
  <2>2. CASE req'[p] = req[p]
    <3>1. CASE req[p].at \in ClickPlaces
      <4>1. req[p].click.run \in RunIds /\ req[p].run \in RunIds
        BY <3>1, ClickHandled
      <4> QED BY <1>3, <2>1, <2>2, <3>1, <4>1 DEF Led
    <3>2. CASE req[p].at \notin ClickPlaces
      BY <2>2, <3>2 DEF Led
    <3> QED BY <3>1, <3>2
  <2>3. CASE /\ req[p].at = "changes" /\ req[p].run = a
             /\ req'[p].at = "schedule" /\ req'[p].run = new /\ req'[p].click = req[p].click
    <3>1. req[p].click.run \in RunIds
      BY <2>3, ClickHandled DEF ClickPlaces
    <3>2. req[p].click.run = a /\ req[p].click.round = d[a]
      BY <2>1, <2>3 DEF Led, ClickPlaces
    <3> QED BY <1>3, <2>3, <3>1, <3>2 DEF Led
  <2> QED BY <2>2, <2>3 DEF new
<1>9. Shows(e)'
  BY <1>6, <1>7, <1>8 DEF Shows, Led
<1> QED BY <1>3, <1>4, <1>5, <1>9 DEF DepthInv

-----------------------------------------------------------------------------
(* Decisions against notes: as long as no two requests raced for an event, *)
(* an event is handled by one request, before it is recorded or by the one *)
(* that recorded it, and a note that was handled made one decision due.    *)

AtWork(q) == req[q].at \in {"slice", "transition"}
Settled == {n \in DOMAIN events : /\ events[n] = "note" /\ DeliveryKey(n) \in kv
                                  /\ \A q \in Requests : AtWork(q) => req[q].event # n}

OneEach ==
  /\ \A p, q \in Requests : InEvent(p) /\ InEvent(q) /\ req[p].event = req[q].event => p = q
  /\ \A q \in Requests : InEvent(q) => (req[q].at = "mark" <=> DeliveryKey(req[q].event) \notin kv)

NotesInv == raced = {} => OneEach /\ Len(decisions) <= Cardinality(Settled)

LEMMA SettledFinite ==
  ASSUME TypeOK
  PROVE  IsFiniteSet(Settled) /\ Cardinality(Settled) \in Nat /\ Len(decisions) \in Nat
<1>1. DOMAIN events = 1..Len(events) /\ Len(events) \in Nat /\ Len(decisions) \in Nat
  BY Parts DEF EventsOK, HistoryOK
<1>2. IsFiniteSet(DOMAIN events)
  BY <1>1, FS_Interval
<1>3. IsFiniteSet(Settled)
  BY <1>2, FS_Subset DEF Settled
<1> QED BY <1>1, <1>3, FS_CardinalityType

LEMMA KeysDiffer ==
  ASSUME NEW n, NEW m
  PROVE  DeliveryKey(n) = DeliveryKey(m) <=> n = m
<1>1. DeliveryKey(n)["event"] = n /\ DeliveryKey(m)["event"] = m
  BY DEF DeliveryKey
<1> QED BY <1>1

LEMMA ClicksAreNoDeliveries ==
  ASSUME NEW n, NEW action, NEW chan, NEW run, NEW round
  PROVE  [action |-> action, chan |-> chan, run |-> run, round |-> round] # DeliveryKey(n)
<1>1. "action" \in DOMAIN [action |-> action, chan |-> chan, run |-> run, round |-> round]
  OBVIOUS
<1>2. "action" \notin DOMAIN DeliveryKey(n)
  BY DEF DeliveryKey
<1> QED BY <1>1, <1>2

(* A step that no event takes part in.                                     *)
LEMMA NotesUnmoved ==
  ASSUME TypeOK, NotesInv, UNCHANGED <<events, decisions, raced>>,
         \A n : DeliveryKey(n) \in kv' <=> DeliveryKey(n) \in kv,
         \A p \in Requests : \/ req'[p] = req[p]
                             \/ req[p].at \notin EventPlaces /\ req'[p].at \notin EventPlaces
  PROVE  NotesInv'
<1>1. SUFFICES ASSUME raced = {}
               PROVE  OneEach' /\ Len(decisions') <= Cardinality(Settled')
  BY DEF NotesInv
<1>2. OneEach /\ Len(decisions) <= Cardinality(Settled)
  BY <1>1 DEF NotesInv
<1>3. \A p \in Requests : req'[p].at \in EventPlaces => req'[p] = req[p]
  OBVIOUS
<1>4. OneEach'
  BY <1>2, <1>3 DEF OneEach, InEvent
<1>5. \A p \in Requests : AtWork(p)' => AtWork(p) /\ req'[p].event = req[p].event
  BY DEF AtWork, EventPlaces
<1>6. \A p \in Requests : AtWork(p) => AtWork(p)' /\ req'[p].event = req[p].event
  BY DEF AtWork, EventPlaces
<1>7. Settled' = Settled
  BY <1>5, <1>6 DEF Settled
<1> QED BY <1>2, <1>4, <1>7

(* A request takes an event up.                                            *)
LEMMA NotesArrive ==
  ASSUME TypeOK, NotesInv, NEW q \in Requests, NEW n \in DOMAIN events',
         DeliveryKey(n) \notin kv, req[q].at = "idle",
         req'[q].at = "mark", req'[q].event = n, \A p \in Requests \ {q} : req'[p] = req[p],
         UNCHANGED <<kv, decisions>>, raced' = {} => raced = {},
         raced' = {} => \A p \in Requests : req[p].at = "mark" => req[p].event # n,
         DOMAIN events \subseteq DOMAIN events', \A m \in DOMAIN events : events'[m] = events[m],
         \A m \in DOMAIN events' : m \in DOMAIN events \/ m = n
  PROVE  NotesInv'
<1>1. SUFFICES ASSUME raced' = {}
               PROVE  OneEach' /\ Len(decisions') <= Cardinality(Settled')
  BY DEF NotesInv
<1>2. OneEach /\ Len(decisions) <= Cardinality(Settled)
  BY <1>1 DEF NotesInv
<1>3. \A p \in Requests : InEvent(p) => req[p].event # n
  BY <1>1, <1>2 DEF OneEach, InEvent
<1>4. OneEach'
  BY <1>2, <1>3 DEF OneEach, InEvent, EventPlaces
<1>5. \A p \in Requests : AtWork(p)' <=> AtWork(p)
  BY DEF AtWork
<1>6. \A p \in Requests : AtWork(p) => req'[p].event = req[p].event
  BY DEF AtWork
<1>7. Settled' = Settled
  BY <1>5, <1>6 DEF Settled
<1> QED BY <1>2, <1>4, <1>7

(* The event is recorded, and is at work from then on.                     *)
LEMMA NotesMarked ==
  ASSUME TypeOK, NotesInv, NEW q \in Requests, MarkDelivery(q), GoesOn(q, {"slice"})
  PROVE  NotesInv'
<1> DEFINE n == req[q].event
<1>1. /\ req[q].at = "mark" /\ kv' = kv \cup {DeliveryKey(n)}
      /\ UNCHANGED <<events, decisions, raced>>
  BY DEF MarkDelivery, history
<1>2. req'[q].at = "slice" /\ req'[q].event = n /\ \A p \in Requests \ {q} : req'[p] = req[p]
  BY DEF GoesOn
<1>3. SUFFICES ASSUME raced = {}
               PROVE  OneEach' /\ Len(decisions') <= Cardinality(Settled')
  BY <1>1 DEF NotesInv
<1>4. OneEach /\ Len(decisions) <= Cardinality(Settled)
  BY <1>3 DEF NotesInv
<1>5. \A p \in Requests \ {q} : InEvent(p) => req[p].event # n
  BY <1>1, <1>4 DEF OneEach, InEvent, EventPlaces
<1>6. DeliveryKey(n) \notin kv
  BY <1>1, <1>4 DEF OneEach, InEvent, EventPlaces
<1> HIDE DEF n
<1>7. \A m : DeliveryKey(m) \in kv' <=> DeliveryKey(m) \in kv \/ m = n
  BY <1>1, KeysDiffer
<1>8. OneEach'
  <2>1. ASSUME NEW p \in Requests, InEvent(p)'
        PROVE  req'[p].at = "mark" <=> DeliveryKey(req'[p].event) \notin kv'
    BY <1>2, <1>4, <1>5, <1>7, <2>1 DEF OneEach, InEvent
  <2>2. ASSUME NEW p \in Requests, NEW r \in Requests, InEvent(p)', InEvent(r)',
               req'[p].event = req'[r].event
        PROVE  p = r
    BY <1>2, <1>4, <1>5, <2>2 DEF OneEach, InEvent, n
  <2> QED BY <2>1, <2>2 DEF OneEach, InEvent
<1>9. Settled' = Settled
  <2>1. ASSUME NEW m \in DOMAIN events, m # n
        PROVE  m \in Settled' <=> m \in Settled
    BY <1>1, <1>2, <1>7, <2>1 DEF Settled, AtWork
  <2>2. n \notin Settled' /\ n \notin Settled
    BY <1>2, <1>6 DEF Settled, AtWork
  <2>3. Settled \subseteq DOMAIN events /\ Settled' \subseteq DOMAIN events
    BY <1>1 DEF Settled
  <2> QED BY <2>1, <2>2, <2>3
<1> QED BY <1>1, <1>4, <1>8, <1>9

LEMMA NotesSliced ==
  ASSUME TypeOK, NotesInv, NEW q \in Requests, req[q].at = "slice",
         req'[q].at = "transition", req'[q].event = req[q].event,
         \A p \in Requests \ {q} : req'[p] = req[p],
         UNCHANGED <<kv, events, decisions, raced>>
  PROVE  NotesInv'
<1>1. SUFFICES ASSUME raced = {}
               PROVE  OneEach' /\ Len(decisions') <= Cardinality(Settled')
  BY DEF NotesInv
<1>2. OneEach /\ Len(decisions) <= Cardinality(Settled)
  BY <1>1 DEF NotesInv
<1>3. \A p \in Requests : /\ InEvent(p)' <=> InEvent(p)
                          /\ AtWork(p)' <=> AtWork(p)
                          /\ req'[p].event = req[p].event
                          /\ req'[p].at = "mark" <=> req[p].at = "mark"
  BY DEF InEvent, AtWork, EventPlaces
<1>4. OneEach'
  BY <1>2, <1>3 DEF OneEach
<1>5. Settled' = Settled
  BY <1>3 DEF Settled
<1> QED BY <1>2, <1>4, <1>5

(* An event is done with; a note may have made one decision due.           *)
LEMMA NotesMoved ==
  ASSUME TypeOK, TypeOK', NotesInv, NEW q \in Requests, req[q].at = "transition", Ends(q),
         NEW r, Noted(r), decisions' # decisions => Kind(q) = "note",
         UNCHANGED <<kv, events, raced>>
  PROVE  NotesInv'
<1> DEFINE n == req[q].event
<1>1. SUFFICES ASSUME raced = {}
               PROVE  OneEach' /\ Len(decisions') <= Cardinality(Settled')
  BY DEF NotesInv
<1>2. OneEach /\ Len(decisions) <= Cardinality(Settled)
  BY <1>1 DEF NotesInv
<1>3. /\ req'[q].at = "idle" /\ \A p \in Requests \ {q} : req'[p] = req[p]
      /\ \A p \in Requests \ {q} : InEvent(p) => req[p].event # n
      /\ DeliveryKey(n) \in kv /\ n \in DOMAIN events
  BY <1>2, EventHandled DEF Ends, Idle, OneEach, InEvent, EventPlaces
<1>4. OneEach'
  BY <1>2, <1>3 DEF OneEach, InEvent, EventPlaces
<1>5. Settled \subseteq Settled' /\ n \notin Settled
  BY <1>3 DEF Settled, AtWork
<1>6. Kind(q) = "note" => n \in Settled'
  BY <1>3 DEF Settled, AtWork, Kind, InEvent, EventPlaces
<1>7. IsFiniteSet(Settled') /\ Cardinality(Settled') \in Nat
  <2>1. IsFiniteSet(Settled)' /\ (Cardinality(Settled) \in Nat)'
    BY SettledFinite, PTL
  <2> QED BY <2>1
<1>8. IsFiniteSet(Settled) /\ Cardinality(Settled) \in Nat /\ Len(decisions) \in Nat
  BY SettledFinite
<1>9. Cardinality(Settled) <= Cardinality(Settled')
  BY <1>5, <1>7, FS_Subset
<1>10. CASE decisions' = decisions
  BY <1>2, <1>4, <1>7, <1>8, <1>9, <1>10
<1>11. CASE decisions' # decisions
  <2>1. decisions' = Append(decisions, r)
    BY <1>11 DEF Noted
  <2>2. Len(decisions') = Len(decisions) + 1
    BY <2>1, Parts DEF HistoryOK
  <2>3. Settled \cup {n} \subseteq Settled'
    BY <1>5, <1>6, <1>11
  <2>4. IsFiniteSet(Settled \cup {n}) /\ Cardinality(Settled \cup {n}) = Cardinality(Settled) + 1
    BY <1>5, <1>8, FS_AddElement
  <2>5. Cardinality(Settled) + 1 <= Cardinality(Settled')
    BY <1>7, <2>3, <2>4, FS_Subset
  <2> QED BY <1>2, <1>4, <1>7, <1>8, <2>2, <2>5
<1> QED BY <1>10, <1>11

-----------------------------------------------------------------------------
(* A decision is due, and a review pending, only where one was reported.   *)

PendedInv ==
  \A r \in RunIds : runs[r].loop \in {"REVIEW_PENDING", "DECISION_REQUIRED"} => r \in pended

LEMMA PendedStep ==
  ASSUME TypeOK, PendedInv, Stays, NEW m \in RunIds, NEW request, Loops(m, request),
         pended \subseteq pended', request = "REVIEW_PENDING" => m \in pended'
  PROVE  PendedInv'
<1>1. RunIds' = RunIds
  BY DEF Stays, RunIds
<1>2. ASSUME NEW r \in RunIds, runs'[r].loop \in {"REVIEW_PENDING", "DECISION_REQUIRED"}
      PROVE  r \in pended'
  <2>1. CASE r = m
    BY <1>2, <2>1 DEF Loops, Follows, PendedInv
  <2>2. CASE r # m
    BY <1>2, <2>2 DEF Loops, PendedInv
  <2> QED BY <2>1, <2>2
<1> QED BY <1>1, <1>2 DEF PendedInv

LEMMA PendedAdded ==
  ASSUME TypeOK, PendedInv, NEW a, NEW by, Added(a, by), UNCHANGED pended
  PROVE  PendedInv'
<1>1. RunIds' = RunIds \cup {Len(runs) + 1}
  BY RunsAreRuns DEF Added, Grows, RunIds
<1> QED BY <1>1 DEF Added, PendedInv

-----------------------------------------------------------------------------
(* The inductive invariant.                                                *)

LoopInv == TypeOK /\ ApprovalsAreKept /\ DecisionsInv /\ DepthInv /\ PendedInv /\ NotesInv

LEMMA InitLoop ==
  ASSUME Init
  PROVE  LoopInv
<1>1. TypeOK
  BY InitTyped
<1>2. /\ Len(runs) = 1 /\ RunIds = {1} /\ runs[1].base = 0 /\ runs[1].loop = "RUNNING"
  <2> DEFINE run == [NewRun(0, FALSE, "intake") EXCEPT !.status = "RUNNING_CODEX", !.loop = "RUNNING"]
  <2>1. run.base = 0 /\ run.loop = "RUNNING"
    BY DEF NewRun
  <2>2. runs = <<run>>
    BY DEF Init
  <2> HIDE DEF run
  <2>3. Len(runs) = 1 /\ runs[1] = run
    BY <2>2
  <2>4. RunIds = {1}
    BY <2>3 DEF RunIds
  <2> QED BY <2>1, <2>3, <2>4
<1>3. ApprovalsAreKept
  BY DEF Init, ApprovalsAreKept
<1>4. DecisionsInv
  <2>1. \A q \in Requests : req[q].at = "idle"
    BY DEF Init, Idle
  <2>2. Pending(1) = {} /\ Reruns(1) = {} /\ Open(1) = 0
    BY <1>2, <2>1 DEF Pending, Reruns, Open
  <2> QED BY <1>1, <1>2, <2>2, Finite, FS_EmptySet DEF DecisionsInv
<1>5. DepthInv
  <2> DEFINE d == [r \in {1} |-> 0]
  <2>1. d \in [RunIds -> Nat] /\ IsDepth(d) /\ \A r \in RunIds : d[r] < r
    BY <1>2 DEF IsDepth
  <2>2. Shows(d)
    <3>1. \A q \in Requests : req[q] = Idle
      BY DEF Init
    <3> QED BY <3>1, IdleLed DEF Init, Shows
  <2> QED BY <2>1, <2>2 DEF DepthInv
<1>6. PendedInv
  BY <1>2 DEF PendedInv
<1>7. NotesInv
  <2>1. \A q \in Requests : ~InEvent(q)
    BY DEF Init, Idle, InEvent, EventPlaces
  <2>2. Settled = {} /\ Len(decisions) = 0
    BY DEF Init, Settled
  <2> QED BY <2>1, <2>2, FS_EmptySet DEF NotesInv, OneEach
<1> QED BY <1>1, <1>3, <1>4, <1>5, <1>6, <1>7 DEF LoopInv

(* A step that moves run m, if anything, for a request that is handling a  *)
(* click, or for nobody.                                                   *)
LEMMA RunMoves ==
  ASSUME LoopInv, TypeOK', Stays, NEW m \in RunIds, NEW request, request # "REVIEW_PENDING",
         Loops(m, request), Noted(m), decisions' = decisions,
         UNCHANGED <<kv, events, granted, pended, lost, raced>>,
         \A p \in Requests : \/ req'[p] = req[p]
                             \/ /\ req[p].at \notin EventPlaces \cup {"changes"}
                                /\ req'[p].at \notin EventPlaces \cup {"changes"}
  PROVE  ApprovalsAreKept' /\ DecisionsInv' /\ PendedInv' /\ NotesInv'
<1>1. ApprovalsAreKept'
  BY KeptStep DEF LoopInv, Stays
<1>2. DecisionsInv'
  BY DecisionsStep DEF LoopInv, Loops
<1>3. PendedInv'
  BY PendedStep DEF LoopInv
<1>4. NotesInv'
  BY NotesUnmoved DEF LoopInv
<1> QED BY <1>1, <1>2, <1>3, <1>4

LEMMA NothingMoves ==
  ASSUME TypeOK, UNCHANGED board
  PROVE  1 \in RunIds /\ Stays /\ Loops(1, NoRequest) /\ Noted(1) /\ UNCHANGED <<runs, decisions>>
<1>1. UNCHANGED runs /\ UNCHANGED decisions /\ 1 \in RunIds
  BY RunsAreRuns DEF board, RunIds
<1> QED BY <1>1, StaysOK DEF Loops, Follows, Noted

(* The loop at a step of a click's request after its approval.             *)
LEMMA HandledDepth ==
  ASSUME LoopInv, Stays, NEW q \in Requests, UNCHANGED <<bindings, buttons>>,
         \A p \in Requests \ {q} : req'[p] = req[p],
         \A d \in [RunIds -> Nat] : Led(req[q], d) /\ Shows(d) => Led(req'[q], d)
  PROVE  DepthInv'
<1>1. PICK d \in [RunIds -> Nat] : IsDepth(d) /\ (\A r \in RunIds : d[r] < r) /\ Shows(d)
  BY DEF LoopInv, DepthInv
<1>2. Led(req[q], d)
  BY <1>1 DEF Shows
<1>3. Shows(d)'
  BY <1>1, <1>2, ShowsUnmoved DEF LoopInv
<1> QED BY <1>1, <1>3, DepthStay DEF LoopInv

LEMMA ExecuteLoop ==
  ASSUME LoopInv, NEW r \in RunIds, Execute(r)
  PROVE  LoopInv'
<1>1. TypeOK' /\ Stays /\ Loops(r, NoRequest) /\ Noted(r) /\ decisions' = decisions
  BY ExecuteTyped DEF LoopInv
<1>2. UNCHANGED <<bindings, buttons, kv, events, req, pended, granted, lost, raced>>
  BY DEF Execute, history
<1>3. ApprovalsAreKept' /\ DecisionsInv' /\ PendedInv' /\ NotesInv'
  BY <1>1, <1>2, RunMoves DEF NoRequest
<1>4. PICK d \in [RunIds -> Nat] : IsDepth(d) /\ (\A s \in RunIds : d[s] < s) /\ Shows(d)
  BY DEF LoopInv, DepthInv
<1>5. Shows(d)'
  BY <1>2, <1>4 DEF Shows, Led
<1>6. DepthInv'
  BY <1>1, <1>4, <1>5, DepthStay DEF LoopInv
<1> QED BY <1>1, <1>3, <1>6 DEF LoopInv

LEMMA RequestChangesLoop ==
  ASSUME LoopInv, NEW r \in RunIds, RequestChanges(r)
  PROVE  LoopInv'
<1>1. TypeOK' /\ Added(r, "operator")
  BY RequestChangesTyped DEF LoopInv
<1>2. UNCHANGED <<bindings, buttons, kv, events, req, decisions, pended, granted, lost, raced>>
  BY DEF RequestChanges, history
<1>3. ApprovalsAreKept'
  BY <1>1, <1>2, KeptStep DEF LoopInv, Added
<1>4. DecisionsInv'
  BY <1>1, <1>2, DecisionsRerun DEF LoopInv
<1>5. DepthInv'
  BY <1>1, <1>2, DepthAdded DEF LoopInv
<1>6. PendedInv' /\ NotesInv'
  BY <1>1, <1>2, PendedAdded, NotesUnmoved DEF LoopInv
<1> QED BY <1>1, <1>3, <1>4, <1>5, <1>6 DEF LoopInv

LEMMA ClickLoop ==
  ASSUME LoopInv, NEW q \in Requests, NEW action \in Actions, Click(q, action)
  PROVE  LoopInv'
<1>1. /\ TypeOK' /\ req'[q].at \in {"approve", "pause", "close"}
      /\ \A p \in Requests \ {q} : req'[p] = req[p]
  BY ClickTyped DEF LoopInv
<1>2. PICK b \in buttons :
        /\ req'[q].run = b.run
        /\ req'[q].click = [action |-> action, chan |-> b.chan, run |-> b.run, round |-> b.round]
  BY ClickTyped DEF LoopInv
<1>3. /\ UNCHANGED <<board, bindings, buttons, events, granted, pended, lost, raced>>
      /\ req[q].at = "idle"
      /\ \E c \in buttons : kv' = kv \cup {[action |-> action, chan |-> c.chan, run |-> c.run, round |-> c.round]}
  BY DEF Click, board, history, Free
<1>4. 1 \in RunIds /\ Stays /\ Loops(1, NoRequest) /\ Noted(1) /\ UNCHANGED <<runs, decisions>>
  BY <1>3, NothingMoves DEF LoopInv
<1>5. ApprovalsAreKept'
  BY <1>1, <1>3, <1>4, KeptStep DEF LoopInv, Stays
<1>6. DecisionsInv'
  BY <1>1, <1>3, DecisionsUnmoved DEF LoopInv
<1>7. PendedInv'
  BY <1>3, <1>4, PendedStep DEF LoopInv, NoRequest
<1>8. NotesInv'
  <2>1. \A n : DeliveryKey(n) \in kv' <=> DeliveryKey(n) \in kv
    BY <1>3, ClicksAreNoDeliveries
  <2>2. req[q].at \notin EventPlaces /\ req'[q].at \notin EventPlaces
    BY <1>1, <1>3 DEF EventPlaces
  <2> QED BY <1>1, <1>3, <1>4, <2>1, <2>2, NotesUnmoved DEF LoopInv
<1>9. DepthInv'
  <2>1. ASSUME NEW d \in [RunIds -> Nat], Shows(d)
        PROVE  Led(req'[q], d)
    BY <1>1, <1>2, <2>1 DEF Led, Shows
  <2> QED BY <1>1, <1>3, <1>4, <2>1, HandledDepth
<1> QED BY <1>1, <1>5, <1>6, <1>7, <1>8, <1>9 DEF LoopInv

LEMMA ApproveLoop ==
  ASSUME LoopInv, NEW q \in Requests, Approve(q)
  PROVE  LoopInv'
<1>1. /\ TypeOK' /\ \A p \in Requests \ {q} : req'[p] = req[p]
      /\ \/ Granted(q)
         \/ UNCHANGED <<board, granted>> /\ req'[q] = Idle
  BY ApproveTyped DEF LoopInv
<1>2. /\ req[q].at = "approve" /\ req[q].at \in ClickPlaces
      /\ UNCHANGED <<bindings, buttons, kv, events, pended, lost, raced>>
  BY DEF Approve, ClickPlaces
<1>3. req[q].run \in RunIds
  BY <1>2, ClickHandled DEF LoopInv
<1>4. CASE Granted(q)
  <2>1. /\ Stays /\ Loops(req[q].run, "RERUN_QUEUED") /\ decisions' = decisions
        /\ granted' = granted \cup {req[q].run}
        /\ req'[q].at = "changes" /\ req'[q].run = req[q].run /\ req'[q].click = req[q].click
    BY <1>4 DEF Granted
  <2>2. ApprovalsAreKept'
    BY <1>1, <1>2, <2>1, KeptStep DEF LoopInv, Stays
  <2>3. DecisionsInv'
    BY <1>1, <1>2, <1>3, <1>4, DecisionsGranted DEF LoopInv
  <2>4. PendedInv'
    BY <1>2, <1>3, <2>1, PendedStep DEF LoopInv
  <2>5. NotesInv'
    BY <1>1, <1>2, <2>1, NotesUnmoved DEF LoopInv, EventPlaces
  <2>6. DepthInv'
    BY <1>1, <1>2, <2>1, HandledDepth DEF Led
  <2> QED BY <1>1, <2>2, <2>3, <2>4, <2>5, <2>6 DEF LoopInv
<1>5. CASE UNCHANGED <<board, granted>> /\ req'[q] = Idle
  <2>1. 1 \in RunIds /\ Stays /\ Loops(1, NoRequest) /\ Noted(1) /\ UNCHANGED <<runs, decisions>>
    BY <1>5, NothingMoves DEF LoopInv
  <2>2. ApprovalsAreKept' /\ DecisionsInv' /\ PendedInv' /\ NotesInv'
    BY <1>1, <1>2, <1>5, <2>1, RunMoves DEF Idle, EventPlaces, NoRequest
  <2>3. DepthInv'
    BY <1>1, <1>2, <1>5, <2>1, IdleLed, HandledDepth
  <2> QED BY <1>1, <2>2, <2>3 DEF LoopInv
<1> QED BY <1>1, <1>4, <1>5

LEMMA RerunLoop ==
  ASSUME LoopInv, NEW q \in Requests, Rerun(q)
  PROVE  LoopInv'
<1>1. /\ TypeOK' /\ req[q].run \in RunIds /\ Added(req[q].run, "slack")
      /\ req'[q].at = "schedule" /\ req'[q].run = Len(runs) + 1 /\ req'[q].click = req[q].click
      /\ \A p \in Requests \ {q} : req'[p] = req[p]
  BY RerunTyped DEF LoopInv
<1>2. /\ req[q].at = "changes"
      /\ UNCHANGED <<bindings, buttons, kv, events, decisions, pended, granted, lost, raced>>
  BY DEF Rerun, history
<1>3. ApprovalsAreKept'
  <2>1. /\ Len(runs) + 1 \in RunIds' /\ runs'[Len(runs) + 1].base = req[q].run
        /\ runs'[Len(runs) + 1].by = "slack"
    BY <1>1, RunsAreRuns DEF LoopInv, Added, RunIds
  <2> QED BY <1>1, <1>2, <2>1, KeptStep DEF LoopInv, Added
<1>4. DecisionsInv'
  BY <1>1, <1>2, DecisionsRerun DEF LoopInv
<1>5. DepthInv'
  BY <1>1, <1>2, DepthAdded DEF LoopInv
<1>6. PendedInv' /\ NotesInv'
  BY <1>1, <1>2, PendedAdded, NotesUnmoved DEF LoopInv, EventPlaces
<1> QED BY <1>1, <1>3, <1>4, <1>5, <1>6 DEF LoopInv

LEMMA ScheduleLoop ==
  ASSUME LoopInv, NEW q \in Requests, Schedule(q)
  PROVE  LoopInv'
<1>1. TypeOK' /\ GoesOn(q, {"note"})
  BY ScheduleTyped DEF LoopInv
<1>2. /\ req[q].at = "schedule"
      /\ UNCHANGED <<board, bindings, buttons, kv, events, pended, granted, lost, raced>>
  BY DEF Schedule, board, history
<1>3. 1 \in RunIds /\ Stays /\ Loops(1, NoRequest) /\ Noted(1) /\ UNCHANGED <<runs, decisions>>
  BY <1>2, NothingMoves DEF LoopInv
<1>4. ApprovalsAreKept' /\ DecisionsInv' /\ PendedInv' /\ NotesInv'
  BY <1>1, <1>2, <1>3, RunMoves DEF GoesOn, EventPlaces, NoRequest
<1>5. DepthInv'
  BY <1>1, <1>2, <1>3, HandledDepth DEF GoesOn, Led, ClickPlaces
<1> QED BY <1>1, <1>4, <1>5 DEF LoopInv

LEMMA NoteWorkflowLoop ==
  ASSUME LoopInv, NEW q \in Requests, NoteWorkflow(q)
  PROVE  LoopInv'
<1>1. /\ TypeOK' /\ GoesOn(q, {"bind"}) /\ req[q].run \in RunIds
      /\ Stays /\ Loops(req[q].run, "RERUN_QUEUED") /\ Noted(req[q].run) /\ decisions' = decisions
  BY NoteWorkflowTyped DEF LoopInv
<1>2. /\ req[q].at = "note"
      /\ UNCHANGED <<bindings, buttons, kv, events, pended, granted, lost, raced>>
  BY DEF NoteWorkflow, history
<1>3. ApprovalsAreKept' /\ DecisionsInv' /\ PendedInv' /\ NotesInv'
  BY <1>1, <1>2, RunMoves DEF GoesOn, EventPlaces
<1>4. DepthInv'
  BY <1>1, <1>2, HandledDepth DEF GoesOn, Led, ClickPlaces
<1> QED BY <1>1, <1>3, <1>4 DEF LoopInv

LEMMA PauseLoop ==
  ASSUME LoopInv, NEW q \in Requests, Pause(q)
  PROVE  LoopInv'
<1>1. /\ TypeOK' /\ GoesOn(q, {"update"}) /\ req[q].run \in RunIds
      /\ Stays /\ Loops(req[q].run, "PAUSED") /\ Noted(req[q].run) /\ decisions' = decisions
  BY PauseTyped DEF LoopInv
<1>2. /\ req[q].at = "pause"
      /\ UNCHANGED <<bindings, buttons, kv, events, pended, granted, lost, raced>>
  BY DEF Pause, history
<1>3. ApprovalsAreKept' /\ DecisionsInv' /\ PendedInv' /\ NotesInv'
  BY <1>1, <1>2, RunMoves DEF GoesOn, EventPlaces
<1>4. DepthInv'
  BY <1>1, <1>2, HandledDepth DEF GoesOn, Led, ClickPlaces
<1> QED BY <1>1, <1>3, <1>4 DEF LoopInv

(* A request that is past its approval ends.                               *)
LEMMA EndLoop ==
  ASSUME LoopInv, TypeOK', NEW q \in Requests, req[q].at \in ClickPlaces \ {"changes"}, Ends(q),
         UNCHANGED <<board, kv, events, pended, granted, lost, raced>>
  PROVE  ApprovalsAreKept' /\ DecisionsInv' /\ PendedInv' /\ NotesInv'
<1>1. 1 \in RunIds /\ Stays /\ Loops(1, NoRequest) /\ Noted(1) /\ UNCHANGED <<runs, decisions>>
  BY NothingMoves DEF LoopInv
<1>2. \A p \in Requests : \/ req'[p] = req[p]
                          \/ /\ req[p].at \notin EventPlaces \cup {"changes"}
                             /\ req'[p].at \notin EventPlaces \cup {"changes"}
  BY DEF Ends, Idle, ClickPlaces, EventPlaces
<1> QED BY <1>1, <1>2, RunMoves DEF NoRequest

LEMMA BindRerunLoop ==
  ASSUME LoopInv, NEW q \in Requests, BindRerun(q)
  PROVE  LoopInv'
<1>1. TypeOK' /\ Ends(q)
  BY BindRerunTyped DEF LoopInv
<1>2. /\ req[q].at = "bind" /\ req[q].at \in ClickPlaces
      /\ Bind(req[q].click.chan, req[q].run, req[q].click.round + 1) /\ Show
      /\ UNCHANGED <<board, runs, kv, events, pended, granted, lost, raced>>
  BY DEF BindRerun, NextRound, board, history, ClickPlaces
<1>3. ApprovalsAreKept' /\ DecisionsInv' /\ PendedInv' /\ NotesInv'
  BY <1>1, <1>2, EndLoop
<1>4. PICK d \in [RunIds -> Nat] : IsDepth(d) /\ (\A s \in RunIds : d[s] < s) /\ Shows(d)
  BY DEF LoopInv, DepthInv
<1>5. d[req[q].run] = req[q].click.round + 1
  BY <1>2, <1>4 DEF Shows, Led
<1>6. req[q].run \in RunIds /\ req[q].click.chan \in Channels
  BY <1>2, ClickHandled DEF LoopInv
<1>7. Shows(d)'
  BY <1>1, <1>2, <1>4, <1>5, <1>6, ShowsBound DEF LoopInv
<1>8. DepthInv'
  BY <1>2, <1>4, <1>7, StaysOK, DepthStay DEF LoopInv
<1> QED BY <1>1, <1>3, <1>8 DEF LoopInv

LEMMA UpdateBindingLoop ==
  ASSUME LoopInv, NEW q \in Requests, UpdateBinding(q)
  PROVE  LoopInv'
<1>1. TypeOK' /\ Ends(q)
  BY UpdateBindingTyped DEF LoopInv
<1>2. /\ req[q].at = "update" /\ req[q].at \in ClickPlaces
      /\ Bind(req[q].click.chan, req[q].click.run, req[q].click.round) /\ Show
      /\ UNCHANGED <<board, runs, kv, events, pended, granted, lost, raced>>
  BY DEF UpdateBinding, board, history, ClickPlaces
<1>3. ApprovalsAreKept' /\ DecisionsInv' /\ PendedInv' /\ NotesInv'
  BY <1>1, <1>2, EndLoop
<1>4. PICK d \in [RunIds -> Nat] : IsDepth(d) /\ (\A s \in RunIds : d[s] < s) /\ Shows(d)
  BY DEF LoopInv, DepthInv
<1>5. d[req[q].click.run] = req[q].click.round
  BY <1>2, <1>4 DEF Shows, Led
<1>6. req[q].click.run \in RunIds /\ req[q].click.chan \in Channels
  BY <1>2, ClickHandled DEF LoopInv
<1>7. Shows(d)'
  BY <1>1, <1>2, <1>4, <1>5, <1>6, ShowsBound DEF LoopInv
<1>8. DepthInv'
  BY <1>2, <1>4, <1>7, StaysOK, DepthStay DEF LoopInv
<1> QED BY <1>1, <1>3, <1>8 DEF LoopInv

LEMMA CloseThreadLoop ==
  ASSUME LoopInv, NEW q \in Requests, CloseThread(q)
  PROVE  LoopInv'
<1>1. TypeOK' /\ Ends(q)
  BY CloseThreadTyped DEF LoopInv
<1>2. /\ req[q].at = "close" /\ req[q].at \in ClickPlaces
      /\ bindings' = [bindings EXCEPT ![req[q].click.chan] = NoThread]
      /\ UNCHANGED <<board, runs, buttons, kv, events, pended, granted, lost, raced>>
  BY DEF CloseThread, board, history, ClickPlaces
<1>3. ApprovalsAreKept' /\ DecisionsInv' /\ PendedInv' /\ NotesInv'
  BY <1>1, <1>2, EndLoop
<1>4. PICK d \in [RunIds -> Nat] : IsDepth(d) /\ (\A s \in RunIds : d[s] < s) /\ Shows(d)
  BY DEF LoopInv, DepthInv
<1>5. \A c \in Channels : bindings'[c] # NoThread => bindings'[c] = bindings[c]
  BY <1>2 DEF LoopInv, TypeOK
<1>6. \A p \in Requests : Led(req'[p], d)
  BY <1>1, <1>4, IdleLed DEF Ends, Shows
<1>7. Shows(d)'
  BY <1>2, <1>4, <1>5, <1>6 DEF Shows, Led
<1>8. DepthInv'
  BY <1>2, <1>4, <1>7, StaysOK, DepthStay DEF LoopInv
<1> QED BY <1>1, <1>3, <1>8 DEF LoopInv

(* An event's request, whose steps are not about depth or approvals.       *)
LEMMA EventLoop ==
  ASSUME LoopInv, TypeOK', NEW q \in Requests, Stays,
         req[q].at \in EventPlaces \cup {"idle"}, req'[q].at \in EventPlaces \cup {"idle"},
         \A p \in Requests \ {q} : req'[p] = req[p], UNCHANGED <<bindings, buttons, granted, lost>>
  PROVE  /\ ApprovalsAreKept' /\ DepthInv'
         /\ \A p \in Requests : req'[p].at = "changes" =>
               req[p].at = "changes" /\ req'[p].run = req[p].run
<1>1. ApprovalsAreKept'
  BY KeptStep DEF LoopInv, Stays, EventPlaces
<1>2. \A d \in [RunIds -> Nat] : Led(req'[q], d)
  BY DEF Led, EventPlaces, ClickPlaces
<1>3. DepthInv'
  BY <1>2, HandledDepth
<1> QED BY <1>1, <1>3 DEF EventPlaces

LEMMA MarkDeliveryLoop ==
  ASSUME LoopInv, NEW q \in Requests, MarkDelivery(q)
  PROVE  LoopInv'
<1>1. TypeOK' /\ GoesOn(q, {"slice"})
  BY MarkDeliveryTyped DEF LoopInv
<1>2. req[q].at = "mark" /\ UNCHANGED <<board, bindings, buttons, pended, granted, lost>>
  BY DEF MarkDelivery, board, history
<1>3. 1 \in RunIds /\ Stays /\ Loops(1, NoRequest)
  BY <1>2, NothingMoves DEF LoopInv
<1>4. /\ ApprovalsAreKept' /\ DepthInv'
      /\ \A p \in Requests : req'[p].at = "changes" =>
            req[p].at = "changes" /\ req'[p].run = req[p].run
  BY <1>1, <1>2, <1>3, EventLoop DEF GoesOn, EventPlaces
<1>5. DecisionsInv' /\ PendedInv'
  BY <1>1, <1>2, <1>3, <1>4, DecisionsUnmoved, PendedStep DEF LoopInv, NoRequest
<1>6. NotesInv'
  BY <1>1, NotesMarked DEF LoopInv
<1> QED BY <1>1, <1>4, <1>5, <1>6 DEF LoopInv

LEMMA ReadSliceLoop ==
  ASSUME LoopInv, NEW q \in Requests, ReadSlice(q)
  PROVE  LoopInv'
<1>1. /\ TypeOK' /\ req'[q].at = "transition" /\ req'[q].event = req[q].event
      /\ \A p \in Requests \ {q} : req'[p] = req[p]
  BY ReadSliceTyped DEF LoopInv
<1>2. /\ req[q].at = "slice"
      /\ UNCHANGED <<board, bindings, buttons, kv, events, pended, granted, lost, raced>>
  BY DEF ReadSlice, board, history
<1>3. 1 \in RunIds /\ Stays /\ Loops(1, NoRequest) /\ UNCHANGED decisions
  BY <1>2, NothingMoves DEF LoopInv
<1>4. /\ ApprovalsAreKept' /\ DepthInv'
      /\ \A p \in Requests : req'[p].at = "changes" =>
            req[p].at = "changes" /\ req'[p].run = req[p].run
  BY <1>1, <1>2, <1>3, EventLoop DEF EventPlaces
<1>5. DecisionsInv' /\ PendedInv'
  BY <1>1, <1>2, <1>3, <1>4, DecisionsUnmoved, PendedStep DEF LoopInv, NoRequest
<1>6. NotesInv'
  BY <1>1, <1>2, <1>3, NotesSliced DEF LoopInv
<1> QED BY <1>1, <1>4, <1>5, <1>6 DEF LoopInv

LEMMA MoveLoopLoop ==
  ASSUME LoopInv, NEW q \in Requests, MoveLoop(q)
  PROVE  LoopInv'
<1> DEFINE loop == LoopStateFor[Kind(q)]
<1>1. /\ TypeOK' /\ Ends(q) /\ req[q].run \in RunIds
      /\ Stays /\ Loops(req[q].run, loop) /\ Noted(req[q].run)
      /\ decisions' # decisions => Kind(q) = "note"
      /\ loop = "REVIEW_PENDING" => req[q].run \in pended'
      /\ pended \subseteq pended'
  BY MoveLoopTyped DEF LoopInv
<1>2. /\ req[q].at = "transition"
      /\ UNCHANGED <<bindings, buttons, kv, events, granted, lost, raced>>
  BY DEF MoveLoop
<1> HIDE DEF loop
<1>3. req'[q].at = "idle" /\ \A p \in Requests \ {q} : req'[p] = req[p]
  BY <1>1 DEF Ends, Idle
<1>4. /\ ApprovalsAreKept' /\ DepthInv'
      /\ \A p \in Requests : req'[p].at = "changes" =>
            req[p].at = "changes" /\ req'[p].run = req[p].run
  BY <1>1, <1>2, <1>3, EventLoop DEF EventPlaces
<1>5. DecisionsInv'
  BY <1>1, <1>4, DecisionsStep DEF LoopInv, Loops
<1>6. PendedInv'
  BY <1>1, PendedStep DEF LoopInv
<1>7. NotesInv'
  BY <1>1, <1>2, NotesMoved DEF LoopInv
<1> QED BY <1>1, <1>4, <1>5, <1>6, <1>7 DEF LoopInv

LEMMA DeliverLoop ==
  ASSUME LoopInv, NEW q \in Requests, NEW kind \in {"merge_request", "note"}, Deliver(q, kind)
  PROVE  LoopInv'
<1>1. /\ TypeOK' /\ req'[q].at = "mark" /\ req'[q].event = Len(events) + 1
      /\ \A p \in Requests \ {q} : req'[p] = req[p]
      /\ Len(events') = Len(events) + 1 /\ Len(events) \in Nat
      /\ \A n \in DOMAIN events : events'[n] = events[n]
  BY DeliverTyped DEF LoopInv
<1>2. /\ req[q].at = "idle" /\ DeliveryKey(Len(events) + 1) \notin kv
      /\ UNCHANGED <<board, bindings, buttons, kv, pended, granted, lost, raced>>
  BY DEF Deliver, Arrive, Free, board, history
<1>3. 1 \in RunIds /\ Stays /\ Loops(1, NoRequest) /\ UNCHANGED decisions
  BY <1>2, NothingMoves DEF LoopInv
<1>4. /\ ApprovalsAreKept' /\ DepthInv'
      /\ \A p \in Requests : req'[p].at = "changes" =>
            req[p].at = "changes" /\ req'[p].run = req[p].run
  BY <1>1, <1>2, <1>3, EventLoop DEF EventPlaces
<1>5. DecisionsInv' /\ PendedInv'
  BY <1>1, <1>2, <1>3, <1>4, DecisionsUnmoved, PendedStep DEF LoopInv, NoRequest
<1>6. NotesInv'
  <2>1. DOMAIN events = 1..Len(events) /\ DOMAIN events' = 1..(Len(events) + 1)
    <3>1. EventsOK /\ EventsOK'
      BY <1>1, Parts, PTL DEF LoopInv
    <3> QED BY <1>1, <3>1 DEF EventsOK
  <2>2. /\ DOMAIN events \subseteq DOMAIN events' /\ Len(events) + 1 \in DOMAIN events'
        /\ \A m \in DOMAIN events' : m \in DOMAIN events \/ m = Len(events) + 1
    BY <1>1, <2>1
  <2>3. \A p \in Requests : req[p].event # Len(events) + 1
    BY <1>1, RequestsFit DEF Fits, LoopInv
  <2> QED BY <1>1, <1>2, <1>3, <2>2, <2>3, NotesArrive DEF LoopInv
<1> QED BY <1>1, <1>4, <1>5, <1>6 DEF LoopInv

LEMMA RedeliverLoop ==
  ASSUME LoopInv, NEW q \in Requests, NEW n \in DOMAIN events, Redeliver(q, n)
  PROVE  LoopInv'
<1>1. /\ TypeOK' /\ req'[q].at = "mark" /\ req'[q].event = n
      /\ \A p \in Requests \ {q} : req'[p] = req[p]
  BY RedeliverTyped DEF LoopInv
<1>2. /\ req[q].at = "idle" /\ DeliveryKey(n) \notin kv
      /\ raced' = raced \cup {m \in {n} : \E p \in Requests : req[p].at = "mark" /\ req[p].event = n}
      /\ UNCHANGED <<board, bindings, buttons, kv, events, pended, granted, lost>>
  BY DEF Redeliver, Arrive, Free, board
<1>3. 1 \in RunIds /\ Stays /\ Loops(1, NoRequest) /\ UNCHANGED decisions
  BY <1>2, NothingMoves DEF LoopInv
<1>4. /\ ApprovalsAreKept' /\ DepthInv'
      /\ \A p \in Requests : req'[p].at = "changes" =>
            req[p].at = "changes" /\ req'[p].run = req[p].run
  BY <1>1, <1>2, <1>3, EventLoop DEF EventPlaces
<1>5. DecisionsInv' /\ PendedInv'
  BY <1>1, <1>2, <1>3, <1>4, DecisionsUnmoved, PendedStep DEF LoopInv, NoRequest
<1>6. NotesInv'
  <2>1. raced' = {} => raced = {} /\ \A p \in Requests : req[p].at = "mark" => req[p].event # n
    BY <1>2
  <2>2. n \in DOMAIN events' /\ DOMAIN events' = DOMAIN events
    BY <1>2
  <2> QED BY <1>1, <1>2, <1>3, <2>1, <2>2, NotesArrive DEF LoopInv
<1> QED BY <1>1, <1>4, <1>5, <1>6 DEF LoopInv

LEMMA FailLoop ==
  ASSUME LoopInv, NEW q \in Requests, Fail(q)
  PROVE  LoopInv'
<1>1. TypeOK' /\ Ends(q)
  BY FailTyped DEF LoopInv
<1>2. /\ req[q].at \in ClickPlaces
      /\ lost' = IF req[q].at = "changes" THEN lost \cup {req[q].run} ELSE lost
      /\ UNCHANGED <<board, bindings, buttons, kv, events, pended, granted, raced>>
  BY DEF Fail, board, ClickPlaces
<1>3. 1 \in RunIds /\ Stays /\ Loops(1, NoRequest) /\ UNCHANGED <<runs, decisions>>
  BY <1>2, NothingMoves DEF LoopInv
<1>4. req'[q] = Idle /\ req'[q].at = "idle" /\ \A p \in Requests \ {q} : req'[p] = req[p]
  BY <1>1 DEF Ends, Idle
<1>5. ApprovalsAreKept'
  BY <1>2, <1>3, <1>4, KeptStep DEF LoopInv, Stays
<1>6. DecisionsInv' /\ PendedInv'
  BY <1>1, <1>2, <1>3, <1>4, DecisionsUnmoved, PendedStep DEF LoopInv, NoRequest
<1>7. NotesInv'
  BY <1>2, <1>3, <1>4, NotesUnmoved DEF LoopInv, EventPlaces, ClickPlaces
<1>8. DepthInv'
  BY <1>2, <1>3, <1>4, IdleLed, HandledDepth
<1> QED BY <1>1, <1>5, <1>6, <1>7, <1>8 DEF LoopInv

LEMMA StutterLoop ==
  ASSUME LoopInv, UNCHANGED vars
  PROVE  LoopInv'
<1>1. TypeOK'
  BY StutterTyped DEF LoopInv
<1>2. UNCHANGED <<board, bindings, buttons, kv, events, req, pended, granted, lost, raced>>
  BY DEF vars, board
<1>3. 1 \in RunIds /\ Stays /\ Loops(1, NoRequest) /\ Noted(1) /\ UNCHANGED <<runs, decisions>>
  BY <1>2, NothingMoves DEF LoopInv
<1>4. ApprovalsAreKept' /\ DecisionsInv' /\ PendedInv' /\ NotesInv'
  BY <1>1, <1>2, <1>3, RunMoves DEF NoRequest
<1>5. PICK d \in [RunIds -> Nat] : IsDepth(d) /\ (\A s \in RunIds : d[s] < s) /\ Shows(d)
  BY DEF LoopInv, DepthInv
<1>6. Shows(d)'
  BY <1>2, <1>5 DEF Shows, Led
<1>7. DepthInv'
  BY <1>3, <1>5, <1>6, DepthStay DEF LoopInv
<1> QED BY <1>1, <1>4, <1>7 DEF LoopInv

LEMMA NextLoop ==
  ASSUME LoopInv, [Next]_vars
  PROVE  LoopInv'
<1>1. CASE \E r \in RunIds : Execute(r) \/ RequestChanges(r)
  BY <1>1, ExecuteLoop, RequestChangesLoop
<1>2. ASSUME NEW q \in Requests, Handle(q)
      PROVE  LoopInv'
  BY <1>2, ApproveLoop, RerunLoop, ScheduleLoop, NoteWorkflowLoop, BindRerunLoop, PauseLoop,
     UpdateBindingLoop, CloseThreadLoop, MarkDeliveryLoop, ReadSliceLoop, MoveLoopLoop, FailLoop
     DEF Handle
<1>3. ASSUME NEW q \in Requests, NEW action \in Actions, Click(q, action)
      PROVE  LoopInv'
  BY <1>3, ClickLoop
<1>4. ASSUME NEW q \in Requests, NEW kind \in {"merge_request", "note"}, Deliver(q, kind)
      PROVE  LoopInv'
  BY <1>4, DeliverLoop
<1>5. ASSUME NEW q \in Requests, NEW n \in DOMAIN events, Redeliver(q, n)
      PROVE  LoopInv'
  BY <1>5, RedeliverLoop
<1>6. CASE UNCHANGED vars
  BY <1>6, StutterLoop
<1> QED BY <1>1, <1>2, <1>3, <1>4, <1>5, <1>6 DEF Next

(* What is inductive holds in every state the loop can be in.              *)
LEMMA AlwaysLoopInv == Spec => []LoopInv
<1>1. Init => LoopInv
  BY InitLoop
<1>2. LoopInv /\ [Next]_vars => LoopInv'
  BY NextLoop
<1> QED BY <1>1, <1>2, PTL DEF Spec

-----------------------------------------------------------------------------
(* However many buttons are clicked at once, in however many threads, and  *)
(* whichever requests die: an approval takes one decision that was due and *)
(* has a rerun of its own (startSlackApprovedRerun and the board's         *)
(* transitionRunFromLoopState).                                            *)
THEOREM RerunsMatchHolds == Spec => []RerunsMatchDecisions
<1>1. LoopInv => RerunsMatchDecisions
  <2> SUFFICES ASSUME LoopInv
               PROVE  TypeOK /\ RerunsAreDecided /\ ApprovalsAreKept
    BY DEF RerunsMatchDecisions
  <2>1. ASSUME NEW r \in RunIds
        PROVE  Cardinality(Reruns(r)) <= Cardinality(Decided(r))
    <3>1. /\ IsFiniteSet(Pending(r))
          /\ Cardinality(Reruns(r)) + Cardinality(Pending(r)) + Open(r) <= Cardinality(Decided(r))
      BY DEF LoopInv, DecisionsInv
    <3>2. Cardinality(Pending(r)) \in Nat /\ Open(r) \in {0, 1}
      BY <3>1, FS_CardinalityType DEF Open
    <3> QED BY <3>1, <3>2, Finite DEF LoopInv
  <2> QED BY <2>1 DEF LoopInv, RerunsAreDecided
<1> QED BY <1>1, AlwaysLoopInv, PTL

(* The round a thread shows, one more than the clicked button's            *)
(* (nextRound), is the depth of the run it shows: though the round is      *)
(* never read from the run, buttons of older runs and of other threads     *)
(* cannot bring the two apart.                                             *)
THEOREM RoundIsDepthHolds == Spec => []RoundIsDepth
<1>1. LoopInv => RoundIsDepth
  <2> SUFFICES ASSUME LoopInv
               PROVE  RoundIsDepth
    OBVIOUS
  <2>1. PICK d \in [RunIds -> Nat] : IsDepth(d) /\ (\A r \in RunIds : d[r] < r) /\ Shows(d)
    BY DEF LoopInv, DepthInv
  <2>2. \A r \in RunIds : d[r] \in 0..MaxRuns
    BY <2>1, RunsAreRuns, Bounds DEF LoopInv, RunIds
  <2>3. d \in [RunIds -> 0..MaxRuns]
    BY <2>2
  <2> QED BY <2>1, <2>3 DEF RoundIsDepth, Shows
<1> QED BY <1>1, AlwaysLoopInv, PTL

(* A note of GitLab makes at most one decision due, and only of a review   *)
(* that was reported, though its deliveries are repeated and come in any   *)
(* order among those of the merge request (handleGitlabWebhook and         *)
(* resolveLoopStateTransition).                                            *)
THEOREM DecisionsAreDueHolds == Spec => []DecisionsAreDue
<1>1. LoopInv => DecisionsAreDue
  <2> SUFFICES ASSUME LoopInv
               PROVE  DecisionHasReview /\ OneDecisionPerNote
    BY DEF DecisionsAreDue
  <2>1. DecisionHasReview
    BY DEF LoopInv, PendedInv, DecisionHasReview
  <2>2. ASSUME raced = {}
        PROVE  Len(decisions) <= Cardinality({n \in DOMAIN events : events[n] = "note"})
    <3> DEFINE notes == {n \in DOMAIN events : events[n] = "note"}
    <3>1. Len(decisions) <= Cardinality(Settled)
      BY <2>2 DEF LoopInv, NotesInv
    <3>2. IsFiniteSet(Settled) /\ Cardinality(Settled) \in Nat /\ Len(decisions) \in Nat
      BY SettledFinite DEF LoopInv
    <3>3. IsFiniteSet(notes)
      <4>1. DOMAIN events = 1..Len(events) /\ Len(events) \in Nat
        BY Parts DEF LoopInv, EventsOK
      <4>2. IsFiniteSet(DOMAIN events) /\ notes \subseteq DOMAIN events
        BY <4>1, FS_Interval
      <4> HIDE DEF notes
      <4> QED BY <4>2, FS_Subset
    <3>4. Settled \subseteq notes
      BY DEF Settled
    <3> HIDE DEF notes
    <3>5. Cardinality(Settled) <= Cardinality(notes) /\ Cardinality(notes) \in Nat
      BY <3>3, <3>4, FS_Subset, FS_CardinalityType
    <3>6. Len(decisions) <= Cardinality(notes)
      BY <3>1, <3>2, <3>5
    <3> QED BY <3>6 DEF notes
  <2> QED BY <2>1, <2>2 DEF OneDecisionPerNote
<1> QED BY <1>1, AlwaysLoopInv, PTL
=============================================================================
