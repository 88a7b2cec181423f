----------------------------- MODULE SlackLoop -----------------------------
(***************************************************************************)
(* The loop around the merge request of one task: GitLab tells of the      *)
(* request and of notes on it (integrations/gitlab), the notes are shown   *)
(* in the Slack threads bound to the task, and there somebody approves     *)
(* another run, pauses the loop or closes the thread                       *)
(* (integrations/slack/handlers.ts, timeline.ts).  The executor moves the  *)
(* runs on meanwhile, and an operator may ask for changes on the board.    *)
(*                                                                         *)
(* Each delivery and each click is handled by a request of its own, which  *)
(* calls KV, D1 and the board one after the other; the board handles a     *)
(* call at a time.                                                         *)
(***************************************************************************)
EXTENDS RunStates, Naturals, Sequences, FiniteSets

CONSTANTS
  Channels,     \* the channels in which a thread is bound to the task
  Requests,     \* requests handled at once
  NoThread,     \* no binding
  MaxRuns,      \* bound: runs of the task
  MaxInputs     \* bound: GitLab's events, the repeated ones, clicks, requests for
                \* changes, requests that die and runs that fail, together

ASSUME LoopAssumption ==
  /\ NoThread \notin [run : Nat, round : Nat]
  /\ MaxRuns \in Nat \ {0} /\ MaxInputs \in Nat

VARIABLES
  runs,       \* the task's runs, oldest first: [base, status, loop, review, by]
  bindings,   \* per channel, what its thread is bound to: [run, round]
  buttons,    \* the buttons there may be: [chan, run, round]
  kv,         \* the deliveries, clicks and posts recorded as seen
  events,     \* the kinds of GitLab's events, as they came
  inputs,     \* how many inputs there were
  req,        \* per request, where it is and what it holds
  decisions,  \* history: the runs for which a decision became due, in that order
  pended,     \* history: the runs whose review was reported
  granted,    \* history: the runs an approval was granted for
  lost,       \* history: the granted runs whose request died
  raced       \* history: events two requests both found unrecorded

board == <<runs, decisions>>
history == <<pended, granted, lost, raced>>
vars == <<runs, bindings, buttons, kv, events, inputs, req, decisions,
          pended, granted, lost, raced>>

RunIds == 1..Len(runs)
Actions == {"approve", "pause", "close"}

NewRun(base, review, by) ==
  [base |-> base, status |-> "QUEUED", review |-> review, by |-> by,
   loop |-> IF base = 0 THEN "QUEUED" ELSE "RERUN_QUEUED"]

NoClick == [action |-> "close", chan |-> NoThread, run |-> 0, round |-> 0]
Idle == [at |-> "idle", click |-> NoClick, event |-> 0, run |-> 0]

ClickPlaces == {"approve", "changes", "schedule", "note", "bind", "pause", "update", "close"}
EventPlaces == {"mark", "slice", "transition"}

Clicked == [action: Actions, chan: Channels \cup {NoThread}, run: 0..Len(runs), round: Nat]
InClick(q) == req[q].at \in ClickPlaces
InEvent(q) == req[q].at \in EventPlaces

TypeOK ==
  /\ runs \in Seq([base: Nat, status: RunStatus, review: BOOLEAN,
                   by: {"intake", "slack", "operator"}, loop: LoopState])
  /\ Len(runs) \in 1..MaxRuns /\ \A r \in RunIds : runs[r].base < r
  /\ bindings \in [Channels -> [run: RunIds, round: Nat] \cup {NoThread}]
  /\ buttons \subseteq [chan: Channels, run: RunIds, round: Nat]
  /\ events \in Seq({"merge_request", "note"}) /\ inputs \in 0..MaxInputs
  /\ req \in [Requests -> [at: {"idle"} \cup ClickPlaces \cup EventPlaces, click: Clicked,
                           event: 0..Len(events), run: 0..Len(runs)]]
  /\ \A q \in Requests : /\ InEvent(q) => req[q].event # 0
                         /\ InClick(q) \/ req[q].at = "transition" => req[q].run # 0
                         /\ InClick(q) => req[q].click.chan \in Channels /\ req[q].click.run # 0
  /\ decisions \in Seq(RunIds)
  /\ granted \cup lost \cup pended \subseteq RunIds /\ raced \subseteq DOMAIN events

Init ==
  /\ runs = <<[NewRun(0, FALSE, "intake") EXCEPT !.status = "RUNNING_CODEX", !.loop = "RUNNING"]>>
  /\ bindings = [c \in Channels |-> [run |-> 1, round |-> 0]]
  /\ buttons = {[chan |-> c, run |-> 1, round |-> 0] : c \in Channels}
  /\ kv = {} /\ events = <<>> /\ inputs = 0
  /\ req = [q \in Requests |-> Idle]
  /\ decisions = <<>>
  /\ pended = {} /\ granted = {} /\ lost = {} /\ raced = {}

-----------------------------------------------------------------------------
(* The board.                                                              *)

Count == inputs < MaxInputs /\ inputs' = inputs + 1

(* transitionRun with a loop state, or with a status and none.             *)
Moved(run, request, status) ==
  [run EXCEPT !.status = status, !.loop = ResolveLoopState(run.loop, request, status)]

(* The board with run r moved; a decision that becomes due is noted.       *)
Move(r, request, status) ==
  LET new == Moved(runs[r], request, status)
      due == new.loop = "DECISION_REQUIRED" /\ runs[r].loop # "DECISION_REQUIRED"
  IN  /\ runs' = [runs EXCEPT ![r] = new]
      /\ decisions' = IF due THEN Append(decisions, r) ELSE decisions

Request(r, loop) == Move(r, loop, runs[r].status)
Step(r, status) == Move(r, NoRequest, status)

Publish(r) ==
  /\ runs' = [runs EXCEPT ![r] = [Moved(@, NoRequest, "PR_OPEN") EXCEPT !.review = TRUE]]
  /\ UNCHANGED decisions

(* The executor takes the run up, publishes it, gathers evidence, ends.    *)
Execute(r) ==
  /\ ~IsTerminalRunStatus(runs[r].status)
  /\ \A q \in Requests : req[q].run = r => req[q].at # "schedule"
  /\ \/ runs[r].status = "QUEUED" /\ Step(r, "RUNNING_CODEX") /\ UNCHANGED inputs
     \/ runs[r].status = "RUNNING_CODEX" /\ Publish(r) /\ UNCHANGED inputs
     \/ runs[r].status = "PR_OPEN" /\ Step(r, "EVIDENCE_RUNNING") /\ UNCHANGED inputs
     \/ runs[r].status = "EVIDENCE_RUNNING" /\ Step(r, "DONE") /\ UNCHANGED inputs
     \/ Step(r, "FAILED") /\ Count
  /\ UNCHANGED <<bindings, buttons, kv, events, req, history>>

(* requestRunChanges: another run for the review of run r.                 *)
WithRerun(r, by) == Append(runs, NewRun(r, runs[r].review, by))

(* An operator asks for changes on the board.                              *)
RequestChanges(r) ==
  /\ Count /\ Len(runs) < MaxRuns /\ runs[r].review
  /\ runs' = WithRerun(r, "operator")
  /\ UNCHANGED <<bindings, buttons, kv, events, req, decisions, history>>

-----------------------------------------------------------------------------
(* Requests.                                                               *)

Free(q) == req[q].at = "idle"
Go(q, at) == req' = [req EXCEPT ![q].at = at]
Finish(q) == req' = [req EXCEPT ![q] = Idle]

(* The source reads clicks on approve, pause and close, and posts no such  *)
(* buttons.  They are taken to show what a thread is, or once was, bound   *)
(* to.                                                                     *)
Show == buttons' = buttons \cup {[chan |-> c, run |-> bindings'[c].run, round |-> bindings'[c].round] :
                                   c \in {d \in Channels : bindings'[d] # NoThread}}

ActionPlace == [approve |-> "approve", pause |-> "pause", close |-> "close"]

(* A click on a button; a button that was clicked before is ignored.  (That *)
(* two requests may both find no record of it makes no difference here: the *)
(* buttons of two channels have different records anyway.)                  *)
Click(q, action) ==
  /\ Free(q) /\ Count
  /\ \E b \in buttons :
       LET click == [action |-> action, chan |-> b.chan, run |-> b.run, round |-> b.round] IN
       /\ click \notin kv
       /\ kv' = kv \cup {click}
       /\ req' = [req EXCEPT ![q] = [Idle EXCEPT !.at = ActionPlace[action], !.run = b.run,
                                                !.click = click]]
  /\ UNCHANGED <<runs, bindings, buttons, events, decisions, history>>

(* transitionRunFromLoopState: only a run that waits for a decision.       *)
MayRerun(run) == run.loop = "DECISION_REQUIRED"

(* Mutant: the loop state is compared with that of the run as it was read. *)
AfterApprovalStale(r) == "idle"
AfterApproval(r) == IF MayRerun(runs[r]) THEN "changes" ELSE "idle"

Approve(q) ==
  /\ req[q].at = "approve"
  /\ LET r == req[q].run IN
     IF MayRerun(runs[r])
     THEN Request(r, "RERUN_QUEUED") /\ granted' = granted \cup {r}
     ELSE UNCHANGED <<board, granted>>
  /\ IF AfterApproval(req[q].run) = "idle" THEN Finish(q) ELSE Go(q, "changes")
  /\ UNCHANGED <<bindings, buttons, kv, events, inputs, pended, lost, raced>>

Rerun(q) ==
  /\ req[q].at = "changes" /\ Len(runs) < MaxRuns
  /\ runs' = WithRerun(req[q].run, "slack")
  /\ req' = [req EXCEPT ![q].at = "schedule", ![q].run = Len(runs) + 1]
  /\ UNCHANGED <<bindings, buttons, kv, events, inputs, decisions, history>>

Schedule(q) ==
  /\ req[q].at = "schedule" /\ Go(q, "note")
  /\ UNCHANGED <<runs, bindings, buttons, kv, events, inputs, decisions, history>>

(* The workflow is noted on the run, with the loop state once more.        *)
NoteWorkflow(q) ==
  /\ req[q].at = "note" /\ Request(req[q].run, "RERUN_QUEUED") /\ Go(q, "bind")
  /\ UNCHANGED <<bindings, buttons, kv, events, inputs, history>>

(* Mutant: the round stays as it was.                                      *)
SameRound(round) == round
NextRound(round) == round + 1

Bind(c, run, round) == bindings' = [bindings EXCEPT ![c] = [run |-> run, round |-> round]]

BindRerun(q) ==
  /\ req[q].at = "bind"
  /\ Bind(req[q].click.chan, req[q].run, NextRound(req[q].click.round)) /\ Show
  /\ Finish(q)
  /\ UNCHANGED <<runs, kv, events, inputs, decisions, history>>

Pause(q) ==
  /\ req[q].at = "pause" /\ Request(req[q].run, "PAUSED") /\ Go(q, "update")
  /\ UNCHANGED <<bindings, buttons, kv, events, inputs, history>>

(* A pause binds the thread to what its button shows.                      *)
UpdateBinding(q) ==
  /\ req[q].at = "update"
  /\ Bind(req[q].click.chan, req[q].click.run, req[q].click.round) /\ Show
  /\ Finish(q)
  /\ UNCHANGED <<runs, kv, events, inputs, decisions, history>>

CloseThread(q) ==
  /\ req[q].at = "close"
  /\ bindings' = [bindings EXCEPT ![req[q].click.chan] = NoThread]
  /\ Finish(q)
  /\ UNCHANGED <<runs, buttons, kv, events, inputs, decisions, history>>

-----------------------------------------------------------------------------
(* Deliveries of GitLab.                                                   *)

DeliveryKey(n) == [event |-> n]

(* A delivery comes; shouldProcessDelivery reads the record of deliveries  *)
(* first, and writes it then.                                              *)
Arrive(q, n) ==
  /\ Free(q)
  /\ DeliveryKey(n) \notin kv
  /\ req' = [req EXCEPT ![q] = [Idle EXCEPT !.at = "mark", !.event = n]]

(* The merge request of a run is opened or updated, or somebody writes a   *)
(* note on it.                                                             *)
Deliver(q, kind) ==
  /\ Count /\ \E r \in RunIds : runs[r].review
  /\ events' = Append(events, kind)
  /\ Arrive(q, Len(events) + 1)
  /\ UNCHANGED <<runs, bindings, buttons, kv, decisions, history>>

(* GitLab repeats a delivery that was not answered in time.                *)
Redeliver(q, n) ==
  /\ Count
  /\ Arrive(q, n)
  /\ raced' = raced \cup {m \in {n} : \E p \in Requests : req[p].at = "mark" /\ req[p].event = n}
  /\ UNCHANGED <<runs, bindings, buttons, kv, events, decisions,
                 pended, granted, lost>>

Kind(q) == events[req[q].event]

(* Mutant: the delivery is not recorded.                                   *)
ForgetDelivery(q) ==
  /\ req[q].at = "mark" /\ Go(q, "slice")
  /\ UNCHANGED <<runs, bindings, buttons, kv, events, inputs, decisions, history>>

MarkDelivery(q) ==
  /\ req[q].at = "mark" /\ Go(q, "slice")
  /\ kv' = kv \cup {DeliveryKey(req[q].event)}
  /\ UNCHANGED <<runs, bindings, buttons, events, inputs, decisions, history>>

(* The newest run of the review.                                           *)
Reviewed == {r \in RunIds : runs[r].review}
ReadSlice(q) ==
  /\ req[q].at = "slice"
  /\ \E r \in Reviewed :
       /\ \A s \in Reviewed : s <= r
       /\ req' = [req EXCEPT ![q].at = "transition", ![q].run = r]
  /\ UNCHANGED <<runs, bindings, buttons, kv, events, inputs, decisions, history>>

(* The loop moves on.  What is posted in the threads then is not kept.     *)
LoopStateFor == [merge_request |-> "REVIEW_PENDING", note |-> "DECISION_REQUIRED"]

MoveLoop(q) ==
  /\ req[q].at = "transition"
  /\ Request(req[q].run, LoopStateFor[Kind(q)])
  /\ pended' = IF Kind(q) = "merge_request" THEN pended \cup {req[q].run} ELSE pended
  /\ Finish(q)
  /\ UNCHANGED <<bindings, buttons, kv, events, inputs, granted, lost, raced>>

(* A call of a request fails, and the request with it (where that makes a  *)
(* difference).                                                            *)
Fail(q) ==
  /\ req[q].at \in {"changes", "schedule", "bind", "update"}
  /\ Count
  /\ lost' = IF req[q].at = "changes" THEN lost \cup {req[q].run} ELSE lost
  /\ Finish(q)
  /\ UNCHANGED <<runs, bindings, buttons, kv, events, decisions, pended, granted, raced>>

Handle(q) ==
  \/ Approve(q) \/ Rerun(q) \/ Schedule(q) \/ NoteWorkflow(q) \/ BindRerun(q)
  \/ Pause(q) \/ UpdateBinding(q) \/ CloseThread(q)
  \/ MarkDelivery(q) \/ ReadSlice(q) \/ MoveLoop(q)
  \/ Fail(q)

Next ==
  \/ \E r \in RunIds : Execute(r) \/ RequestChanges(r)
  \/ \E q \in Requests :
       \/ Handle(q)
       \/ \E action \in Actions : Click(q, action)
       \/ \E kind \in {"merge_request", "note"} : Deliver(q, kind)
       \/ \E n \in DOMAIN events : Redeliver(q, n)

Spec == Init /\ [][Next]_vars

-----------------------------------------------------------------------------
Reruns(r) == {s \in RunIds : runs[s].base = r /\ runs[s].by = "slack"}

(* However many buttons are clicked, in however many threads, a run is     *)
(* run again from Slack at most once for each time a decision was due:     *)
(* "Concurrent/duplicate approvals do not create duplicate reruns"         *)
(* (docs/integrations/slack-jira-gitlab-mvp.md:72).                        *)
Decided(r) == {i \in DOMAIN decisions : decisions[i] = r}
RerunsAreDecided == \A r \in RunIds : Cardinality(Reruns(r)) <= Cardinality(Decided(r))

(* An approval that took the decision leads to a rerun, unless its request *)
(* died in between.                                                        *)
ApprovalsAreKept ==
  \A r \in granted : \/ Reruns(r) # {} \/ r \in lost
                     \/ \E q \in Requests : req[q].at = "changes" /\ req[q].run = r

(* Reruns and decisions match, both ways: no rerun without a decision of   *)
(* its own, no decision taken without its rerun.                           *)
RerunsMatchDecisions == TypeOK /\ RerunsAreDecided /\ ApprovalsAreKept

(* d[r] is the number of approvals and requests run r came through: as a    *)
(* run is based on an earlier one, there is one such function.             *)
IsDepth(d) ==
  \A r \in RunIds : d[r] = IF runs[r].base = 0 THEN 0 ELSE d[runs[r].base] + 1

(* The round a thread shows is the number of approvals and requests that   *)
(* led to the run it shows, in whatever order clicks and reruns came.      *)
RoundIsDepth ==
  \E d \in [RunIds -> 0..MaxRuns] :
    /\ IsDepth(d)
    /\ \A c \in Channels : bindings[c] # NoThread => bindings[c].round = d[bindings[c].run]

(* A decision is due only for a run whose merge request was reported       *)
(* before: a note alone asks for none.                                     *)
DecisionHasReview ==
  \A r \in RunIds : runs[r].loop = "DECISION_REQUIRED" => r \in pended

(* A note asks for one decision, however often it is delivered: when it    *)
(* comes again after a rerun it does not ask for another, but for          *)
(* deliveries that both found no record ("Late feedback remains            *)
(* deterministic via loop-state and dedupe keys",                          *)
(* docs/integrations/slack-jira-gitlab-mvp.md:73).                         *)
OneDecisionPerNote ==
  raced = {} => Len(decisions) <= Cardinality({n \in DOMAIN events : events[n] = "note"})

(* A decision is asked for where there is something to decide, and once,   *)
(* however the host's events are ordered and repeated.                     *)
DecisionsAreDue == DecisionHasReview /\ OneDecisionPerNote
=============================================================================
