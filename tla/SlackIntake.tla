---------------------------- MODULE SlackIntake ----------------------------
(***************************************************************************)
(* One Slack thread in which people ask Kanvy for work                     *)
(* (integrations/slack/handlers.ts).  Messages, slash commands and buttons *)
(* are delivered, some of them more than once; each delivery is handled by *)
(* a request of its own.  A request that finds work puts a question in the *)
(* thread and keeps it in the thread's intake session; a later "yes"       *)
(* starts the run that the session asks about.  Session, bindings (D1),    *)
(* the record of deliveries (KV) and the board are read and written by     *)
(* separate calls, so requests of one thread interleave.                   *)
(*                                                                         *)
(* What the LLM makes of a text is a choice.                               *)
(***************************************************************************)
EXTENDS Naturals, Sequences, FiniteSets

CONSTANTS
  Handlers,      \* the requests that may be handled at once
  Sayings,       \* what people may send: [how, what, review]
  Reviews,       \* the merge requests a message may name
  BoardRuns,     \* the runs that may be there at first: sequences of runs
  NoReview,      \* the review of a message or a run that is about none
  MaxMessages,   \* bound: messages sent
  MaxOverlaps,   \* bound: requests that come while another is handled
  MaxTroubles    \* bound: messages delivered once more and requests that die
                 \* of a failed call, together

Once == [what |-> "text", n |-> 0]
Hows == {"mention", "plain", "slash", "button"}
Whats == {"yes", "no", "words", "choice", "help", "review", "fix", "pickReview", "pickRepo"}
Saying == [how: Hows, what: Whats, review: Reviews \cup {NoReview}]
Keys == [what: Whats \cup {"text"}, n: Nat \cup Reviews \cup {NoReview}]
Run == [task: Nat \ {0}, review: Reviews \cup {NoReview}, shown: BOOLEAN, question: Nat,
        asked: Nat, key: Keys, cut: BOOLEAN]

ASSUME IntakeAssumption ==
  /\ Sayings \subseteq Saying
  /\ BoardRuns \subseteq Seq(Run)
  /\ \A board \in BoardRuns : \A r \in DOMAIN board : /\ board[r].task \in DOMAIN board
                                                    /\ board[r].question = 0 /\ board[r].asked = 0
  /\ {MaxMessages, MaxOverlaps, MaxTroubles} \subseteq Nat

VARIABLES
  sent,       \* how many messages were sent
  repeated,   \* how many of them are delivered twice
  copies,     \* those that are still to be delivered once more: [say, key]
  kv,         \* the deliveries recorded as seen
  session,    \* the thread's row of slack_intake_sessions
  bindings,   \* slack_thread_bindings of the thread: the run by task
  tasks,      \* how many tasks the board has
  runs,       \* the runs of the board, oldest first
  offered,    \* buttons that have been posted
  hd,         \* per handler, where it is and what it holds
  failures,
  questions,  \* history: the questions put in the thread: [kind, review, base]
  answered,   \* history: the questions a request has closed, and none put back since
  begun,      \* history: deliveries whose handling has begun
  overlaps    \* history: requests that came while another was handled

vars == <<sent, repeated, copies, kv, session, bindings, tasks, runs, offered, hd, failures,
          questions, answered, begun, overlaps>>
history == <<questions, answered, begun, overlaps>>

Kinds == {"start", "rerun", "select", "confirm"}
NoData == [k \in Kinds |-> 0]
NoSession == [status |-> "none", stale |-> FALSE, data |-> NoData]

(* What a delivery is known by: a text by its timestamp, a slash command   *)
(* by its response URL, a click by its button.  A message that is not      *)
(* delivered again needs no key but Once.                                  *)
TextKey(n) == [what |-> "text", n |-> n]
ClickKey(say) == [what |-> say.what, n |-> say.review]

NoSaying == [how |-> "plain", what |-> "words", review |-> NoReview]

Idle == [at |-> "idle", say |-> NoSaying, key |-> Once, late |-> FALSE, saw |-> NoSession, closed |-> {},
         kind |-> "confirm", review |-> NoReview, base |-> 0,
         question |-> 0, task |-> 0, run |-> 0, asked |-> 0]

Places == {"idle", "key", "mark", "resolve", "find", "read", "ask", "bindIssue", "jira",
           "intake", "branch", "parse", "create", "show", "rerun", "bind", "close"}

RunIds == 1..Len(runs)
Session == [status: {"none", "active", "completed", "expired"}, stale: BOOLEAN,
            data: [Kinds -> 0..Len(questions)]]

(* Each question of a session is of the kind it is kept for.               *)
KeepsKinds(s) == \A k \in Kinds : s.data[k] # 0 => questions[s.data[k]].kind = k

(* A rerun has a run to repeat; what is being started was agreed to, or    *)
(* chosen for an issue; it is of the task of its run.                      *)
HoldsWhatItNeeds(x) ==
  /\ KeepsKinds(x.saw)
  /\ x.say.how = "button" => x.say.what \in {"pickReview", "pickRepo"}
  /\ x.kind = "rerun" \/ x.at = "rerun" => x.base # 0
  /\ x.at \in {"create", "show", "rerun", "bind", "close"} =>
       (x.question # 0 /\ x.say.what = "yes") \/ (x.question = 0 /\ x.say.what = "pickRepo")
  /\ x.question # 0 => x.at \in {"create", "show", "rerun", "bind", "close"}
  /\ x.at = "close" => x.question # 0
  /\ x.at \in {"show", "bind"} => /\ x.run # 0 /\ runs[x.run].task = x.task
                                 /\ runs[x.run].question = x.question

TypeOK ==
  /\ sent \in 0..MaxMessages /\ overlaps \in 0..MaxOverlaps
  /\ repeated \in Nat /\ failures \in Nat /\ repeated + failures <= MaxTroubles
  /\ copies \subseteq [say: {s \in Sayings : s.how # "button"}, key: {TextKey(n) : n \in 1..repeated}]
  /\ offered \subseteq [how: {"button"}, what: {"pickReview", "pickRepo"},
                        review: Reviews \cup {NoReview}]
  /\ session \in Session /\ KeepsKinds(session)
  /\ tasks \in Nat /\ runs \in Seq(Run)
  /\ \A r \in RunIds : runs[r].task \in 1..tasks /\ runs[r].question \in 0..Len(questions)
                      /\ runs[r].asked \in 0..Len(questions)
  /\ bindings \in [DOMAIN bindings -> 0..Len(runs)] /\ DOMAIN bindings \subseteq 0..tasks
  /\ hd \in [Handlers ->
        [at: Places, say: Saying, key: Keys, late: BOOLEAN, saw: Session,
         closed: SUBSET (1..Len(questions)), kind: Kinds, review: Reviews \cup {NoReview},
         base: 0..Len(runs), question: 0..Len(questions), task: 0..tasks, run: 0..Len(runs),
         asked: 0..Len(questions)]]
  /\ \A h \in Handlers : HoldsWhatItNeeds(hd[h])
  /\ questions \in Seq([kind: Kinds, review: Reviews \cup {NoReview}, base: 0..Len(runs)])
  /\ \A q \in DOMAIN questions : questions[q].kind = "rerun" => questions[q].base # 0
  /\ answered \subseteq DOMAIN questions /\ begun \cup kv \subseteq Keys

Init ==
  /\ runs \in BoardRuns /\ tasks = Len(runs)
  /\ sent = 0 /\ repeated = 0 /\ copies = {} /\ kv = {} /\ session = NoSession /\ bindings = <<>>
  /\ offered = {} /\ hd = [h \in Handlers |-> Idle] /\ failures = 0
  /\ questions = <<>> /\ answered = {} /\ begun = {} /\ overlaps = 0

-----------------------------------------------------------------------------
(* Deliveries.                                                             *)

Say(h) == hd[h].say
Affirmative(h) == Say(h).what = "yes"
Negative(h) == Say(h).what = "no"

Live(s) == s.status = "active" /\ ~s.stale
Serial == overlaps = 0     \* no two requests were ever handled at once
Quiet == \A h \in Handlers : hd[h].at = "idle"

Arrive(h, say, key) ==
  /\ hd[h].at = "idle"
  /\ IF Quiet THEN UNCHANGED overlaps ELSE overlaps < MaxOverlaps /\ overlaps' = overlaps + 1
  /\ hd' = [hd EXCEPT ![h] = [Idle EXCEPT !.at = "key", !.say = say, !.key = key,
                                          !.late = key \in begun]]
  /\ UNCHANGED <<kv, session, bindings, tasks, runs, offered, failures, questions, answered, begun>>

(* A message is sent and delivered.  A text that does not name Kanvy is    *)
(* taken up only in a thread that has a live session.  Any message may be  *)
(* delivered again: Slack got no answer in time, or sends a mention both   *)
(* as a mention and as a message of the channel.                           *)
Deliver(h, say) ==
  /\ sent < MaxMessages /\ sent' = sent + 1
  /\ say.how = "plain" => Live(session)
  /\ say.how = "button" => say \in offered
  /\ \/ /\ Arrive(h, say, IF say.how = "button" THEN ClickKey(say) ELSE Once)
        /\ UNCHANGED <<repeated, copies>>
     \/ /\ say.how # "button" /\ repeated + failures < MaxTroubles /\ repeated' = repeated + 1
        /\ copies' = copies \cup {[say |-> say, key |-> TextKey(repeated + 1)]}
        /\ Arrive(h, say, TextKey(repeated + 1))

Redeliver(h) ==
  \E c \in copies : /\ c.say.how = "plain" => Live(session)
                    /\ copies' = copies \ {c} /\ Arrive(h, c.say, c.key)
                    /\ UNCHANGED <<sent, repeated>>

Go(h, at) == hd' = [hd EXCEPT ![h].at = at]
Finish(h) == hd' = [hd EXCEPT ![h] = Idle]

CheckKey(h) ==
  /\ hd[h].at = "key"
  /\ IF hd[h].key \in kv THEN Finish(h) ELSE Go(h, "mark")
  /\ UNCHANGED <<sent, repeated, copies, kv, session, bindings, tasks, runs, offered, failures, history>>

(* The flow a delivery is for: a command's, a mention's or a button's.     *)
CommandFlow(say) ==
  CASE say.what = "help"   -> "idle"
    [] say.what = "review" -> "resolve"
    [] say.what = "fix"    -> "bindIssue"
    [] OTHER               -> "intake"
MentionFlow(say) ==
  CASE say.what = "help"   -> "idle"
    [] say.what = "review" -> "resolve"
    [] OTHER               -> "intake"
ButtonFlow(say) == IF say.what = "pickReview" THEN "read" ELSE "create"

Flow(say) == CASE say.how = "slash"                -> CommandFlow(say)
               [] say.how \in {"mention", "plain"} -> MentionFlow(say)
               [] say.how = "button"               -> ButtonFlow(say)

Begin(h) ==
  /\ begun' = begun \cup ({hd[h].key} \ {Once})
  /\ IF Flow(Say(h)) = "idle" THEN Finish(h)
     ELSE hd' = [hd EXCEPT ![h].at = Flow(Say(h)), ![h].review = Say(h).review,
                           ![h].kind = IF Say(h).what \in {"review", "pickReview"}
                                       THEN "start" ELSE "confirm"]

(* The delivery is noted before anything is done for it.                   *)
MarkKey(h) ==
  /\ hd[h].at = "mark" /\ Begin(h)
  /\ kv' = kv \cup ({hd[h].key} \ {Once})
  /\ UNCHANGED <<sent, repeated, copies, session, bindings, tasks, runs, offered, failures,
                 questions, answered, overlaps>>

-----------------------------------------------------------------------------
(* Questions.                                                              *)

Question(h, kind) == [kind |-> kind, review |-> hd[h].review, base |-> hd[h].base]

(* The repository of a review: none that fits, or none at all.             *)
RepoUnknown(h) ==
  /\ hd[h].at = "resolve" /\ Finish(h)
  /\ UNCHANGED <<sent, repeated, copies, kv, session, bindings, tasks, runs, offered, failures, history>>

(* Several, which are offered as buttons to a slash command.               *)
OfferRepos(h) ==
  /\ hd[h].at = "resolve" /\ Say(h).how = "slash"
  /\ offered' = offered \cup {[how |-> "button", what |-> "pickReview", review |-> Say(h).review]}
  /\ Finish(h)
  /\ UNCHANGED <<sent, repeated, copies, kv, session, bindings, tasks, runs, failures, history>>

(* A message is asked which one; that is a question of the session.        *)
AskWhichRepo(h) ==
  /\ hd[h].at = "resolve" /\ Say(h).how # "slash"
  /\ hd' = [hd EXCEPT ![h].at = "read", ![h].kind = "select"]
  /\ UNCHANGED <<sent, repeated, copies, kv, session, bindings, tasks, runs, offered, failures, history>>

RepoFound(h) ==
  /\ hd[h].at = "resolve" /\ Go(h, "find")
  /\ UNCHANGED <<sent, repeated, copies, kv, session, bindings, tasks, runs, offered, failures, history>>

ReviewRuns(n) == {r \in RunIds : runs[r].review = n /\ runs[r].shown}
IsNewest(r, ids) == r \in ids /\ \A q \in ids : q <= r

(* A review that a task covers already is run again by that task.          *)
FindReview(h) ==
  /\ hd[h].at = "find"
  /\ \/ /\ ReviewRuns(hd[h].review) = {}
        /\ hd' = [hd EXCEPT ![h].at = "read", ![h].kind = "start", ![h].base = 0]
     \/ \E base \in RunIds :
          /\ IsNewest(base, ReviewRuns(hd[h].review))
          /\ hd' = [hd EXCEPT ![h].at = "read", ![h].kind = "rerun", ![h].base = base]
  /\ UNCHANGED <<sent, repeated, copies, kv, session, bindings, tasks, runs, offered, failures, history>>

ReadSession(h) ==
  /\ hd[h].at = "read"
  /\ hd' = [hd EXCEPT ![h].at = "ask", ![h].saw = session, ![h].closed = answered]
  /\ UNCHANGED <<sent, repeated, copies, kv, session, bindings, tasks, runs, offered, failures, history>>

(* A question is added to what the session was seen to hold, live or not.  *)
Asking(saw, kind, q) == [saw EXCEPT ![kind] = q]

StillAnswered == answered \ {session'.data[k] : k \in Kinds}

Ask(h) ==
  /\ hd[h].at = "ask"
  /\ questions' = Append(questions, Question(h, hd[h].kind))
  /\ session' = [status |-> "active", stale |-> FALSE,
                 data |-> Asking(hd[h].saw.data, hd[h].kind, Len(questions) + 1)]
  /\ answered' = StillAnswered
  /\ Finish(h)
  /\ UNCHANGED <<sent, repeated, copies, kv, bindings, tasks, runs, offered, failures, begun, overlaps>>

(* A task is proposed; whatever the session held is replaced.              *)
AskFresh(h) ==
  /\ questions' = Append(questions, [kind |-> "confirm", review |-> NoReview, base |-> 0])
  /\ session' = [status |-> "active", stale |-> FALSE,
                 data |-> [NoData EXCEPT !["confirm"] = Len(questions) + 1]]
  /\ Finish(h)

Issue == 0      \* the task id that stands for the issue until a task is made
Bound(task, run) == [t \in DOMAIN bindings \cup {task} |-> IF t = task THEN run ELSE bindings[t]]

(* /kanvy fix binds the thread to the issue and loads it.                  *)
BindIssue(h) ==
  /\ hd[h].at = "bindIssue"
  /\ bindings' = Bound(Issue, 0)
  /\ Go(h, "jira")
  /\ UNCHANGED <<sent, repeated, copies, kv, session, tasks, runs, offered, failures, history>>

(* It cannot be loaded, or no repository is known.                         *)
IssueFails(h) ==
  /\ hd[h].at = "jira" /\ Finish(h)
  /\ UNCHANGED <<sent, repeated, copies, kv, session, bindings, tasks, runs, offered, failures, history>>

(* Several repositories: the button of one starts a run without a question. *)
OfferIssueRepos(h) ==
  /\ hd[h].at = "jira"
  /\ offered' = offered \cup {[how |-> "button", what |-> "pickRepo", review |-> NoReview]}
  /\ Finish(h)
  /\ UNCHANGED <<sent, repeated, copies, kv, session, bindings, tasks, runs, failures, history>>

ProposeIssue(h) ==
  /\ hd[h].at = "jira" /\ AskFresh(h)
  /\ UNCHANGED <<sent, repeated, copies, kv, bindings, tasks, runs, offered, failures,
                 answered, begun, overlaps>>

-----------------------------------------------------------------------------
(* The intake of a text (runIntentIntake).                                 *)

ReadIntake(h) ==
  /\ hd[h].at = "intake"
  /\ hd' = [hd EXCEPT ![h].at = "branch", ![h].saw = session, ![h].closed = answered,
                      ![h].asked = Len(questions)]
  /\ session' = IF session.status = "active" /\ session.stale
                THEN [session EXCEPT !.status = "expired", !.stale = FALSE] ELSE session
  /\ UNCHANGED <<sent, repeated, copies, kv, bindings, tasks, runs, offered, failures, history>>

(* The question a text is taken to answer.                                 *)
Pending(saw) ==
  LET held == IF Live(saw) THEN {k \in Kinds : saw.data[k] # 0} ELSE {}
  IN  CASE "start" \in held                                        -> "start"
        [] "start" \notin held /\ "rerun" \in held                 -> "rerun"
        [] held = {"select"} \/ held = {"select", "confirm"}       -> "select"
        [] held = {"confirm"}                                      -> "confirm"
        [] held = {}                                               -> "none"

Held(h) == hd[h].saw.data[Pending(hd[h].saw)]

(* Mutant: the closed session keeps its data.                              *)
ClosedKeeping(saw) == [status |-> "completed", stale |-> FALSE, data |-> saw.data]

(* Mutant: the session is left as it was.                                  *)
LeftOpen(saw) == saw

(* A closed session holds nothing.                                         *)
Closed(saw) == [status |-> "completed", stale |-> FALSE, data |-> NoData]

Decline(h) ==
  /\ hd[h].at = "branch" /\ Negative(h)
  /\ Pending(hd[h].saw) \in {"start", "rerun", "confirm"}
  /\ session' = Closed(hd[h].saw)
  /\ answered' = answered \cup {Held(h)}
  /\ Finish(h)
  /\ UNCHANGED <<sent, repeated, copies, kv, bindings, tasks, runs, offered, failures, questions, begun, overlaps>>

(* Other words are kept as context of the review: the session is written   *)
(* as it was read.                                                         *)
AddContext(h) ==
  /\ hd[h].at = "branch" /\ ~Affirmative(h) /\ ~Negative(h)
  /\ Pending(hd[h].saw) \in {"start", "rerun"}
  /\ session' = [hd[h].saw EXCEPT !.status = "active"]
  /\ answered' = StillAnswered
  /\ Finish(h)
  /\ UNCHANGED <<sent, repeated, copies, kv, bindings, tasks, runs, offered, failures,
                 questions, begun, overlaps>>

(* Yes: what was asked is started.                                         *)
Accepts(h, kind) ==
  /\ hd[h].at = "branch" /\ Affirmative(h) /\ Pending(hd[h].saw) = kind

Starting(h, kind, at) ==
  hd' = [hd EXCEPT ![h].at = at, ![h].kind = kind, ![h].question = Held(h),
                   ![h].review = questions[Held(h)].review,
                   ![h].base = questions[Held(h)].base]

AcceptReview(h) ==
  /\ Accepts(h, "start") /\ Starting(h, "start", "create")
  /\ UNCHANGED <<sent, repeated, copies, kv, session, bindings, tasks, runs, offered, failures, history>>

(* The repository of the review is gone.                                   *)
RepoGone(h) ==
  /\ Accepts(h, "start") /\ Finish(h)
  /\ UNCHANGED <<sent, repeated, copies, kv, session, bindings, tasks, runs, offered, failures, history>>

AcceptRerun(h) ==
  /\ Accepts(h, "rerun") /\ Starting(h, "rerun", "rerun")
  /\ UNCHANGED <<sent, repeated, copies, kv, session, bindings, tasks, runs, offered, failures, history>>

AcceptTask(h) ==
  /\ Accepts(h, "confirm") /\ Starting(h, "confirm", "create")
  /\ UNCHANGED <<sent, repeated, copies, kv, session, bindings, tasks, runs, offered, failures, history>>

(* A repository is chosen for a review: it is there, or gone; any other    *)
(* text is answered with the choices.                                      *)
Choose(h) ==
  /\ hd[h].at = "branch" /\ Pending(hd[h].saw) = "select"
  /\ \/ /\ Say(h).what = "choice"
        /\ hd' = [hd EXCEPT ![h].at = "read", ![h].kind = "start",
                            ![h].review = questions[Held(h)].review]
     \/ Say(h).what = "choice" /\ Go(h, "parse")
     \/ Say(h).what # "choice" /\ Finish(h)
  /\ UNCHANGED <<sent, repeated, copies, kv, session, bindings, tasks, runs, offered, failures, history>>

(* No question, or other words to a proposal: the LLM reads the text.      *)
Interpreted(h) ==
  \/ hd[h].at = "parse"
  \/ hd[h].at = "branch" /\ Pending(hd[h].saw) = "none"
  \/ hd[h].at = "branch" /\ Pending(hd[h].saw) = "confirm" /\ ~Affirmative(h) /\ ~Negative(h)

(* It finds a task in it, or an issue.                                     *)
ProposeTask(h) ==
  /\ Interpreted(h) /\ AskFresh(h)
  /\ UNCHANGED <<sent, repeated, copies, kv, bindings, tasks, runs, offered, failures,
                 answered, begun, overlaps>>

(* The issue cannot be loaded.                                             *)
IssueUnknown(h) ==
  /\ Interpreted(h) /\ Finish(h)
  /\ UNCHANGED <<sent, repeated, copies, kv, session, bindings, tasks, runs, offered, failures, history>>

(* Something is missing, and is asked for; the session holds no question   *)
(* that could be answered yes.                                             *)
AskBack(h) ==
  /\ Interpreted(h)
  /\ session' = [status |-> "active", stale |-> FALSE, data |-> NoData]
  /\ Finish(h)
  /\ UNCHANGED <<sent, repeated, copies, kv, bindings, tasks, runs, offered, failures, history>>

-----------------------------------------------------------------------------
(* Starting what was agreed, call by call.                                 *)

NewRun(h, task, shown) ==
  [task |-> task, review |-> IF hd[h].kind = "confirm" THEN NoReview ELSE hd[h].review,
   shown |-> shown, question |-> hd[h].question, asked |-> hd[h].asked,
   key |-> hd[h].key, cut |-> FALSE]

(* A task is created and its run started.  (A task that never gets its run *)
(* makes no difference here.)                                              *)
StartRun(h) ==
  /\ hd[h].at = "create"
  /\ tasks' = tasks + 1
  /\ runs' = Append(runs, NewRun(h, tasks + 1, FALSE))
  /\ hd' = [hd EXCEPT ![h].at = IF hd[h].kind = "start" THEN "show" ELSE "bind",
                      ![h].run = Len(runs) + 1, ![h].task = tasks + 1]
  /\ UNCHANGED <<sent, repeated, copies, kv, session, bindings, offered, failures, history>>

(* The run is given the review it is about.                                *)
ShowReview(h) ==
  /\ hd[h].at = "show"
  /\ runs' = [runs EXCEPT ![hd[h].run].shown = TRUE]
  /\ Go(h, "bind")
  /\ UNCHANGED <<sent, repeated, copies, kv, session, bindings, tasks, offered, failures, history>>

Rerun(h) ==
  /\ hd[h].at = "rerun"
  /\ runs' = Append(runs, NewRun(h, runs[hd[h].base].task, TRUE))
  /\ hd' = [hd EXCEPT ![h].at = "bind", ![h].run = Len(runs) + 1,
                      ![h].task = runs[hd[h].base].task]
  /\ UNCHANGED <<sent, repeated, copies, kv, session, bindings, tasks, offered, failures, history>>

(* Mutant: a rerun is bound by the run it repeats.                         *)
RunToBind(h) == IF hd[h].base # 0 THEN hd[h].base ELSE hd[h].run
BoundRun(h) == hd[h].run

(* The thread is bound to the new run; a button takes the issue's place.   *)
Bind(h) ==
  /\ hd[h].at = "bind"
  /\ IF Say(h).what = "pickRepo"
     THEN /\ bindings' = [t \in (DOMAIN bindings \ {Issue}) \cup {hd[h].task} |->
                            IF t = hd[h].task THEN hd[h].run ELSE bindings[t]]
          /\ Finish(h)
     ELSE bindings' = Bound(hd[h].task, BoundRun(h)) /\ Go(h, "close")
  /\ UNCHANGED <<sent, repeated, copies, kv, session, tasks, runs, offered, failures, history>>

Close(h) ==
  /\ hd[h].at = "close"
  /\ session' = Closed(hd[h].saw)
  /\ answered' = answered \cup {hd[h].question}
  /\ Finish(h)
  /\ UNCHANGED <<sent, repeated, copies, kv, bindings, tasks, runs, offered, failures, questions, begun, overlaps>>

(* A call fails, and the request with it.  A request that has written      *)
(* nothing before is gone like one that found nothing to do.               *)
Fail(h) ==
  /\ hd[h].at \in {"jira", "show", "bind", "close"} /\ repeated + failures < MaxTroubles
  /\ failures' = failures + 1
  /\ runs' = [r \in RunIds |-> IF r = hd[h].run THEN [runs[r] EXCEPT !.cut = TRUE] ELSE runs[r]]
  /\ Finish(h)
  /\ UNCHANGED <<sent, repeated, copies, kv, session, bindings, tasks, offered, history>>

(* A day passes.                                                           *)
Expire ==
  /\ session.status = "active" /\ ~session.stale /\ Quiet
  /\ session' = [session EXCEPT !.stale = TRUE]
  /\ UNCHANGED <<sent, repeated, copies, kv, bindings, tasks, runs, offered, hd, failures, history>>

Handle(h) ==
  \/ CheckKey(h) \/ MarkKey(h)
  \/ RepoUnknown(h) \/ OfferRepos(h) \/ AskWhichRepo(h) \/ RepoFound(h)
  \/ FindReview(h) \/ ReadSession(h) \/ Ask(h)
  \/ BindIssue(h) \/ IssueFails(h) \/ OfferIssueRepos(h) \/ ProposeIssue(h)
  \/ ReadIntake(h) \/ Decline(h) \/ AddContext(h) \/ Choose(h)
  \/ AcceptReview(h) \/ RepoGone(h) \/ AcceptRerun(h) \/ AcceptTask(h)
  \/ ProposeTask(h) \/ IssueUnknown(h) \/ AskBack(h)
  \/ StartRun(h) \/ ShowReview(h) \/ Rerun(h)
  \/ Bind(h) \/ Close(h) \/ Fail(h)

Next ==
  \/ \E h \in Handlers : \/ Handle(h)
                        \/ \E say \in Sayings : Deliver(h, say)
                        \/ Redeliver(h)
  \/ Expire

Spec == Init /\ [][Next]_vars

-----------------------------------------------------------------------------
(* A copy of a delivery that arrives once the first is being handled comes *)
(* to nothing, whatever the first one does meanwhile: "duplicate slash     *)
(* command delivery suppression" (docs/integrations/                       *)
(* slack-jira-gitlab-mvp.md:60).                                           *)
LateCopiesIgnored ==
  \A h \in Handlers : hd[h].late => hd[h].at = "key"

(* A question that was answered is not put back in the session, except by  *)
(* a request that had read the session before the answer.                  *)
AnsweredStaysAnswered ==
  [][\A k \in Kinds :
       LET q == session'.data[k] IN
       (q \in answered /\ session.data[k] # q)
         => \E h \in Handlers : hd[h].at # "idle" /\ hd'[h].at = "idle" /\ q \notin hd[h].closed]_vars

(* As long as requests come one after the other, a question starts one     *)
(* run, unless the request that started it was cut off before it closed    *)
(* the session.                                                            *)
OneRunPerQuestion ==
  Serial => \A r, s \in RunIds :
              (r < s /\ runs[r].question # 0 /\ runs[r].question = runs[s].question)
                => runs[r].cut

(* As long as requests come one after the other, a yes starts the newest   *)
(* question of its kind: a question asked again replaces the older one.    *)
NewestOfItsKind ==
  Serial => \A r \in RunIds :
              runs[r].question # 0 =>
                \A q \in (runs[r].question + 1)..runs[r].asked :
                  questions[q].kind # questions[runs[r].question].kind

(* As long as requests come one after the other, a yes starts one run, of  *)
(* the question asked last, though messages are delivered again, sessions  *)
(* run out and requests are cut off.                                       *)
QuestionsRunOnce == TypeOK /\ LateCopiesIgnored /\ OneRunPerQuestion /\ NewestOfItsKind

(* As long as requests come one after the other, the thread is bound to    *)
(* the newest run of each task it started, but for runs whose request was  *)
(* cut off.                                                                *)
BoundToNewestRun ==
  (Serial /\ Quiet) =>
    \A r \in RunIds :
      LET later == {s \in RunIds : s >= r /\ runs[s].task = runs[r].task}
      IN  (runs[r].task \in DOMAIN bindings /\ \A s \in later : ~runs[s].cut)
             => IsNewest(bindings[runs[r].task], later)
=============================================================================
