----------------------------- MODULE ReviewLoop -----------------------------
(***************************************************************************)
(* executeRunReview (run-orchestrator.ts): the reviews of one run, and how *)
(* their findings get to the pull request (review-posting/github.ts,       *)
(* gitlab.ts) or the issue (jira.ts).                                      *)
(*                                                                         *)
(* A review starts when a run has opened its pull request and whenever an  *)
(* operator asks for one.  It notes that it runs, lets the LLM report its  *)
(* findings, posts them and notes what came of it.  The SCM is asked over  *)
(* HTTP: a call may fail, and a call that failed may have been carried     *)
(* out.  What was posted before is recognized by the marker a comment      *)
(* carries; every attempt looks for it first.                              *)
(*                                                                         *)
(* What the run's other executors do meanwhile is in Executor.             *)
(***************************************************************************)
EXTENDS Integers, Sequences

CONSTANTS
  Reviewers,     \* the executors of the run that come to review it, numbered;
                 \* the next to come is the first that is free
  Findings,      \* findings by their id: the same words give the same id
  Fingerprint,         \* a finding's fingerprint: its title and its place
  InDiff,        \* findings at a line of a file the pull request changes
  Placed,        \* findings at a line of some file
  Reports,       \* what the LLM may report: sets of findings
  Earlier,       \* the other runs of the task, newest first: findings and status
  Configs,       \* the repo and task configurations of this instance
  MaxRounds,     \* bound: triggers of a review
  MaxFaults      \* bound: calls of the SCM that fail

ASSUME ReviewAssumption ==
  /\ Reviewers \subseteq Nat
  /\ Fingerprint \in [Findings -> STRING] /\ InDiff \subseteq Placed /\ Placed \subseteq Findings
  /\ Reports \subseteq SUBSET Findings
  /\ \A i \in DOMAIN Earlier : Earlier[i] \subseteq [id: Findings, dismissed: BOOLEAN]
  /\ Configs \subseteq
       [provider: {"github", "gitlab", "jira"}, agent: BOOLEAN, inline: BOOLEAN,
        token: BOOLEAN, task: {"on", "off", "inherit"}, repo: BOOLEAN,
        prompts: SUBSET {"playbook", "task", "repo"}]
  /\ {MaxRounds, MaxFaults} \subseteq Nat

VARIABLES
  config,     \* fixed: how this run is reviewed
  run,        \* what the board knows of the reviews of the run
  rv,         \* per reviewer, where it is and what it holds
  comments,   \* the comments on the pull request or issue, in their order
  files,      \* the findings artifact of the run in R2
  column,     \* the task's column, as far as reviews move it
  triggers,   \* what asked for a review so far
  faults,
  overlapped, \* history: two reviews have been at work at once
  blind,      \* history: the first look failed, or a posted finding was given up
  last        \* history: what triggered the review that ended last

vars == <<config, run, rv, comments, files, column, triggers, faults, overlapped, blind, last>>
history == <<overlapped, blind, last>>

MaxAttempts == 3
None == [f \in Findings |-> 0]
Elsewhere == -1     \* the thread of a comment that the LLM posted itself

Places == {"idle", "asked", "disabled", "note", "prepare", "llm", "normalize", "agent", "load",
           "meta", "finding", "look", "post", "summary", "sumPost", "files", "end",
           "catch", "final", "move"}

Idle == [at |-> "idle", trigger |-> "auto", round |-> 0, found |-> {}, todo |-> {},
         sum |-> {}, seen |-> None, threads |-> None, meta |-> "ok", errors |-> FALSE,
         finding |-> {}, count |-> 1, column |-> "REVIEW"]

Reviewer == [at : Places, trigger : {"auto", "manual"}, round : Nat, found : SUBSET Findings,
             todo : SUBSET Findings, sum : SUBSET Findings, seen : [Findings -> Int],
             threads : [Findings -> Int], meta : {"ok", "noHead", "noFiles"},
             errors : BOOLEAN, finding : SUBSET Findings, count : 1..MaxAttempts,
             column : {"REVIEW", "DONE"}]
Record   == [review : {"none", "running", "completed", "failed"}, round : Nat,
             findings : SUBSET Findings, threads : [Findings -> Int],
             post : {"none", "not_attempted", "completed", "failed"}, postRound : Nat]
Posted   == [kind : {"inline", "summary"}, ids : SUBSET Findings]

(* A thread is a comment, or elsewhere, or none.                           *)
ThreadsOK(threads) == \A f \in Findings : threads[f] \in {Elsewhere} \cup 0..Len(comments)

HeldOK(held) == /\ held.todo \subseteq held.found /\ held.sum \subseteq held.found
                /\ held.finding \subseteq held.found
                /\ ThreadsOK(held.seen) /\ ThreadsOK(held.threads)

TypeOK ==
  /\ config \in Configs /\ run \in Record /\ ThreadsOK(run.threads)
  /\ rv \in [Reviewers -> Reviewer] /\ \A r \in Reviewers : HeldOK(rv[r])
  /\ comments \in Seq(Posted)
  /\ files \subseteq Findings /\ column \in {"REVIEW", "DONE"}
  /\ triggers \in Seq({"auto", "manual"}) /\ Len(triggers) <= MaxRounds
  /\ faults \in 0..MaxFaults
  /\ overlapped \in BOOLEAN /\ blind \in BOOLEAN /\ last \in {"auto", "manual"}

Init ==
  /\ config \in Configs
  /\ run = [review |-> "none", round |-> 0, findings |-> {}, threads |-> None,
            post |-> "none", postRound |-> 0]
  /\ rv = [r \in Reviewers |-> Idle]
  /\ comments = <<>> /\ files = {} /\ column = "REVIEW"
  /\ triggers = <<>> /\ faults = 0
  /\ overlapped = FALSE /\ blind = FALSE /\ last = "auto"

-----------------------------------------------------------------------------
(* How the review is configured (review-contract.ts).                      *)

Enabled == config.task = "on" \/ (config.task = "inherit" /\ config.repo)

PromptSource == IF "playbook" \in config.prompts THEN "playbook"
                ELSE IF "task" \in config.prompts THEN "task"
                ELSE IF "repo" \in config.prompts THEN "repo" ELSE "native"

(* loadPreviousReviewFindings: the newest other run that has findings.     *)
Previous ==
  LET reviewed == {i \in DOMAIN Earlier : Earlier[i] # {}}
  IN  IF reviewed = {} THEN {}
      ELSE Earlier[CHOOSE i \in reviewed : \A j \in reviewed : i <= j]

DismissedFingerprints == {Fingerprint[p.id] : p \in {q \in Previous : q.dismissed}}

(* Mutant: a dismissed finding is known by its id. *)
SuppressById(found) == found \ {p.id : p \in {q \in Previous : q.dismissed}}

(* suppressDismissedFindings *)
Suppress(found) == {f \in found : Fingerprint[f] \notin DismissedFingerprints}

-----------------------------------------------------------------------------
(* What is on the pull request.                                            *)

Marked(f) == {i \in DOMAIN comments : f \in comments[i].ids}
Summaries == {i \in DOMAIN comments : comments[i].kind = "summary"}
Newest(at) == CHOOSE i \in at : \A j \in at : j <= i

(* fetchExistingFindingThreads: GitHub's issue comments come last.         *)
Thread(f) ==
  LET shown == Marked(f) \cap Summaries
  IN  IF Marked(f) = {} THEN 0
      ELSE IF config.provider = "github" /\ shown # {} THEN Newest(shown)
      ELSE Newest(Marked(f))
Threads == [f \in Findings |-> Thread(f)]

(* fetchSummaryThread: the first one of the run.                           *)
SummaryThread ==
  IF Summaries = {} THEN 0 ELSE CHOOSE i \in Summaries : \A j \in Summaries : i <= j

(* A call of the SCM fails.                                                *)
Fault == faults < MaxFaults /\ faults' = faults + 1
NoFault == UNCHANGED faults

(* A comment is made; the caller hears of it, or not.                      *)
Comment(kind, ids) == comments' = Append(comments, [kind |-> kind, ids |-> ids])

-----------------------------------------------------------------------------
(* A review.                                                               *)

At(r, place) == rv[r].at = place
Go(r, place) == rv' = [rv EXCEPT ![r].at = place]
Hold(r, held) == rv' = [rv EXCEPT ![r] = held]
Local == UNCHANGED <<config, run, comments, files, column, triggers, history>>
Fails(r) == Go(r, "catch") /\ Local

(* What an executor that is done with its review holds no longer.          *)
Done(r, place) == rv' = [rv EXCEPT ![r] = [Idle EXCEPT !.at = place]]
AfterReview(r) == IF rv[r].trigger = "manual" THEN "final" ELSE "idle"

(* The review of the executor that opened the pull request, and            *)
(* handleRerunReview.                                                      *)
Trigger(r) ==
  /\ At(r, "idle") /\ Len(triggers) < MaxRounds
  /\ \A s \in Reviewers : At(s, "idle") => r <= s
  /\ \E trigger \in {"auto", "manual"} :
       /\ IF trigger = "manual" THEN run.review # "running"
          ELSE \A i \in DOMAIN triggers : triggers[i] # "auto"
       /\ triggers' = Append(triggers, trigger)
       /\ Hold(r, [rv[r] EXCEPT !.at = "asked", !.trigger = trigger])
  /\ UNCHANGED <<config, run, comments, files, column, faults, history>>

Working == Places \ {"idle", "asked", "disabled", "final", "move"}
Underway == Working \ {"note"}
Posting == {"finding", "look", "post", "summary", "sumPost"}
AtWork(r) == rv[r].at \notin {"idle", "asked"}

ReadForReview(r) ==
  /\ At(r, "asked")
  /\ \/ run.review = "running" /\ Done(r, AfterReview(r)) /\ UNCHANGED overlapped
     \/ /\ run.review # "running" /\ ~Enabled
        /\ Hold(r, [rv[r] EXCEPT !.at = "disabled", !.round = run.round]) /\ UNCHANGED overlapped
     \/ /\ run.review # "running" /\ Enabled
        /\ Hold(r, [rv[r] EXCEPT !.at = "note", !.round = run.round + 1])
        /\ overlapped' = (overlapped \/ \E s \in Reviewers : AtWork(s))
  /\ UNCHANGED <<config, run, comments, files, column, triggers, faults, blind, last>>

SkipReview(r) ==
  /\ At(r, "disabled")
  /\ run' = [run EXCEPT !.review = "none", !.round = rv[r].round]
  /\ Done(r, AfterReview(r))
  /\ UNCHANGED <<config, comments, files, column, triggers, faults, history>>

NoteReview(r) ==
  /\ At(r, "note")
  /\ run' = [run EXCEPT !.review = "running", !.round = rv[r].round,
                        !.post = "not_attempted", !.postRound = rv[r].round]
  /\ Go(r, "prepare")
  /\ UNCHANGED <<config, comments, files, column, triggers, faults, history>>

(* Credentials, the review sandbox, its checkout, the earlier findings.    *)
Prepare(r) ==
  /\ At(r, "prepare")
  /\ \/ Go(r, "llm") /\ NoFault /\ Local
     \/ Fault /\ Fails(r)

-----------------------------------------------------------------------------
(* What it reports.                                                        *)

(* The LLM's answer is a set of findings, or it is no use.                 *)
Report(r) ==
  \/ \E found \in Reports :
       /\ Hold(r, [rv[r] EXCEPT !.at = IF config.agent THEN "agent" ELSE "load",
                                !.found = Suppress(found), !.todo = Suppress(found)])
       /\ NoFault /\ Local
  \/ Fault /\ Fails(r)

(* runStructuredReview *)
StructuredReview(r) == At(r, "llm") /\ PromptSource # "native" /\ Report(r)

(* runNativeReviewAndNormalize *)
NativeReview(r) ==
  /\ At(r, "llm") /\ PromptSource = "native"
  /\ \/ Go(r, "normalize") /\ NoFault /\ Local
     \/ Fault /\ Fails(r)
NormalizeReview(r) == At(r, "normalize") /\ Report(r)

-----------------------------------------------------------------------------
(* What is posted.  A finding or a summary gets MaxAttempts attempts.      *)

(* The LLM was told to post its findings itself; the platform posts them   *)
(* when it names no thread for any of them.                                *)
AgentPosting(r) ==
  /\ At(r, "agent")
  /\ \E posted \in SUBSET rv[r].found :
       Hold(r, [rv[r] EXCEPT
                  !.at = IF posted = {} /\ rv[r].found # {} THEN "load" ELSE "files",
                  !.threads = [f \in Findings |-> IF f \in posted THEN Elsewhere ELSE 0]])
  /\ NoFault /\ Local

(* The first look at the pull request.  Without it GitHub and GitLab go on *)
(* posting; Jira posts nothing.                                            *)
LoadThreads(r) ==
  /\ At(r, "load")
  /\ \/ /\ ~config.token /\ NoFault /\ UNCHANGED blind
        /\ Hold(r, [rv[r] EXCEPT !.at = "files", !.errors = TRUE])
     \/ /\ config.token /\ NoFault /\ UNCHANGED blind
        /\ Hold(r, [rv[r] EXCEPT !.at = IF config.provider = "jira" THEN "finding" ELSE "meta",
                                 !.seen = Threads])
     \/ /\ config.token /\ Fault /\ blind' = TRUE
        /\ Hold(r, [rv[r] EXCEPT !.at = IF config.provider = "jira" THEN "files" ELSE "meta",
                                 !.errors = TRUE])
  /\ UNCHANGED <<config, run, comments, files, column, triggers, overlapped, last>>

(* The head and the changed files; GitLab asks for them only to post       *)
(* inline.                                                                 *)
FetchMetadata(r) ==
  /\ At(r, "meta")
  /\ \/ Go(r, "finding") /\ NoFault
     \/ /\ Fault
        /\ \E meta \in {"noHead", "noFiles"} :
             /\ meta = "noFiles" /\ config.provider = "gitlab" => config.inline
             /\ Hold(r, [rv[r] EXCEPT !.at = "finding", !.meta = meta, !.errors = TRUE])
  /\ Local

CanInline(r, f) ==
  \/ config.provider = "jira"
  \/ /\ config.inline /\ f \in Placed
     /\ rv[r].meta = "ok" => f \in InDiff
     /\ rv[r].meta # "noHead"

Known(r, f, thread) ==
  Hold(r, [rv[r] EXCEPT !.at = "finding", !.threads[f] = thread, !.todo = @ \ {f},
                        !.finding = {}, !.count = 1])

NextFinding(r) ==
  /\ At(r, "finding")
  /\ \/ /\ rv[r].todo = {}
        /\ Go(r, IF rv[r].sum = {} THEN "files" ELSE "summary")
     \/ \E f \in rv[r].todo :
          \/ rv[r].seen[f] # 0 /\ Known(r, f, rv[r].seen[f])
          \/ /\ rv[r].seen[f] = 0 /\ CanInline(r, f)
             /\ Hold(r, [rv[r] EXCEPT !.at = "look", !.finding = {f}])
          \/ /\ rv[r].seen[f] = 0 /\ ~CanInline(r, f)
             /\ Hold(r, [rv[r] EXCEPT !.todo = @ \ {f}, !.sum = @ \cup {f}])
  /\ NoFault /\ Local

(* Mutant: only the first attempt looks. *)
FoundAtFirst(r, f) == IF rv[r].count = 1 THEN Thread(f) ELSE 0

(* What an attempt to post f finds.                                        *)
Found(r, f) == Thread(f)

LastAttempt(r) == rv[r].count = MaxAttempts
Again(r, place) == Hold(r, [rv[r] EXCEPT !.at = place, !.count = @ + 1])

(* After its last attempt a finding goes to the summary; Jira has none.    *)
GiveUp(r) ==
  LET jira == config.provider = "jira" IN
  Hold(r, [rv[r] EXCEPT !.at = "finding", !.todo = @ \ rv[r].finding, !.finding = {},
                        !.count = 1, !.errors = @ \/ jira,
                        !.sum = IF jira THEN @ ELSE @ \cup rv[r].finding])

FailedAttempt(r) ==
  IF LastAttempt(r) THEN GiveUp(r) ELSE Again(r, "look")

(* It gives up on a finding that an attempt posted without hearing of it.  *)
GivesUpPosted(r) ==
  /\ LastAttempt(r) /\ config.provider # "jira"
  /\ \E i \in DOMAIN comments' : rv[r].finding \subseteq comments'[i].ids

Others == UNCHANGED <<config, run, files, column, triggers, overlapped, last>>

Look(r) ==
  /\ At(r, "look") /\ UNCHANGED comments /\ Others
  /\ \/ /\ NoFault
        /\ \E f \in rv[r].finding :
             IF Found(r, f) # 0 THEN Known(r, f, Found(r, f))
             ELSE Hold(r, [rv[r] EXCEPT !.at = "post", !.seen = Threads])
        /\ UNCHANGED blind
     \/ Fault /\ FailedAttempt(r) /\ blind' = (blind \/ GivesUpPosted(r))

Post(r) ==
  /\ At(r, "post")
  /\ \/ /\ Comment("inline", rv[r].finding) /\ NoFault /\ UNCHANGED blind
        /\ \E f \in rv[r].finding : Known(r, f, Len(comments) + 1)
     \/ /\ Fault /\ FailedAttempt(r)
        /\ Comment("inline", rv[r].finding) \/ UNCHANGED comments
        /\ blind' = (blind \/ GivesUpPosted(r))
  /\ Others

(* The findings the summary comment names.                                 *)
SummaryOf(r) == rv[r].sum

(* Mutant: a summary that could not be posted counts as posted. *)
SummaryFailedQuietly(r) == rv[r].errors

(* Whether there were errors, after a summary that could not be posted.    *)
SummaryFailed(r) == TRUE

InSummary(r, thread) ==
  Hold(r, [rv[r] EXCEPT !.at = "files",
                        !.threads = [f \in Findings |-> IF f \in rv[r].sum THEN thread ELSE @[f]]])

FailedSummary(r) ==
  IF LastAttempt(r) THEN Hold(r, [rv[r] EXCEPT !.at = "files", !.errors = SummaryFailed(r)])
  ELSE Again(r, "summary")

(* A summary that is there is left as it is.                               *)
LookForSummary(r) ==
  /\ At(r, "summary")
  /\ \/ /\ NoFault
        /\ IF SummaryThread # 0 THEN InSummary(r, SummaryThread) ELSE Go(r, "sumPost")
     \/ Fault /\ FailedSummary(r)
  /\ Local

PostSummary(r) ==
  /\ At(r, "sumPost")
  /\ \/ /\ Comment("summary", SummaryOf(r)) /\ NoFault
        /\ InSummary(r, Len(comments) + 1)
     \/ /\ Fault /\ FailedSummary(r)
        /\ Comment("summary", SummaryOf(r)) \/ UNCHANGED comments
  /\ UNCHANGED blind /\ Others

-----------------------------------------------------------------------------
(* What is noted of it.                                                    *)

(* Where a review goes whose artifacts could not be stored.                *)
ArtifactsFailed == "catch"

PersistArtifacts(r) ==
  /\ At(r, "files")
  /\ \/ files' = rv[r].found /\ Go(r, "end") /\ NoFault
     \/ Fault /\ Go(r, ArtifactsFailed) /\ UNCHANGED files
  /\ UNCHANGED <<config, run, comments, column, triggers, history>>

EndReview(r) ==
  /\ At(r, "end")
  /\ run' = [review |-> "completed", round |-> rv[r].round, findings |-> rv[r].found,
             threads |-> rv[r].threads, post |-> IF rv[r].errors THEN "failed" ELSE "completed",
             postRound |-> rv[r].round]
  /\ Done(r, AfterReview(r)) /\ last' = rv[r].trigger
  /\ UNCHANGED <<config, comments, files, column, triggers, faults, overlapped, blind>>

(* Mutant: the post state alone is noted. *)
FailedPostOnly(r) == [run EXCEPT !.post = "failed", !.postRound = rv[r].round]

(* What is noted of a review that failed; its findings are lost.           *)
FailedReview(r) == [run EXCEPT !.review = "failed", !.round = rv[r].round,
                               !.post = "failed", !.postRound = rv[r].round]

CatchError(r) ==
  /\ At(r, "catch")
  /\ run' = FailedReview(r)
  /\ Done(r, AfterReview(r)) /\ last' = rv[r].trigger
  /\ UNCHANGED <<config, comments, files, column, triggers, faults, overlapped, blind>>

(* Where the task belongs after a review that was asked for.               *)
ColumnAfter(review) == CASE review = "completed" -> {"DONE"}
                         [] review = "failed"    -> {"REVIEW"}
                         [] OTHER                -> {}

(* finalizeReviewOnlyTaskStatus reads the run, then moves the task.        *)
Finalize(r) ==
  /\ At(r, "final")
  /\ \/ ColumnAfter(run.review) = {} /\ Done(r, "idle")
     \/ \E place \in ColumnAfter(run.review) : Hold(r, [rv[r] EXCEPT !.at = "move", !.column = place])
  /\ NoFault /\ Local

MoveTask(r) ==
  /\ At(r, "move")
  /\ column' = rv[r].column /\ Done(r, "idle")
  /\ UNCHANGED <<config, run, comments, files, triggers, faults, history>>

ReviewStep(r) ==
  \/ ReadForReview(r) \/ SkipReview(r) \/ NoteReview(r) \/ Prepare(r) \/ StructuredReview(r)
  \/ NativeReview(r) \/ NormalizeReview(r) \/ AgentPosting(r) \/ LoadThreads(r)
  \/ FetchMetadata(r) \/ NextFinding(r) \/ Look(r) \/ Post(r) \/ LookForSummary(r)
  \/ PostSummary(r) \/ PersistArtifacts(r) \/ EndReview(r) \/ CatchError(r) \/ Finalize(r)
  \/ MoveTask(r)

Next == \E r \in Reviewers : Trigger(r) \/ ReviewStep(r)

Spec == Init /\ [][Next]_vars

-----------------------------------------------------------------------------
(* A finding is posted once, in however many rounds it is reported and     *)
(* whichever answers are lost: unless two reviews posted at once, the      *)
(* first look at the pull request failed, or the attempts to post it were  *)
(* given up after one of them had posted it.                               *)
OnePerFinding ==
  ~overlapped /\ ~blind =>
     \A f \in Findings : \A i, j \in Marked(f) : i = j

(* The comment that is recorded as a finding's thread shows the finding;   *)
(* not so for a summary of an earlier round, which is never brought up to  *)
(* date.                                                                   *)
Shown(threads, round) ==
  \A f \in Findings :
     LET thread == threads[f]
     IN  thread > 0 /\ (comments[thread].kind = "inline" \/ (round = 1 /\ ~overlapped))
           => f \in comments[thread].ids
ThreadShowsFinding == Shown(run.threads, run.round)

(* When posting is recorded as completed, every finding the review records *)
(* has a thread; not so when the LLM was to post them (it may post some).  *)
CompletedMeansPosted ==
  run.post = "completed" /\ ~config.agent =>
     \A f \in run.findings : run.threads[f] # 0

(* The findings in the artifacts are the ones in the run a review has      *)
(* completed.                                                              *)
ArtifactsMatchRun ==
  ~overlapped /\ run.review = "completed" => files = run.findings

(* When no review is under way, a task whose last review was asked for is  *)
(* in DONE if that review completed and in REVIEW if it did not.           *)
ColumnShowsReview ==
  /\ ~overlapped /\ Enabled /\ last = "manual"
  /\ \A r \in Reviewers : At(r, "idle")
  => (column = "DONE" <=> run.review = "completed")

(* What is recorded of a review agrees with what is elsewhere, whichever   *)
(* calls fail after they were carried out: threads and posting with the    *)
(* comments on the host, the artifacts with the run's findings, the column *)
(* with how the review ended.                                              *)
RecordsAgree ==
    TypeOK /\ ThreadShowsFinding /\ CompletedMeansPosted /\ ArtifactsMatchRun /\ ColumnShowsReview

(* A finding that was dismissed in the run before is reported nowhere, in  *)
(* whatever words the LLM finds it again.                                  *)
DismissedStaysAway ==
  \A f \in run.findings \cup files \cup UNION {comments[i].ids : i \in DOMAIN comments} :
     Fingerprint[f] \notin DismissedFingerprints

(* A review the board calls running is in the hands of a reviewer that has *)
(* yet to say how it ends, wherever it or another one fails; a review left *)
(* running could never be asked for again.                                 *)
ReviewIsReported ==
  run.review = "running" => \E r \in Reviewers : rv[r].at \in Underway

-----------------------------------------------------------------------------
(* What makes these inductive: what a reviewer holds, ...                  *)

(* its threads show their findings, as far as the run's do;                *)
Shows(held) ==
  /\ held.at \in {"idle", "asked"} => held.threads = None
  /\ Shown(held.threads, held.round)
  /\ \A f \in Findings : held.seen[f] > 0 => f \in comments[held.seen[f]].ids

(* each of its findings is to be posted, or in the summary, or has a       *)
(* thread, unless there were errors;                                       *)
Accounts(held) ==
  /\ IF held.at \in {"look", "post"} THEN \E f \in held.todo : held.finding = {f}
     ELSE held.finding = {}
  /\ held.todo \cap held.sum = {}
  /\ held.at = "agent" => config.agent
  /\ held.at \notin Posting \cup {"files", "end", "catch"} => held.sum = {}
  /\ held.at \in {"summary", "sumPost"} => held.todo = {}
  /\ ~config.agent /\ ~held.errors =>
       /\ held.at \in {"load", "meta"} \cup Posting =>
            \A f \in held.found : f \in held.todo \cup held.sum \/ held.threads[f] # 0
       /\ held.at \in {"files", "end"} => \A f \in held.found : held.threads[f] # 0

(* it counts as a round only if reviews are enabled;                       *)
Counts(held) ==
  /\ held.at \in Working => Enabled /\ held.round > 0
  /\ held.at = "disabled" => ~Enabled /\ held.round = 0

StaysAway(held) == \A f \in held.found : Fingerprint[f] \notin DismissedFingerprints

(* in the first round the summary on the host is its own;                  *)
FirstSummary(held) ==
  held.at \in Underway /\ held.round = 1 =>
    \A i \in Summaries : /\ held.at \in {"summary", "sumPost", "files", "end", "catch"}
                          /\ comments[i].ids = held.sum

(* and what it has yet to post is not there, as far as it has looked.      *)
Unposted(held) ==
  /\ held.at \in {"meta"} \cup Posting =>
       \A f \in held.todo \ held.finding : Marked(f) # {} => held.seen[f] # 0
  /\ held.at = "post" => \A f \in held.finding : Marked(f) = {}
  /\ held.at \in Posting \ {"summary"} => \A f \in held.sum : Marked(f) = {}
  /\ held.at = "summary" /\ Summaries = {} => \A f \in held.sum : Marked(f) = {}

HeldInv(held) ==
  /\ Shows(held) /\ Accounts(held) /\ Counts(held) /\ StaysAway(held)
  /\ ~overlapped => /\ FirstSummary(held)
                    /\ held.at = "end" => files = held.found
                    /\ ~blind => Unposted(held)

(* ... and what the board says meanwhile: nothing before the first round,  *)
FirstRound ==
  /\ run.round = 0 => run.threads = None /\ (overlapped \/ comments = <<>>)
  /\ ~Enabled => run.round = 0

(* of one reviewer at a time unless two overlapped,                        *)
OneReviewer ==
  ~overlapped =>
    \A r \in Reviewers : rv[r].at \in Working =>
      /\ \A s \in Reviewers \ {r} : rv[s].at \notin Working
      /\ IF At(r, "note")
         THEN /\ run.review # "running" /\ rv[r].round = run.round + 1
              /\ \A s \in Reviewers \ {r} : ~AtWork(s)
         ELSE run.review = "running" /\ rv[r].round = run.round

(* in a column that is right once everybody about to set it has.           *)
Nobody(places) == \A r \in Reviewers : rv[r].at \notin places
ColumnFollows ==
  ~overlapped /\ Enabled =>
    /\ last = "manual" => run.review # "none"
    /\ \A r \in Reviewers : At(r, "move") => Nobody(Working) /\ rv[r].column \in ColumnAfter(run.review)
    /\ last = "manual" /\ Nobody(Working \cup {"final", "move"}) =>
         (column = "DONE" <=> run.review = "completed")

ReviewInv == /\ \A r \in Reviewers : HeldInv(rv[r])
             /\ FirstRound /\ OneReviewer /\ ColumnFollows
=============================================================================
