# agents-kanban in TLA+

TLA+ models of agents-kanban, a kanban board whose cards are worked on by coding
agents. The server runs on Cloudflare: durable objects for the boards, workflows for
the runs, D1 (SQLite) for accounts, Slack threads and the sentinel, KV for delivery
marks, HTTP and webhook handlers around them; a browser shows the boards. The models
are written from the code; unless they begin with `docs/`, `scripts/` or `ui/`, paths
below are relative to `src/src/server/`.

## The system

| Part | State it keeps | Operations | Talks to |
|---|---|---|---|
| `RepoBoardDO` (`durable/repo-board.ts`), one per repo | tasks, runs, logs, events, commands, operator sessions, local jobs; all in one stored record | create, update, delete task; start, retry, cancel, transition, take over a run; request changes; retry evidence, preview; dependency scans that start tasks | awaits `BoardIndexDO` (repo record, event feed); called by everybody |
| Dependency state (`shared/dependency-*.ts`, `shared/run-source-resolution.ts`) | none: functions over the board's record | which upstreams are ready; which commit a run starts from | called by `RepoBoardDO` |
| `BoardIndexDO` (`durable/board-index.ts`), one | repos with their settings, playbooks, provider credentials, event sockets | repo and playbook CRUD, snapshots, event fan-out | calls the boards; called by them, the router, the workflows |
| Run orchestrator (`run-orchestrator.ts`, `workflows/`) | position in a run; everything else on the board | bootstrap, agent, tests, checkpoints, push, open review, automatic review, preview, evidence; one job per workflow instance | board, sandbox, LLM adapters, SCM, preview adapters |
| Sentinel (`sentinel.ts`, its rows in `tenant-auth-db.ts`, its handlers in `router.ts`) | one row per sentinel run: status, current task and run, attempt count, lease | start, pause, resume, stop; progress: settle the current task (review gate, merge, rebase, remediation), pick and start the next | D1, board, SCM, orchestrator |
| Checkpoints and retries (`shared/retry-recovery.ts`, orchestrator) | checkpoints on the run | choose where a retry starts | board |
| Review loop (`review-posting/*`, `request-changes.ts`, orchestrator's `executeRunReview`) | review execution, findings and their threads on the run; artifacts in R2 | automatic and manual reviews, posting of findings | board, SCM, Jira |
| Slack and GitLab integrations (`integrations/*`) | D1: intake sessions, thread bindings; KV: delivery marks | messages, slash commands, buttons (answers, approve rerun, pause, close), merge request and note webhooks | board, orchestrator |
| Tenants and accounts (`tenant-auth-db.ts`, `scripts/bootstrap-single-tenant.ts`) | D1: users, invites, sessions, API tokens | sign up, log in, invite, accept, log out, make and revoke tokens | router |
| Usage ledger (`usage-ledger.ts`, `usage-reporting.ts`) | D1: usage entries, which nothing writes | report | router |
| Router and validation (`router.ts`, `http/*`) | none | HTTP to the above | all |
| Adapters (`llm/*`, `scm/*`, `preview/*`) | none of their own | start an agent, push, open and merge reviews, read checks, find previews | outside services |
| Browser (`ui/api/http-agent-board-api.ts`, `ui/components/Forms.tsx`, `ui/App.tsx`) | a snapshot of the boards, a socket, forms being edited | show, refresh, reconnect, sign in and out, save settings | router, `BoardIndexDO` |

**What is hard here.** A durable object runs one request at a time, but a request
that awaits *another* object lets the next one in. `startRun` awaits the repo record
between its checks and the creation of the run; every mutator awaits its events
between storing the board and looking for dependents to start. Runs are driven from
outside by a workflow instance that does not hold the board: it can be late or
duplicated, its run may have been cancelled or taken over, and two of them share one
sandbox. The sentinel, the Slack handlers and the account handlers are stateless code
around rows in D1 and keys in KV: two requests read and write them in separate
statements, and a request may die between any two. Hosts lose answers to calls they
carried out; Slack and GitLab deliver twice. `PROJECT.json` lists the places
that matter most ("hazards"), at their lines, with the properties that are about them.

**What makes each part correct**, in one line each. *Board*: a task's pointer and
column agree with its runs, an ended run stays ended, dependency states are never
stale, an eligible task is not stranded. *Executor*: one executor works in the tree,
what the board records is what was pushed, nothing after a takeover, no run left in a
phase nobody is in. *Sentinel*: one running row per repo, one controller and one task
at a time, nothing merged that the gate has not passed. *Review loop*: a finding is
posted once, what is recorded as posted is there, a review that began is reported.
*Slack and GitLab*: a question starts one run, a decision leads to one rerun, a note
asks for one decision. *Board index*: a browser with a socket misses nothing, deleted
boards are empty. *Accounts*: there is always an owner, an invite is kept, what ended
stays ended. *Settings*: a field changes only by a patch that names it, what is stored
is coherent, saving the form changes nothing one did not type.

## The modules

| Module | Models | State and actions |
|---|---|---|
| `RunStates` | the state machines a run carries: status, column, loop state (`repo-board.ts`, the helpers at its end) | operators only; used by `RepoBoard`, `Executor`, `SlackLoop` |
| `DependencyState` | readiness of upstream tasks, stored dependency states and their refresh, the choice of a run's source | operators over `tasks` and `runs` |
| `RepoBoard` | `RepoBoardDO` | `tasks` and `runs` are `state.tasks` and `state.runs`; `calls` holds, for each caller, what is left of the operation it is in. One action per operation up to its first await that matters (`Operate`), one per continuation (`Continue`) |
| `RunLedger` | abstract: what the board's clients may take for granted of its runs | implemented by `RepoBoard` (`LedgerSpec`) |
| `Executor` | `executeRunJob` with its phases, the LLM, SCM and preview adapters as it sees them, local jobs, and the operators' handlers that touch the run meanwhile | `wf[w]` is a workflow instance; `tree` the sandbox, `remote` the branches on the host, `run` the board's record. One action per call |
| `ReviewLoop` | `executeRunReview` and `review-posting/*` | `rv[r]` is a reviewer, `comments` what is on the host, `run` what is recorded, `files` the artifacts. One action per call of the board, the bucket or the host, which may fail with or without having done it |
| `SlackIntake` | one thread with its intake session, deliveries and buttons | `hd[h]` is a request; `kv`, `session`, `bindings`, `runs` are what it reads and writes in separate actions |
| `SlackLoop` | the decision loop of one task: GitLab's webhook, clicks on approve, pause and close, requests for changes, reruns | `req[q]` is a request; `runs` the board's, `bindings` the threads'. Board calls are single actions, taken from `RunStates` |
| `BoardIndex` | `BoardIndexDO`'s repos, sockets, snapshots and events, and `HttpAgentBoardApi` in the browser | `boards` are versions of items, `mail` is events on their way, `syncs` are snapshots being read slice by slice, `sockets` have queues, `browser` is what it shows |
| `Access` | `tenant-auth-db.ts`'s accounts under the handlers of `router.ts` and the bootstrap script | `role`, `invites`, `sessions`, `tokens` are the tables; `request[q]` a handler. One action per query that another request can tell from its neighbours |
| `Settings` | a repo's settings: form, validation, merging, storage, both sentinel stores, playbooks | a section is a function from fields to values, a patch a function on the fields it names; `repo` the record, `copy` the row in D1, `form` what the browser edits |
| `Sentinel` | the sentinel of one repo: `SentinelController.progress`, the four handlers of `router.ts`, the statements they make | `rows` is `sentinel_runs`; `req[q]` a request; `board` and `runs` the repo's board as the sentinel sees it. One action per D1 statement or call to the board |
| `SentinelConfig` | what a sentinel's config says of merging, and its constants | shared by `Sentinel` and `SentinelMerge` |
| `SentinelTurns` | abstract: tasks take turns, each worked once | implemented by `Sentinel` under start commands (`TurnsSpec`) |
| `SentinelMerge` | `SentinelRemediationEngine.runWithPolicy` and `SentinelMergeEngine.attemptMerge` | `engine` is the call under way; `review`, `checks`, `findings` are the outside. One action per request to the host |
| `RepoBoardProofs`, `SentinelProofs` (of `Sentinel` and `SentinelMerge`), `AccessProofs`, `ExecutorProofs` (of `Executor` and `Settings`), `ReviewLoopProofs`, `SlackIntakeProofs`, `SlackLoopProofs`, `BoardIndexProofs` | theorems | |
| `MC...` | the inputs, configurations and bodies TLC uses | |

**How they fit.** Each module owns one piece of state and sees its neighbours through
what they may do to it. `RepoBoard` takes every transition anybody may ask for, in any
order: it is the environment's worst case for which the board's properties hold, and
`Executor` and `SlackLoop` use the same operators (`RunStates`) for the order in which
executors and the loop really ask. `Executor` has a review as a step that ends some
way, `ReviewLoop` has its inside; `Sentinel` has a merge as a step, `SentinelMerge` its
inside, and what the former assumes of attempts is `AttemptsAllOrNone` of the latter.
`RepoBoard` sends events, `BoardIndex` delivers them. `Settings` and `BoardIndex` share
`updateRepo`: paths and ids in the one, settings in the other.

**RepoBoard.** Tasks are numbered in the order of their creation, runs likewise; a
deleted task or run number stays used. `startRun` is `StartRun` (its checks, up to
`getRepo`) and `CreateRun` (the rest). An operation that stores the board (`Commit`)
refreshes the dependency states in the same step, as the code does before `persist`,
and leaves a scan to do; `ScanTasks` takes the snapshot that
`autoStartRunnableDependencyTasks` filters, and `AutoStartTask` goes on to the next
task of its loop. A nested scan that finds nothing leaves one more point between two
starts than the code has; it only adds interleavings. `Interrupt` is a restart, or an
event that fails after `persist`: the rest of the call is lost. `edited` is a history
variable: cards whose column was last written by hand.

**Executor.** Commits are numbered as they are made, a branch's head is the number of
a commit, and a commit has the commits it was made on; `noted` are those that carry
context notes. What a checkpoint, a squash, a cleanup and the final commit do to the
branch is modelled, not their messages. A workflow that dies is `lost`. With
`config.local` there is no workflow: a job is kept in the board and run by its alarm.

**ReviewLoop.** A finding has an id (title, place and words), a fingerprint (title and
place), and is in a line of the diff or not. A comment on the host is the set of
findings whose markers it carries. `overlapped` and `blind` are history: two reviewers
at once, and a first look at the host that failed.

**SlackIntake, SlackLoop.** What a message says is a choice among the intents the
parsers give. `Serial` says that no request has overlapped another so far; `closed`,
`late` and `answered` are history. A question leaves `answered` when a request that
read the session before the answer puts it back: from then on others take it over from
the session as it is, and only the first is to blame. In `SlackLoop` a binding is the run and the round a thread
shows, a click carries those of the message that was clicked; `decisions` (for which run
a decision became due, in that order), `pended`, `granted`, `lost` and `raced` are
history.

**Access.** `request[q].at` is the next query. `seeded` and `founders` are history: the
script's owners, and accounts asked for before there was any.

**Sentinel.** A row's number is the order of its `started_at`, which a request takes
before it inserts. `updateSentinelRun` is `ReadRow` and `WriteRow`; the unique index
of migration 0003 is `AnotherRuns`. The controller's steps are in the order of
`progress`: `AcquireLease`, `OwnLease`, `SettleTask` (with `RunWithPolicy`,
`ReportMerge`, `FinishTask`), `ListTasks`, `ClaimTask`, `CheckClaim`, `StartRun`, the
update that links the run, `ScheduleRun`, `NoteWorkflow`, `ReleaseLease`. `startRun`
is one step here: its own race is `RepoBoard`'s. `RunWithPolicy` chooses among the
outcomes of a merge call. A failed `getTask` counts as a missing task, as in the code.

**SentinelMerge.** The head the run pushed is commit 1, and pushes add commits after
it (nobody forces the branch back to it). `engine.passed` is a history field: the
commits that passed the review gate in this call. An answer of the host may be lost
(`Answer("failed")` after the merge).

## The runs

`CHECK_DEADLOCK FALSE` stands in every configuration: the systems wait for somebody
to call them, and a bounded instance in which everything is used up has nothing left
to do. Each takes between twenty seconds and two and a half minutes.

| Run | Instance | Shows |
|---|---|---|
| `rb_runs` | one task, two runs, two callers, every operation on runs, patches for an executing run, one with a review and each step of the review loop | the task's column and pointer agree with its runs; orphaned runs are inert; an ended run moves again only by takeover, review retry, failure or deletion; a rerun is queued only out of a decision; the runs implement the ledger |
| `rb_autostart` | three tasks, created plain and edited to follow the first (at any time, by people who may say they have been started); five runs, four of them automatic; patches that push a commit and open a review; two callers; fair | stored dependency states are what a refresh would compute; a run on a review head has an upstream whose head was pushed and reviewed; a task that may start is started without another call |
| `ex_jobs` | two workflows on one run, four deployments (adapters, switches, local), every operator command, lost workers | one executor in the tree; head and branch are those pushed; notes stay in the sandbox; runs and reviews are not stranded; after a takeover the LLM's executor stops; a retry takes the newest checkpoint; only operators reopen a run |
| `rv_reviews` | two reviewers, two rounds, four findings, six configurations, three failing calls | findings posted once; threads, artifacts, columns and statuses agree with what is on the host; what was dismissed stays away; a review that began is reported |
| `sl_intake` | four messages in one thread, one overlap, one trouble (a copy or a death) | late copies come to nothing; a question starts one run, the newest of its kind; the thread is bound to the newest run; an answered question stays answered |
| `sl_loop` | two threads, three runs, two requests, five inputs | one rerun per decision; an approval that took it is kept; rounds are depths; a decision needs a review; one decision per note |
| `bi_index` | two paths, two tasks, two sockets, two snapshots, four inputs | a connected browser misses nothing; it is not stranded; deleted boards are empty; paths and ids are unique; signed out shows nothing |
| `ac_access` | two people, two requests, two invites, three sessions, one token, five inputs | an owner remains; invites are kept; owners are appointed; what ended stays ended |
| `st_settings` | one repo, one playbook of either tenant, two requests, a form, four inputs | what is stored is normal and coherent; playbooks are the tenant's own; a save heals the two stores; models fit the named adapter; only named fields change; the form keeps the meaning |
| `sn_operate` | two requests of every command, two rows, one task a person starts too, expiring leases, used-up attempts, refused calls | at most one running row; no lease on a row that does not run |
| `sn_start` | two start requests, two rows, two tasks, crashes, deletions, cards moved to DONE; fair | one controller at a time; turns; a granted claim leads to a started task; leases are released |
| `sm_calls` | both hosts, seven configs, two attempts, two commits; fair | gate before merge (GitHub, no rebase), lost merges are found, attempts all or none, calls end |

**Properties.** Some of the properties a run names are conjunctions of parts that have
names and comments of their own in the module. The module's `TypeOK` is a part as well
of each invariant here but `NothingStranded`, `DecisionsAreDue` and `SessionsShow`.

| Property | Parts |
|---|---|
| `TasksMatchRuns`, `RunsMoveOn` | `RunPointerValid`, `BoardShowsRun`, `OrphanRunsInert`; `EndedRunsStayEnded`, `LoopGate` |
| `RowsHold`, `ControllersFinish` | `SingleRunning`, `LeaseOnlyWhenRunning`; `ClaimedTaskStarted`, `LeaseReleased` |
| `AttemptsAreWhole`, `OwnersStand` | `AttemptsAllOrNone`; `AnOwnerRemains`, `OwnersAreAppointed` |
| `BranchesAreRight`, `NothingStranded` | `HeadIsOnBranch`, `NotesStayHere`; `NoStrandedRun`, `NoStrandedReview` |
| `RecordsAgree` | `ThreadShowsFinding`, `CompletedMeansPosted`, `ArtifactsMatchRun`, `ColumnShowsReview` |
| `QuestionsRunOnce` | `LateCopiesIgnored`, `OneRunPerQuestion`, `NewestOfItsKind` |
| `RerunsMatchDecisions`, `DecisionsAreDue` | `RerunsAreDecided`, `ApprovalsAreKept`; `DecisionHasReview`, `OneDecisionPerNote` |
| `IndexIsSound`, `SessionsShow` | `DeletedBoardsAreEmpty`, `PathsAreUnique`; `NeverStranded`, `SignedOutIsEmpty` |
| `StoredIsCoherent`, `PatchesKeepTheRest` | `StoredIsNormal`, `PreviewIsCoherent`, `PlaybookIsOurs`; `OnlyNamedFields`, `NamedModelFits` |

**Bounds.** A race needs two of what races: callers, workflows, reviewers, requests,
sockets. A race over a task needs two runs; a second task adds the dependency. Three
runs of a task make a rerun of a rerun. `AutoRuns` keeps run numbers for automatic
starts, so that starts by hand cannot use up what the liveness property is about. One
sentinel row more than the one that runs is what inserts, refused updates and restarts
after a stop need. With two attempts there is one that is the last and one that is
not; with two commits one is the run's and one is pushed later. `MaxWorkflows = 2`
lets a run be scheduled once too often. Two rounds of a review are the first and one
that finds comments. Three failing calls let a posted comment, its retry and the
summary fail. Inputs (`MaxInputs`, `MaxMessages`) count whatever comes from outside:
four or five of them are a question with its answer, a repetition and a failure, or an
invite with its account, a login and a logout. A task with two dependencies, one of
them primary, is in `RepoBoard` but in no run. `rb_autostart` needs three tasks, two of
them waiting for the third, for a scan to go on after its first start, and four
automatic runs, since two callers may start each of the two; with deletions or merges as
well it is beyond a few minutes. Deletions are in `rb_runs`, and `StatesFresh` and
`HeadsReviewed` are proved with every operation.

**Fairness.** The board goes on with a call it has begun (`WF` of `Continue(c)`): a
durable object resumes after each await. A worker goes on with a request it serves
(`WF` of `Step(q)`), and a merge call with its next request (`WF` of `Call`). Nothing
is assumed of clients, operators, executors, the host or time. `rb_autostart` has no
`interrupt`: nothing in the code scans again after a restart. In `sn_start` workers
die; what is claimed of a controller is claimed of one that does not. The other
modules state "nothing is left undone" as invariants of states in which nobody is at
work (`NoStrandedRun`, `NeverStranded`, `ReviewIsReported`, `ApprovalsAreKept`), which
need no fairness.

**Exceptions.** Some properties name, with a history variable, the situation in which
the code does not keep them: `overlapped` and `blind` in `ReviewLoop`, `Serial` in
`SlackIntake`, `raced` and `lost` in `SlackLoop`, `clash`, `late`, `leak` and
`unloaded` in `BoardIndex`. Those situations happen in the runs; the next section says
what the code does in them.

## Where code and documents disagree

The modules state some promises of the documents that the code does not keep
(`StartReturnsActiveRun` and `AutoDefaultBranchHasLanded` in `RepoBoard`,
`ScheduledOnce` and `ResumeRetries` in `Sentinel`, `GateBeforeMerge` and
`ConflictsRemediated` in `SentinelMerge`); no run lists them.

| Document | Code |
|---|---|
| `docs/plans/archive/stage_2.md:120`: starting a task with an active run returns that run | two `startRun` calls that wait for `getRepo` (`repo-board.ts:286`) both create one. Of their executors one fails at the checkout, and its run with it |
| `docs/plans/archive/stage_3_1.md:133`: the default branch is used when the upstream work has landed | the source is resolved again after `getRepo` (`repo-board.ts:289`), and an upstream retried meanwhile sends the run to the default branch |
| `docs/integrations/sentinel-orchestration.md:97`: the scope lock prevents duplicate ownership | the claim is recognised by the task, not by the claimant (`tenant-auth-db.ts:1537`); two controllers schedule one run |
| the same, line 132: resume retries after used-up attempts | the count is kept (`sentinel.ts:303`), the loop makes no attempt |
| `docs/plans/current/p7-sentinel-orchestration.md:23`: merge only after the gate passes | the rebase attempt turns the gate off (`sentinel.ts:375`) |
| the same, line 288: conflicts trigger remediation | to the gate a conflict is a failure, which ends the call first (`sentinel.ts:323`) |
| `docs/plans/archive/stage_6.md:56`: cancelling stops the run's workflow | a cancelled run's executor goes on to push and open its review; the board drops its transitions |
| `docs/plans/current/p8-checkpoint-recovery-and-context-notes.md:12`: a retry resumes from a checkpoint | checkpoint commits are not pushed, so those of a run that failed before its push are in no clone |
| `docs/plans/current/p9-github-auto-review-provider.md:257`: a finding is posted in line or in the summary | in-line attempts given up after one was carried out put the finding in both |
| `docs/plans/current/p10-slack-intent-intake-one-shot.md:183`: duplicate deliveries create no duplicate tasks | a mention arrives as two events; KV is read, then written, so both may be new |
| `docs/integrations/slack-jira-gitlab-mvp.md:79`: PAUSED ends the loop | the next status change of the run sets its loop state again |
| `docs/tenant-auth-api.md`: the Bearer token comes first | the session header or cookie, the API token header, then Bearer |

Seen beside the runs, by part.

*Board and sentinel.* Two scans under way start one dependent twice
(`repo-board.ts:1107`). A task deleted while the scan that is about to start it runs
throws out of the loop, and the other tasks of that scan are not started
(`repo-board.ts:1109`): hence the second part of `EligibleEventuallyStarted`. A merge never sets `landedOnDefaultBranch`, so dependents of a
merged task go on from its review head (`shared/dependency-readiness.ts:11`). Pause and
resume free the lease of a controller still at work, and concurrent resumes or a
delayed first start then break the turns (`tenant-auth-db.ts:1551`; `sn_start` has
start commands only for this reason). A controller's update around a stop writes
`running` back (`tenant-auth-db.ts:1549`). A `getTask` that fails frees the scope while
the task is being worked on, and a second workflow may be scheduled for its run
(`sentinel.ts:615`). GitLab is told no commit to merge (`scm/gitlab.ts:197`). Findings
posted after the sentinel read the run do not reach the gate (`sentinel.ts:213`). A
worker that dies between claim and start leaves the scope locked until a stop.

*Executor.* Errors thrown outside the job's `try` leave the run in its phase, and the
workflow platform retries the job, which takes no step on a run that has started. In
local mode a second job of a run replaces the first. `rewriteOnChangeRequestRerun`
squashes a pushed branch and then pushes without force: always refused. `retryPreview`
racing evidence ends with `DONE`, evidence ready and no preview address. A late
duplicate may turn a `DONE` run into `FAILED`. The Claude adapter does not look for a
takeover. The wait for rate limits, and the record of a finished agent, write over a
takeover (`llm/codex.ts:138`, `333`).

*Reviews.* A summary that exists is never updated, so later findings that have no line
are recorded as posted and not shown (`review-posting/github.ts:205`). In agent mode
some posted findings count as all. Dismissals are looked up only in the newest other
run that has findings, and nothing lets an operator dismiss one. Comments are read
without a second page. A worker that dies in a review leaves it `running` for good.
Finishing a review moves also a task that is not a review task to `DONE`.

*Slack and GitLab.* The data of an expired session is merged into a new one, so that a
question nobody remembers is asked again and, having priority, is what a "yes" starts.
Choosing a repo by button or number skips the question about an existing review: two
review tasks for one merge request. Two people's "yes" at once start two runs. A
request that dies after its mark loses its message or click until the mark expires; an
approval clicked before a decision is due uses up the mark of the click that is due.
The first milestone of a task is lost, its thread being bound after it is posted. The
choice of a repo starts a run without confirmation. `resolvePreferredRepo...` passes a
field where its parent is expected, and never finds it (`handlers.ts:2217`). A note
before its merge request's event is shown and leaves nothing to approve. The session's
limit of turns ends no session. Keys are hashed modulo 10^9+7. The buttons approve,
pause and close are handled and never posted. A request for changes over HTTP leaves
the decision open, and an approval reruns the run again. The transition that notes a
rerun's workflow sets `RERUN_QUEUED` again (`handlers.ts:2511`) and may swallow a
decision that has become due.

*Board index and browser.* A repo's id is made of its first path: create, move, create
again gives two repos with one board; `a/b-c` and `a/b_c` have one id. `deleteRepo`
awaits the board between its check and its end: a run started then is wiped, a task
created later lands on the wiped board. `deleteTask` sends no event. Events, and older
snapshots, may overtake newer ones. The close handler forgets whichever socket there
is, and reconnects after sign-out; signing in within the delay gives two sockets, of
which signing out closes one. A refresh under way at sign-out fills the board again. A
first refresh that fails opens no socket. `importBoard`'s two phases interleave with
requests. The tenant, sign-in and support methods of `BoardIndexDO` (lines 244-808,
1167-1313) are called by nobody.

*Accounts.* Two first signups at once both become owners. Two invites to one email may
both be pending. If accepting an invite fails after the signup, the account is a plain
member's and the invite can never be accepted. If an invite is written and its answer
fails, its token is lost and the email cannot be invited for thirty days. The seat
limit is reported, not kept. A login that upgrades a password hash may write over a
password the script has set. A failed schema check is remembered. With an empty
`app_tenant_config` signup writes the user, then fails. The platform and support
endpoints always refuse.

*Settings.* `POST /repos` drops `autoReview.playbookId`, so its access check never
fires. An empty `prompt` clears nothing, an empty `playbookId` clears. A patch of a
model or effort without its adapter clears the adapter and is checked as Codex; a patch
of the adapter alone keeps a model that does not fit, and switching the review adapter
keeps the old model. A patch of a check name on a repo with a recipe leaves an adapter
without its recipe, which the form cannot save. The form sends no undefined fields
(commit and preview config and group tag cannot be cleared), always `enabled: true`,
and makes the review's adapter explicit; its defaults for the sentinel are not the
server's; an update while it is open resets every field. The row in D1 is written and
read back only for the answer. A disabled or deleted playbook falls back to the repo's
prompt or the native review, and a task's hides its repo's. `deleteRepo` keeps the row
in D1.

*Scripts.* `autopilot.sh` reads `.dependsOn`, which tasks do not have, and takes every
dependency for ready; a second `POST` of an active run schedules a second workflow.

## What is proved

All theorems are of the specifications that TLC checks, for every value of the
constants that satisfies the named assumptions (`TasksAssumption`, `RunsAssumption`,
`ScmAssumption`, `InputsAssumption`; `ConfigAssumption`, `SentinelAssumption`, `MergeAssumption`;
`AccessAssumption`; `ExecutorAssumption`; `ReviewAssumption`; `IntakeAssumption`;
`LoopAssumption`; `IndexAssumption`: bounds are naturals, in `SlackLoop` with room for the first run, and
inputs have their types; `SettingsAssumption`: bodies are what the parsers let through,
`IsBody`, what is typed has the fields of the form, and a creation names no tenant or its
own).

- `RepoBoardProofs`: `BoardCorrect`, which is `TasksMatchRuns`: types,
  `RunPointerValid`, `BoardShowsRun` and `OrphanRunsInert`. They are not inductive
  alone: `BoardInv` adds that run numbers not used yet are vacant, that a task not
  created yet has no run, and that a start under way is about a task that was created.
  Without the last, `CreateRun` could put a run on a number that a task is still to get.
  Of the steps: every one moves the runs in one of five ways (`RunsMove`: not
  at all, a patch to one, a status imposed on one, one more, or a task's dropped), from
  which follow `MovesAllowed` (`RunsMoveOn`) and the refinement `BoardImplementsLedger`;
  a number is fresh to the ledger because unused numbers are vacant. `StatesFresh`:
  every mutator ends in a refresh, and a reason depends on an upstream's column and its
  own runs only, so that a step which changes neither needs none. `HeadsReviewed` needs
  `LineageInv`: no task depends on itself, and no start in flight continues its own
  task.
- `SentinelProofs`: `RowsCorrect`, which is `RowsHold`: types, `SingleRunning` and
  `LeaseOnlyWhenRunning`. The invariant has four parts (rows, `started_at` stamps, what
  each request holds, the board), and every action writes at most one row. `OneAtWork` is `OneController` under `Undisturbed`, which says
  that nobody pauses or stops the sentinel and no lease expires under a controller at
  work; workers may die, people may resume. `LeaseInv`: whoever is at work has the row's
  lease, the copy it is about to write back is of a running row, only a dead worker's
  lease expires, and stamps are handed out once, so that nobody inserts over a row at
  work. With pauses, or with leases that run out too early, the code does not have the
  property.
- `SentinelProofs`, of turns: `TasksTakeTurns`, that a sentinel which is only started and
  resumed (`StartsOnly`) implements `SentinelTurns`. `TurnsInv`, checked by TLC with up to
  three tasks, runs and rows first, says that only one row ever has a task, that no task
  gets a second run, that what was begun and is not over is the current task, and, of
  each controller, what it knows (`Knows`) of the task, the copy of the row and the run it
  goes on with; it can rely on that because it alone holds the lease (`OneAtWork`).
  `StartsOnly` excludes pauses and stops, tasks started by hand, rejected runs, attempts
  that are used up, and leases that expire under a controller, with which the code does
  not have the property.
- `SentinelProofs`, of the merge engine (`SentinelMerge`):
  `AttemptsCounted`, `LandedMergesStand`, `GateHolds`. `MergeInv` is about the attempts made; that the commit the engine is about to merge was
  seen and has passed unless it rebases; and that after a merge of its own the sentinel
  at most looks again.
- `AccessProofs`: `OwnersCorrect` (`OwnersStand`: types, `AnOwnerRemains`,
  `OwnersAreAppointed`), `InvitesKept`, `EndedForGood`. An account is made once, so at
  most one accept per email is past its signup (`OneInFlight`); while there is no
  account there is no invite, and whoever inserts first is an owner (`BeforeFirst`);
  there is an owner whose role no accept under way is going to set (`SettledOwner`).
  Without the last a batch could demote the only owner.
- `ExecutorProofs`: `OneExecutorHolds`, `BranchesHold`, `NothingStrandedHolds`,
  `TakeoverHolds`, `RetryHolds`, `ReopenHolds`. Two invariants carry them, checked by
  TLC before they were proved. `TreeInv` is about git: who is past the checkout has taken
  the tree (`TreeIsTaken`), which nobody can take twice; every commit anybody refers to
  was made (`CommitsKnown`); where the notes are is known (`NotesAreTracked`), so that a
  push cannot carry them; checkpoints are numbered as they were saved
  (`CheckpointsInOrder`). `HandsInv` is about who holds the run: a run in a phase is in
  the hands of an executor that will end it, of an operator, or of a worker that was lost
  (`InHands`); only a reviewer's executor reviews (`ReviewersReview`); one held by the
  operator has stopped (`HeldAreStopped`). Most steps touch neither the tree nor a
  commit: the proof shows that once (`Apart`) and treats the ones that do one by one.
- `ExecutorProofs`, of `Settings`: `SettingsCoherent`, `SavesHeal`, `PatchesKeep`,
  `FormsKeep`. A record has two shapes: a merge with a patch (`IsMerged`) and what
  `buildRepoRecord` makes of it (`IsSettled`). Building takes the first to the second
  (`BuiltIsSettled`) and leaves the second as it is (`SettledIsNormal`), which is what a
  restart relies on. What the parsers make of a valid body, the form's included, is a
  patch (`IsPatch`): its names for the preview come in pairs that agree, and a model
  comes with an adapter that takes it. `SettingsInv` carries these shapes through the
  requests; of one that nobody disturbed it says that what it has written still stands,
  and that what its body does not name is still the record's (`AloneInv`), without which
  neither `SaveHeals` nor half of `OnlyNamedFields` is inductive. An update leaves a
  field that the patch does not name (`UpdateKeeps`) or names with the value it has
  (`UpdateSame`). For the form, `SentByForm` keeps what each of its two calls has yet to
  send equal to what was shown and typed, and for each section a lemma shows that the
  round trip through `Payload`, the parsers and `UpdateRepo` comes to what was there.
- `ReviewLoopProofs`: `RecordsHold`, `OnePerFindingHolds`, `DismissedHolds`,
  `ReviewHolds`. `ReviewInv`, checked by TLC first, says of what each reviewer holds
  that its threads show their findings (`Shows`), that each finding is still to be
  posted, in the summary or has a thread (`Accounts`), and that what is still to be
  posted is not on the host, as far as it has looked (`Unposted`: a summary that is being
  looked for may be there, one that is about to be posted is not). Of the run it says
  that one reviewer is at work unless two overlapped (`OneReviewer`) and that the column
  is right once everybody about to set it has (`ColumnFollows`). In the first round a
  summary on the host is the reviewer's own (`FirstSummary`); later it may be an old one,
  which is why `RecordsAgree` asks less of it. Most steps only change what one reviewer
  holds, and one lemma (`Proceeds`) does the rest for them.
- `SlackIntakeProofs`: `OneYesOneRun`, `ThreadFollowsRuns`, `AnswersStand`. Types come
  first (`TypesHold`): a question in a session is of the kind it is kept for, and what a
  request is about to start was agreed to, or chosen for an issue. Two invariants are
  about requests that interleave. `KeysInv`: a delivery whose handling has begun was
  noted, and a late copy has not passed the note. `AnsweredInv`: the session holds no
  answered question, and no request holds one that was answered when it read the
  session. The others speak of requests that come one after the other, and are one
  invariant (`SerialInv`) of the request at work, or of none (`Calm`): the session asks
  the newest question of each kind; the request sees the session as it is until it acts
  on it (`Sees`); a question it has agreed to has no run that stands (`Ready`); a
  question that has one is out of the session, or about to be (`Closing`); later runs of
  a bound task were cut off or are about to be bound (`Binding`). Each action was shown
  to lead from `Calm` to `Calm`; a request that comes while another is at work ends
  `Serial`. The attempt to prove `AnsweredStaysAnswered` as it was stated at first
  failed for a reason: with two overlaps a question put back is taken over by a request
  that read the session later. The bound of one overlap had hidden it.
- `SlackLoopProofs`: `RerunsMatchHolds`, `RoundIsDepthHolds`, `DecisionsAreDueHolds`.
  `LoopInv`, checked by TLC first, accounts for each decision that was due
  (`DecisionsInv`): it is open, was taken by a request that is about to ask for its
  rerun, or has it, and no two of these at once. Rounds are related to depths for what
  is shown and for what is on its way: buttons, bindings, and the click each request
  holds, whose rerun, once queued, is one deeper (`DepthInv`). `PendedInv` has a run
  whose review pends among those reported, not only one with a decision. `NotesInv` counts
  decisions against the notes whose handler is done rather than those that came, since a
  note just recorded may still ask; while no two deliveries raced, a note has at most one
  handler (`OneEach`). A run's depth is stated as the existence of the function, not by a
  recursive operator, which the prover cannot use.
- `BoardIndexProofs`: `IndexHolds`, `NothingMissed`, `SessionsHold`. `IndexIsSound` is
  inductive as it stands. The others need `BrowserInv`: while the browser has a session
  and an open socket, and is not about to get another, there is one socket of its own
  through which everything has come or is coming (`Served`). That is, each version of an
  item was told, or is in the mail, in the socket's queue, or in a board being assembled
  for that very socket, in a slice already read or still to be read. A board the browser
  asked for does not count, for the request may fail. Around a sign-out an older socket
  may stay open, of which what was told says nothing; `Waiting` says that another is then
  on its way, whose board says it all.

Only model-checked: liveness (`EligibleEventuallyStarted`, `ClaimedTaskStarted`,
`LeaseReleased`, `CallEnds`), which is out of the prover's reach. Every other property of
the runs is a theorem.

## What is not modelled

`RepoBoard` leaves out logs, commands and the limits on them, the content of operator
session records, `replaceState` and tenant checks. `Executor` leaves out the sandbox's
files except the tree, logins and logs, and what evidence and previews look like.
`SlackIntake` and `SlackLoop` leave out how a message is understood (`intent.ts`, an
LLM), how answers are laid out, and the posting of milestones and notes
(`timeline.ts`, `client.ts`). `BoardIndex` leaves out credentials (one record per host,
replaced whole) and `importBoard`. `Access` leaves out passwords, names, scopes and
audit texts. `Settings` leaves out tasks' settings, credentials and bundles. GitHub's
webhook, Jira's client and the usage ledger have no module: the first mirrors text,
the second is I/O, and nothing in the server writes the third. Redaction of secrets is
a pure function of text. The sweeping scripts are clients that the sentinel replaces
(`docs/integrations/sentinel-orchestration.md:7`). Wording, formats and layout are data
throughout. `PROJECT.json` has a line on each component.

## Plan

1. Composition of `Executor` with `SlackLoop` for a rerun that is taken over, and of
   `Settings` with `Sentinel` for a config that changes under a controller.
2. Repositories that fail in the middle of a board's import (`importBoard`), and the
   sweeping scripts as clients of the board, if they stay in use.
