----------------------------- MODULE BoardIndex -----------------------------
(***************************************************************************)
(* The board index, the list of the repositories (durable/board-index.ts), *)
(* and what a browser shows of it (ui/api/http-agent-board-api.ts).        *)
(*                                                                         *)
(* The index has the repositories; what happens in one of them is on a     *)
(* board of its own (module RepoBoard), which mails the index every change *)
(* of a task and its run.  The index sends the changes on through the      *)
(* sockets that are open, and assembles the whole board, slice by slice,   *)
(* for a new socket, for a browser that asks, and after a deletion.  A     *)
(* browser applies what reaches it in the order in which it comes, opens   *)
(* another socket when one closes, and asks for the board then and after   *)
(* each change of its own.                                                 *)
(*                                                                         *)
(* A task and its runs are one item with a version.  There is one browser  *)
(* and one tenant.                                                         *)
(***************************************************************************)
EXTENDS Naturals, Sequences

CONSTANTS
  Paths,        \* paths of repositories at their host
  RepoIds,      \* what boards are called by
  IdOf,         \* how a board is called for a path
  Sockets,      \* the browser's sockets, numbered; it starts with the first
  Syncs,        \* boards assembled at once
  NoRepo,       \* no repository
  MaxTasks,     \* bound: tasks that are created
  MaxInputs     \* bound: changes of repositories and items, requests for the board,
                \* sign-ins and sign-outs, sockets and requests that fail, together

ASSUME IndexAssumption ==
  /\ IdOf \in [Paths -> RepoIds] /\ NoRepo \notin RepoIds
  /\ Sockets \subseteq Nat \ {0} /\ 1 \in Sockets
  /\ MaxTasks \in Nat \ {0} /\ MaxInputs \in Nat

VARIABLES
  repos,      \* the list, by when an entry was made: [id, path]
  boards,     \* per board and task, the version of the item; 0: there is none
  home,       \* the boards of the tasks created so far
  active,     \* the tasks with a run that is not over
  asked,      \* the repository a task is about to be created in
  deletion,   \* the deletion of a repository: [at, id, slice]
  mail,       \* changes on their way from boards to the index: [task, ver]
  syncs,      \* boards being assembled: [at, for, socket, list, todo, items]
  sockets,    \* the sockets: [at, queue]
  browser,    \* [signedIn, socket, timer, blank]
  list,       \* how often the list has changed
  inputs,     \* how many inputs there were
  told,       \* history: all that the browser was told since it signed in
  late,       \* history: the tasks created in a repository that was gone
  clash,      \* history: a repository was created whose board had one already
  leak,       \* history: as the browser signed out, something was on its way to it
  unloaded    \* history: the first request for the board failed

index == <<repos, deletion, clash>>
work == <<boards, home, active, asked, mail, late>>
history == <<told, leak, unloaded>>
vars == <<repos, boards, home, active, asked, deletion, mail, syncs, sockets,
          browser, list, inputs, told, late, clash, leak, unloaded>>

Tasks == 1..MaxTasks
NoItems == [t \in Tasks |-> 0]
Blank == [list |-> 0, items |-> NoItems]

Start == [list |-> 1, items |-> [t \in Tasks |-> IF t = 1 THEN 1 ELSE 0]]

Idle == [at |-> "idle", for |-> "browser", socket |-> 0, list |-> 0, todo |-> {},
         items |-> NoItems]
Empty(at) == [at |-> at, queue |-> <<>>]
NoDeletion == [at |-> "idle", id |-> NoRepo]

Listed == {repos[n].id : n \in DOMAIN repos}
Created == DOMAIN home

(* Whom a board is assembled for: the browser, the browser as it starts,   *)
(* everybody after a deletion, or the socket that is opened.               *)
Readers == {"browser", "start", "all", "socket"}

Repo    == [id : RepoIds, path : Paths]
Board   == [Tasks -> Nat]
Sync    == [at : {"idle", "reading"}, for : Readers, socket : Sockets \cup {0},
            list : Nat, todo : SUBSET RepoIds, items : Board]
Message == [kind : {"snapshot"}, list : Nat, items : Board]
             \cup [kind : {"repo"}, list : Nat]
             \cup [kind : {"item"}, task : Tasks, ver : Nat]
Socket  == [at : {"closed", "asked", "open", "closing"}, queue : Seq(Message)]

Messages(queue) == {queue[i] : i \in DOMAIN queue}
Queued(k) == Messages(sockets[k].queue)

ListOK ==
  /\ DOMAIN repos \subseteq 1..list /\ \A n \in DOMAIN repos : repos[n] \in Repo
  /\ deletion \in [at : {"idle", "read", "remove", "wipe", "sync"}, id : RepoIds \cup {NoRepo}]
  /\ deletion.at # "idle" => deletion.id # NoRepo
  /\ list \in Nat /\ inputs \in 0..MaxInputs /\ clash \in BOOLEAN

(* An item is on the board of its task, if anywhere.                       *)
BoardsOK ==
  /\ boards \in [RepoIds -> Board]
  /\ home \in Seq(RepoIds) /\ Len(home) <= MaxTasks
  /\ asked \in RepoIds \cup {NoRepo} /\ (asked # NoRepo => Len(home) < MaxTasks)
  /\ mail \subseteq [task : Tasks, ver : Nat]
  /\ \A id \in RepoIds, t \in Tasks : boards[id][t] # 0 => t \in Created /\ home[t] = id
  /\ active \subseteq {t \in Created : boards[home[t]][t] # 0}

SyncsOK ==
  /\ syncs \in [Syncs -> Sync]
  /\ \A s \in Syncs : /\ syncs[s].list <= list
                      /\ syncs[s].for = "socket" <=> syncs[s].socket # 0

SocketsOK ==
  /\ sockets \in [Sockets -> Socket]
  /\ \A k \in Sockets :
       /\ sockets[k].at # "open" => sockets[k].queue = <<>>
       /\ \A m \in Queued(k) : m.kind \in {"snapshot", "repo"} => m.list <= list

BrowserOK ==
  /\ browser \in [signedIn : BOOLEAN, socket : Sockets \cup {0}, timer : BOOLEAN,
                  blank : BOOLEAN]
  /\ told \in [list : Nat, items : Board] /\ told.list <= list
  /\ leak \in BOOLEAN /\ unloaded \in BOOLEAN

TypeOK == ListOK /\ BoardsOK /\ SyncsOK /\ SocketsOK /\ BrowserOK

NewRepo(path) == [id |-> IdOf[path], path |-> path]

(* A browser that shows the one repository there is, with a task.          *)
Init ==
  /\ \E path \in Paths :
       /\ repos = [n \in {1} |-> NewRepo(path)] /\ home = <<IdOf[path]>>
       /\ boards = [id \in RepoIds |-> [t \in Tasks |-> IF t = 1 /\ id = IdOf[path] THEN 1 ELSE 0]]
  /\ active = {} /\ asked = NoRepo /\ deletion = NoDeletion /\ mail = {}
  /\ syncs = [s \in Syncs |-> Idle]
  /\ sockets = [k \in Sockets |-> Empty(IF k = 1 THEN "open" ELSE "closed")]
  /\ browser = [signedIn |-> TRUE, socket |-> 1, timer |-> FALSE, blank |-> FALSE]
  /\ list = 1 /\ inputs = 0
  /\ told = Start /\ late = {} /\ clash = FALSE /\ leak = FALSE /\ unloaded = FALSE

-----------------------------------------------------------------------------
(* What is sent.                                                           *)

Snapshot(sync) == [kind |-> "snapshot", list |-> sync.list, items |-> sync.items]
RepoUpdated(n) == [kind |-> "repo", list |-> n]
ItemUpdated(m) == [kind |-> "item", task |-> m.task, ver |-> m.ver]

(* Through every open socket.                                              *)
Send(all, message) ==
  [k \in Sockets |-> IF all[k].at = "open" THEN [all[k] EXCEPT !.queue = Append(@, message)]
                     ELSE all[k]]

Count == inputs < MaxInputs /\ inputs' = inputs + 1

(* The list changes, and one repository of it is sent.                     *)
Broadcast == list' = list + 1 /\ sockets' = Send(sockets, RepoUpdated(list'))

-----------------------------------------------------------------------------
(* The list.                                                               *)

Taken(path, others) == \E n \in others : repos[n].path = path

CreateRepo(path) ==
  /\ Count
  /\ ~Taken(path, DOMAIN repos)
  /\ Broadcast
  /\ repos' = [n \in DOMAIN repos \cup {list'} |->
                 IF n = list' THEN NewRepo(path) ELSE repos[n]]
  /\ clash' = (clash \/ IdOf[path] \in Listed)
  /\ UNCHANGED <<work, deletion, syncs, browser, history>>

(* A repository is changed, its path too, perhaps; it keeps its board.     *)
UpdateRepo(id, path) ==
  /\ Count /\ id \in Listed
  /\ ~Taken(path, {n \in DOMAIN repos : repos[n].id # id})
  /\ repos' = [n \in DOMAIN repos |->
                 IF repos[n].id = id THEN [id |-> id, path |-> path] ELSE repos[n]]
  /\ Broadcast
  /\ UNCHANGED <<work, deletion, clash, syncs, browser, history>>

(* deleteRepo reads the board first, ...                                   *)
DeleteRepo(id) ==
  /\ Count /\ deletion.at = "idle" /\ id \in Listed
  /\ deletion' = [at |-> "read", id |-> id]
  /\ UNCHANGED <<repos, clash, work, syncs, sockets, browser, list, history>>

Running(id) == {t \in active : home[t] = id}

ReadRuns ==
  /\ deletion.at = "read"
  /\ deletion' = IF Running(deletion.id) # {} THEN NoDeletion ELSE [deletion EXCEPT !.at = "remove"]
  /\ UNCHANGED <<repos, clash, work, syncs, sockets, browser, list, inputs, history>>

(* ... takes the repository off the list, ...                              *)
RemoveRepo ==
  /\ deletion.at = "remove"
  /\ repos' = [n \in {n \in DOMAIN repos : repos[n].id # deletion.id} |-> repos[n]]
  /\ deletion' = [deletion EXCEPT !.at = "wipe"]
  /\ list' = list + 1
  /\ UNCHANGED <<clash, work, syncs, sockets, browser, inputs, history>>

(* Mutant: the board is left as it is.                                     *)
LeaveBoard ==
  /\ deletion.at = "wipe"
  /\ deletion' = [deletion EXCEPT !.at = "sync"]
  /\ UNCHANGED <<repos, clash, work, syncs, sockets, browser, list, inputs, history>>

(* ... empties the board, ...                                              *)
WipeBoard ==
  /\ deletion.at = "wipe"
  /\ boards' = [boards EXCEPT ![deletion.id] = NoItems]
  /\ active' = active \ Running(deletion.id)
  /\ deletion' = [deletion EXCEPT !.at = "sync"]
  /\ UNCHANGED <<repos, clash, home, asked, mail, late, syncs, sockets, browser, list, inputs, history>>

-----------------------------------------------------------------------------
(* The boards.                                                             *)

Put(t, ver) ==
  /\ boards' = [boards EXCEPT ![home'[t]][t] = ver]
  /\ mail' = mail \cup {[task |-> t, ver |-> ver]}

(* createTask asks the index for the repository first, and has the board   *)
(* to itself again only when the answer comes.                             *)
AskForTask(id) ==
  /\ Count /\ asked = NoRepo /\ id \in Listed /\ Len(home) < MaxTasks
  /\ asked' = id
  /\ UNCHANGED <<index, boards, home, active, mail, late, syncs, sockets, browser, list, history>>

CreateTask ==
  /\ asked # NoRepo
  /\ home' = Append(home, asked)
  /\ Put(Len(home'), 1)
  /\ late' = IF asked \in Listed THEN late ELSE late \cup {Len(home')}
  /\ asked' = NoRepo
  /\ UNCHANGED <<index, active, syncs, sockets, browser, list, inputs, history>>

(* A run of a task starts, or is over.                                     *)
ChangeItem(t) ==
  /\ Count /\ boards[home[t]][t] # 0
  /\ home' = home /\ Put(t, boards[home[t]][t] + 1)
  /\ active' = IF t \in active THEN active \ {t} ELSE active \cup {t}
  /\ UNCHANGED <<index, asked, late, syncs, sockets, browser, list, history>>

(* A task is deleted with its runs, and that is not mailed.                *)
DeleteTask(t) ==
  /\ Count /\ boards[home[t]][t] # 0
  /\ boards' = [boards EXCEPT ![home[t]][t] = 0]
  /\ active' = active \ {t}
  /\ UNCHANGED <<index, home, asked, mail, late, syncs, sockets, browser, list, history>>

(* notifyRepoEvent: the changes of a board come in any order, for each is  *)
(* mailed by the call that made it.                                        *)
Notify(m) ==
  /\ m \in mail /\ mail' = mail \ {m}
  /\ sockets' = Send(sockets, ItemUpdated(m))
  /\ UNCHANGED <<index, boards, home, active, asked, late, syncs, browser, list, inputs, history>>

-----------------------------------------------------------------------------
(* The board assembled: the list first, then a slice of each board in it.  *)

Free(s) == syncs[s].at = "idle"

Begin(for, k) == [at |-> "reading", for |-> for, socket |-> k, list |-> list,
                  todo |-> Listed, items |-> NoItems]

(* handleBoard: who is not signed in is refused.                           *)
Ask(for) == IF for = "start" \/ browser.signedIn THEN Begin(for, 0) ELSE Idle

(* ... and sends everybody the board that is left.                         *)
SendDeletion(s) ==
  /\ deletion.at = "sync" /\ deletion' = NoDeletion
  /\ Free(s) /\ syncs' = [syncs EXCEPT ![s] = Begin("all", 0)]
  /\ UNCHANGED <<repos, clash, work, sockets, browser, list, inputs, history>>

ReadSlice(s, id) ==
  /\ id \in syncs[s].todo
  /\ syncs' = [syncs EXCEPT ![s].todo = @ \ {id},
                            ![s].items = [t \in Tasks |-> IF boards[id][t] # 0 THEN boards[id][t] ELSE @[t]]]
  /\ UNCHANGED <<index, work, sockets, browser, list, inputs, history>>

Assembled(s) == syncs[s].at = "reading" /\ syncs[s].todo = {}

(* The board goes through the socket it is for, or through all.            *)
SendSnapshot(s) ==
  /\ Assembled(s) /\ syncs[s].for \in {"socket", "all"}
  /\ sockets' = [k \in Sockets |-> IF syncs[s].socket \in {k, 0}
                                   THEN Send(sockets, Snapshot(syncs[s]))[k] ELSE sockets[k]]
  /\ syncs' = [syncs EXCEPT ![s] = Idle]
  /\ UNCHANGED <<index, work, browser, list, inputs, history>>

-----------------------------------------------------------------------------
(* The browser.                                                            *)

Applied(board, m) ==
  CASE m.kind = "snapshot" -> [list |-> m.list, items |-> m.items]
    [] m.kind = "repo" -> [board EXCEPT !.list = m.list]
    [] m.kind = "item" -> [board EXCEPT !.items[m.task] = m.ver]

Later(a, b) == IF a < b THEN b ELSE a
Told(m) ==
  LET new == Applied(told, m) IN
  told' = [list |-> Later(told.list, new.list),
           items |-> [t \in Tasks |-> Later(told.items[t], new.items[t])]]

Unused == {k \in Sockets : sockets[k].at = "closed"}
NewSocket == CHOOSE k \in Unused : TRUE

(* connectSocket                                                           *)
Connected(all) == [all EXCEPT ![NewSocket] = Empty("asked")]

(* The answer to a request for the board; the first one opens the socket.  *)
Refreshed(s) ==
  /\ Assembled(s) /\ syncs[s].for = "browser"
  /\ Told(Snapshot(syncs[s])) /\ browser' = [browser EXCEPT !.blank = FALSE]
  /\ syncs' = [syncs EXCEPT ![s] = Idle]
  /\ UNCHANGED <<index, work, sockets, list, inputs, leak, unloaded>>

Started(s) ==
  /\ Assembled(s) /\ syncs[s].for = "start" /\ Unused # {}
  /\ Told(Snapshot(syncs[s]))
  /\ browser' = [browser EXCEPT !.blank = FALSE, !.socket = NewSocket]
  /\ sockets' = Connected(sockets)
  /\ syncs' = [syncs EXCEPT ![s] = Idle]
  /\ UNCHANGED <<index, work, list, inputs, leak, unloaded>>

RefreshFails(s) ==
  /\ Count /\ syncs[s].at # "idle" /\ syncs[s].for \in {"browser", "start"}
  /\ syncs' = [syncs EXCEPT ![s] = Idle]
  /\ unloaded' = (unloaded \/ syncs[s].for = "start")
  /\ UNCHANGED <<index, work, sockets, browser, list, told, leak>>

(* The browser asks after a change of its own.                             *)
Refresh(s) ==
  /\ Count /\ browser.signedIn /\ Free(s)
  /\ syncs' = [syncs EXCEPT ![s] = Ask("browser")]
  /\ UNCHANGED <<index, work, sockets, browser, list, history>>

(* Mutant: the board that the browser asks for meanwhile is taken to do.   *)
AcceptOnly(k, s) ==
  /\ sockets[k].at = "asked"
  /\ sockets' = [sockets EXCEPT ![k] = Empty(IF browser.signedIn THEN "open" ELSE "closing")]
  /\ UNCHANGED <<index, work, syncs, browser, list, inputs, history>>

(* The index takes a socket: it is among those that events go through      *)
(* before the board for it is assembled.                                   *)
Accept(k, s) ==
  /\ sockets[k].at = "asked"
  /\ IF browser.signedIn
     THEN /\ Free(s) /\ syncs' = [syncs EXCEPT ![s] = Begin("socket", k)]
          /\ sockets' = [sockets EXCEPT ![k] = Empty("open")]
     ELSE sockets' = [sockets EXCEPT ![k] = Empty("closing")] /\ UNCHANGED syncs
  /\ UNCHANGED <<index, work, browser, list, inputs, history>>

Close(all, k) == [all EXCEPT ![k] = Empty("closing")]
Without(k) == [s \in Syncs |-> IF syncs[s].socket = k THEN Idle ELSE syncs[s]]

(* A socket breaks, with what is in it.                                    *)
Drop(k) ==
  /\ Count /\ sockets[k].at \in {"asked", "open"}
  /\ sockets' = Close(sockets, k) /\ syncs' = Without(k)
  /\ UNCHANGED <<index, work, browser, list, history>>

Receive(k) ==
  /\ sockets[k].queue # <<>>
  /\ Told(Head(sockets[k].queue)) /\ browser' = [browser EXCEPT !.blank = FALSE]
  /\ sockets' = [sockets EXCEPT ![k].queue = Tail(@)]
  /\ UNCHANGED <<index, work, syncs, list, inputs, leak, unloaded>>

(* Mutant: the browser leaves it at that.                                  *)
OnCloseOnly(k) ==
  /\ sockets[k].at = "closing"
  /\ sockets' = [sockets EXCEPT ![k] = Empty("closed")]
  /\ browser' = [browser EXCEPT !.socket = 0]
  /\ UNCHANGED <<index, work, syncs, list, inputs, history>>

(* The browser learns that a socket is closed; it takes it for the one it  *)
(* has in hand.                                                            *)
OnClose(k) ==
  /\ sockets[k].at = "closing"
  /\ sockets' = [sockets EXCEPT ![k] = Empty("closed")]
  /\ browser' = [browser EXCEPT !.socket = 0, !.timer = TRUE]
  /\ UNCHANGED <<index, work, syncs, list, inputs, history>>

(* scheduleReconnect: asks for the board, and opens a socket meanwhile.    *)
Reconnect(s) ==
  /\ browser.timer /\ Unused # {} /\ Free(s)
  /\ browser' = [browser EXCEPT !.timer = FALSE, !.socket = NewSocket]
  /\ sockets' = Connected(sockets)
  /\ syncs' = [syncs EXCEPT ![s] = Ask("browser")]
  /\ UNCHANGED <<index, work, list, inputs, history>>

(* Something is on its way to the browser, but for the socket in hand.     *)
OnItsWay ==
  \/ \E s \in Syncs : syncs[s].for \in {"browser", "start"} /\ syncs[s].at # "idle"
  \/ \E k \in Sockets \ {browser.socket} : sockets[k].at \in {"asked", "open"}

(* The socket the browser has in hand is closed.                           *)
Logout ==
  /\ Count /\ browser.signedIn
  /\ browser' = [browser EXCEPT !.signedIn = FALSE, !.socket = 0, !.blank = TRUE]
  /\ IF browser.socket = 0 THEN UNCHANGED <<sockets, syncs>>
     ELSE sockets' = Close(sockets, browser.socket) /\ syncs' = Without(browser.socket)
  /\ leak' = OnItsWay /\ told' = Blank /\ unloaded' = FALSE
  /\ UNCHANGED <<index, work, list>>

Login(s) ==
  /\ Count /\ ~browser.signedIn /\ Free(s)
  /\ browser' = [browser EXCEPT !.signedIn = TRUE]
  /\ syncs' = [syncs EXCEPT ![s] = Ask("start")]
  /\ told' = Blank
  /\ UNCHANGED <<index, work, sockets, list, leak, unloaded>>

-----------------------------------------------------------------------------
Next ==
  \/ \E path \in Paths : CreateRepo(path) \/ \E id \in RepoIds : UpdateRepo(id, path)
  \/ \E id \in RepoIds : DeleteRepo(id) \/ AskForTask(id)
  \/ ReadRuns \/ RemoveRepo \/ WipeBoard
  \/ CreateTask
  \/ \E t \in Created : ChangeItem(t) \/ DeleteTask(t)
  \/ \E m \in mail : Notify(m)
  \/ \E s \in Syncs :
       \/ SendDeletion(s) \/ SendSnapshot(s)
       \/ \E id \in RepoIds : ReadSlice(s, id)
       \/ Refreshed(s) \/ Started(s) \/ RefreshFails(s) \/ Refresh(s)
       \/ Reconnect(s) \/ Login(s)
       \/ \E k \in Sockets : Accept(k, s)
  \/ \E k \in Sockets : Drop(k) \/ Receive(k) \/ OnClose(k)
  \/ Logout

Spec == Init /\ [][Next]_vars

-----------------------------------------------------------------------------
Quiet ==
  /\ mail = {} /\ deletion.at = "idle" /\ ~browser.timer
  /\ \A s \in Syncs : syncs[s].at = "idle"
  /\ \A k \in Sockets : sockets[k].at \in {"closed", "open"} /\ sockets[k].queue = <<>>

Connection == {k \in Sockets : sockets[k].at = "open"}

(* A browser with a socket is told of everything: once nothing is on its   *)
(* way it was given every change of the list, and the newest version of    *)
(* every item in a listed repository, whatever it missed while it had no   *)
(* socket.  (It need not show it: an older board may come after it.)       *)
NothingIsMissed ==
  Quiet /\ browser.signedIn /\ Connection # {} =>
    /\ told.list = list
    /\ \A t \in Created \ late : home[t] \in Listed => told.items[t] >= boards[home[t]][t]

(* A browser that has a session does not stay without a socket, unless the *)
(* request for its first board failed.                                     *)
NeverStranded ==
  Quiet /\ browser.signedIn /\ ~unloaded => Connection # {}

(* A board whose repository is not listed is empty, but for a task that    *)
(* was asked for before the repository was deleted and created after.      *)
DeletedBoardsAreEmpty ==
  \A id \in RepoIds \ Listed :
    \/ deletion.at = "wipe" /\ deletion.id = id
    \/ \A t \in Tasks : boards[id][t] # 0 => t \in late

(* No two listed repositories have the same path or the same board, unless *)
(* a repository was created whose board another path has been moved to.    *)
PathsAreUnique ==
  ~clash => \A m, n \in DOMAIN repos :
              m # n => repos[m].path # repos[n].path /\ repos[m].id # repos[n].id

(* The list of repositories and the boards agree: an item is on one board, *)
(* which is listed, and no two entries share a path or a board, whatever   *)
(* comes in while repositories are moved and deleted.                      *)
IndexIsSound == TypeOK /\ DeletedBoardsAreEmpty /\ PathsAreUnique

(* Who has signed out sees no board, unless as he did one was on its way,  *)
(* or there was a second socket.                                           *)
SignedOutIsEmpty == ~browser.signedIn => leak \/ browser.blank

(* What a browser has follows its session: with one it has a socket or     *)
(* opens another, without one it shows nothing.                            *)
SessionsShow == NeverStranded /\ SignedOutIsEmpty

-----------------------------------------------------------------------------
(* What makes these inductive.                                             *)

(* Another socket is to be opened, or is being opened.                     *)
Reconnecting ==
  browser.timer \/ \E k \in Sockets : sockets[k].at \in {"asked", "closing"}

(* The change of the list is on its way to the browser through socket k.   *)
ListReaches(k) ==
  \/ told.list = list
  \/ deletion.at \in {"wipe", "sync"}
  \/ \E m \in Queued(k) : m.kind \in {"snapshot", "repo"} /\ m.list = list
  \/ \E s \in Syncs : /\ syncs[s].at = "reading" /\ syncs[s].list = list
                      /\ \/ syncs[s].for = "all"
                         \/ syncs[s].for = "socket" /\ syncs[s].socket = k

Carries(m, t, ver) ==
  \/ m.kind = "snapshot" /\ m.items[t] >= ver
  \/ m.kind = "item" /\ m.task = t /\ m.ver >= ver

(* So is version ver of the item of task t.                                *)
ItemReaches(k, t, ver) ==
  \/ told.items[t] >= ver
  \/ \E m \in mail : m.task = t /\ m.ver >= ver
  \/ \E m \in Queued(k) : Carries(m, t, ver)
  \/ \E s \in Syncs : /\ syncs[s].at = "reading"
                      /\ syncs[s].for = "socket" /\ syncs[s].socket = k
                      /\ home[t] \in syncs[s].todo \/ syncs[s].items[t] >= ver

(* Tasks on a board that nobody is about to empty.                         *)
Standing == {t \in Created \ late : /\ boards[home[t]][t] # 0
                                    /\ ~(deletion.at = "wipe" /\ deletion.id = home[t])}

Covers(k) ==
  /\ sockets[k].at = "open" /\ ListReaches(k)
  /\ \A t \in Standing : ItemReaches(k, t, boards[home[t]][t])

(* Everything is on its way to a browser with a session, unless it has no  *)
(* socket or is going to open another.  One that signed out, or has none   *)
(* in hand, is on its way to another, for an older one may be open still,  *)
(* of which what was told before says nothing.                             *)
Served ==
  browser.signedIn =>
     Reconnecting \/ Connection = {} \/ \E k \in Connection : Covers(k)
Waiting ==
  /\ ~browser.signedIn => Reconnecting \/ Connection = {}
  /\ browser.socket = 0 =>
       \/ browser.timer \/ \E k \in Sockets : sockets[k].at = "closing"
       \/ \A k \in Sockets : sockets[k].at = "closed"

(* A session without a socket has one coming, or its first board.          *)
Connecting ==
  browser.signedIn /\ ~unloaded =>
     \/ Reconnecting \/ Connection # {}
     \/ \E s \in Syncs : syncs[s].at = "reading" /\ syncs[s].for = "start"

(* Nothing reaches a browser that signed out, unless it was on its way.    *)
Silent ==
  ~browser.signedIn /\ ~leak =>
     /\ browser.blank /\ Connection = {}
     /\ \A s \in Syncs : syncs[s].for \in {"browser", "start"} => syncs[s].at = "idle"

BrowserInv == Served /\ Waiting /\ Connecting /\ Silent
=============================================================================
