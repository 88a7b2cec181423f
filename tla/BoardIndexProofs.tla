-------------------------- MODULE BoardIndexProofs --------------------------
(* Theorems of BoardIndex.                                                  *)
EXTENDS BoardIndex, TLAPS

(* What is in a queue after a message was added, and before one was taken.  *)
LEMMA QueueAppend ==
  ASSUME NEW S, NEW q \in Seq(S), NEW m \in S
  PROVE  /\ Append(q, m) \in Seq(S)
         /\ Messages(Append(q, m)) = Messages(q) \cup {m}
<1> DEFINE a == Append(q, m)
<1>1. a \in Seq(S) /\ Len(a) = Len(q) + 1 /\ a[Len(q) + 1] = m
      /\ \A i \in 1..Len(q) : a[i] = q[i]
  OBVIOUS
<1>2. DOMAIN a = 1..Len(a) /\ DOMAIN q = 1..Len(q) /\ Len(q) \in Nat
  BY <1>1
<1>3. DOMAIN a = DOMAIN q \cup {Len(q) + 1}
  BY <1>1, <1>2
<1> HIDE DEF a
<1>4. {a[i] : i \in DOMAIN a} = {q[i] : i \in DOMAIN q} \cup {m}
  BY <1>1, <1>2, <1>3
<1> QED BY <1>1, <1>4 DEF a, Messages

LEMMA QueueTail ==
  ASSUME NEW S, NEW q \in Seq(S), q # <<>>
  PROVE  /\ Head(q) \in S /\ Tail(q) \in Seq(S)
         /\ Messages(q) = {Head(q)} \cup Messages(Tail(q))
<1> DEFINE r == Tail(q)
<1>1. /\ Head(q) \in S /\ r \in Seq(S) /\ Len(r) = Len(q) - 1 /\ Head(q) = q[1]
      /\ \A i \in 1..Len(r) : r[i] = q[i + 1]
  OBVIOUS
<1>2. DOMAIN r = 1..Len(r) /\ DOMAIN q = 1..Len(q) /\ Len(q) \in Nat /\ Len(q) > 0
  BY <1>1
<1> HIDE DEF r
<1>3. ASSUME NEW i \in DOMAIN q
      PROVE  q[i] \in {Head(q)} \cup {r[j] : j \in DOMAIN r}
  <2>1. CASE i = 1
    BY <2>1, <1>1
  <2>2. CASE i # 1
    <3>1. i - 1 \in DOMAIN r /\ r[i - 1] = q[i]
      BY <1>1, <1>2, <1>3, <2>2
    <3> QED BY <3>1
  <2> QED BY <2>1, <2>2
<1>4. ASSUME NEW j \in DOMAIN r
      PROVE  r[j] \in {q[i] : i \in DOMAIN q}
  <2>1. j + 1 \in DOMAIN q /\ q[j + 1] = r[j]
    BY <1>1, <1>2, <1>4
  <2> QED BY <2>1
<1>5. Head(q) \in {q[i] : i \in DOMAIN q}
  BY <1>1, <1>2
<1>6. {q[i] : i \in DOMAIN q} = {Head(q)} \cup {r[i] : i \in DOMAIN r}
  BY <1>3, <1>4, <1>5
<1> QED BY <1>1, <1>6 DEF r, Messages

LEMMA QueueEmpty ==
  /\ Messages(<<>>) = {}
  /\ \A S : \A q \in Seq(S) : Messages(q) \subseteq S
BY DEF Messages

(* The kinds of messages.                                                   *)
LEMMA MessageKinds ==
  ASSUME NEW m \in Message
  PROVE  /\ m.kind \in {"snapshot", "repo", "item"}
         /\ m.kind = "snapshot" => m.list \in Nat /\ m.items \in Board
         /\ m.kind = "repo" => m.list \in Nat
         /\ m.kind = "item" => m.task \in Tasks /\ m.ver \in Nat
BY DEF Message

LEMMA MessagesSent ==
  ASSUME TypeOK
  PROVE  /\ \A n \in Nat : RepoUpdated(n) \in Message
         /\ \A m \in mail : ItemUpdated(m) \in Message
         /\ \A s \in Syncs : Snapshot(syncs[s]) \in Message
BY DEF TypeOK, BoardsOK, SyncsOK, Sync, Message, RepoUpdated, ItemUpdated, Snapshot

(* What sending does to the sockets.                                        *)
LEMMA SendAppends ==
  ASSUME sockets \in [Sockets -> Socket], NEW m \in Message, NEW k \in Sockets
  PROVE  /\ Send(sockets, m) \in [Sockets -> Socket]
         /\ Send(sockets, m)[k].at = sockets[k].at
         /\ sockets[k].at # "open" => Send(sockets, m)[k] = sockets[k]
         /\ sockets[k].at = "open" =>
              Send(sockets, m)[k].queue = Append(sockets[k].queue, m)
<1>1. \A j \in Sockets : sockets[j] \in Socket /\ sockets[j].queue \in Seq(Message)
  BY DEF Socket
<1>2. \A j \in Sockets : Append(sockets[j].queue, m) \in Seq(Message)
  BY <1>1, QueueAppend
<1>3. ASSUME NEW r \in Socket, NEW q \in Seq(Message)
      PROVE  [r EXCEPT !.queue = q] = [at |-> r.at, queue |-> q]
  BY DEF Socket
<1>4. \A j \in Sockets : Send(sockets, m)[j] =
        IF sockets[j].at = "open"
        THEN [sockets[j] EXCEPT !.queue = Append(sockets[j].queue, m)] ELSE sockets[j]
  BY DEF Send
<1>5. \A j \in Sockets : Send(sockets, m)[j] =
        IF sockets[j].at = "open"
        THEN [at |-> "open", queue |-> Append(sockets[j].queue, m)] ELSE sockets[j]
  BY <1>1, <1>2, <1>3, <1>4
<1>6. \A q \in Seq(Message) : [at |-> "open", queue |-> q] \in Socket
  BY DEF Socket
<1>7. \A j \in Sockets : Send(sockets, m)[j] \in Socket
  BY <1>1, <1>2, <1>5, <1>6
<1>8. Send(sockets, m) \in [Sockets -> Socket]
  BY <1>7 DEF Send
<1> QED BY <1>5, <1>8

(* What a browser that applies a message was told then.                     *)
LEMMA ToldGrows ==
  ASSUME told \in [list : Nat, items : Board], NEW m \in Message, Told(m), list \in Nat,
         told.list <= list, m.kind \in {"snapshot", "repo"} => m.list <= list
  PROVE  /\ told' \in [list : Nat, items : Board]
         /\ told.list <= told'.list /\ told'.list <= list
         /\ m.kind \in {"snapshot", "repo"} => m.list <= told'.list
         /\ \A t \in Tasks : /\ told.items[t] <= told'.items[t]
                             /\ \A ver \in Nat : Carries(m, t, ver) => ver <= told'.items[t]
<1> DEFINE new == Applied(told, m)
<1>1. CASE m.kind = "snapshot"
  <2>1. new = [list |-> m.list, items |-> m.items]
    BY <1>1 DEF Applied
  <2>2. m.list \in Nat /\ m.items \in Board
    BY <1>1, MessageKinds
  <2> QED BY <1>1, <2>1, <2>2 DEF Told, Later, Board, Carries
<1>2. CASE m.kind = "repo"
  <2>1. new = [told EXCEPT !.list = m.list]
    BY <1>2 DEF Applied
  <2>2. m.list \in Nat /\ new = [list |-> m.list, items |-> told.items]
    BY <1>2, <2>1, MessageKinds
  <2> QED BY <1>2, <2>2 DEF Told, Later, Board, Carries
<1>3. CASE m.kind = "item"
  <2>1. new = [told EXCEPT !.items[m.task] = m.ver]
    BY <1>3 DEF Applied
  <2>2. /\ m.task \in Tasks /\ m.ver \in Nat
        /\ new = [list |-> told.list, items |-> [told.items EXCEPT ![m.task] = m.ver]]
    BY <1>3, <2>1, MessageKinds
  <2> QED BY <1>3, <2>2 DEF Told, Later, Board, Carries
<1> QED BY <1>1, <1>2, <1>3, MessageKinds

-----------------------------------------------------------------------------
(* Types.                                                                   *)

LEMMA EmptySocket ==
  ASSUME NEW at \in {"closed", "asked", "open", "closing"}
  PROVE  Empty(at) \in Socket /\ Empty(at).at = at /\ Empty(at).queue = <<>>
BY DEF Empty, Socket

LEMMA IndexInit == Init => TypeOK
<1> SUFFICES ASSUME Init PROVE TypeOK
  OBVIOUS
<1> USE IndexAssumption
<1>1. PICK path \in Paths :
        /\ repos = [n \in {1} |-> NewRepo(path)] /\ home = <<IdOf[path]>>
        /\ boards = [id \in RepoIds |->
                       [t \in Tasks |-> IF t = 1 /\ id = IdOf[path] THEN 1 ELSE 0]]
  BY DEF Init
<1>2. NewRepo(path) \in Repo /\ IdOf[path] \in RepoIds /\ 1 \in Tasks
  BY DEF NewRepo, Repo, Tasks
<1>3. ListOK
  <2>1. deletion = NoDeletion /\ list = 1 /\ inputs = 0 /\ clash = FALSE
    BY DEF Init
  <2>2. DOMAIN repos = {1} /\ repos[1] \in Repo
    BY <1>1, <1>2
  <2>3. clash \in BOOLEAN
    BY <2>1
  <2>4. /\ deletion \in [at : {"idle", "read", "remove", "wipe", "sync"},
                        id : RepoIds \cup {NoRepo}]
        /\ deletion.at = "idle"
    BY <2>1 DEF NoDeletion
  <2>5. DOMAIN repos \subseteq 1..list /\ list \in Nat /\ inputs \in 0..MaxInputs
    BY <2>1, <2>2
  <2> QED BY <2>2, <2>3, <2>4, <2>5 DEF ListOK
<1>4. BoardsOK
  <2>1. DOMAIN home = {1} /\ home[1] = IdOf[path] /\ home \in Seq(RepoIds) /\ Len(home) = 1
    BY <1>1, <1>2
  <2>2. boards \in [RepoIds -> Board]
    BY <1>1 DEF Board
  <2>3. \A id \in RepoIds, t \in Tasks : boards[id][t] # 0 => t \in Created /\ home[t] = id
    BY <1>1, <2>1 DEF Created
  <2> QED BY <2>1, <2>2, <2>3 DEF Init, BoardsOK
<1>5. Idle \in Sync
  BY DEF Idle, Sync, Readers, NoItems, Board
<1>6. SyncsOK /\ SocketsOK
  <2>1. \A k \in Sockets : sockets[k] \in Socket /\ sockets[k].queue = <<>>
    BY EmptySocket DEF Init
  <2>2. sockets \in [Sockets -> Socket]
    BY <2>1 DEF Init
  <2>3. \A k \in Sockets : Queued(k) = {}
    BY <2>1, QueueEmpty DEF Queued
  <2>4. SyncsOK
    <3>1. syncs = [s \in Syncs |-> Idle] /\ list = 1
      BY DEF Init
    <3> QED BY <1>5, <3>1 DEF SyncsOK, Idle
  <2> QED BY <2>1, <2>2, <2>3, <2>4 DEF SocketsOK
<1>7. BrowserOK
  <2>1. /\ browser = [signedIn |-> TRUE, socket |-> 1, timer |-> FALSE, blank |-> FALSE]
        /\ list = 1 /\ told = Start /\ leak = FALSE /\ unloaded = FALSE
    BY DEF Init
  <2>2. Start \in [list : Nat, items : Board] /\ Start.list = 1
    BY DEF Start, Board
  <2>3. leak \in BOOLEAN /\ unloaded \in BOOLEAN
    BY <2>1
  <2>4. told \in [list : Nat, items : Board] /\ told.list <= list
    BY <2>1, <2>2
  <2>5. browser \in [signedIn : BOOLEAN, socket : Sockets \cup {0}, timer : BOOLEAN,
                    blank : BOOLEAN]
    BY <2>1
  <2> QED BY <2>3, <2>4, <2>5 DEF BrowserOK
<1> QED BY <1>3, <1>4, <1>6, <1>7 DEF TypeOK

(* A step that leaves the list and the deletion alone.                      *)
LEMMA ListStays ==
  ASSUME ListOK,
         \/ UNCHANGED <<index, list, inputs>>
         \/ UNCHANGED <<index, list>> /\ Count
  PROVE  ListOK'
BY IndexAssumption DEF ListOK, index, Count

LEMMA ListNext ==
  ASSUME ListOK, [Next]_vars
  PROVE  ListOK'
<1> USE IndexAssumption
<1>1. ASSUME NEW path \in Paths, CreateRepo(path)
      PROVE  ListOK'
  <2>1. NewRepo(path) \in Repo
    BY DEF NewRepo, Repo
  <2> QED BY <1>1, <2>1 DEF CreateRepo, ListOK, Count, Broadcast
<1>2. ASSUME NEW path \in Paths, NEW id \in RepoIds, UpdateRepo(id, path)
      PROVE  ListOK'
  <2>1. [id |-> id, path |-> path] \in Repo
    BY DEF Repo
  <2> QED BY <1>2, <2>1 DEF UpdateRepo, ListOK, Count, Broadcast
<1>3. ASSUME NEW id \in RepoIds, DeleteRepo(id)
      PROVE  ListOK'
  BY <1>3 DEF DeleteRepo, ListOK, Count
<1>4. CASE ReadRuns
  BY <1>4 DEF ReadRuns, ListOK, NoDeletion
<1>5. CASE RemoveRepo
  BY <1>5 DEF RemoveRepo, ListOK
<1>6. CASE WipeBoard
  BY <1>6 DEF WipeBoard, ListOK
<1>7. ASSUME NEW s \in Syncs, SendDeletion(s)
      PROVE  ListOK'
  BY <1>7 DEF SendDeletion, ListOK, NoDeletion
<1>8. ASSUME NEW id \in RepoIds, AskForTask(id)
      PROVE  ListOK'
  BY <1>8, ListStays DEF AskForTask
<1>9. CASE CreateTask
  BY <1>9, ListStays DEF CreateTask
<1>10. ASSUME NEW t \in Created, ChangeItem(t) \/ DeleteTask(t)
       PROVE  ListOK'
  BY <1>10, ListStays DEF ChangeItem, DeleteTask
<1>11. ASSUME NEW m \in mail, Notify(m)
       PROVE  ListOK'
  BY <1>11, ListStays DEF Notify
<1>12. ASSUME NEW s \in Syncs, \/ SendSnapshot(s) \/ Refreshed(s) \/ Started(s)
                               \/ \E id \in RepoIds : ReadSlice(s, id)
                               \/ \E k \in Sockets : Accept(k, s)
       PROVE  ListOK'
  BY <1>12, ListStays DEF SendSnapshot, Refreshed, Started, ReadSlice, Accept
<1>13. ASSUME NEW s \in Syncs, RefreshFails(s) \/ Refresh(s) \/ Reconnect(s) \/ Login(s)
       PROVE  ListOK'
  BY <1>13, ListStays DEF RefreshFails, Refresh, Reconnect, Login
<1>14. ASSUME NEW k \in Sockets, Drop(k) \/ Receive(k) \/ OnClose(k)
       PROVE  ListOK'
  BY <1>14, ListStays DEF Drop, Receive, OnClose
<1>15. CASE Logout
  BY <1>15, ListStays DEF Logout
<1>16. CASE UNCHANGED vars
  BY <1>16, ListStays DEF vars, index
<1> QED BY <1>1, <1>2, <1>3, <1>4, <1>5, <1>6, <1>7, <1>8, <1>9, <1>10, <1>11, <1>12,
           <1>13, <1>14, <1>15, <1>16 DEF Next

LEMMA BoardsNext ==
  ASSUME ListOK, BoardsOK, [Next]_vars
  PROVE  BoardsOK'
<1> USE IndexAssumption
<1>0. DOMAIN home = 1..Len(home) /\ Len(home) \in Nat /\ Created \subseteq Tasks
      /\ \A t \in Created : home[t] \in RepoIds
  BY DEF BoardsOK, Created, Tasks
<1>1. CASE WipeBoard
  <2>1. deletion.id \in RepoIds
    BY <1>1 DEF WipeBoard, ListOK
  <2>2. /\ boards' \in [RepoIds -> Board] /\ boards'[deletion.id] = NoItems
        /\ \A id \in RepoIds \ {deletion.id} : boards'[id] = boards[id]
    BY <1>1, <2>1 DEF WipeBoard, BoardsOK, NoItems, Board
  <2>3. \A t \in active' : t \in active /\ home[t] # deletion.id
    BY <1>1 DEF WipeBoard, Running
  <2>4. active' \subseteq {t \in Created : boards'[home[t]][t] # 0}
    BY <1>0, <2>2, <2>3 DEF BoardsOK
  <2>5. \A id \in RepoIds, t \in Tasks : boards'[id][t] # 0 => t \in Created /\ home[t] = id
    BY <2>2 DEF BoardsOK, NoItems
  <2> QED BY <1>1, <2>2, <2>4, <2>5 DEF WipeBoard, BoardsOK, Created
<1>2. ASSUME NEW id \in RepoIds, AskForTask(id)
      PROVE  BoardsOK'
  BY <1>2 DEF AskForTask, BoardsOK, Created
<1>3. CASE CreateTask
  <2> DEFINE new == Len(home) + 1
  <2>1. /\ asked \in RepoIds /\ home' \in Seq(RepoIds) /\ Len(home') = new
        /\ DOMAIN home' = 1..new /\ home'[new] = asked
        /\ \A t \in Created : home'[t] = home[t]
    BY <1>0, <1>3 DEF CreateTask, BoardsOK, Created
  <2>2. new \in Tasks /\ new \notin Created
    BY <1>0, <1>3 DEF CreateTask, BoardsOK, Created, Tasks
  <2>3. /\ boards' = [boards EXCEPT ![asked][new] = 1]
        /\ mail' = mail \cup {[task |-> new, ver |-> 1]}
        /\ asked' = NoRepo /\ active' = active
    BY <1>3, <2>1 DEF CreateTask, Put
  <2>4. /\ boards' \in [RepoIds -> Board]
        /\ \A id \in RepoIds, t \in Tasks :
             boards'[id][t] = IF id = asked /\ t = new THEN 1 ELSE boards[id][t]
    BY <2>1, <2>2, <2>3 DEF BoardsOK, Board
  <2>5. Created' = Created \cup {new} /\ home'[new] \in RepoIds
    BY <1>0, <2>1 DEF Created
  <2>6. \A id \in RepoIds, t \in Tasks : boards'[id][t] # 0 => t \in Created' /\ home'[t] = id
    BY <2>1, <2>4, <2>5 DEF BoardsOK
  <2>7. active' \subseteq {t \in Created' : boards'[home'[t]][t] # 0}
    BY <1>0, <2>1, <2>2, <2>3, <2>4, <2>5 DEF BoardsOK
  <2>8. mail' \subseteq [task : Tasks, ver : Nat]
    BY <2>2, <2>3 DEF BoardsOK
  <2>9. Len(home') <= MaxTasks
    BY <1>0, <1>3, <2>1 DEF CreateTask, BoardsOK
  <2> QED BY <2>1, <2>3, <2>4, <2>6, <2>7, <2>8, <2>9 DEF BoardsOK
<1>4. ASSUME NEW t \in Created, ChangeItem(t)
      PROVE  BoardsOK'
  <2> DEFINE ver == boards[home[t]][t] + 1
  <2>1. ver \in Nat \ {0} /\ t \in Tasks /\ home[t] \in RepoIds
    BY <1>0 DEF BoardsOK, Board
  <2>2. /\ boards' = [boards EXCEPT ![home[t]][t] = ver] /\ home' = home
        /\ mail' = mail \cup {[task |-> t, ver |-> ver]} /\ asked' = asked
        /\ active' \subseteq active \cup {t}
    BY <1>4 DEF ChangeItem, Put
  <2>3. /\ boards' \in [RepoIds -> Board] /\ boards'[home[t]][t] = ver
        /\ \A id \in RepoIds, u \in Tasks :
             id # home[t] \/ u # t => boards'[id][u] = boards[id][u]
    BY <2>1, <2>2 DEF BoardsOK, Board
  <2>4. active' \subseteq {u \in Created : boards'[home[u]][u] # 0}
    BY <1>0, <2>1, <2>2, <2>3 DEF BoardsOK
  <2>5. \A id \in RepoIds, u \in Tasks : boards'[id][u] # 0 => u \in Created /\ home[u] = id
    BY <2>3 DEF BoardsOK
  <2> QED BY <2>1, <2>2, <2>3, <2>4, <2>5 DEF BoardsOK, Created
<1>5. ASSUME NEW t \in Created, DeleteTask(t)
      PROVE  BoardsOK'
  <2>1. /\ boards' \in [RepoIds -> Board]
        /\ \A id \in RepoIds, u \in Tasks :
             boards'[id][u] = IF id = home[t] /\ u = t THEN 0 ELSE boards[id][u]
    BY <1>0, <1>5 DEF DeleteTask, BoardsOK, Board
  <2>2. active' \subseteq {u \in Created : boards'[home[u]][u] # 0}
    BY <1>0, <1>5, <2>1 DEF DeleteTask, BoardsOK
  <2> QED BY <1>5, <2>1, <2>2 DEF DeleteTask, BoardsOK, Created
<1>6. ASSUME NEW m \in mail, Notify(m)
      PROVE  BoardsOK'
  BY <1>6 DEF Notify, BoardsOK, Created
<1>7. CASE UNCHANGED work
  BY <1>7 DEF work, BoardsOK, Created
<1>8. ASSUME NEW path \in Paths, CreateRepo(path) \/ \E id \in RepoIds : UpdateRepo(id, path)
      PROVE  UNCHANGED work
  BY <1>8 DEF CreateRepo, UpdateRepo
<1>9. ASSUME \/ \E id \in RepoIds : DeleteRepo(id)
             \/ ReadRuns \/ RemoveRepo \/ Logout \/ UNCHANGED vars
      PROVE  UNCHANGED work
  BY <1>9 DEF DeleteRepo, ReadRuns, RemoveRepo, Logout, vars, work
<1>10. ASSUME NEW s \in Syncs, \/ SendDeletion(s) \/ SendSnapshot(s) \/ Refreshed(s)
                               \/ Started(s) \/ RefreshFails(s) \/ Refresh(s)
                               \/ Reconnect(s) \/ Login(s)
                               \/ \E id \in RepoIds : ReadSlice(s, id)
                               \/ \E k \in Sockets : Accept(k, s)
       PROVE  UNCHANGED work
  BY <1>10 DEF SendDeletion, SendSnapshot, Refreshed, Started, RefreshFails, Refresh,
               Reconnect, Login, ReadSlice, Accept
<1>11. ASSUME NEW k \in Sockets, Drop(k) \/ Receive(k) \/ OnClose(k)
       PROVE  UNCHANGED work
  BY <1>11 DEF Drop, Receive, OnClose
<1> QED BY <1>1, <1>2, <1>3, <1>4, <1>5, <1>6, <1>7, <1>8, <1>9, <1>10, <1>11 DEF Next

(* Boards that begin to be assembled.                                       *)
LEMMA BegunOK ==
  ASSUME ListOK, NEW for \in Readers, NEW k \in Sockets \cup {0}, for = "socket" <=> k # 0
  PROVE  /\ Begin(for, k) \in Sync /\ Idle \in Sync
         /\ Begin(for, k) = [at |-> "reading", for |-> for, socket |-> k, list |-> list,
                             todo |-> Listed, items |-> NoItems]
         /\ Idle.list <= list /\ Idle.for # "socket" /\ Idle.socket = 0
<1>1. NoItems \in Board
  BY DEF NoItems, Board
<1>2. Listed \in SUBSET RepoIds
  BY DEF Listed, ListOK, Repo
<1>3. Begin(for, k) = [at |-> "reading", for |-> for, socket |-> k, list |-> list,
                       todo |-> Listed, items |-> NoItems]
  BY DEF Begin
<1>4. list \in Nat
  BY DEF ListOK
<1>5. Begin(for, k) \in Sync
  BY <1>1, <1>2, <1>3, <1>4 DEF Sync
<1>6. Idle \in Sync /\ Idle.list = 0 /\ Idle.for = "browser" /\ Idle.socket = 0
  BY <1>1 DEF Idle, Sync, Readers
<1> QED BY <1>3, <1>4, <1>5, <1>6

LEMMA AskedOK ==
  ASSUME ListOK, NEW for \in {"browser", "start"}
  PROVE  /\ Ask(for) \in Sync /\ Ask(for).list <= list
         /\ Ask(for).for \in {"browser", "start"} /\ Ask(for).socket = 0
<1>1. Begin(for, 0) = [at |-> "reading", for |-> for, socket |-> 0, list |-> list,
                       todo |-> Listed, items |-> NoItems]
      /\ Begin(for, 0) \in Sync
  BY BegunOK DEF Readers
<1>2. Idle \in Sync /\ Idle.list <= list /\ Idle.socket = 0 /\ Idle.for = "browser"
  BY BegunOK DEF Readers, Idle
<1> QED BY <1>1, <1>2 DEF Ask, ListOK

(* One board that is assembled becomes another.                             *)
LEMMA OneSync ==
  ASSUME SyncsOK, list' = list, NEW s \in Syncs, NEW new \in Sync,
         syncs' = [syncs EXCEPT ![s] = new],
         new.list <= list, new.for = "socket" <=> new.socket # 0
  PROVE  SyncsOK'
BY DEF SyncsOK

LEMMA SyncsNext ==
  ASSUME TypeOK, [Next]_vars
  PROVE  SyncsOK'
<1> USE IndexAssumption DEF TypeOK
<1>1. ASSUME syncs' = syncs, list' \in Nat, list <= list'
      PROVE  SyncsOK'
  BY <1>1 DEF SyncsOK, Sync, ListOK
<1>2. ASSUME NEW path \in Paths, CreateRepo(path) \/ \E id \in RepoIds : UpdateRepo(id, path)
      PROVE  SyncsOK'
  <2>1. syncs' = syncs /\ list' = list + 1
    BY <1>2 DEF CreateRepo, UpdateRepo, Broadcast
  <2> QED BY <1>1, <2>1 DEF ListOK
<1>3. CASE RemoveRepo
  BY <1>1, <1>3 DEF RemoveRepo, ListOK
<1>4. ASSUME \/ \E id \in RepoIds : DeleteRepo(id) \/ AskForTask(id)
             \/ ReadRuns \/ WipeBoard \/ CreateTask
             \/ \E t \in Created : ChangeItem(t) \/ DeleteTask(t)
             \/ \E m \in mail : Notify(m)
             \/ \E k \in Sockets : Receive(k) \/ OnClose(k)
             \/ UNCHANGED vars
      PROVE  SyncsOK'
  <2>1. syncs' = syncs /\ list' = list
    BY <1>4 DEF DeleteRepo, AskForTask, ReadRuns, WipeBoard, CreateTask, ChangeItem,
                DeleteTask, Notify, Receive, OnClose, vars
  <2> QED BY <1>1, <2>1 DEF ListOK
<1>5. ASSUME NEW s \in Syncs, SendDeletion(s)
      PROVE  SyncsOK'
  <2>1. /\ syncs' = [syncs EXCEPT ![s] = Begin("all", 0)] /\ list' = list
        /\ Begin("all", 0) \in Sync /\ Begin("all", 0).list <= list
        /\ Begin("all", 0).for = "all" /\ Begin("all", 0).socket = 0
    BY <1>5, BegunOK DEF SendDeletion, Readers, ListOK
  <2> QED BY <2>1, OneSync
<1>6. ASSUME NEW s \in Syncs, SendSnapshot(s) \/ Refreshed(s) \/ Started(s) \/ RefreshFails(s)
      PROVE  SyncsOK'
  <2>1. /\ syncs' = [syncs EXCEPT ![s] = Idle] /\ list' = list
        /\ Idle \in Sync /\ Idle.list <= list /\ Idle.for # "socket" /\ Idle.socket = 0
    BY <1>6, BegunOK DEF SendSnapshot, Refreshed, Started, RefreshFails, Readers
  <2> QED BY <2>1, OneSync
<1>7. ASSUME NEW s \in Syncs, Refresh(s) \/ Reconnect(s) \/ Login(s)
      PROVE  SyncsOK'
  <2>1. PICK for \in {"browser", "start"} : syncs' = [syncs EXCEPT ![s] = Ask(for)]
    BY <1>7 DEF Refresh, Reconnect, Login
  <2>2. list' = list
    BY <1>7 DEF Refresh, Reconnect, Login
  <2> QED BY <2>1, <2>2, AskedOK, OneSync
<1>8. ASSUME NEW s \in Syncs, NEW id \in RepoIds, ReadSlice(s, id)
      PROVE  SyncsOK'
  <2> DEFINE items == [t \in Tasks |-> IF boards[id][t] # 0 THEN boards[id][t]
                                       ELSE syncs[s].items[t]]
             new == [syncs[s] EXCEPT !.todo = @ \ {id}, !.items = items]
  <2>1. syncs[s] \in Sync /\ items \in Board
    BY DEF SyncsOK, Sync, BoardsOK, Board
  <2>2. /\ new \in Sync /\ new.list = syncs[s].list /\ new.for = syncs[s].for
        /\ new.socket = syncs[s].socket
    BY <2>1 DEF Sync
  <2>3. syncs' = [syncs EXCEPT ![s] = new] /\ list' = list
    BY <1>8 DEF ReadSlice, SyncsOK
  <2> QED BY <2>2, <2>3, OneSync DEF SyncsOK
<1>9. ASSUME NEW s \in Syncs, NEW k \in Sockets, Accept(k, s)
      PROVE  SyncsOK'
  <2>1. CASE browser.signedIn
    <3>1. /\ syncs' = [syncs EXCEPT ![s] = Begin("socket", k)] /\ list' = list
          /\ Begin("socket", k) \in Sync /\ Begin("socket", k).list <= list
          /\ Begin("socket", k).for = "socket" /\ Begin("socket", k).socket = k /\ k # 0
      BY <1>9, <2>1, BegunOK DEF Accept, Readers, ListOK
    <3> QED BY <3>1, OneSync
  <2>2. CASE ~browser.signedIn
    BY <1>1, <1>9, <2>2 DEF Accept, ListOK
  <2> QED BY <2>1, <2>2
<1>10. ASSUME NEW k \in Sockets \cup {0}, syncs' = Without(k), list' = list
       PROVE  SyncsOK'
  BY <1>10, BegunOK DEF SyncsOK, Without, Readers
<1>11. ASSUME NEW k \in Sockets, Drop(k)
       PROVE  SyncsOK'
  BY <1>10, <1>11 DEF Drop
<1>12. CASE Logout
  BY <1>1, <1>10, <1>12 DEF Logout, ListOK, BrowserOK
<1> QED BY <1>2, <1>3, <1>4, <1>5, <1>6, <1>7, <1>8, <1>9, <1>11, <1>12 DEF Next

(* Every socket is left as it is, or gets one message more.                 *)
LEMMA SocketsSent ==
  ASSUME TypeOK, NEW m \in Message, list' \in Nat, list <= list',
         m.kind \in {"snapshot", "repo"} => m.list <= list',
         sockets' = [k \in Sockets |-> sockets'[k]],
         \A k \in Sockets : sockets'[k] \in {sockets[k], Send(sockets, m)[k]}
  PROVE  SocketsOK'
<1> USE DEF TypeOK
<1>1. ASSUME NEW k \in Sockets
      PROVE  /\ sockets'[k] \in Socket
             /\ sockets'[k].at # "open" => sockets'[k].queue = <<>>
             /\ Queued(k)' \subseteq Queued(k) \cup {m}
  <2>1. sockets \in [Sockets -> Socket] /\ sockets[k] \in Socket
    BY DEF SocketsOK
  <2>2. sockets[k].queue \in Seq(Message)
    BY <2>1 DEF Socket
  <2>3. CASE sockets'[k] = sockets[k]
    BY <2>1, <2>3 DEF SocketsOK, Queued
  <2>4. CASE sockets'[k] = Send(sockets, m)[k] /\ sockets[k].at = "open"
    <3>1. /\ sockets'[k] \in Socket /\ sockets'[k].at = "open"
          /\ sockets'[k].queue = Append(sockets[k].queue, m)
      BY <2>1, <2>4, SendAppends
    <3> QED BY <2>2, <3>1, QueueAppend DEF Queued
  <2>5. CASE sockets'[k] = Send(sockets, m)[k] /\ sockets[k].at # "open"
    BY <2>1, <2>3, <2>5, SendAppends
  <2> QED BY <2>3, <2>4, <2>5
<1>2. ASSUME NEW k \in Sockets, NEW o \in Queued(k)', o.kind \in {"snapshot", "repo"}
      PROVE  o.list <= list'
  <2>1. CASE o = m
    BY <1>2, <2>1
  <2>2. CASE o \in Queued(k)
    <3>1. o \in Message /\ o.list <= list
      BY <1>2, <2>2, QueueEmpty DEF SocketsOK, Queued, Socket
    <3> QED BY <1>2, <3>1, MessageKinds DEF ListOK
  <2> QED BY <1>1, <1>2, <2>1, <2>2
<1> QED BY <1>1, <1>2 DEF SocketsOK

(* One socket becomes another without messages.                             *)
LEMMA OneSocket ==
  ASSUME TypeOK, list' = list, NEW k \in Sockets, NEW new \in Socket,
         sockets' = [sockets EXCEPT ![k] = new],
         \/ new.queue = <<>>
         \/ new.at = "open" /\ Messages(new.queue) \subseteq Queued(k)
  PROVE  SocketsOK'
<1> USE DEF TypeOK
<1>1. /\ sockets' \in [Sockets -> Socket] /\ sockets'[k] = new
      /\ \A j \in Sockets \ {k} : sockets'[j] = sockets[j]
  BY DEF SocketsOK
<1>2. Queued(k)' \subseteq Queued(k)
  BY <1>1, QueueEmpty DEF Queued
<1>3. \A j \in Sockets : Queued(j)' \subseteq Queued(j)
  BY <1>1, <1>2 DEF Queued
<1> QED BY <1>1, <1>3 DEF SocketsOK

LEMMA OneEmptied ==
  ASSUME TypeOK, list' = list, NEW k \in Sockets,
         NEW at \in {"closed", "asked", "open", "closing"},
         sockets' = [sockets EXCEPT ![k] = Empty(at)]
  PROVE  SocketsOK'
BY EmptySocket, OneSocket

LEMMA SocketsNext ==
  ASSUME TypeOK, [Next]_vars
  PROVE  SocketsOK'
<1> USE IndexAssumption
<1>0. /\ sockets \in [Sockets -> Socket] /\ list \in Nat
      /\ \A k \in Sockets : sockets[k].queue \in Seq(Message)
  BY DEF TypeOK, SocketsOK, ListOK, Socket
<1>1. ASSUME sockets' = sockets, list' \in Nat, list <= list'
      PROVE  SocketsOK'
  <2>1. ASSUME NEW k \in Sockets
        PROVE  Queued(k)' = Queued(k) /\ Queued(k) \subseteq Message
    <3>1. sockets[k].queue \in Seq(Message)
      BY <1>0
    <3> QED BY <1>1, <3>1, QueueEmpty DEF Queued
  <2>2. ASSUME NEW k \in Sockets
        PROVE  /\ sockets'[k].at # "open" => sockets'[k].queue = <<>>
               /\ \A m \in Queued(k)' : m.kind \in {"snapshot", "repo"} => m.list <= list'
    <3>1. sockets[k].at # "open" => sockets[k].queue = <<>>
      BY DEF TypeOK, SocketsOK
    <3>2. ASSUME NEW m \in Queued(k), m.kind \in {"snapshot", "repo"}
          PROVE  m.list <= list'
      <4>1. m.list \in Nat
        BY <2>1, <3>2, MessageKinds
      <4>2. m.list <= list
        BY <3>2 DEF TypeOK, SocketsOK
      <4> QED BY <1>0, <1>1, <4>1, <4>2
    <3> QED BY <1>1, <2>1, <3>1, <3>2
  <2> QED BY <1>0, <1>1, <2>2 DEF SocketsOK
<1>2. CASE Broadcast
  <2>1. RepoUpdated(list') \in Message /\ RepoUpdated(list').list = list'
    BY <1>0, <1>2, MessagesSent DEF Broadcast, RepoUpdated
  <2>2. sockets' = [k \in Sockets |-> sockets'[k]]
    BY <1>2, <1>0, <2>1, SendAppends DEF Broadcast
  <2> QED BY <1>0, <1>2, <2>1, <2>2, SocketsSent DEF Broadcast
<1>3. ASSUME NEW path \in Paths, CreateRepo(path) \/ \E id \in RepoIds : UpdateRepo(id, path)
      PROVE  SocketsOK'
  BY <1>2, <1>3 DEF CreateRepo, UpdateRepo
<1>4. CASE RemoveRepo
  BY <1>0, <1>1, <1>4 DEF RemoveRepo
<1>5. ASSUME \/ \E id \in RepoIds : DeleteRepo(id) \/ AskForTask(id)
             \/ ReadRuns \/ WipeBoard \/ CreateTask
             \/ \E t \in Created : ChangeItem(t) \/ DeleteTask(t)
             \/ \E s \in Syncs : \/ SendDeletion(s) \/ Refreshed(s) \/ RefreshFails(s)
                                 \/ Refresh(s) \/ Login(s)
                                 \/ \E id \in RepoIds : ReadSlice(s, id)
             \/ UNCHANGED vars
      PROVE  SocketsOK'
  <2>1. sockets' = sockets /\ list' = list
    BY <1>5 DEF DeleteRepo, AskForTask, ReadRuns, WipeBoard, CreateTask, ChangeItem,
                DeleteTask, SendDeletion, Refreshed, RefreshFails, Refresh, Login,
                ReadSlice, vars
  <2> QED BY <1>0, <1>1, <2>1
<1>6. ASSUME NEW m \in mail, Notify(m)
      PROVE  SocketsOK'
  <2>1. ItemUpdated(m) \in Message /\ ItemUpdated(m).kind = "item"
    BY MessagesSent DEF ItemUpdated
  <2>2. sockets' = Send(sockets, ItemUpdated(m)) /\ list' = list
    BY <1>6 DEF Notify
  <2>3. sockets' = [k \in Sockets |-> sockets'[k]]
    BY <1>0, <2>1, <2>2, SendAppends
  <2> QED BY <1>0, <2>1, <2>2, <2>3, SocketsSent
<1>7. ASSUME NEW s \in Syncs, SendSnapshot(s)
      PROVE  SocketsOK'
  <2> DEFINE m == Snapshot(syncs[s])
  <2>1. m \in Message /\ m.list <= list
    BY MessagesSent DEF Snapshot, TypeOK, SyncsOK
  <2>2. list' = list
    BY <1>7 DEF SendSnapshot
  <2>3. /\ sockets' = [k \in Sockets |-> sockets'[k]]
        /\ \A k \in Sockets : sockets'[k] \in {sockets[k], Send(sockets, m)[k]}
    BY <1>7 DEF SendSnapshot
  <2> HIDE DEF m
  <2> QED BY <1>0, <2>1, <2>2, <2>3, SocketsSent
<1>8. ASSUME Unused # {}, sockets' = Connected(sockets), list' = list
      PROVE  SocketsOK'
  <2>1. NewSocket \in Sockets /\ sockets[NewSocket].at = "closed"
    BY <1>8 DEF NewSocket, Unused
  <2> QED BY <1>8, <2>1, OneEmptied DEF Connected
<1>9. ASSUME NEW s \in Syncs, Started(s) \/ Reconnect(s)
      PROVE  SocketsOK'
  BY <1>8, <1>9 DEF Started, Reconnect
<1>10. ASSUME NEW s \in Syncs, NEW k \in Sockets, Accept(k, s)
       PROVE  SocketsOK'
  <2>1. \/ sockets' = [sockets EXCEPT ![k] = Empty("open")]
        \/ sockets' = [sockets EXCEPT ![k] = Empty("closing")]
    BY <1>10 DEF Accept
  <2>2. list' = list
    BY <1>10 DEF Accept
  <2> QED BY <2>1, <2>2, OneEmptied
<1>11. ASSUME NEW k \in Sockets, sockets' = Close(sockets, k), list' = list
       PROVE  SocketsOK'
  BY <1>11, OneEmptied DEF Close
<1>12. ASSUME NEW k \in Sockets, Drop(k)
       PROVE  SocketsOK'
  BY <1>11, <1>12 DEF Drop
<1>13. CASE Logout
  BY <1>0, <1>1, <1>11, <1>13 DEF Logout, TypeOK, BrowserOK
<1>14. ASSUME NEW k \in Sockets, Receive(k)
       PROVE  SocketsOK'
  <2> DEFINE q == sockets[k].queue
             new == [at |-> "open", queue |-> Tail(q)]
  <2>1. q \in Seq(Message) /\ q # <<>>
    BY <1>0, <1>14 DEF Receive
  <2>2. /\ Tail(q) \in Seq(Message)
        /\ Queued(k) = {Head(q)} \cup Messages(Tail(q))
    BY <2>1, QueueTail DEF Queued
  <2>3. /\ sockets[k] \in Socket /\ sockets[k].at = "open" /\ list' = list
        /\ sockets' = [sockets EXCEPT ![k] = [sockets[k] EXCEPT !.queue = Tail(q)]]
    BY <1>0, <1>14 DEF Receive, TypeOK, SocketsOK
  <2>4. [sockets[k] EXCEPT !.queue = Tail(q)] = new
    <3>1. ASSUME NEW o \in Socket, NEW r, o.at = "open"
          PROVE  [o EXCEPT !.queue = r] = [at |-> "open", queue |-> r]
      BY <3>1 DEF Socket
    <3> QED BY <2>3, <3>1
  <2>5. new \in Socket /\ new.at = "open" /\ new.queue = Tail(q)
    BY <2>2 DEF Socket
  <2>6. sockets' = [sockets EXCEPT ![k] = new]
    BY <2>3, <2>4
  <2> HIDE DEF q, new
  <2> QED BY <2>2, <2>3, <2>5, <2>6, OneSocket
<1>15. ASSUME NEW k \in Sockets, OnClose(k)
       PROVE  SocketsOK'
  BY <1>15, OneEmptied DEF OnClose
<1> QED BY <1>3, <1>4, <1>5, <1>6, <1>7, <1>9, <1>10, <1>12, <1>13, <1>14, <1>15 DEF Next

(* The message that a browser gets through a socket.                        *)
LEMMA HeadOfQueue ==
  ASSUME TypeOK, NEW k \in Sockets, sockets[k].queue # <<>>
  PROVE  LET m == Head(sockets[k].queue) IN
         /\ m \in Message /\ sockets[k].at = "open"
         /\ Tail(sockets[k].queue) \in Seq(Message)
         /\ Queued(k) = {m} \cup Messages(Tail(sockets[k].queue))
         /\ m.kind \in {"snapshot", "repo"} => m.list <= list
<1>1. sockets[k].queue \in Seq(Message)
  BY DEF TypeOK, SocketsOK, Socket
<1> QED BY <1>1, QueueTail DEF Queued, TypeOK, SocketsOK

(* The assembled board that a browser gets.                                 *)
LEMMA BoardOfSync ==
  ASSUME TypeOK, NEW s \in Syncs
  PROVE  LET m == Snapshot(syncs[s]) IN
         /\ m \in Message /\ m.kind = "snapshot"
         /\ m.list = syncs[s].list /\ m.list <= list /\ m.items = syncs[s].items
<1>1. syncs[s].list <= list
  BY DEF TypeOK, SyncsOK
<1> QED BY <1>1, MessagesSent DEF Snapshot

LEMMA BrowserNext ==
  ASSUME TypeOK, [Next]_vars
  PROVE  BrowserOK'
<1> USE IndexAssumption
<1> DEFINE BrowserType == [signedIn : BOOLEAN, socket : Sockets \cup {0}, timer : BOOLEAN,
                           blank : BOOLEAN]
<1>0. /\ browser \in BrowserType /\ told \in [list : Nat, items : Board] /\ told.list <= list
      /\ leak \in BOOLEAN /\ unloaded \in BOOLEAN /\ list \in Nat
      /\ Blank \in [list : Nat, items : Board] /\ Blank.list = 0
  BY DEF TypeOK, BrowserOK, ListOK, Blank, Board, NoItems
<1>1. ASSUME browser' = browser, UNCHANGED <<told, leak>>, unloaded' \in BOOLEAN,
             list' \in Nat, list <= list'
      PROVE  BrowserOK'
  BY <1>0, <1>1 DEF BrowserOK
<1>2. ASSUME NEW path \in Paths, CreateRepo(path) \/ \E id \in RepoIds : UpdateRepo(id, path)
      PROVE  BrowserOK'
  <2>1. UNCHANGED <<browser, told, leak, unloaded>> /\ list' = list + 1
    BY <1>2 DEF CreateRepo, UpdateRepo, Broadcast, history
  <2> QED BY <1>0, <1>1, <2>1
<1>3. CASE RemoveRepo
  <2>1. UNCHANGED <<browser, told, leak, unloaded>> /\ list' = list + 1
    BY <1>3 DEF RemoveRepo, history
  <2> QED BY <1>0, <1>1, <2>1
<1>4. ASSUME \/ \E id \in RepoIds : DeleteRepo(id) \/ AskForTask(id)
             \/ ReadRuns \/ WipeBoard \/ CreateTask
             \/ \E t \in Created : ChangeItem(t) \/ DeleteTask(t)
             \/ \E m \in mail : Notify(m)
             \/ \E s \in Syncs : \/ SendDeletion(s) \/ SendSnapshot(s) \/ Refresh(s)
                                 \/ \E id \in RepoIds : ReadSlice(s, id)
                                 \/ \E k \in Sockets : Accept(k, s)
             \/ \E k \in Sockets : Drop(k)
             \/ UNCHANGED vars
      PROVE  BrowserOK'
  <2>1. UNCHANGED <<browser, told, leak, unloaded, list>>
    BY <1>4 DEF DeleteRepo, AskForTask, ReadRuns, WipeBoard, CreateTask, ChangeItem,
                DeleteTask, Notify, SendDeletion, SendSnapshot, Refresh, ReadSlice, Accept,
                Drop, vars, history
  <2> QED BY <1>0, <1>1, <2>1
<1>5. ASSUME NEW m \in Message, m.kind \in {"snapshot", "repo"} => m.list <= list, Told(m),
             browser' \in BrowserType, UNCHANGED <<list, leak, unloaded>>
      PROVE  BrowserOK'
  BY <1>0, <1>5, ToldGrows DEF BrowserOK
<1>6. ASSUME NEW s \in Syncs, Refreshed(s)
      PROVE  BrowserOK'
  <2>1. browser' \in BrowserType /\ UNCHANGED <<list, leak, unloaded>>
    BY <1>0, <1>6 DEF Refreshed
  <2> QED BY <1>5, <1>6, <2>1, BoardOfSync DEF Refreshed
<1>7. ASSUME NEW s \in Syncs, Started(s)
      PROVE  BrowserOK'
  <2>1. NewSocket \in Sockets
    BY <1>7 DEF Started, NewSocket, Unused
  <2>2. browser' \in BrowserType /\ UNCHANGED <<list, leak, unloaded>>
    BY <1>0, <1>7, <2>1 DEF Started
  <2> QED BY <1>5, <1>7, <2>2, BoardOfSync DEF Started
<1>8. ASSUME NEW k \in Sockets, Receive(k)
      PROVE  BrowserOK'
  <2>1. browser' \in BrowserType /\ UNCHANGED <<list, leak, unloaded>>
    BY <1>0, <1>8 DEF Receive
  <2> QED BY <1>5, <1>8, <2>1, HeadOfQueue DEF Receive
<1>9. ASSUME NEW s \in Syncs, RefreshFails(s)
      PROVE  BrowserOK'
  <2>1. UNCHANGED <<browser, told, leak, list>> /\ unloaded' \in BOOLEAN
    BY <1>9 DEF RefreshFails
  <2> QED BY <1>0, <1>1, <2>1
<1>10. ASSUME browser' \in BrowserType, told' \in {told, Blank}, list' = list,
              leak' \in BOOLEAN, unloaded' \in BOOLEAN
       PROVE  BrowserOK'
  BY <1>0, <1>10 DEF BrowserOK
<1>11. ASSUME NEW s \in Syncs, Reconnect(s)
       PROVE  BrowserOK'
  <2>1. NewSocket \in Sockets
    BY <1>11 DEF Reconnect, NewSocket, Unused
  <2>2. browser' \in BrowserType /\ UNCHANGED <<told, list, leak, unloaded>>
    BY <1>0, <1>11, <2>1 DEF Reconnect, history
  <2> QED BY <1>0, <1>10, <2>2
<1>12. ASSUME NEW s \in Syncs, Login(s)
       PROVE  BrowserOK'
  <2>1. browser' \in BrowserType /\ told' = Blank /\ UNCHANGED <<list, leak, unloaded>>
    BY <1>0, <1>12 DEF Login
  <2> QED BY <1>0, <1>10, <2>1
<1>13. ASSUME NEW k \in Sockets, OnClose(k)
       PROVE  BrowserOK'
  <2>1. browser' \in BrowserType /\ UNCHANGED <<told, list, leak, unloaded>>
    BY <1>0, <1>13 DEF OnClose, history
  <2> QED BY <1>0, <1>10, <2>1
<1>14. CASE Logout
  <2>1. browser' \in BrowserType /\ told' = Blank /\ list' = list /\ unloaded' = FALSE
    BY <1>0, <1>14 DEF Logout
  <2>2. leak' \in BOOLEAN
    <3>1. leak' = OnItsWay
      BY <1>14 DEF Logout
    <3> QED BY <3>1 DEF OnItsWay
  <2>3. unloaded' \in BOOLEAN
    BY <2>1
  <2> QED BY <1>10, <2>1, <2>2, <2>3
<1> QED BY <1>2, <1>3, <1>4, <1>6, <1>7, <1>8, <1>9, <1>11, <1>12, <1>13, <1>14 DEF Next

LEMMA IndexTypes == TypeOK /\ [Next]_vars => TypeOK'
BY ListNext, BoardsNext, SyncsNext, SocketsNext, BrowserNext DEF TypeOK

-----------------------------------------------------------------------------
(* The list and the boards.                                                 *)

LEMMA PathsNext ==
  ASSUME TypeOK, PathsAreUnique, [Next]_vars
  PROVE  PathsAreUnique'
<1> USE DEF TypeOK
<1>1. CASE UNCHANGED <<repos, clash>>
  BY <1>1 DEF PathsAreUnique
<1>2. ASSUME NEW path \in Paths, CreateRepo(path), ~clash'
      PROVE  PathsAreUnique'
  <2>1. /\ list' = list + 1 /\ DOMAIN repos' = DOMAIN repos \cup {list'}
        /\ repos'[list'] = [id |-> IdOf[path], path |-> path]
        /\ list' \notin DOMAIN repos
        /\ \A n \in DOMAIN repos : repos'[n] = repos[n]
    BY <1>2 DEF CreateRepo, Broadcast, NewRepo, ListOK
  <2>2. /\ ~clash /\ IdOf[path] \notin Listed
        /\ \A n \in DOMAIN repos : repos[n].path # path
    BY <1>2 DEF CreateRepo, Taken
  <2> QED BY <2>1, <2>2 DEF PathsAreUnique, Listed
<1>3. ASSUME NEW path \in Paths, NEW id \in RepoIds, UpdateRepo(id, path)
      PROVE  PathsAreUnique'
  <2>1. /\ DOMAIN repos' = DOMAIN repos /\ clash' = clash
        /\ \A n \in DOMAIN repos : /\ repos'[n].id = repos[n].id
                                   /\ repos[n].id = id => repos'[n].path = path
                                   /\ repos[n].id # id => repos'[n].path = repos[n].path
    BY <1>3 DEF UpdateRepo
  <2>2. \A n \in DOMAIN repos : repos[n].id # id => repos[n].path # path
    BY <1>3 DEF UpdateRepo, Taken
  <2> QED BY <2>1, <2>2 DEF PathsAreUnique
<1>4. CASE RemoveRepo
  <2>1. /\ DOMAIN repos' \subseteq DOMAIN repos /\ clash' = clash
        /\ \A n \in DOMAIN repos' : repos'[n] = repos[n]
    BY <1>4 DEF RemoveRepo
  <2> QED BY <2>1 DEF PathsAreUnique
<1>5. CASE ~clash'
  <2>1. ASSUME \/ \E id \in RepoIds : DeleteRepo(id) \/ AskForTask(id)
               \/ ReadRuns \/ WipeBoard \/ CreateTask
               \/ \E t \in Created : ChangeItem(t) \/ DeleteTask(t)
               \/ \E m \in mail : Notify(m)
        PROVE  UNCHANGED <<repos, clash>>
    BY <2>1 DEF DeleteRepo, AskForTask, ReadRuns, WipeBoard, CreateTask, ChangeItem,
                DeleteTask, Notify, index
  <2>2. ASSUME NEW s \in Syncs,
               \/ SendDeletion(s) \/ SendSnapshot(s) \/ Refreshed(s) \/ Started(s)
               \/ RefreshFails(s) \/ Refresh(s) \/ Reconnect(s) \/ Login(s)
               \/ \E id \in RepoIds : ReadSlice(s, id)
               \/ \E k \in Sockets : Accept(k, s)
        PROVE  UNCHANGED <<repos, clash>>
    BY <2>2 DEF SendDeletion, SendSnapshot, Refreshed, Started, RefreshFails, Refresh,
                Reconnect, Login, ReadSlice, Accept, index
  <2>3. ASSUME \/ \E k \in Sockets : Drop(k) \/ Receive(k) \/ OnClose(k)
               \/ Logout \/ UNCHANGED vars
        PROVE  UNCHANGED <<repos, clash>>
    BY <2>3 DEF Drop, Receive, OnClose, Logout, index, vars
  <2> QED BY <1>1, <1>2, <1>3, <1>4, <1>5, <2>1, <2>2, <2>3 DEF Next
<1> QED BY <1>5 DEF PathsAreUnique

LEMMA DeletedNext ==
  ASSUME TypeOK, DeletedBoardsAreEmpty, [Next]_vars
  PROVE  DeletedBoardsAreEmpty'
<1> USE IndexAssumption DEF TypeOK
<1>0. DOMAIN home = 1..Len(home) /\ Created \subseteq Tasks
      /\ \A t \in Created : home[t] \in RepoIds
  BY DEF BoardsOK, Created, Tasks
<1>1. ASSUME NEW path \in Paths, CreateRepo(path)
      PROVE  DeletedBoardsAreEmpty'
  <2>1. Listed \subseteq Listed'
    <3>1. list' = list + 1 /\ list' \notin DOMAIN repos
      BY <1>1 DEF CreateRepo, Broadcast, ListOK
    <3> QED BY <1>1, <3>1 DEF CreateRepo, Listed
  <2> QED BY <1>1, <1>1, <2>1 DEF CreateRepo, work, DeletedBoardsAreEmpty
<1>2. ASSUME NEW path \in Paths, NEW id \in RepoIds, UpdateRepo(id, path)
      PROVE  DeletedBoardsAreEmpty'
  <2>1. Listed' = Listed
    BY <1>2 DEF UpdateRepo, Listed
  <2> QED BY <1>2, <2>1 DEF UpdateRepo, work, DeletedBoardsAreEmpty
<1>3. ASSUME NEW id \in RepoIds, DeleteRepo(id)
      PROVE  DeletedBoardsAreEmpty'
  BY <1>3 DEF DeleteRepo, work, Listed, DeletedBoardsAreEmpty
<1>4. CASE ReadRuns
  BY <1>4 DEF ReadRuns, work, Listed, DeletedBoardsAreEmpty
<1>5. CASE RemoveRepo
  <2>1. Listed \ {deletion.id} \subseteq Listed'
    BY <1>5 DEF RemoveRepo, Listed
  <2>2. deletion' = [deletion EXCEPT !.at = "wipe"] /\ deletion.at = "remove" /\ UNCHANGED work
    BY <1>5 DEF RemoveRepo
  <2>3. deletion'.at = "wipe" /\ deletion'.id = deletion.id
    BY <2>2 DEF ListOK
  <2> QED BY <2>1, <2>2, <2>3 DEF work, DeletedBoardsAreEmpty
<1>6. CASE WipeBoard
  <2>1. deletion.id \in RepoIds
    BY <1>6 DEF WipeBoard, ListOK
  <2>2. /\ boards'[deletion.id] = NoItems
        /\ \A id \in RepoIds \ {deletion.id} : boards'[id] = boards[id]
    BY <1>6, <2>1 DEF WipeBoard, BoardsOK
  <2>3. UNCHANGED <<repos, late>>
    BY <1>6 DEF WipeBoard
  <2> QED BY <2>2, <2>3 DEF DeletedBoardsAreEmpty, NoItems, Listed
<1>7. CASE CreateTask
  <2> DEFINE new == Len(home) + 1
  <2>1. /\ asked \in RepoIds /\ new \in Tasks /\ new \notin Created
        /\ home'[new] = asked /\ Len(home') = new
    BY <1>0, <1>7 DEF CreateTask, BoardsOK, Created, Tasks
  <2>2. boards' = [boards EXCEPT ![asked][new] = 1]
    BY <1>7, <2>1 DEF CreateTask, Put
  <2>3. \A id \in RepoIds, t \in Tasks :
          boards'[id][t] = IF id = asked /\ t = new THEN 1 ELSE boards[id][t]
    BY <2>1, <2>2 DEF BoardsOK, Board
  <2>4. UNCHANGED <<repos, deletion>>
        /\ late' = IF asked \in Listed THEN late ELSE late \cup {new}
    BY <1>7, <2>1 DEF CreateTask, index
  <2> QED BY <2>1, <2>3, <2>4 DEF DeletedBoardsAreEmpty, Listed
<1>8. ASSUME NEW t \in Created, ChangeItem(t)
      PROVE  DeletedBoardsAreEmpty'
  <2>1. /\ boards' = [boards EXCEPT ![home[t]][t] = boards[home[t]][t] + 1]
        /\ boards[home[t]][t] # 0 /\ UNCHANGED <<repos, deletion, late>>
    BY <1>8 DEF ChangeItem, Put, index
  <2>2. \A id \in RepoIds, u \in Tasks : boards'[id][u] # 0 => boards[id][u] # 0
    BY <1>0, <2>1 DEF BoardsOK, Board
  <2> QED BY <2>1, <2>2 DEF DeletedBoardsAreEmpty, Listed
<1>9. ASSUME NEW t \in Created, DeleteTask(t)
       PROVE  DeletedBoardsAreEmpty'
  <2>1. boards' = [boards EXCEPT ![home[t]][t] = 0] /\ UNCHANGED <<repos, deletion, late>>
    BY <1>9 DEF DeleteTask, index
  <2>2. \A id \in RepoIds, u \in Tasks : boards'[id][u] # 0 => boards[id][u] # 0
    BY <1>0, <2>1 DEF BoardsOK, Board
  <2> QED BY <2>1, <2>2 DEF DeletedBoardsAreEmpty, Listed
<1>10. ASSUME NEW s \in Syncs, SendDeletion(s)
       PROVE  DeletedBoardsAreEmpty'
  BY <1>10 DEF SendDeletion, work, Listed, DeletedBoardsAreEmpty
<1>11. CASE UNCHANGED <<repos, deletion, boards, late>>
  BY <1>11 DEF Listed, DeletedBoardsAreEmpty
<1>12. ASSUME \/ \E id \in RepoIds : AskForTask(id)
              \/ \E m \in mail : Notify(m)
              \/ \E k \in Sockets : Drop(k) \/ Receive(k) \/ OnClose(k)
              \/ Logout \/ UNCHANGED vars
       PROVE  UNCHANGED <<repos, deletion, boards, late>>
  BY <1>12 DEF AskForTask, Notify, Drop, Receive, OnClose, Logout, index, work, vars
<1>13. ASSUME NEW s \in Syncs,
              \/ SendSnapshot(s) \/ Refreshed(s) \/ Started(s)
              \/ RefreshFails(s) \/ Refresh(s) \/ Reconnect(s) \/ Login(s)
              \/ \E id \in RepoIds : ReadSlice(s, id)
              \/ \E k \in Sockets : Accept(k, s)
       PROVE  UNCHANGED <<repos, deletion, boards, late>>
  BY <1>13 DEF SendSnapshot, Refreshed, Started, RefreshFails, Refresh, Reconnect, Login,
               ReadSlice, Accept, index, work
<1> QED BY <1>1, <1>2, <1>3, <1>4, <1>5, <1>6, <1>7, <1>8, <1>9, <1>10, <1>11, <1>12,
           <1>13 DEF Next

LEMMA SoundInit == Init => DeletedBoardsAreEmpty /\ PathsAreUnique
<1> SUFFICES ASSUME Init PROVE DeletedBoardsAreEmpty /\ PathsAreUnique
  OBVIOUS
<1>1. PICK path \in Paths :
        /\ repos = [n \in {1} |-> NewRepo(path)]
        /\ boards = [id \in RepoIds |->
                       [t \in Tasks |-> IF t = 1 /\ id = IdOf[path] THEN 1 ELSE 0]]
  BY DEF Init
<1>2. Listed = {IdOf[path]}
  BY <1>1 DEF Listed, NewRepo
<1> QED BY <1>1, <1>2 DEF DeletedBoardsAreEmpty, PathsAreUnique

(* The list of repositories and the boards agree, for any repositories that *)
(* are created, moved and deleted while tasks are: an item is on the board  *)
(* of one listed repository, or was asked for before that was deleted, and  *)
(* no two entries of the list share a path or a board.                      *)
THEOREM IndexHolds == Spec => []IndexIsSound
<1>1. Init => IndexIsSound
  BY IndexInit, SoundInit DEF IndexIsSound
<1>2. IndexIsSound /\ [Next]_vars => IndexIsSound'
  BY IndexTypes, DeletedNext, PathsNext DEF IndexIsSound
<1> QED BY <1>1, <1>2, PTL DEF Spec

-----------------------------------------------------------------------------
(* The browser.                                                             *)

(* Steps of the list and of the boards.                                     *)
IndexStep ==
  \/ \E path \in Paths : CreateRepo(path) \/ \E id \in RepoIds : UpdateRepo(id, path)
  \/ \E id \in RepoIds : DeleteRepo(id) \/ AskForTask(id)
  \/ ReadRuns \/ RemoveRepo \/ WipeBoard
  \/ CreateTask
  \/ \E t \in Created : ChangeItem(t) \/ DeleteTask(t)
  \/ \E m \in mail : Notify(m)

(* Steps of a board that is assembled for a socket, or for all of them.     *)
SyncStep(s) ==
  \/ SendDeletion(s) \/ SendSnapshot(s)
  \/ \E id \in RepoIds : ReadSlice(s, id)

AskedFor(s, for) == syncs[s].at = "reading" /\ syncs[s].for = for

(* Sockets stay as they are, and nothing is taken from them.                *)
SocketsStay ==
  \A k \in Sockets : sockets'[k].at = sockets[k].at /\ Queued(k) \subseteq Queued(k)'

LEMMA SentStay ==
  ASSUME TypeOK, NEW m \in Message,
         \A k \in Sockets : sockets'[k] \in {sockets[k], Send(sockets, m)[k]}
  PROVE  SocketsStay
<1> SUFFICES ASSUME NEW k \in Sockets
             PROVE  sockets'[k].at = sockets[k].at /\ Queued(k) \subseteq Queued(k)'
  BY DEF SocketsStay
<1>1. sockets \in [Sockets -> Socket] /\ sockets[k].queue \in Seq(Message)
  BY DEF TypeOK, SocketsOK, Socket
<1>2. CASE sockets'[k] = sockets[k]
  BY <1>2 DEF Queued
<1>3. CASE sockets'[k] = Send(sockets, m)[k] /\ sockets[k].at = "open"
  <2>1. /\ sockets'[k].at = sockets[k].at
        /\ sockets'[k].queue = Append(sockets[k].queue, m)
    BY <1>1, <1>3, SendAppends
  <2> QED BY <1>1, <2>1, QueueAppend DEF Queued
<1>4. CASE sockets'[k] = Send(sockets, m)[k] /\ sockets[k].at # "open"
  BY <1>1, <1>2, <1>4, SendAppends
<1> QED BY <1>2, <1>3, <1>4

LEMMA IndexSteps ==
  ASSUME TypeOK, IndexStep
  PROVE  UNCHANGED <<syncs, browser, history>> /\ SocketsStay
<1>0. sockets \in [Sockets -> Socket] /\ list \in Nat
  BY DEF TypeOK, SocketsOK, ListOK
<1>1. ASSUME Broadcast
      PROVE  SocketsStay
  <2>1. RepoUpdated(list') \in Message
    BY <1>0, <1>1, MessagesSent DEF Broadcast
  <2> QED BY <1>1, <2>1, SentStay DEF Broadcast
<1>2. ASSUME NEW path \in Paths, CreateRepo(path) \/ \E id \in RepoIds : UpdateRepo(id, path)
      PROVE  UNCHANGED <<syncs, browser, history>> /\ SocketsStay
  BY <1>1, <1>2 DEF CreateRepo, UpdateRepo
<1>3. ASSUME NEW m \in mail, Notify(m)
      PROVE  UNCHANGED <<syncs, browser, history>> /\ SocketsStay
  <2>1. ItemUpdated(m) \in Message
    BY MessagesSent
  <2> QED BY <1>3, <2>1, SentStay DEF Notify
<1>4. ASSUME \/ \E id \in RepoIds : DeleteRepo(id) \/ AskForTask(id)
             \/ ReadRuns \/ RemoveRepo \/ WipeBoard \/ CreateTask
             \/ \E t \in Created : ChangeItem(t) \/ DeleteTask(t)
      PROVE  UNCHANGED <<syncs, browser, history>> /\ SocketsStay
  <2>1. UNCHANGED <<syncs, browser, history, sockets>>
    BY <1>4 DEF DeleteRepo, AskForTask, ReadRuns, RemoveRepo, WipeBoard, CreateTask,
                ChangeItem, DeleteTask
  <2> QED BY <2>1 DEF SocketsStay, Queued
<1> QED BY <1>2, <1>3, <1>4 DEF IndexStep

LEMMA SyncSteps ==
  ASSUME TypeOK, NEW s \in Syncs, SyncStep(s)
  PROVE  /\ UNCHANGED <<browser, history>> /\ SocketsStay
         /\ \A r \in Syncs \ {s} : syncs'[r] = syncs[r]
         /\ \A r \in Syncs, for \in {"browser", "start"} : AskedFor(r, for)' <=> AskedFor(r, for)
<1>0. syncs \in [Syncs -> Sync] /\ sockets \in [Sockets -> Socket]
  BY DEF TypeOK, SyncsOK, SocketsOK
<1>1. CASE SendDeletion(s)
  <2>1. /\ UNCHANGED <<browser, history, sockets>> /\ syncs[s].at = "idle"
        /\ syncs' = [syncs EXCEPT ![s] = Begin("all", 0)]
    BY <1>1 DEF SendDeletion, Free
  <2>2. Begin("all", 0).for = "all"
    BY DEF Begin
  <2> QED BY <1>0, <2>1, <2>2 DEF AskedFor, SocketsStay, Queued
<1>2. CASE SendSnapshot(s)
  <2>1. /\ UNCHANGED <<browser, history>> /\ syncs[s].for \in {"socket", "all"}
        /\ syncs' = [syncs EXCEPT ![s] = Idle]
    BY <1>2 DEF SendSnapshot
  <2>2. Idle.at = "idle"
    BY DEF Idle
  <2>3. SocketsStay
    <3>1. \A k \in Sockets : sockets'[k] \in {sockets[k], Send(sockets, Snapshot(syncs[s]))[k]}
      BY <1>2 DEF SendSnapshot
    <3> QED BY <3>1, MessagesSent, SentStay
  <2> QED BY <1>0, <2>1, <2>2, <2>3 DEF AskedFor
<1>3. ASSUME NEW id \in RepoIds, ReadSlice(s, id)
      PROVE  /\ UNCHANGED <<browser, history, sockets>>
             /\ \A r \in Syncs \ {s} : syncs'[r] = syncs[r]
             /\ syncs'[s].at = syncs[s].at /\ syncs'[s].for = syncs[s].for
  BY <1>0, <1>3 DEF ReadSlice, Sync
<1> QED BY <1>1, <1>2, <1>3 DEF SyncStep, AskedFor, SocketsStay, Queued

LEMMA StepKinds ==
  ASSUME [Next]_vars
  PROVE  \/ IndexStep
         \/ \E s \in Syncs : \/ SyncStep(s) \/ Refreshed(s) \/ Started(s) \/ RefreshFails(s)
                             \/ Refresh(s) \/ Reconnect(s) \/ Login(s)
                             \/ \E k \in Sockets : Accept(k, s)
         \/ \E k \in Sockets : Drop(k) \/ Receive(k) \/ OnClose(k)
         \/ Logout \/ UNCHANGED vars
BY DEF Next, IndexStep, SyncStep

(* Boards that somebody asked for, and boards for sockets.                  *)
LEMMA SyncsReplaced ==
  ASSUME TypeOK, NEW s \in Syncs, NEW new, syncs' = [syncs EXCEPT ![s] = new]
  PROVE  /\ \A r \in Syncs \ {s} : syncs'[r] = syncs[r]
         /\ syncs'[s] = new
BY DEF TypeOK, SyncsOK

LEMMA SocketReplaced ==
  ASSUME TypeOK, NEW k \in Sockets, NEW new, sockets' = [sockets EXCEPT ![k] = new]
  PROVE  /\ \A j \in Sockets \ {k} : sockets'[j] = sockets[j]
         /\ sockets'[k] = new
BY DEF TypeOK, SocketsOK

LEMMA SilentNext ==
  ASSUME TypeOK, Silent, [Next]_vars
  PROVE  Silent'
<1> USE IndexAssumption
<1> DEFINE Nobody == \A s \in Syncs, for \in {"browser", "start"} : ~AskedFor(s, for)
<1>0. /\ Silent <=> (~browser.signedIn /\ ~leak =>
                       browser.blank /\ Connection = {} /\ Nobody)
      /\ Silent' <=> (~browser'.signedIn /\ ~leak' =>
                       browser'.blank /\ Connection' = {} /\ Nobody')
  BY IndexTypes DEF Silent, AskedFor, TypeOK, SyncsOK, Sync
<1>1. CASE IndexStep
  BY <1>0, <1>1, IndexSteps DEF SocketsStay, Connection, AskedFor, history
<1>2. ASSUME NEW s \in Syncs, SyncStep(s)
      PROVE  Silent'
  BY <1>0, <1>2, SyncSteps DEF SocketsStay, Connection, history
<1>3. ASSUME NEW s \in Syncs, Refreshed(s) \/ Started(s) \/ RefreshFails(s)
      PROVE  Silent'
  <2>1. AskedFor(s, "browser") \/ AskedFor(s, "start")
    BY <1>3 DEF Refreshed, Started, RefreshFails, Assembled, AskedFor, TypeOK, SyncsOK, Sync
  <2>2. browser'.signedIn = browser.signedIn /\ leak' = leak
    BY <1>3 DEF Refreshed, Started, RefreshFails, TypeOK, BrowserOK
  <2> QED BY <1>0, <2>1, <2>2
<1>4. ASSUME NEW s \in Syncs, Refresh(s) \/ Login(s)
      PROVE  Silent'
  <2>1. browser'.signedIn
    BY <1>4 DEF Refresh, Login, TypeOK, BrowserOK
  <2> QED BY <1>0, <2>1
<1>5. ASSUME NEW s \in Syncs, Reconnect(s)
      PROVE  Silent'
  <2> SUFFICES ASSUME ~browser'.signedIn, ~leak'
               PROVE  browser'.blank /\ Connection' = {} /\ Nobody'
    BY <1>0
  <2>1. ~browser.signedIn /\ ~leak /\ browser'.blank = browser.blank
    BY <1>5 DEF Reconnect, TypeOK, BrowserOK, history
  <2>2. syncs' = [syncs EXCEPT ![s] = Idle]
    BY <1>5, <2>1 DEF Reconnect, Ask
  <2>3. Idle.at = "idle"
    BY DEF Idle
  <2>4. Nobody'
    BY <1>0, <2>1, <2>2, <2>3, SyncsReplaced DEF AskedFor
  <2>5. NewSocket \in Sockets /\ sockets' = [sockets EXCEPT ![NewSocket] = Empty("asked")]
    BY <1>5 DEF Reconnect, NewSocket, Unused, Connected
  <2>6. Connection' \subseteq Connection
    BY <2>5, SocketReplaced, EmptySocket DEF Connection
  <2> QED BY <1>0, <2>1, <2>4, <2>6
<1>6. ASSUME NEW k \in Sockets, Connection' \subseteq Connection, UNCHANGED <<browser, leak>>,
             \A s \in Syncs : syncs'[s] \in {syncs[s], Idle}
      PROVE  Silent'
  <2>1. Idle.at = "idle"
    BY DEF Idle
  <2>2. Nobody => Nobody'
    BY <1>6, <2>1 DEF AskedFor
  <2> QED BY <1>0, <1>6, <2>2
<1>7. ASSUME NEW s \in Syncs, NEW k \in Sockets, Accept(k, s)
      PROVE  Silent'
  <2>1. CASE browser.signedIn
    BY <1>0, <1>7, <2>1 DEF Accept
  <2>2. CASE ~browser.signedIn
    <3>1. /\ sockets' = [sockets EXCEPT ![k] = Empty("closing")]
          /\ UNCHANGED <<syncs, browser, leak>>
      BY <1>7, <2>2 DEF Accept, history
    <3>2. Connection' \subseteq Connection
      BY <3>1, SocketReplaced, EmptySocket DEF Connection
    <3> QED BY <1>6, <3>1, <3>2
  <2> QED BY <2>1, <2>2
<1>8. ASSUME NEW k \in Sockets, Drop(k)
      PROVE  Silent'
  <2>1. sockets' = [sockets EXCEPT ![k] = Empty("closing")] /\ UNCHANGED <<browser, leak>>
    BY <1>8 DEF Drop, Close, history
  <2>2. Connection' \subseteq Connection
    BY <2>1, SocketReplaced, EmptySocket DEF Connection
  <2>3. \A s \in Syncs : syncs'[s] \in {syncs[s], Idle}
    BY <1>8 DEF Drop, Without
  <2> QED BY <1>6, <2>1, <2>2, <2>3
<1>9. ASSUME NEW k \in Sockets, Receive(k)
      PROVE  Silent'
  <2>1. k \in Connection
    BY <1>9, HeadOfQueue DEF Receive, Connection
  <2>2. browser'.signedIn = browser.signedIn /\ leak' = leak
    BY <1>9 DEF Receive, TypeOK, BrowserOK
  <2> QED BY <1>0, <2>1, <2>2
<1>10. ASSUME NEW k \in Sockets, OnClose(k)
       PROVE  Silent'
  <2>1. /\ sockets' = [sockets EXCEPT ![k] = Empty("closed")] /\ UNCHANGED <<syncs, leak>>
        /\ browser'.signedIn = browser.signedIn /\ browser'.blank = browser.blank
    BY <1>10 DEF OnClose, history, TypeOK, BrowserOK
  <2>2. Connection' \subseteq Connection
    BY <2>1, SocketReplaced, EmptySocket DEF Connection
  <2> QED BY <1>0, <2>1, <2>2 DEF AskedFor
<1>11. CASE Logout
  <2> SUFFICES ASSUME ~leak'
               PROVE  browser'.blank /\ Connection' = {} /\ Nobody'
    BY <1>0
  <2>1. ~OnItsWay /\ browser'.blank
    BY <1>11 DEF Logout, TypeOK, BrowserOK
  <2>2. Nobody /\ Connection \subseteq {browser.socket}
    BY <2>1 DEF OnItsWay, AskedFor, Connection
  <2>3. CASE browser.socket = 0
    <3>1. UNCHANGED <<sockets, syncs>> /\ 0 \notin Sockets
      BY <1>11, <2>3 DEF Logout
    <3> QED BY <2>1, <2>2, <2>3, <3>1 DEF Connection, AskedFor
  <2>4. CASE browser.socket # 0
    <3>1. /\ browser.socket \in Sockets
          /\ sockets' = [sockets EXCEPT ![browser.socket] = Empty("closing")]
          /\ syncs' = Without(browser.socket)
      BY <1>11, <2>4 DEF Logout, Close, TypeOK, BrowserOK
    <3>2. /\ \A j \in Sockets \ {browser.socket} : sockets'[j] = sockets[j]
          /\ sockets'[browser.socket] = Empty("closing") /\ Empty("closing").at = "closing"
      BY <3>1, SocketReplaced, EmptySocket
    <3>3. Nobody'
      BY <2>2, <3>1 DEF Without, AskedFor, Idle
    <3>4. ASSUME NEW j \in Sockets PROVE sockets'[j].at # "open"
      <4>1. CASE j = browser.socket
        BY <3>2, <4>1
      <4>2. CASE j # browser.socket
        <5>1. sockets[j].at # "open"
          BY <2>2, <4>2 DEF Connection
        <5> QED BY <3>2, <4>2, <5>1
      <4> QED BY <4>1, <4>2
    <3>5. Connection' = {}
      BY <3>4 DEF Connection
    <3> QED BY <2>1, <3>3, <3>5
  <2> QED BY <2>3, <2>4
<1>12. CASE UNCHANGED vars
  BY <1>0, <1>12 DEF vars, Connection, AskedFor
<1> QED BY <1>1, <1>2, <1>3, <1>4, <1>5, <1>7, <1>8, <1>9, <1>10, <1>11, <1>12, StepKinds

(* Sockets after a step of the browser or of a socket.                      *)
LEMMA SocketSteps ==
  ASSUME TypeOK
  PROVE  /\ \A s \in Syncs : Started(s) \/ Reconnect(s) =>
              /\ NewSocket \in Sockets /\ sockets[NewSocket].at = "closed"
              /\ sockets'[NewSocket].at = "asked"
              /\ \A j \in Sockets \ {NewSocket} : sockets'[j] = sockets[j]
         /\ \A s \in Syncs, k \in Sockets : Accept(k, s) =>
              /\ sockets[k].at = "asked"
              /\ sockets'[k].at = IF browser.signedIn THEN "open" ELSE "closing"
              /\ \A j \in Sockets \ {k} : sockets'[j] = sockets[j]
         /\ \A k \in Sockets : Drop(k) =>
              /\ sockets[k].at \in {"asked", "open"} /\ sockets'[k].at = "closing"
              /\ \A j \in Sockets \ {k} : sockets'[j] = sockets[j]
         /\ \A k \in Sockets : OnClose(k) =>
              /\ sockets[k].at = "closing" /\ sockets'[k].at = "closed"
              /\ \A j \in Sockets \ {k} : sockets'[j] = sockets[j]
         /\ \A k \in Sockets : Receive(k) =>
              /\ sockets[k].at = "open" /\ sockets'[k].at = "open"
              /\ \A j \in Sockets \ {k} : sockets'[j] = sockets[j]
         /\ Logout =>
              \/ browser.socket = 0 /\ sockets' = sockets
              \/ /\ browser.socket \in Sockets /\ sockets'[browser.socket].at = "closing"
                 /\ \A j \in Sockets \ {browser.socket} : sockets'[j] = sockets[j]
<1>1. ASSUME NEW s \in Syncs, Started(s) \/ Reconnect(s)
      PROVE  /\ NewSocket \in Sockets /\ sockets[NewSocket].at = "closed"
             /\ sockets'[NewSocket].at = "asked"
             /\ \A j \in Sockets \ {NewSocket} : sockets'[j] = sockets[j]
  <2>1. /\ NewSocket \in Sockets /\ sockets[NewSocket].at = "closed"
        /\ sockets' = [sockets EXCEPT ![NewSocket] = Empty("asked")]
    BY <1>1 DEF Started, Reconnect, Connected, NewSocket, Unused
  <2> QED BY <2>1, EmptySocket, SocketReplaced
<1>2. ASSUME NEW s \in Syncs, NEW k \in Sockets, Accept(k, s)
      PROVE  /\ sockets[k].at = "asked"
             /\ sockets'[k].at = IF browser.signedIn THEN "open" ELSE "closing"
             /\ \A j \in Sockets \ {k} : sockets'[j] = sockets[j]
  <2>1. /\ sockets[k].at = "asked"
        /\ browser.signedIn => sockets' = [sockets EXCEPT ![k] = Empty("open")]
        /\ ~browser.signedIn => sockets' = [sockets EXCEPT ![k] = Empty("closing")]
    BY <1>2 DEF Accept
  <2> QED BY <2>1, EmptySocket, SocketReplaced
<1>3. ASSUME NEW k \in Sockets, Drop(k)
      PROVE  /\ sockets[k].at \in {"asked", "open"} /\ sockets'[k].at = "closing"
             /\ \A j \in Sockets \ {k} : sockets'[j] = sockets[j]
  BY <1>3, EmptySocket, SocketReplaced DEF Drop, Close
<1>4. ASSUME NEW k \in Sockets, OnClose(k)
      PROVE  /\ sockets[k].at = "closing" /\ sockets'[k].at = "closed"
             /\ \A j \in Sockets \ {k} : sockets'[j] = sockets[j]
  BY <1>4, EmptySocket, SocketReplaced DEF OnClose
<1>5. ASSUME NEW k \in Sockets, Receive(k)
      PROVE  /\ sockets[k].at = "open" /\ sockets'[k].at = "open"
             /\ \A j \in Sockets \ {k} : sockets'[j] = sockets[j]
  <2>1. sockets[k].at = "open" /\ sockets[k] \in Socket
    BY <1>5, HeadOfQueue DEF Receive, TypeOK, SocketsOK
  <2>2. sockets' = [sockets EXCEPT ![k] = [sockets[k] EXCEPT !.queue = Tail(sockets[k].queue)]]
    BY <1>5 DEF Receive
  <2>3. [sockets[k] EXCEPT !.queue = Tail(sockets[k].queue)].at = "open"
    BY <2>1 DEF Socket
  <2> QED BY <2>1, <2>2, <2>3, SocketReplaced
<1>6. ASSUME Logout, ~(browser.socket = 0 /\ sockets' = sockets)
      PROVE  /\ browser.socket \in Sockets /\ sockets'[browser.socket].at = "closing"
             /\ \A j \in Sockets \ {browser.socket} : sockets'[j] = sockets[j]
  <2>1. /\ browser.socket \in Sockets
        /\ sockets' = [sockets EXCEPT ![browser.socket] = Empty("closing")]
    BY <1>6 DEF Logout, Close, TypeOK, BrowserOK
  <2>2. /\ \A j \in Sockets \ {browser.socket} : sockets'[j] = sockets[j]
        /\ sockets'[browser.socket] = Empty("closing")
    BY <2>1, SocketReplaced
  <2> QED BY <2>1, <2>2, EmptySocket
<1> QED BY <1>1, <1>2, <1>3, <1>4, <1>5, <1>6

LEMMA WaitingNext ==
  ASSUME TypeOK, Waiting, [Next]_vars
  PROVE  Waiting'
<1> USE IndexAssumption
<1> DEFINE Is(k, at) == sockets[k].at = at
<1>1. ASSUME SocketsStay, UNCHANGED browser
      PROVE  Waiting'
  BY <1>1 DEF SocketsStay, Waiting, Reconnecting, Connection
<1>2. CASE IndexStep
  BY <1>1, <1>2, IndexSteps
<1>3. ASSUME NEW s \in Syncs, SyncStep(s) \/ RefreshFails(s) \/ Refresh(s)
      PROVE  Waiting'
  <2>1. SocketsStay /\ UNCHANGED browser
    BY <1>3, SyncSteps DEF RefreshFails, Refresh, SocketsStay, Queued
  <2> QED BY <1>1, <2>1
<1>4. ASSUME SocketsStay, browser'.signedIn = browser.signedIn \/ browser'.signedIn,
             browser'.socket = browser.socket, browser'.timer = browser.timer
      PROVE  Waiting'
  BY <1>4 DEF SocketsStay, Waiting, Reconnecting, Connection
<1>5. ASSUME NEW s \in Syncs, Refreshed(s) \/ Login(s)
      PROVE  Waiting'
  BY <1>4, <1>5 DEF Refreshed, Login, TypeOK, BrowserOK, SocketsStay, Queued
<1>6. ASSUME NEW s \in Syncs, Started(s) \/ Reconnect(s)
      PROVE  Waiting'
  <2>1. NewSocket \in Sockets /\ sockets'[NewSocket].at = "asked" /\ NewSocket # 0
    BY <1>6, SocketSteps
  <2>2. browser'.socket = NewSocket
    BY <1>6 DEF Started, Reconnect, TypeOK, BrowserOK
  <2> QED BY <2>1, <2>2 DEF Waiting, Reconnecting
<1>7. ASSUME NEW s \in Syncs, NEW k \in Sockets, Accept(k, s)
      PROVE  Waiting'
  <2>1. UNCHANGED browser
    BY <1>7 DEF Accept
  <2> QED BY <1>7, <2>1, SocketSteps DEF Waiting, Reconnecting, Connection
<1>8. ASSUME NEW k \in Sockets, Drop(k)
      PROVE  Waiting'
  BY <1>8, SocketSteps DEF Drop, Waiting, Reconnecting
<1>9. ASSUME NEW k \in Sockets, Receive(k)
      PROVE  Waiting'
  <2>1. \A j \in Sockets : sockets'[j].at = sockets[j].at
    <3>1. /\ sockets[k].at = "open" /\ sockets'[k].at = "open"
          /\ \A j \in Sockets \ {k} : sockets'[j] = sockets[j]
      BY <1>9, SocketSteps
    <3> QED BY <3>1
  <2>2. /\ browser'.signedIn = browser.signedIn /\ browser'.socket = browser.socket
        /\ browser'.timer = browser.timer
    BY <1>9 DEF Receive, TypeOK, BrowserOK
  <2> QED BY <2>1, <2>2 DEF Waiting, Reconnecting, Connection
<1>10. ASSUME NEW k \in Sockets, OnClose(k)
       PROVE  Waiting'
  <2>1. browser'.timer
    BY <1>10 DEF OnClose, TypeOK, BrowserOK
  <2> QED BY <2>1 DEF Waiting, Reconnecting
<1>11. CASE Logout
  <2>1. browser'.timer = browser.timer /\ browser'.socket = 0 /\ ~browser'.signedIn
    BY <1>11 DEF Logout, TypeOK, BrowserOK
  <2>2. CASE browser.socket = 0 /\ sockets' = sockets
    BY <2>1, <2>2 DEF Waiting, Reconnecting, Connection
  <2>3. CASE browser.socket \in Sockets /\ sockets'[browser.socket].at = "closing"
    BY <2>1, <2>3 DEF Waiting, Reconnecting
  <2> QED BY <1>11, <2>2, <2>3, SocketSteps
<1>12. CASE UNCHANGED vars
  BY <1>1, <1>12 DEF vars, SocketsStay, Queued
<1> QED BY <1>2, <1>3, <1>5, <1>6, <1>7, <1>8, <1>9, <1>10, <1>11, <1>12, StepKinds

LEMMA ConnectingNext ==
  ASSUME TypeOK, Connecting, [Next]_vars
  PROVE  Connecting'
<1> USE IndexAssumption
<1> DEFINE Coming == \/ Reconnecting \/ Connection # {}
                     \/ \E s \in Syncs : AskedFor(s, "start")
<1>0. /\ Connecting <=> (browser.signedIn /\ ~unloaded => Coming)
      /\ Connecting' <=> (browser'.signedIn /\ ~unloaded' => Coming')
  BY DEF Connecting, AskedFor
<1>1. ASSUME \A k \in Sockets : sockets'[k].at = sockets[k].at,
             browser'.signedIn = browser.signedIn, browser'.timer = browser.timer,
             unloaded' = unloaded,
             \A s \in Syncs : AskedFor(s, "start") => AskedFor(s, "start")'
      PROVE  Connecting'
  <2>1. Coming => Coming'
    BY <1>1 DEF Reconnecting, Connection
  <2> QED BY <1>0, <1>1, <2>1
<1>2. CASE IndexStep
  BY <1>1, <1>2, IndexSteps DEF SocketsStay, AskedFor, history
<1>3. ASSUME NEW s \in Syncs, SyncStep(s)
      PROVE  Connecting'
  BY <1>1, <1>3, SyncSteps DEF SocketsStay, history
<1>4. ASSUME NEW k \in Sockets, sockets'[k].at \in {"asked", "closing", "open"}
      PROVE  Connecting'
  BY <1>0, <1>4 DEF Reconnecting, Connection
<1>5. ASSUME NEW s \in Syncs, Started(s) \/ Reconnect(s)
      PROVE  Connecting'
  BY <1>4, <1>5, SocketSteps
<1>6. ASSUME NEW s \in Syncs, NEW k \in Sockets, Accept(k, s)
      PROVE  Connecting'
  BY <1>4, <1>6, SocketSteps
<1>7. ASSUME NEW k \in Sockets, Drop(k) \/ Receive(k)
      PROVE  Connecting'
  BY <1>4, <1>7, SocketSteps
<1>8. ASSUME NEW k \in Sockets, OnClose(k)
      PROVE  Connecting'
  <2>1. browser'.timer
    BY <1>8 DEF OnClose, TypeOK, BrowserOK
  <2> QED BY <1>0, <2>1 DEF Reconnecting
<1>9. CASE Logout
  <2>1. ~browser'.signedIn
    BY <1>9 DEF Logout, TypeOK, BrowserOK
  <2> QED BY <1>0, <2>1
<1>10. ASSUME NEW s \in Syncs, Login(s)
       PROVE  Connecting'
  <2>1. syncs' = [syncs EXCEPT ![s] = Begin("start", 0)]
    BY <1>10 DEF Login, Ask
  <2>2. Begin("start", 0).at = "reading" /\ Begin("start", 0).for = "start"
    BY DEF Begin
  <2>3. AskedFor(s, "start")'
    BY <2>1, <2>2, SyncsReplaced DEF AskedFor
  <2> QED BY <1>0, <2>3
<1>11. ASSUME NEW s \in Syncs, Refreshed(s)
       PROVE  Connecting'
  <2>1. /\ syncs[s].for = "browser" /\ syncs' = [syncs EXCEPT ![s] = Idle]
        /\ UNCHANGED <<sockets, unloaded>>
        /\ browser'.signedIn = browser.signedIn /\ browser'.timer = browser.timer
    BY <1>11 DEF Refreshed, TypeOK, BrowserOK
  <2>2. \A r \in Syncs : AskedFor(r, "start") => AskedFor(r, "start")'
    BY <2>1, SyncsReplaced DEF AskedFor
  <2> QED BY <1>1, <2>1, <2>2
<1>12. ASSUME NEW s \in Syncs, RefreshFails(s)
       PROVE  Connecting'
  <2>1. /\ unloaded' = (unloaded \/ syncs[s].for = "start") /\ UNCHANGED <<sockets, browser>>
        /\ syncs' = [syncs EXCEPT ![s] = Idle]
    BY <1>12 DEF RefreshFails
  <2>2. CASE syncs[s].for = "start"
    BY <1>0, <2>1, <2>2
  <2>3. CASE syncs[s].for # "start"
    <3>1. \A r \in Syncs : AskedFor(r, "start") => AskedFor(r, "start")'
      BY <2>1, <2>3, SyncsReplaced DEF AskedFor
    <3>2. unloaded' = unloaded
      BY <2>1, <2>3 DEF TypeOK, BrowserOK
    <3> QED BY <1>1, <2>1, <3>1, <3>2
  <2> QED BY <2>2, <2>3
<1>13. ASSUME NEW s \in Syncs, Refresh(s)
       PROVE  Connecting'
  <2>1. syncs' = [syncs EXCEPT ![s] = Ask("browser")] /\ UNCHANGED <<sockets, browser, unloaded>>
        /\ syncs[s].at = "idle"
    BY <1>13 DEF Refresh, Free, history
  <2>2. \A r \in Syncs : AskedFor(r, "start") => AskedFor(r, "start")'
    BY <2>1, SyncsReplaced DEF AskedFor
  <2> QED BY <1>1, <2>1, <2>2
<1>14. CASE UNCHANGED vars
  BY <1>1, <1>14 DEF vars, AskedFor
<1> QED BY <1>2, <1>3, <1>5, <1>6, <1>7, <1>8, <1>9, <1>10, <1>11, <1>12, <1>13, <1>14,
           StepKinds

-----------------------------------------------------------------------------
(* What is on its way to the browser.                                       *)

LEMMA CreatedTasks ==
  ASSUME BoardsOK
  PROVE  \A t \in Created : t \in Tasks /\ home[t] \in RepoIds
<1>1. home \in Seq(RepoIds) /\ Len(home) <= MaxTasks /\ MaxTasks \in Nat
  BY IndexAssumption DEF BoardsOK
<1> QED BY <1>1 DEF Created, Tasks

LEMMA ListReachesOn ==
  ASSUME TypeOK, NEW k \in Sockets, sockets[k].at = "open", ListReaches(k), IndexStep
  PROVE  ListReaches(k)'
<1> USE IndexAssumption
<1>1. UNCHANGED <<syncs, told>> /\ Queued(k) \subseteq Queued(k)'
  BY IndexSteps DEF SocketsStay, history
<1>2. ASSUME list' = list, deletion.at \in {"wipe", "sync"} => deletion'.at \in {"wipe", "sync"}
      PROVE  ListReaches(k)'
  BY <1>1, <1>2 DEF ListReaches
<1>3. ASSUME NEW path \in Paths, CreateRepo(path) \/ \E id \in RepoIds : UpdateRepo(id, path)
      PROVE  ListReaches(k)'
  <2>1. sockets' = Send(sockets, RepoUpdated(list')) /\ list' = list + 1
    BY <1>3 DEF CreateRepo, UpdateRepo, Broadcast
  <2>2. RepoUpdated(list') \in Message /\ sockets \in [Sockets -> Socket]
        /\ sockets[k].queue \in Seq(Message)
    <3>1. list' \in Nat
      BY <2>1 DEF TypeOK, ListOK
    <3>2. sockets \in [Sockets -> Socket] /\ sockets[k].queue \in Seq(Message)
      BY DEF TypeOK, SocketsOK, Socket
    <3> QED BY <3>1, <3>2, MessagesSent
  <2>3. RepoUpdated(list') \in Queued(k)'
    <3>1. sockets'[k].queue = Append(sockets[k].queue, RepoUpdated(list'))
      BY <2>1, <2>2, SendAppends
    <3> QED BY <2>2, <3>1, QueueAppend DEF Queued
  <2>4. RepoUpdated(list').kind = "repo" /\ RepoUpdated(list').list = list'
    BY DEF RepoUpdated
  <2> QED BY <2>3, <2>4 DEF ListReaches
<1>4. CASE RemoveRepo
  <2>1. deletion'.at = "wipe"
    BY <1>4 DEF RemoveRepo, TypeOK, ListOK
  <2> QED BY <2>1 DEF ListReaches
<1>5. CASE WipeBoard
  <2>1. deletion'.at = "sync" /\ list' = list
    BY <1>5 DEF WipeBoard, TypeOK, ListOK
  <2> QED BY <1>2, <2>1
<1>6. ASSUME \/ \E id \in RepoIds : DeleteRepo(id) \/ AskForTask(id)
             \/ ReadRuns \/ CreateTask
             \/ \E t \in Created : ChangeItem(t) \/ DeleteTask(t)
             \/ \E m \in mail : Notify(m)
      PROVE  ListReaches(k)'
  BY <1>2, <1>6 DEF DeleteRepo, AskForTask, ReadRuns, CreateTask, ChangeItem, DeleteTask,
                    Notify, index
<1> QED BY <1>3, <1>4, <1>5, <1>6 DEF IndexStep

LEMMA ItemsReachOn ==
  ASSUME TypeOK, TypeOK', NEW k \in Sockets, Covers(k), IndexStep, NEW t \in Standing',
         NEW ver, ver = boards'[home'[t]][t]
  PROVE  ItemReaches(k, t, ver)'
<1> USE IndexAssumption
<1>1. /\ UNCHANGED <<syncs, told>> /\ Queued(k) \subseteq Queued(k)'
      /\ sockets[k].at = "open" /\ sockets \in [Sockets -> Socket]
      /\ sockets[k].queue \in Seq(Message)
  BY IndexSteps DEF SocketsStay, history, Covers, TypeOK, SocketsOK, Socket
<1>2. \A u \in Created : u \in Tasks /\ home[u] \in RepoIds
  BY CreatedTasks DEF TypeOK
(* Its item has not changed, and no mail was delivered.                     *)
<1>3. ASSUME t \in Standing, home'[t] = home[t], ver = boards[home[t]][t], mail \subseteq mail'
      PROVE  ItemReaches(k, t, ver)'
  <2>1. ItemReaches(k, t, ver)
    BY <1>3 DEF Covers
  <2> QED BY <1>1, <1>3, <2>1 DEF ItemReaches
<1>4. ASSUME UNCHANGED work,
             deletion.at = "wipe" => deletion' = deletion
      PROVE  ItemReaches(k, t, ver)'
  <2>1. t \in Standing
    BY <1>4 DEF Standing, Created, work
  <2> QED BY <1>3, <1>4, <2>1 DEF work
<1>5. ASSUME \/ \E path \in Paths : CreateRepo(path) \/ \E id \in RepoIds : UpdateRepo(id, path)
             \/ \E id \in RepoIds : DeleteRepo(id)
             \/ ReadRuns \/ RemoveRepo
      PROVE  ItemReaches(k, t, ver)'
  BY <1>4, <1>5 DEF CreateRepo, UpdateRepo, DeleteRepo, ReadRuns, RemoveRepo
<1>6. ASSUME NEW id \in RepoIds, AskForTask(id)
      PROVE  ItemReaches(k, t, ver)'
  <2>1. UNCHANGED <<deletion, home, boards, late, mail>>
    BY <1>6 DEF AskForTask, index
  <2> QED BY <1>3, <2>1 DEF Standing, Created
<1>7. CASE WipeBoard
  <2>1. /\ deletion.id \in RepoIds /\ boards' = [boards EXCEPT ![deletion.id] = NoItems]
        /\ UNCHANGED <<home, late, mail>>
    BY <1>7 DEF WipeBoard, TypeOK, ListOK
  <2>2. t \in Created \ late /\ t \in Tasks /\ home[t] \in RepoIds /\ boards'[home[t]][t] # 0
    BY <1>2, <2>1 DEF Standing, Created
  <2>3. home[t] # deletion.id /\ boards'[home[t]] = boards[home[t]]
    BY <2>1, <2>2 DEF TypeOK, BoardsOK, NoItems
  <2>4. t \in Standing
    BY <2>2, <2>3 DEF Standing
  <2> QED BY <1>3, <2>1, <2>3, <2>4
<1>8. ASSUME NEW m \in mail', m.task = t, m.ver >= ver
      PROVE  ItemReaches(k, t, ver)'
  BY <1>8 DEF ItemReaches
<1>9. CASE CreateTask
  <2> DEFINE new == Len(home) + 1
  <2>1. /\ asked \in RepoIds /\ new \in Tasks /\ new \notin Created
        /\ home'[new] = asked /\ Len(home') = new /\ Created' = Created \cup {new}
        /\ \A u \in Created : home'[u] = home[u]
    BY <1>9 DEF CreateTask, TypeOK, BoardsOK, Created, Tasks
  <2>2. /\ boards' = [boards EXCEPT ![asked][new] = 1]
        /\ mail' = mail \cup {[task |-> new, ver |-> 1]}
    BY <1>9, <2>1 DEF CreateTask, Put
  <2>3. \A id \in RepoIds, u \in Tasks :
          boards'[id][u] = IF id = asked /\ u = new THEN 1 ELSE boards[id][u]
    BY <2>1, <2>2 DEF TypeOK, BoardsOK, Board
  <2>4. deletion' = deletion /\ late \subseteq late'
    BY <1>9 DEF CreateTask, index
  <2>5. CASE t = new
    <3>1. ver = 1 /\ [task |-> new, ver |-> 1] \in mail'
      BY <2>1, <2>2, <2>3, <2>5
    <3> QED BY <1>8, <2>5, <3>1
  <2>6. CASE t # new
    <3>1. t \in Created /\ home'[t] = home[t] /\ ver = boards[home[t]][t]
      BY <1>2, <2>1, <2>3, <2>6 DEF Standing
    <3>2. t \in Standing
      BY <2>4, <3>1 DEF Standing
    <3> QED BY <1>3, <2>2, <3>1, <3>2
  <2> QED BY <2>5, <2>6
<1>10. ASSUME NEW u \in Created, ChangeItem(u)
       PROVE  ItemReaches(k, t, ver)'
  <2> DEFINE next == boards[home[u]][u] + 1
  <2>1. /\ boards' = [boards EXCEPT ![home[u]][u] = next] /\ home' = home
        /\ mail' = mail \cup {[task |-> u, ver |-> next]}
        /\ UNCHANGED <<deletion, late>>
    BY <1>10 DEF ChangeItem, Put, index
  <2>2. /\ boards'[home[u]][u] = next /\ next \in Nat
        /\ \A id \in RepoIds, o \in Tasks : o # u => boards'[id][o] = boards[id][o]
    BY <1>2, <2>1 DEF TypeOK, BoardsOK, Board
  <2>3. CASE t = u
    <3>1. ver = next /\ [task |-> u, ver |-> next] \in mail'
      BY <2>1, <2>2, <2>3
    <3> QED BY <1>8, <2>2, <2>3, <3>1
  <2>4. CASE t # u
    <3>1. t \in Created /\ ver = boards[home[t]][t]
      BY <1>2, <2>1, <2>2, <2>4 DEF Standing, Created
    <3>2. t \in Standing
      BY <2>1, <3>1 DEF Standing
    <3> QED BY <1>3, <2>1, <3>1, <3>2
  <2> QED BY <2>3, <2>4
<1>11. ASSUME NEW u \in Created, DeleteTask(u)
       PROVE  ItemReaches(k, t, ver)'
  <2>1. /\ boards' = [boards EXCEPT ![home[u]][u] = 0]
        /\ UNCHANGED <<deletion, late, home, mail>>
    BY <1>11 DEF DeleteTask, index
  <2>0. home[u] \in RepoIds /\ u \in Tasks /\ boards \in [RepoIds -> [Tasks -> Nat]]
    BY <1>2 DEF TypeOK, BoardsOK, Board
  <2>2. \A id \in RepoIds, o \in Tasks :
          boards'[id][o] = IF id = home[u] /\ o = u THEN 0 ELSE boards[id][o]
    BY <2>0, <2>1
  <2>3. t \in Created \ late /\ boards'[home[t]][t] # 0 /\ ver = boards'[home[t]][t]
    BY <2>1 DEF Standing, Created
  <2>4. ver = boards[home[t]][t]
    BY <1>2, <2>2, <2>3
  <2>5. t \in Standing
    BY <2>1, <2>3, <2>4 DEF Standing
  <2> QED BY <1>3, <2>1, <2>4, <2>5
<1>12. ASSUME NEW m \in mail, Notify(m)
       PROVE  ItemReaches(k, t, ver)'
  <2>1. /\ mail' = mail \ {m} /\ sockets' = Send(sockets, ItemUpdated(m))
        /\ UNCHANGED <<deletion, late, home, boards>>
    BY <1>12 DEF Notify, index
  <2>2. t \in Standing /\ ver = boards[home[t]][t]
    BY <2>1 DEF Standing, Created
  <2>3. ItemReaches(k, t, ver)
    BY <2>2 DEF Covers
  <2>4. CASE m.task = t /\ m.ver >= ver
    <3>1. ItemUpdated(m) \in Message
      BY MessagesSent DEF TypeOK
    <3>2. sockets'[k].queue = Append(sockets[k].queue, ItemUpdated(m))
      BY <1>1, <2>1, <3>1, SendAppends
    <3>3. ItemUpdated(m) \in Queued(k)'
      BY <1>1, <3>1, <3>2, QueueAppend DEF Queued
    <3>4. Carries(ItemUpdated(m), t, ver)
      BY <2>4 DEF Carries, ItemUpdated
    <3> QED BY <3>3, <3>4 DEF ItemReaches
  <2>5. CASE ~(m.task = t /\ m.ver >= ver)
    BY <1>1, <2>1, <2>3, <2>5 DEF ItemReaches
  <2> QED BY <2>4, <2>5
<1> QED BY <1>5, <1>6, <1>7, <1>9, <1>10, <1>11, <1>12 DEF IndexStep

LEMMA CoversOn ==
  ASSUME TypeOK, TypeOK', NEW k \in Sockets, Covers(k), IndexStep
  PROVE  Covers(k)'
<1>1. sockets'[k].at = "open"
  BY IndexSteps DEF Covers, SocketsStay
<1>2. ListReaches(k)'
  BY ListReachesOn DEF Covers
<1>3. \A t \in Standing' : ItemReaches(k, t, boards[home[t]][t])'
  <2> SUFFICES ASSUME NEW t \in Standing'
               PROVE  ItemReaches(k, t, boards[home[t]][t])'
    OBVIOUS
  <2>1. PICK ver : ver = boards'[home'[t]][t]
    OBVIOUS
  <2>2. ItemReaches(k, t, ver)'
    BY <2>1, ItemsReachOn
  <2> QED BY <2>1, <2>2 DEF ItemReaches
<1> QED BY <1>1, <1>2, <1>3 DEF Covers


(* What was told, or is in what was told.                                   *)
IsTold(m) ==
  /\ m.kind \in {"snapshot", "repo"} => m.list <= told.list
  /\ \A t \in Tasks, ver \in Nat : Carries(m, t, ver) => ver <= told.items[t]

(* Steps of the browser: what was told grows, a queue keeps what was not    *)
(* told, and the boards for sockets go on being assembled.                  *)
LEMMA CoversStays ==
  ASSUME TypeOK, TypeOK', NEW k \in Sockets, Covers(k), UNCHANGED <<index, work, list>>,
         sockets'[k].at = "open",
         told.list <= told'.list, \A t \in Tasks : told.items[t] <= told'.items[t],
         \A m \in Queued(k) : m \in Queued(k)' \/ IsTold(m)',
         \A s \in Syncs : syncs[s].at = "reading" /\ syncs[s].for \in {"socket", "all"}
                             => syncs'[s] = syncs[s]
  PROVE  Covers(k)'
<1>0. /\ told.list \in Nat /\ told'.list \in Nat /\ list \in Nat /\ told'.list <= list
      /\ told.items \in [Tasks -> Nat] /\ told'.items \in [Tasks -> Nat]
      /\ sockets[k].queue \in Seq(Message)
  BY DEF TypeOK, BrowserOK, Board, ListOK, SocketsOK, Socket, index
<1>1. ListReaches(k)'
  <2>0. ListReaches(k) /\ UNCHANGED <<deletion, list>>
    BY DEF Covers, index
  <2>1. CASE told.list = list
    BY <1>0, <2>0, <2>1 DEF ListReaches
  <2>2. ASSUME NEW m \in Queued(k), m.kind \in {"snapshot", "repo"}, m.list = list
        PROVE  ListReaches(k)'
    BY <1>0, <2>0, <2>2 DEF ListReaches, IsTold
  <2>3. CASE deletion.at \in {"wipe", "sync"}
    BY <2>0, <2>3 DEF ListReaches
  <2>4. ASSUME NEW s \in Syncs, syncs[s].at = "reading", syncs[s].list = list,
               \/ syncs[s].for = "all"
               \/ syncs[s].for = "socket" /\ syncs[s].socket = k
        PROVE  ListReaches(k)'
    BY <2>0, <2>4 DEF ListReaches
  <2> QED BY <2>0, <2>1, <2>2, <2>3, <2>4 DEF ListReaches
<1>2. ASSUME NEW t \in Standing', NEW ver, ver = boards'[home'[t]][t]
      PROVE  ItemReaches(k, t, ver)'
  <2>0. UNCHANGED <<deletion, boards, home, mail, late>>
    BY DEF index, work
  <2>1. t \in Standing /\ ver = boards[home[t]][t] /\ t \in Tasks /\ ver \in Nat
    <3>1. t \in Standing /\ ver = boards[home[t]][t]
      BY <1>2, <2>0 DEF Standing, Created
    <3>2. t \in Tasks /\ home[t] \in RepoIds
      BY <3>1, CreatedTasks DEF Standing, TypeOK
    <3> QED BY <3>1, <3>2 DEF TypeOK, BoardsOK, Board
  <2>2. ItemReaches(k, t, ver)
    BY <2>1 DEF Covers
  <2>3. CASE told.items[t] >= ver
    BY <1>0, <2>1, <2>3 DEF ItemReaches
  <2>4. ASSUME NEW m \in Queued(k), Carries(m, t, ver)
        PROVE  ItemReaches(k, t, ver)'
    <3>1. CASE m \in Queued(k)'
      BY <2>4, <3>1 DEF ItemReaches
    <3>2. CASE IsTold(m)'
      <4>1. Carries(m, t, ver)'
        BY <2>4 DEF Carries
      <4>2. ver <= told'.items[t]
        BY <2>1, <3>2, <4>1 DEF IsTold
      <4> QED BY <1>0, <2>1, <4>2 DEF ItemReaches
    <3> QED BY <3>1, <3>2
  <2> QED BY <2>0, <2>1, <2>2, <2>3, <2>4 DEF ItemReaches
<1>3. \A t \in Standing' : ItemReaches(k, t, boards[home[t]][t])'
  BY <1>2 DEF ItemReaches
<1> QED BY <1>1, <1>3 DEF Covers

LEMMA ToldReceived ==
  ASSUME TypeOK, NEW m \in Message, m.kind \in {"snapshot", "repo"} => m.list <= list, Told(m)
  PROVE  /\ IsTold(m)' /\ told.list <= told'.list
         /\ \A t \in Tasks : told.items[t] <= told'.items[t]
<1>1. told \in [list : Nat, items : Board] /\ told.list <= list /\ list \in Nat
  BY DEF TypeOK, BrowserOK, ListOK
<1>2. /\ told' \in [list : Nat, items : Board]
      /\ told.list <= told'.list
      /\ m.kind \in {"snapshot", "repo"} => m.list <= told'.list
      /\ \A t \in Tasks : /\ told.items[t] <= told'.items[t]
                          /\ \A ver \in Nat : Carries(m, t, ver) => ver <= told'.items[t]
  BY <1>1, ToldGrows
<1> QED BY <1>2 DEF IsTold, Carries

LEMMA CoversBrowser ==
  ASSUME TypeOK, TypeOK', NEW k \in Sockets, Covers(k),
         \/ \E s \in Syncs : Refreshed(s) \/ RefreshFails(s) \/ Refresh(s)
         \/ \E j \in Sockets : Receive(j)
         \/ UNCHANGED vars
  PROVE  Covers(k)'
<1>0. /\ told.list \in Nat /\ told.items \in [Tasks -> Nat] /\ sockets[k].at = "open"
      /\ syncs \in [Syncs -> Sync]
  BY DEF TypeOK, BrowserOK, Board, Covers, SyncsOK
<1>1. ASSUME NEW s \in Syncs, NEW new, syncs' = [syncs EXCEPT ![s] = new],
             syncs[s].at = "idle" \/ syncs[s].for \in {"browser", "start"}
      PROVE  \A r \in Syncs : syncs[r].at = "reading" /\ syncs[r].for \in {"socket", "all"}
                                 => syncs'[r] = syncs[r]
  BY <1>1, SyncsReplaced
<1>2. ASSUME NEW s \in Syncs, Refreshed(s)
      PROVE  Covers(k)'
  <2>1. /\ UNCHANGED <<index, work, list, sockets>> /\ syncs' = [syncs EXCEPT ![s] = Idle]
        /\ syncs[s].for = "browser" /\ Told(Snapshot(syncs[s]))
    BY <1>2 DEF Refreshed
  <2>2. /\ told.list <= told'.list
        /\ \A t \in Tasks : told.items[t] <= told'.items[t]
    BY <2>1, BoardOfSync, ToldReceived
  <2>3. Queued(k)' = Queued(k)
    BY <2>1 DEF Queued
  <2> QED BY <1>0, <1>1, <2>1, <2>2, <2>3, CoversStays
<1>3. ASSUME NEW s \in Syncs, RefreshFails(s) \/ Refresh(s)
      PROVE  Covers(k)'
  <2>1. /\ UNCHANGED <<index, work, list, sockets, told>>
        /\ \E new : syncs' = [syncs EXCEPT ![s] = new]
        /\ syncs[s].at = "idle" \/ syncs[s].for \in {"browser", "start"}
    BY <1>3 DEF RefreshFails, Refresh, Free, history
  <2>2. Queued(k)' = Queued(k)
    BY <2>1 DEF Queued
  <2>3. /\ told.list <= told'.list
        /\ \A t \in Tasks : told.items[t] <= told'.items[t]
    BY <1>0, <2>1
  <2> QED BY <1>0, <1>1, <2>1, <2>2, <2>3, CoversStays
<1>4. ASSUME NEW j \in Sockets, Receive(j)
      PROVE  Covers(k)'
  <2>0. PICK m : m = Head(sockets[j].queue)
    OBVIOUS
  <2>1. /\ m \in Message /\ (m.kind \in {"snapshot", "repo"} => m.list <= list)
        /\ Queued(j) = {m} \cup Messages(Tail(sockets[j].queue))
    BY <1>4, <2>0, HeadOfQueue DEF Receive
  <2>2. Told(m) /\ UNCHANGED <<index, work, list, syncs>>
    BY <1>4, <2>0 DEF Receive
  <2>3. Queued(j)' = Messages(Tail(sockets[j].queue))
    <3>1. sockets[j] \in Socket
      BY DEF TypeOK, SocketsOK
    <3>2. sockets'[j] = [sockets[j] EXCEPT !.queue = Tail(sockets[j].queue)]
      BY <1>4, SocketReplaced DEF Receive
    <3>3. sockets'[j].queue = Tail(sockets[j].queue)
      BY <3>1, <3>2 DEF Socket
    <3> QED BY <3>3 DEF Queued
  <2>4. sockets'[k].at = "open" /\ (k # j => sockets'[k] = sockets[k])
    BY <1>0, <1>4, SocketSteps
  <2>5. IsTold(m)' /\ told.list <= told'.list
        /\ \A t \in Tasks : told.items[t] <= told'.items[t]
    BY <2>1, <2>2, ToldReceived
  <2>6. ASSUME NEW o \in Queued(k)
        PROVE  o \in Queued(k)' \/ IsTold(o)'
    <3>1. CASE k = j
      BY <2>1, <2>3, <2>5, <2>6, <3>1 DEF IsTold
    <3>2. CASE k # j
      BY <2>4, <2>6, <3>2 DEF Queued
    <3> QED BY <3>1, <3>2
  <2> QED BY <2>2, <2>4, <2>5, <2>6, CoversStays
<1>5. CASE UNCHANGED vars
  <2>1. UNCHANGED <<index, work, list, sockets, syncs, told>>
    BY <1>5 DEF vars, index, work
  <2>2. Queued(k)' = Queued(k)
    BY <2>1 DEF Queued
  <2>3. /\ told.list <= told'.list
        /\ \A t \in Tasks : told.items[t] <= told'.items[t]
    BY <1>0, <2>1
  <2> QED BY <1>0, <2>1, <2>2, <2>3, CoversStays
<1> QED BY <1>2, <1>3, <1>4, <1>5

LEMMA CoversSync ==
  ASSUME TypeOK, TypeOK', NEW k \in Sockets, Covers(k), NEW s \in Syncs, SyncStep(s)
  PROVE  Covers(k)'
<1>0. /\ told' = told /\ list' = list /\ sockets'[k].at = "open" /\ sockets[k].at = "open"
      /\ UNCHANGED <<boards, home, mail, late>>
      /\ Queued(k) \subseteq Queued(k)'
      /\ \A r \in Syncs \ {s} : syncs'[r] = syncs[r]
      /\ syncs \in [Syncs -> Sync]
      /\ sockets \in [Sockets -> Socket] /\ sockets[k].queue \in Seq(Message)
  BY SyncSteps DEF SyncStep, SendDeletion, SendSnapshot, ReadSlice, Covers, SocketsStay, work,
                   history, TypeOK, SyncsOK, SocketsOK, Socket
<1>1. \A u \in Created : u \in Tasks /\ home[u] \in RepoIds
  BY CreatedTasks DEF TypeOK
<1>2. ASSUME SendSnapshot(s), syncs[s].socket \in {k, 0}
      PROVE  Snapshot(syncs[s]) \in Queued(k)'
  <2>1. sockets'[k] = Send(sockets, Snapshot(syncs[s]))[k]
    BY <1>2 DEF SendSnapshot
  <2>2. Snapshot(syncs[s]) \in Message
    BY BoardOfSync
  <2>3. sockets'[k].queue = Append(sockets[k].queue, Snapshot(syncs[s]))
    BY <1>0, <2>1, <2>2, SendAppends
  <2> QED BY <1>0, <2>2, <2>3, QueueAppend DEF Queued
<1>3. ListReaches(k)'
  <2>0. ListReaches(k)
    BY DEF Covers
  <2>1. ASSUME \/ told.list = list
               \/ \E m \in Queued(k) : m.kind \in {"snapshot", "repo"} /\ m.list = list
               \/ \E r \in Syncs \ {s} : /\ syncs[r].at = "reading" /\ syncs[r].list = list
                                         /\ \/ syncs[r].for = "all"
                                            \/ syncs[r].for = "socket" /\ syncs[r].socket = k
        PROVE  ListReaches(k)'
    BY <1>0, <2>1 DEF ListReaches
  <2>2. CASE SendDeletion(s)
    <3>1. syncs'[s] = Begin("all", 0)
      BY <2>2, SyncsReplaced DEF SendDeletion
    <3>2. syncs'[s].at = "reading" /\ syncs'[s].for = "all" /\ syncs'[s].list = list'
      BY <1>0, <3>1 DEF Begin
    <3> QED BY <3>2 DEF ListReaches
  <2>3. CASE SendSnapshot(s)
    <3>1. deletion' = deletion
      BY <2>3 DEF SendSnapshot, index
    <3>2. CASE deletion.at \in {"wipe", "sync"}
      BY <3>1, <3>2 DEF ListReaches
    <3>3. ASSUME syncs[s].list = list, \/ syncs[s].for = "all"
                                       \/ syncs[s].for = "socket" /\ syncs[s].socket = k
          PROVE  ListReaches(k)'
      <4>1. syncs[s].socket \in {k, 0}
        BY <3>3 DEF TypeOK, SyncsOK
      <4>2. Snapshot(syncs[s]) \in Queued(k)'
        BY <1>2, <2>3, <4>1
      <4>3. Snapshot(syncs[s]).kind = "snapshot" /\ Snapshot(syncs[s]).list = list'
        BY <1>0, <3>3 DEF Snapshot
      <4> QED BY <4>2, <4>3 DEF ListReaches
    <3> QED BY <2>0, <2>1, <3>2, <3>3 DEF ListReaches
  <2>4. ASSUME NEW id \in RepoIds, ReadSlice(s, id)
        PROVE  ListReaches(k)'
    <3>1. deletion' = deletion /\ \E new, items : syncs' = [syncs EXCEPT ![s].todo = new, ![s].items = items]
      BY <2>4 DEF ReadSlice, index
    <3>2. /\ syncs'[s].at = syncs[s].at /\ syncs'[s].for = syncs[s].for
          /\ syncs'[s].socket = syncs[s].socket /\ syncs'[s].list = syncs[s].list
      BY <1>0, <3>1 DEF Sync
    <3> QED BY <1>0, <2>0, <2>1, <3>1, <3>2 DEF ListReaches
  <2> QED BY <2>2, <2>3, <2>4 DEF SyncStep
<1>4. ASSUME NEW t \in Standing', NEW ver, ver = boards'[home'[t]][t]
      PROVE  ItemReaches(k, t, ver)'
  <2>1. t \in Standing /\ ver = boards[home[t]][t]
    <3>1. deletion.at = "wipe" => deletion' = deletion
      BY DEF SyncStep, SendDeletion, SendSnapshot, ReadSlice, index
    <3> QED BY <1>0, <1>4, <3>1 DEF Standing, Created
  <2>2. t \in Tasks /\ home[t] \in RepoIds /\ ver \in Nat /\ ver # 0
    <3>1. t \in Tasks /\ home[t] \in RepoIds /\ ver # 0
      BY <1>1, <2>1 DEF Standing
    <3> QED BY <2>1, <3>1 DEF TypeOK, BoardsOK, Board
  <2>3. ItemReaches(k, t, ver)
    BY <2>1 DEF Covers
  <2>4. ASSUME \/ told.items[t] >= ver
               \/ \E m \in mail : m.task = t /\ m.ver >= ver
               \/ \E m \in Queued(k) : Carries(m, t, ver)
               \/ \E r \in Syncs \ {s} : /\ syncs[r].at = "reading"
                                         /\ syncs[r].for = "socket" /\ syncs[r].socket = k
                                         /\ home[t] \in syncs[r].todo \/ syncs[r].items[t] >= ver
        PROVE  ItemReaches(k, t, ver)'
    BY <1>0, <2>4 DEF ItemReaches
  <2>5. SUFFICES ASSUME syncs[s].at = "reading", syncs[s].for = "socket", syncs[s].socket = k,
                        home[t] \in syncs[s].todo \/ syncs[s].items[t] >= ver
                 PROVE  ItemReaches(k, t, ver)'
    BY <2>3, <2>4 DEF ItemReaches
  <2>6. ~SendDeletion(s)
    BY <2>5 DEF SendDeletion, Free
  <2>7. CASE SendSnapshot(s)
    <3>1. Snapshot(syncs[s]) \in Queued(k)'
      BY <1>2, <2>5, <2>7
    <3>2. syncs[s].items[t] >= ver
      BY <2>5, <2>7 DEF SendSnapshot, Assembled
    <3>3. Carries(Snapshot(syncs[s]), t, ver)
      BY <3>2 DEF Carries, Snapshot
    <3> QED BY <3>1, <3>3 DEF ItemReaches
  <2>8. ASSUME NEW id \in RepoIds, ReadSlice(s, id)
        PROVE  ItemReaches(k, t, ver)'
    <3> DEFINE todo == syncs[s].todo \ {id}
               items == [u \in Tasks |-> IF boards[id][u] # 0 THEN boards[id][u]
                                         ELSE syncs[s].items[u]]
    <3>1. syncs' = [syncs EXCEPT ![s].todo = todo, ![s].items = items]
      BY <2>8 DEF ReadSlice
    <3>2. /\ syncs'[s].at = "reading" /\ syncs'[s].for = "socket" /\ syncs'[s].socket = k
          /\ syncs'[s].todo = todo /\ syncs'[s].items = items
      BY <1>0, <2>5, <3>1 DEF Sync
    <3>3. home[t] \in todo \/ items[t] >= ver
      <4>1. CASE id = home[t]
        BY <2>1, <2>2, <4>1
      <4>2. CASE id # home[t]
        <5>1. boards[id][t] = 0
          BY <2>2, <4>2 DEF TypeOK, BoardsOK
        <5> QED BY <2>2, <2>5, <4>2, <5>1
      <4> QED BY <4>1, <4>2
    <3> HIDE DEF todo, items
    <3> QED BY <1>0, <3>2, <3>3 DEF ItemReaches
  <2> QED BY <2>6, <2>7, <2>8 DEF SyncStep
<1>5. \A t \in Standing' : ItemReaches(k, t, boards[home[t]][t])'
  BY <1>4 DEF ItemReaches
<1> QED BY <1>0, <1>3, <1>5 DEF Covers

(* A socket that is taken gets all that is to be told.                      *)
LEMMA CoversAccepted ==
  ASSUME TypeOK, DeletedBoardsAreEmpty, NEW s \in Syncs, NEW k \in Sockets, Accept(k, s),
         browser.signedIn
  PROVE  Covers(k)'
<1>1. /\ syncs' = [syncs EXCEPT ![s] = Begin("socket", k)] /\ UNCHANGED <<index, work, list>>
      /\ sockets'[k].at = "open"
  BY SocketSteps DEF Accept
<1>2. /\ syncs'[s].at = "reading" /\ syncs'[s].for = "socket" /\ syncs'[s].socket = k
      /\ syncs'[s].list = list /\ syncs'[s].todo = Listed
  <2>1. syncs'[s] = Begin("socket", k)
    BY <1>1, SyncsReplaced
  <2> QED BY <2>1 DEF Begin
<1>3. ListReaches(k)'
  BY <1>1, <1>2 DEF ListReaches
<1>4. ASSUME NEW t \in Standing'
      PROVE  home[t] \in Listed
  <2>1. t \in Standing
    BY <1>1, <1>4 DEF Standing, Created, index, work
  <2>2. home[t] \in RepoIds /\ t \in Tasks
    BY <2>1, CreatedTasks DEF Standing, TypeOK
  <2> QED BY <2>1, <2>2 DEF Standing, DeletedBoardsAreEmpty
<1>5. \A t \in Standing' : ItemReaches(k, t, boards[home[t]][t])'
  BY <1>1, <1>2, <1>4 DEF ItemReaches, work
<1> QED BY <1>1, <1>3, <1>5 DEF Covers

LEMMA ServedNext ==
  ASSUME IndexIsSound, IndexIsSound', Served, Waiting, [Next]_vars
  PROVE  Served'
<1> USE IndexAssumption
<1> USE DEF IndexIsSound
<1>1. ASSUME \A k \in Sockets : sockets'[k].at = sockets[k].at,
             browser'.signedIn = browser.signedIn, browser'.timer = browser.timer,
             \A k \in Sockets : Covers(k) => Covers(k)'
      PROVE  Served'
  BY <1>1 DEF Served, Reconnecting, Connection
<1>2. CASE IndexStep
  BY <1>1, <1>2, IndexSteps, CoversOn DEF SocketsStay
<1>3. ASSUME NEW s \in Syncs, SyncStep(s)
      PROVE  Served'
  BY <1>1, <1>3, SyncSteps, CoversSync DEF SocketsStay
<1>4. ASSUME NEW s \in Syncs, Refreshed(s) \/ RefreshFails(s) \/ Refresh(s)
      PROVE  Served'
  <2>1. /\ sockets' = sockets
        /\ browser'.signedIn = browser.signedIn /\ browser'.timer = browser.timer
    BY <1>4 DEF Refreshed, RefreshFails, Refresh, TypeOK, BrowserOK
  <2> QED BY <1>1, <1>4, <2>1, CoversBrowser
<1>5. ASSUME NEW k \in Sockets, Receive(k)
      PROVE  Served'
  <2>1. browser'.signedIn = browser.signedIn /\ browser'.timer = browser.timer
    BY <1>5 DEF Receive, TypeOK, BrowserOK
  <2>2. \A j \in Sockets : sockets'[j].at = sockets[j].at
    BY <1>5, SocketSteps
  <2> QED BY <1>1, <1>5, <2>1, <2>2, CoversBrowser
<1>6. CASE UNCHANGED vars
  <2>1. sockets' = sockets /\ browser' = browser
    BY <1>6 DEF vars
  <2> QED BY <1>1, <1>6, <2>1, CoversBrowser
<1>7. ASSUME NEW k \in Sockets, sockets'[k].at \in {"asked", "closing"}
      PROVE  Served'
  BY <1>7 DEF Served, Reconnecting
<1>8. ASSUME NEW s \in Syncs, Started(s) \/ Reconnect(s)
      PROVE  Served'
  BY <1>7, <1>8, SocketSteps
<1>9. ASSUME NEW k \in Sockets, Drop(k)
      PROVE  Served'
  BY <1>7, <1>9, SocketSteps
<1>10. ASSUME NEW k \in Sockets, OnClose(k)
       PROVE  Served'
  <2>1. browser'.timer
    BY <1>10 DEF OnClose, TypeOK, BrowserOK
  <2> QED BY <2>1 DEF Served, Reconnecting
<1>11. ASSUME NEW s \in Syncs, NEW k \in Sockets, Accept(k, s)
       PROVE  Served'
  <2>1. CASE browser.signedIn
    <3>1. Covers(k)' /\ sockets'[k].at = "open"
      BY <1>11, <2>1, CoversAccepted DEF Covers
    <3> QED BY <3>1 DEF Served, Connection
  <2>2. CASE ~browser.signedIn
    BY <1>7, <1>11, <2>2, SocketSteps
  <2> QED BY <2>1, <2>2
<1>12. ASSUME NEW s \in Syncs, Login(s)
       PROVE  Served'
  <2>1. /\ ~browser.signedIn /\ sockets' = sockets
        /\ browser'.timer = browser.timer
    BY <1>12 DEF Login, TypeOK, BrowserOK
  <2> QED BY <2>1 DEF Waiting, Served, Reconnecting, Connection
<1>13. CASE Logout
  <2>1. ~browser'.signedIn
    BY <1>13 DEF Logout, TypeOK, BrowserOK
  <2> QED BY <2>1 DEF Served
<1> QED BY <1>2, <1>3, <1>4, <1>5, <1>6, <1>8, <1>9, <1>10, <1>11, <1>12, <1>13, StepKinds

LEMMA BrowserInit == Init => BrowserInv
<1> SUFFICES ASSUME Init PROVE BrowserInv
  OBVIOUS
<1> USE IndexAssumption
<1>1. /\ browser = [signedIn |-> TRUE, socket |-> 1, timer |-> FALSE, blank |-> FALSE]
      /\ sockets[1] = Empty("open") /\ told = Start /\ list = 1 /\ 1 \in Sockets
  BY DEF Init
<1>2. PICK path \in Paths :
        /\ home = <<IdOf[path]>>
        /\ boards = [id \in RepoIds |->
                       [t \in Tasks |-> IF t = 1 /\ id = IdOf[path] THEN 1 ELSE 0]]
  BY DEF Init
<1>3. 1 \in Tasks /\ IdOf[path] \in RepoIds
  BY DEF Tasks
<1>4. told.list = list /\ \A t \in Created : t = 1 /\ boards[home[t]][t] = 1 /\ told.items[t] = 1
  BY <1>1, <1>2, <1>3 DEF Start, Created
<1>5. Covers(1)
  BY <1>1, <1>4, EmptySocket DEF Covers, ListReaches, ItemReaches, Standing
<1>6. Served /\ 1 \in Connection
  BY <1>1, <1>5, EmptySocket DEF Served, Connection
<1> QED BY <1>1, <1>6 DEF BrowserInv, Waiting, Connecting, Silent

IndexInv == IndexIsSound /\ BrowserInv

LEMMA IndexInvariant == Spec => []IndexInv
<1>1. Init => IndexInv
  BY IndexInit, SoundInit, BrowserInit DEF IndexInv, IndexIsSound
<1>2. IndexInv /\ [Next]_vars => IndexInv'
  <2> SUFFICES ASSUME IndexInv, [Next]_vars PROVE IndexInv'
    OBVIOUS
  <2>1. IndexIsSound'
    BY IndexTypes, DeletedNext, PathsNext DEF IndexInv, IndexIsSound
  <2>2. Served'
    BY <2>1, ServedNext DEF IndexInv, BrowserInv
  <2>3. Waiting' /\ Connecting' /\ Silent'
    BY WaitingNext, ConnectingNext, SilentNext DEF IndexInv, BrowserInv, IndexIsSound
  <2> QED BY <2>1, <2>2, <2>3 DEF IndexInv, BrowserInv
<1> QED BY <1>1, <1>2, PTL DEF Spec

(* A browser with a session and a socket has been told of every change of   *)
(* the list and of the newest version of every item in a listed repository  *)
(* once nothing is on its way to it, whatever broke, was reopened or came   *)
(* out of order before; for any number of repositories, tasks and sockets.  *)
THEOREM NothingMissed == Spec => []NothingIsMissed
<1>1. IndexInv => NothingIsMissed
  <2> SUFFICES ASSUME IndexInv, Quiet, browser.signedIn, Connection # {}
               PROVE  /\ told.list = list
                      /\ \A t \in Created \ late :
                            home[t] \in Listed => told.items[t] >= boards[home[t]][t]
    BY DEF NothingIsMissed
  <2>1. /\ ~Reconnecting /\ mail = {} /\ deletion.at = "idle"
        /\ \A s \in Syncs : syncs[s].at = "idle"
        /\ \A k \in Sockets : sockets[k].queue = <<>>
    BY DEF Quiet, Reconnecting
  <2>2. PICK k \in Connection : Covers(k)
    BY <2>1 DEF IndexInv, BrowserInv, Served
  <2>3. Queued(k) = {}
    BY <2>1, QueueEmpty DEF Queued, Connection
  <2>4. told.list = list
    BY <2>1, <2>2, <2>3 DEF Covers, ListReaches
  <2>5. ASSUME NEW t \in Created \ late
        PROVE  told.items[t] >= boards[home[t]][t]
    <3>1. t \in Tasks /\ home[t] \in RepoIds /\ told.items[t] \in Nat
      BY CreatedTasks DEF IndexInv, IndexIsSound, TypeOK, BrowserOK, Board
    <3>2. CASE boards[home[t]][t] = 0
      BY <3>1, <3>2
    <3>3. CASE boards[home[t]][t] # 0
      <4>1. t \in Standing
        BY <2>1, <3>3 DEF Standing
      <4> QED BY <2>1, <2>2, <2>3, <4>1 DEF Covers, ItemReaches
    <3> QED BY <3>2, <3>3
  <2> QED BY <2>4, <2>5
<1> QED BY <1>1, IndexInvariant, PTL

(* A browser with a session whose first board came has a socket once        *)
(* nothing is under way; one that signed out shows nothing, unless a board  *)
(* was on its way or a second socket was open.                              *)
THEOREM SessionsHold == Spec => []SessionsShow
<1>1. IndexInv => SessionsShow
  <2> SUFFICES ASSUME IndexInv PROVE SessionsShow
    OBVIOUS
  <2>1. NeverStranded
    BY DEF IndexInv, BrowserInv, Connecting, NeverStranded, Quiet, Reconnecting
  <2>2. SignedOutIsEmpty
    BY DEF IndexInv, BrowserInv, Silent, SignedOutIsEmpty, IndexIsSound, TypeOK, BrowserOK
  <2> QED BY <2>1, <2>2 DEF SessionsShow
<1> QED BY <1>1, IndexInvariant, PTL
=============================================================================
