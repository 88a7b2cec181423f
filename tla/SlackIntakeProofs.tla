-------------------------- MODULE SlackIntakeProofs --------------------------
(***************************************************************************)
(* Proofs about SlackIntake, for any requests at once, any messages and    *)
(* reviews, and any bounds.                                                *)
(*                                                                         *)
(* The type invariant comes first.  Copies of a delivery and answers that  *)
(* come back are about the interleaving of requests (KeysInv and           *)
(* AnsweredInv).  What is said of requests that come one after the other   *)
(* is an invariant of the one that is at work (SerialInv).                 *)
(***************************************************************************)
EXTENDS SlackIntake, SequenceTheorems, TLAPS

-----------------------------------------------------------------------------
(* What a handler may hold when the board has the runs rs and n tasks, and *)
(* qs are the questions that were put.                                     *)

SessionFor(qs) == [status: {"none", "active", "completed", "expired"}, stale: BOOLEAN,
                   data: [Kinds -> 0..Len(qs)]]
Keeps(s, qs) == \A k \in Kinds : s.data[k] # 0 => qs[s.data[k]].kind = k

HandlerFor(rs, qs, n) ==
  [at: Places, say: Saying, key: Keys, late: BOOLEAN, saw: SessionFor(qs),
   closed: SUBSET (1..Len(qs)), kind: Kinds, review: Reviews \cup {NoReview},
   base: 0..Len(rs), question: 0..Len(qs), task: 0..n, run: 0..Len(rs), asked: 0..Len(qs)]

Needs(x, rs, qs) ==
  /\ Keeps(x.saw, qs)
  /\ x.say.how = "button" => x.say.what \in {"pickReview", "pickRepo"}
  /\ x.kind = "rerun" \/ x.at = "rerun" => x.base # 0
  /\ x.at \in {"create", "show", "rerun", "bind", "close"} =>
       (x.question # 0 /\ x.say.what = "yes") \/ (x.question = 0 /\ x.say.what = "pickRepo")
  /\ x.question # 0 => x.at \in {"create", "show", "rerun", "bind", "close"}
  /\ x.at = "close" => x.question # 0
  /\ x.at \in {"show", "bind"} => /\ x.run # 0 /\ rs[x.run].task = x.task
                                 /\ rs[x.run].question = x.question

Fits(x, rs, qs, n) == x \in HandlerFor(rs, qs, n) /\ Needs(x, rs, qs)

QuestionFor(rs) == [kind: Kinds, review: Reviews \cup {NoReview}, base: 0..Len(rs)]

(* The parts of TypeOK.                                                    *)
CountsOK ==
  /\ sent \in 0..MaxMessages /\ overlaps \in 0..MaxOverlaps
  /\ repeated \in Nat /\ failures \in Nat /\ repeated + failures <= MaxTroubles
  /\ copies \subseteq [say: {s \in Sayings : s.how # "button"}, key: {TextKey(n) : n \in 1..repeated}]
  /\ offered \subseteq [how: {"button"}, what: {"pickReview", "pickRepo"},
                        review: Reviews \cup {NoReview}]
  /\ begun \cup kv \subseteq Keys
SessionOK == session \in SessionFor(questions) /\ Keeps(session, questions)
BoardOK ==
  /\ tasks \in Nat /\ runs \in Seq(Run)
  /\ \A r \in RunIds : runs[r].task \in 1..tasks /\ runs[r].question \in 0..Len(questions)
                      /\ runs[r].asked \in 0..Len(questions)
BindingsOK ==
  bindings \in [DOMAIN bindings -> 0..Len(runs)] /\ DOMAIN bindings \subseteq 0..tasks
HandlersOK == /\ hd \in [Handlers -> HandlerFor(runs, questions, tasks)]
              /\ \A h \in Handlers : Fits(hd[h], runs, questions, tasks)
QuestionsOK ==
  /\ questions \in Seq(QuestionFor(runs))
  /\ \A q \in DOMAIN questions : questions[q].kind = "rerun" => questions[q].base # 0
  /\ answered \subseteq DOMAIN questions

LEMMA Parts ==
  TypeOK <=> /\ CountsOK /\ SessionOK /\ BoardOK /\ BindingsOK /\ HandlersOK /\ QuestionsOK
<1>1. /\ Session = SessionFor(questions)
      /\ KeepsKinds(session) <=> Keeps(session, questions)
      /\ \A h \in Handlers : HoldsWhatItNeeds(hd[h]) <=> Needs(hd[h], runs, questions)
  BY DEF Session, SessionFor, KeepsKinds, Keeps, HoldsWhatItNeeds, Needs
<1>2. HandlerFor(runs, questions, tasks) =
        [at: Places, say: Saying, key: Keys, late: BOOLEAN, saw: Session,
         closed: SUBSET (1..Len(questions)), kind: Kinds, review: Reviews \cup {NoReview},
         base: 0..Len(runs), question: 0..Len(questions), task: 0..tasks, run: 0..Len(runs),
         asked: 0..Len(questions)]
  BY DEF HandlerFor, Session, SessionFor
<1>3. HandlersOK <=> /\ hd \in [Handlers -> HandlerFor(runs, questions, tasks)]
                     /\ \A h \in Handlers : HoldsWhatItNeeds(hd[h])
  BY <1>1 DEF HandlersOK, Fits
<1>4. HandlersOK <=>
        /\ hd \in [Handlers ->
             [at: Places, say: Saying, key: Keys, late: BOOLEAN, saw: Session,
              closed: SUBSET (1..Len(questions)), kind: Kinds, review: Reviews \cup {NoReview},
              base: 0..Len(runs), question: 0..Len(questions), task: 0..tasks, run: 0..Len(runs),
              asked: 0..Len(questions)]]
        /\ \A h \in Handlers : HoldsWhatItNeeds(hd[h])
  BY <1>2, <1>3
<1>5. SessionOK <=> session \in Session /\ KeepsKinds(session)
  BY <1>1 DEF SessionOK
<1>6. QuestionsOK <=>
        /\ questions \in Seq([kind: Kinds, review: Reviews \cup {NoReview}, base: 0..Len(runs)])
        /\ \A q \in DOMAIN questions : questions[q].kind = "rerun" => questions[q].base # 0
        /\ answered \subseteq DOMAIN questions
  BY DEF QuestionsOK, QuestionFor
<1> QED BY <1>4, <1>5, <1>6 DEF TypeOK, CountsOK, BoardOK, BindingsOK

LEMMA PartsNext ==
  (TypeOK <=> /\ CountsOK /\ SessionOK /\ BoardOK /\ BindingsOK /\ HandlersOK /\ QuestionsOK)'
BY Parts, PTL

LEMMA Sizes ==
  ASSUME TypeOK
  PROVE  /\ Len(runs) \in Nat /\ DOMAIN runs = 1..Len(runs) /\ RunIds = 1..Len(runs)
         /\ Len(questions) \in Nat /\ DOMAIN questions = 1..Len(questions)
         /\ tasks \in Nat
BY Parts DEF BoardOK, QuestionsOK, RunIds

(* Runs and questions stay what they are; there may be more.               *)
Later(rs, qs, n, rs1, qs1, n1) ==
  /\ Len(rs) \in Nat /\ Len(rs1) \in Nat /\ Len(rs) <= Len(rs1)
  /\ \A r \in 1..Len(rs) : rs1[r].task = rs[r].task /\ rs1[r].question = rs[r].question
  /\ Len(qs) \in Nat /\ Len(qs1) \in Nat /\ Len(qs) <= Len(qs1)
  /\ \A q \in 1..Len(qs) : qs1[q] = qs[q]
  /\ n \in Nat /\ n1 \in Nat /\ n <= n1
Grown == Later(runs, questions, tasks, runs', questions', tasks')

LEMMA LaterSession ==
  ASSUME NEW s, NEW qs, NEW qs1, s \in SessionFor(qs), Keeps(s, qs),
         Len(qs) \in Nat, Len(qs1) \in Nat, Len(qs) <= Len(qs1),
         \A q \in 1..Len(qs) : qs1[q] = qs[q]
  PROVE  s \in SessionFor(qs1) /\ Keeps(s, qs1)
<1>1. 0..Len(qs) \subseteq 0..Len(qs1)
  OBVIOUS
<1>2. s.data \in [Kinds -> 0..Len(qs)]
  BY DEF SessionFor
<1>3. s.data \in [Kinds -> 0..Len(qs1)]
  BY <1>1, <1>2
<1>4. s \in SessionFor(qs1)
  BY <1>3 DEF SessionFor
<1>5. \A k \in Kinds : s.data[k] # 0 => s.data[k] \in 1..Len(qs)
  BY <1>2
<1> QED BY <1>4, <1>5 DEF Keeps

LEMMA LaterFits ==
  ASSUME NEW x, NEW rs, NEW qs, NEW n, NEW rs1, NEW qs1, NEW n1,
         Later(rs, qs, n, rs1, qs1, n1), Fits(x, rs, qs, n)
  PROVE  Fits(x, rs1, qs1, n1)
<1>1. /\ 0..Len(rs) \subseteq 0..Len(rs1) /\ 0..Len(qs) \subseteq 0..Len(qs1) /\ 0..n \subseteq 0..n1
      /\ SUBSET (1..Len(qs)) \subseteq SUBSET (1..Len(qs1))
  BY DEF Later
<1>2. x.saw \in SessionFor(qs1) /\ Keeps(x.saw, qs1)
  BY LaterSession DEF Later, Fits, HandlerFor, Needs
<1>3. x \in HandlerFor(rs1, qs1, n1)
  BY <1>1, <1>2 DEF Fits, HandlerFor
<1>4. x.at \in {"show", "bind"} => x.run \in 1..Len(rs)
  BY DEF Fits, HandlerFor, Needs, Later
<1> QED BY <1>2, <1>3, <1>4 DEF Fits, Needs, Later

LEMMA IdleFits ==
  ASSUME NEW rs, NEW qs, NEW n, Len(rs) \in Nat, Len(qs) \in Nat, n \in Nat
  PROVE  Fits(Idle, rs, qs, n)
<1>1. NoData \in [Kinds -> 0..Len(qs)] /\ \A k \in Kinds : NoData[k] = 0
  BY DEF NoData
<1>2. NoSession \in SessionFor(qs) /\ Keeps(NoSession, qs)
  BY <1>1 DEF NoSession, SessionFor, Keeps
<1>3. NoSaying \in Saying /\ Once \in Keys /\ NoSaying.how = "plain"
  BY DEF NoSaying, Saying, Hows, Whats, Once, Keys
<1> HIDE DEF NoData, NoSession, NoSaying, Once
<1>4. Idle \in HandlerFor(rs, qs, n)
  BY <1>2, <1>3 DEF Idle, HandlerFor, Places, Kinds
<1> QED BY <1>2, <1>3, <1>4 DEF Fits, Needs, Idle

(* Handler h becomes x, the others stay as they are.                       *)
Only(h) == \A g \in Handlers \ {h} : hd'[g] = hd[g]

LEMMA BecomesFits ==
  ASSUME TypeOK, Grown, NEW h \in Handlers, NEW x, Fits(x, runs', questions', tasks'),
         hd' = [hd EXCEPT ![h] = x]
  PROVE  HandlersOK' /\ hd'[h] = x /\ Only(h)
<1>1. hd'[h] = x /\ Only(h) /\ DOMAIN hd' = Handlers /\ hd' = [g \in Handlers |-> hd'[g]]
  BY DEF TypeOK, Only
<1>2. ASSUME NEW g \in Handlers
      PROVE  Fits(hd'[g], runs', questions', tasks')
  <2>1. CASE g = h
    BY <1>1, <2>1
  <2>2. CASE g # h
    <3>1. hd'[g] = hd[g] /\ Fits(hd[g], runs, questions, tasks)
      BY <1>1, <2>2, Parts DEF HandlersOK, Only
    <3> QED BY <3>1, LaterFits DEF Grown
  <2> QED BY <2>1, <2>2
<1>3. hd' \in [Handlers -> HandlerFor(runs', questions', tasks')]
  BY <1>1, <1>2 DEF Fits
<1> QED BY <1>1, <1>2, <1>3 DEF HandlersOK

LEMMA FinishFits ==
  ASSUME TypeOK, Grown, NEW h \in Handlers, Finish(h)
  PROVE  HandlersOK' /\ hd'[h] = Idle /\ Only(h)
BY BecomesFits, IdleFits DEF Finish, Grown, Later

-----------------------------------------------------------------------------
(* Every action keeps the types.                                           *)

Same == UNCHANGED <<runs, questions, tasks>>

LEMMA SameGrown ==
  ASSUME TypeOK, Same
  PROVE  Grown /\ RunIds' = RunIds
BY Sizes DEF Same, Grown, Later, RunIds

(* Where a handler is not in the middle of anything that is said below.    *)
Neutral(x) ==
  \/ x.at \in {"idle", "key", "mark", "resolve", "find", "read", "bindIssue", "jira",
               "intake", "parse"}
  \/ x.at = "create" /\ x.question = 0

(* What a step of handler h does to the handlers.                          *)
Quietly(h) == Only(h) /\ Neutral(hd'[h]) /\ (hd'[h].late => hd[h].late)

(* What is left for a step that touches neither board, questions, session  *)
(* nor bindings.                                                           *)
Apart == Same /\ UNCHANGED <<session, bindings, answered>>
counts == <<sent, overlaps, repeated, failures, copies, offered, begun, kv>>

LEMMA CountsStay ==
  ASSUME TypeOK, UNCHANGED counts
  PROVE  CountsOK'
BY Parts DEF counts, CountsOK

LEMMA MovesTyped ==
  ASSUME TypeOK, Apart, CountsOK', HandlersOK'
  PROVE  TypeOK'
<1>1. SessionOK' /\ BoardOK' /\ BindingsOK' /\ QuestionsOK'
  BY Parts DEF Apart, Same, SessionOK, BoardOK, BindingsOK, QuestionsOK, RunIds
<1> QED BY <1>1, PartsNext

LEMMA HandlerHere ==
  ASSUME TypeOK, NEW h \in Handlers
  PROVE  /\ hd[h] \in HandlerFor(runs, questions, tasks) /\ Needs(hd[h], runs, questions)
         /\ Fits(hd[h], runs, questions, tasks)
BY Parts DEF HandlersOK, Fits

LEMMA MoveTyped ==
  ASSUME TypeOK, Apart, CountsOK', NEW h \in Handlers, NEW x,
         Fits(x, runs, questions, tasks), hd' = [hd EXCEPT ![h] = x]
  PROVE  TypeOK' /\ Only(h) /\ hd'[h] = x
<1>1. HandlersOK' /\ Only(h) /\ hd'[h] = x
  BY SameGrown, BecomesFits DEF Apart, Same
<1> QED BY <1>1, MovesTyped

LEMMA FinishTyped ==
  ASSUME TypeOK, Apart, CountsOK', NEW h \in Handlers, Finish(h)
  PROVE  TypeOK' /\ Quietly(h) /\ hd'[h] = Idle
<1>1. HandlersOK' /\ hd'[h] = Idle /\ Only(h)
  BY SameGrown, FinishFits DEF Apart
<1> QED BY <1>1, MovesTyped DEF Quietly, Neutral, Idle

(* A handler goes on with what it holds.                                   *)
LEMMA GoTyped ==
  ASSUME TypeOK, Apart, CountsOK', NEW h \in Handlers, NEW at, Go(h, at),
         hd[h].at \notin {"create", "show", "rerun", "bind", "close"},
         at \in {"key", "mark", "resolve", "find", "read", "bindIssue", "jira",
                 "intake", "parse"}
  PROVE  TypeOK' /\ Quietly(h) /\ hd'[h] = [hd[h] EXCEPT !.at = at]
<1> DEFINE x == [hd[h] EXCEPT !.at = at]
<1>2. /\ x \in HandlerFor(runs, questions, tasks) /\ x.at = at /\ x.late = hd[h].late
      /\ x.saw = hd[h].saw /\ x.say = hd[h].say /\ x.kind = hd[h].kind /\ x.base = hd[h].base
      /\ x.question = hd[h].question /\ x.run = hd[h].run /\ x.task = hd[h].task
  <2>1. hd[h] \in HandlerFor(runs, questions, tasks)
    BY HandlerHere
  <2> QED BY <2>1 DEF HandlerFor, Places
<1>3. hd' = [hd EXCEPT ![h] = x]
  BY Parts DEF Go, HandlersOK
<1> HIDE DEF x
<1>4. Fits(x, runs, questions, tasks)
  BY <1>2, HandlerHere DEF Fits, Needs
<1>5. TypeOK' /\ Only(h) /\ hd'[h] = x
  BY <1>3, <1>4, MoveTyped
<1> QED BY <1>2, <1>5 DEF Quietly, Neutral, x

LEMMA CheckKeyMoves ==
  ASSUME TypeOK, NEW h \in Handlers, CheckKey(h)
  PROVE  TypeOK' /\ Quietly(h) /\ (hd[h].key \in kv => hd'[h] = Idle)
<1>1. Apart /\ CountsOK'
  BY CountsStay DEF CheckKey, Apart, Same, counts, history
<1>2. CASE hd[h].key \in kv
  <2>1. Finish(h)
    BY <1>2 DEF CheckKey
  <2> QED BY <1>1, <2>1, FinishTyped
<1>3. CASE hd[h].key \notin kv
  <2>1. Go(h, "mark") /\ hd[h].at = "key"
    BY <1>3 DEF CheckKey
  <2> QED BY <1>1, <1>3, <2>1, GoTyped
<1> QED BY <1>2, <1>3

LEMMA Flows ==
  ASSUME NEW say \in Saying, say.how = "button" => say.what \in {"pickReview", "pickRepo"}
  PROVE  /\ Flow(say) \in {"idle", "resolve", "bindIssue", "intake", "read", "create"}
         /\ Flow(say) = "create" => say.what = "pickRepo"
<1>1. CASE say.how = "slash"
  BY <1>1 DEF Flow, CommandFlow
<1>2. CASE say.how \in {"mention", "plain"}
  BY <1>2 DEF Flow, MentionFlow
<1>3. CASE say.how = "button"
  BY <1>3 DEF Flow, ButtonFlow
<1>4. say.how \in Hows
  BY DEF Saying
<1> QED BY <1>1, <1>2, <1>3, <1>4 DEF Hows

LEMMA MarkKeyMoves ==
  ASSUME TypeOK, NEW h \in Handlers, MarkKey(h)
  PROVE  TypeOK' /\ Quietly(h) /\ hd[h].at = "mark"
<1>1. Apart
  BY DEF MarkKey, Apart, Same
<1>2. hd[h].key \in Keys
  BY HandlerHere DEF HandlerFor
<1>3. CountsOK'
  BY <1>2, Parts DEF CountsOK, MarkKey, Begin
<1> DEFINE at == Flow(hd[h].say)
           kind == IF hd[h].say.what \in {"review", "pickReview"} THEN "start" ELSE "confirm"
           x == [hd[h] EXCEPT !.at = at, !.review = hd[h].say.review, !.kind = kind]
<1>4. /\ at \in {"idle", "resolve", "bindIssue", "intake", "read", "create"}
      /\ at = "create" => hd[h].say.what = "pickRepo"
  BY HandlerHere, Flows DEF HandlerFor, Needs
<1>5. kind \in {"start", "confirm"}
  OBVIOUS
<1>6. CASE at = "idle"
  <2>1. Finish(h)
    BY <1>6 DEF MarkKey, Begin, Say
  <2> QED BY <1>1, <1>3, <2>1, FinishTyped DEF MarkKey
<1>7. CASE at # "idle"
  <2>1. hd' = [hd EXCEPT ![h].at = at, ![h].review = hd[h].say.review, ![h].kind = kind]
    BY <1>7 DEF MarkKey, Begin, Say
  <2>8. hd[h].say.review \in Reviews \cup {NoReview} /\ hd[h].at = "mark"
    BY HandlerHere DEF HandlerFor, Saying, MarkKey
  <2> HIDE DEF at, kind
  <2>2. hd' = [hd EXCEPT ![h] = x]
    BY <2>1, Parts DEF HandlersOK
  <2>3. /\ x \in HandlerFor(runs, questions, tasks) /\ x.at = at /\ x.late = hd[h].late
        /\ x.saw = hd[h].saw /\ x.say = hd[h].say /\ x.kind = kind
        /\ x.question = hd[h].question
    <3>1. at \in Places /\ kind \in Kinds
      BY <1>4, <1>5 DEF Places, Kinds
    <3> QED BY <2>8, <3>1, HandlerHere DEF HandlerFor
  <2> HIDE DEF x
  <2>4. Fits(x, runs, questions, tasks)
    BY <1>4, <1>5, <2>3, <2>8, HandlerHere DEF Fits, Needs
  <2>5. TypeOK' /\ Only(h) /\ hd'[h] = x
    BY <1>1, <1>3, <2>2, <2>4, MoveTyped
  <2>6. hd[h].question = 0
    BY <2>8, HandlerHere DEF HandlerFor, Needs
  <2> QED BY <1>4, <2>3, <2>5, <2>6, <2>8 DEF Quietly, Neutral
<1> QED BY <1>6, <1>7

LEMMA FinishMoves ==
  ASSUME TypeOK, NEW h \in Handlers, RepoUnknown(h) \/ IssueFails(h) \/ RepoGone(h) \/ IssueUnknown(h)
  PROVE  TypeOK' /\ Quietly(h)
<1>1. Apart /\ UNCHANGED counts
  BY DEF RepoUnknown, IssueFails, RepoGone, IssueUnknown, Apart, Same, counts, history
<1>2. Finish(h)
  BY DEF RepoUnknown, IssueFails, RepoGone, IssueUnknown
<1> QED BY <1>1, <1>2, CountsStay, FinishTyped

LEMMA OfferReposMoves ==
  ASSUME TypeOK, NEW h \in Handlers, OfferRepos(h) \/ OfferIssueRepos(h)
  PROVE  TypeOK' /\ Quietly(h)
<1>1. Apart /\ Finish(h)
  BY DEF OfferRepos, OfferIssueRepos, Apart, Same, history
<1>2. hd[h].say.review \in Reviews \cup {NoReview}
  BY HandlerHere DEF HandlerFor, Saying
<1>3. UNCHANGED <<sent, overlaps, repeated, failures, copies, begun, kv>>
  BY DEF OfferRepos, OfferIssueRepos, history
<1>4. \E what \in {"pickReview", "pickRepo"}, review \in Reviews \cup {NoReview} :
         offered' = offered \cup {[how |-> "button", what |-> what, review |-> review]}
  BY <1>2 DEF OfferRepos, OfferIssueRepos, Say
<1>5. CountsOK'
  BY <1>3, <1>4, Parts DEF CountsOK
<1> QED BY <1>1, <1>5, FinishTyped

LEMMA AskWhichRepoMoves ==
  ASSUME TypeOK, NEW h \in Handlers, AskWhichRepo(h)
  PROVE  TypeOK' /\ Quietly(h)
<1>1. Apart /\ CountsOK' /\ hd[h].at = "resolve"
  BY CountsStay DEF AskWhichRepo, Apart, Same, counts, history
<1> DEFINE x == [hd[h] EXCEPT !.at = "read", !.kind = "select"]
<1>2. hd' = [hd EXCEPT ![h] = x]
  BY Parts DEF AskWhichRepo, HandlersOK
<1>3. /\ x \in HandlerFor(runs, questions, tasks) /\ x.at = "read" /\ x.late = hd[h].late
      /\ x.saw = hd[h].saw /\ x.say = hd[h].say /\ x.kind = "select"
      /\ x.question = hd[h].question
  <2>1. hd[h] \in HandlerFor(runs, questions, tasks)
    BY HandlerHere
  <2> QED BY <2>1 DEF HandlerFor, Places, Kinds
<1> HIDE DEF x
<1>4. Fits(x, runs, questions, tasks)
  BY <1>1, <1>3, HandlerHere DEF Fits, Needs
<1> QED BY <1>1, <1>2, <1>3, <1>4, MoveTyped DEF Quietly, Neutral

LEMMA RepoFoundMoves ==
  ASSUME TypeOK, NEW h \in Handlers, RepoFound(h)
  PROVE  TypeOK' /\ Quietly(h)
<1>1. Apart /\ CountsOK'
  BY CountsStay DEF RepoFound, Apart, Same, counts, history
<1> QED BY <1>1, GoTyped DEF RepoFound

LEMMA FindReviewMoves ==
  ASSUME TypeOK, NEW h \in Handlers, FindReview(h)
  PROVE  TypeOK' /\ Quietly(h)
<1>1. Apart /\ CountsOK' /\ hd[h].at = "find"
  BY CountsStay DEF FindReview, Apart, Same, counts, history
<1>2. PICK kind \in {"start", "rerun"}, base \in 0..Len(runs) :
        /\ kind = "rerun" => base # 0
        /\ hd' = [hd EXCEPT ![h].at = "read", ![h].kind = kind, ![h].base = base]
  BY Sizes DEF FindReview
<1> DEFINE x == [hd[h] EXCEPT !.at = "read", !.kind = kind, !.base = base]
<1>3. hd' = [hd EXCEPT ![h] = x]
  BY <1>2, Parts DEF HandlersOK
<1>4. /\ x \in HandlerFor(runs, questions, tasks) /\ x.at = "read" /\ x.late = hd[h].late
      /\ x.saw = hd[h].saw /\ x.say = hd[h].say /\ x.kind = kind /\ x.base = base
      /\ x.question = hd[h].question
  <2>1. hd[h] \in HandlerFor(runs, questions, tasks)
    BY HandlerHere
  <2> QED BY <1>2, <2>1 DEF HandlerFor, Places, Kinds
<1> HIDE DEF x
<1>5. Fits(x, runs, questions, tasks)
  BY <1>1, <1>2, <1>4, HandlerHere DEF Fits, Needs
<1> QED BY <1>1, <1>3, <1>4, <1>5, MoveTyped DEF Quietly, Neutral

(* A session is read, by a request that is to write it back.               *)
LEMMA ReadSessionMoves ==
  ASSUME TypeOK, NEW h \in Handlers, ReadSession(h)
  PROVE  /\ TypeOK' /\ Only(h) /\ hd'[h].late = hd[h].late
         /\ hd'[h].at = "ask" /\ hd'[h].saw = session /\ hd'[h].closed = answered
<1>1. Apart /\ CountsOK' /\ hd[h].at = "read"
  BY CountsStay DEF ReadSession, Apart, Same, counts, history
<1> DEFINE x == [hd[h] EXCEPT !.at = "ask", !.saw = session, !.closed = answered]
<1>2. hd' = [hd EXCEPT ![h] = x]
  BY Parts DEF ReadSession, HandlersOK
<1>3. session \in SessionFor(questions) /\ Keeps(session, questions) /\ answered \subseteq 1..Len(questions)
  BY Parts, Sizes DEF SessionOK, QuestionsOK
<1>4. /\ x \in HandlerFor(runs, questions, tasks) /\ x.at = "ask" /\ x.late = hd[h].late
      /\ x.saw = session /\ x.closed = answered /\ x.say = hd[h].say /\ x.kind = hd[h].kind
      /\ x.base = hd[h].base /\ x.question = hd[h].question
  <2>1. hd[h] \in HandlerFor(runs, questions, tasks)
    BY HandlerHere
  <2> QED BY <1>3, <2>1 DEF HandlerFor, Places
<1> HIDE DEF x
<1>5. Fits(x, runs, questions, tasks)
  BY <1>1, <1>3, <1>4, HandlerHere DEF Fits, Needs
<1> QED BY <1>1, <1>2, <1>4, <1>5, MoveTyped

-----------------------------------------------------------------------------
(* The question a text answers is in the session that was read.            *)

LEMMA PendingIsHeld ==
  ASSUME TypeOK, NEW h \in Handlers, Pending(hd[h].saw) # "none"
  PROVE  /\ Pending(hd[h].saw) \in Kinds /\ Held(h) = hd[h].saw.data[Pending(hd[h].saw)]
         /\ Held(h) \in 1..Len(questions) /\ Held(h) # 0
         /\ questions[Held(h)].kind = Pending(hd[h].saw)
         /\ questions[Held(h)].review \in Reviews \cup {NoReview}
         /\ questions[Held(h)].base \in 0..Len(runs)
         /\ questions[Held(h)].kind = "rerun" => questions[Held(h)].base # 0
<1> DEFINE saw == hd[h].saw
           kind == Pending(saw)
           held == IF Live(saw) THEN {k \in Kinds : saw.data[k] # 0} ELSE {}
<1>1. saw \in SessionFor(questions) /\ Keeps(saw, questions)
  BY HandlerHere DEF HandlerFor, Needs
<1>2. held \subseteq {"start", "rerun", "select", "confirm"}
  BY DEF Kinds
<1>3. kind = CASE "start" \in held                                -> "start"
               [] "start" \notin held /\ "rerun" \in held         -> "rerun"
               [] held = {"select"} \/ held = {"select", "confirm"} -> "select"
               [] held = {"confirm"}                              -> "confirm"
               [] held = {}                                       -> "none"
  BY DEF Pending
<1>4. held # {}
  <2>1. CASE held = {}
    BY <1>3, <2>1
  <2> QED BY <2>1
<1> HIDE DEF held
<1>5. kind \in held
  <2>1. CASE "start" \in held
    BY <1>3, <2>1
  <2>2. CASE "start" \notin held /\ "rerun" \in held
    BY <1>3, <2>2
  <2>3. CASE "start" \notin held /\ "rerun" \notin held /\ "select" \in held
    <3>1. held = {"select"} \/ held = {"select", "confirm"}
      BY <1>2, <2>3
    <3> QED BY <1>3, <2>3, <3>1
  <2>4. CASE "start" \notin held /\ "rerun" \notin held /\ "select" \notin held
    <3>1. held = {"confirm"}
      BY <1>2, <1>4, <2>4
    <3> QED BY <1>3, <2>4, <3>1
  <2> QED BY <2>1, <2>2, <2>3, <2>4
<1>6. kind \in Kinds /\ saw.data[kind] # 0
  BY <1>5 DEF held
<1>7. Held(h) = saw.data[kind]
  BY DEF Held
<1>8. saw.data[kind] \in 1..Len(questions)
  BY <1>1, <1>6, Sizes DEF SessionFor
<1>9. questions[saw.data[kind]] \in QuestionFor(runs)
  BY <1>8, Parts, Sizes DEF QuestionsOK
<1>10. questions[saw.data[kind]].kind = kind
  BY <1>1, <1>6 DEF Keeps
<1>11. questions[saw.data[kind]].kind = "rerun" => questions[saw.data[kind]].base # 0
  BY <1>8, Parts, Sizes DEF QuestionsOK
<1> HIDE DEF kind, saw
<1>12. Held(h) \in 1..Len(questions)
  BY <1>7, <1>8
<1>13. questions[Held(h)].review \in Reviews \cup {NoReview} /\ questions[Held(h)].base \in 0..Len(runs)
  BY <1>7, <1>9 DEF QuestionFor
<1> QED BY <1>6, <1>7, <1>10, <1>11, <1>12, <1>13 DEF kind, saw

(* What was agreed to is started.                                          *)
Agreed(h) ==
  /\ Only(h) /\ hd[h].at = "branch" /\ hd'[h].at \in {"create", "rerun"}
  /\ hd'[h].late = hd[h].late /\ hd'[h].asked = hd[h].asked
  /\ \E k \in Kinds : hd'[h].question = hd[h].saw.data[k]
  /\ hd'[h].question \in 1..Len(questions)

LEMMA AcceptMoves ==
  ASSUME TypeOK, NEW h \in Handlers, AcceptReview(h) \/ AcceptRerun(h) \/ AcceptTask(h)
  PROVE  TypeOK' /\ Apart /\ Agreed(h)
<1>1. Apart /\ CountsOK'
  BY CountsStay DEF AcceptReview, AcceptRerun, AcceptTask, Apart, Same, counts, history
<1>2. PICK kind \in {"start", "rerun", "confirm"}, at \in {"create", "rerun"} :
        Accepts(h, kind) /\ Starting(h, kind, at) /\ (at = "rerun" => kind = "rerun")
  BY DEF AcceptReview, AcceptRerun, AcceptTask
<1>3. /\ hd[h].at = "branch" /\ hd[h].say.what = "yes" /\ Pending(hd[h].saw) = kind
  BY <1>2 DEF Accepts, Affirmative, Say
<1> DEFINE q == Held(h)
           review == questions[q].review
           base == questions[q].base
           x == [hd[h] EXCEPT !.at = at, !.kind = kind, !.question = q,
                              !.review = review, !.base = base]
<1>4. /\ q \in 1..Len(questions) /\ q # 0 /\ questions[q].kind = kind /\ q = hd[h].saw.data[kind]
      /\ review \in Reviews \cup {NoReview} /\ base \in 0..Len(runs) /\ (kind = "rerun" => base # 0)
  BY <1>2, <1>3, PendingIsHeld
<1>5. hd' = [hd EXCEPT ![h] = x]
  BY <1>2, Parts DEF Starting, HandlersOK
<1> HIDE DEF q, review, base
<1>6. x \in HandlerFor(runs, questions, tasks)
  <2>1. hd[h] \in HandlerFor(runs, questions, tasks)
    BY HandlerHere
  <2>2. at \in Places /\ kind \in Kinds /\ q \in 0..Len(questions)
    BY <1>4, Sizes DEF Places, Kinds
  <2> QED BY <1>4, <2>1, <2>2 DEF HandlerFor
<1>7. /\ x.at = at /\ x.late = hd[h].late /\ x.asked = hd[h].asked
      /\ x.saw = hd[h].saw /\ x.say = hd[h].say /\ x.kind = kind /\ x.base = base
      /\ x.question = q
  BY HandlerHere DEF HandlerFor
<1> HIDE DEF x
<1>8. Fits(x, runs, questions, tasks)
  BY <1>2, <1>3, <1>4, <1>6, <1>7, HandlerHere DEF Fits, Needs
<1>9. TypeOK' /\ Only(h) /\ hd'[h] = x
  BY <1>1, <1>5, <1>8, MoveTyped
<1> QED BY <1>1, <1>3, <1>4, <1>7, <1>9 DEF Agreed, Kinds

LEMMA ChooseMoves ==
  ASSUME TypeOK, NEW h \in Handlers, Choose(h)
  PROVE  TypeOK' /\ Quietly(h)
<1>1. Apart /\ CountsOK' /\ hd[h].at = "branch" /\ Pending(hd[h].saw) = "select"
  BY CountsStay DEF Choose, Apart, Same, counts, history
<1>2. CASE Finish(h)
  BY <1>1, <1>2, FinishTyped
<1>3. CASE Go(h, "parse")
  BY <1>1, <1>3, GoTyped
<1>4. ASSUME hd' = [hd EXCEPT ![h].at = "read", ![h].kind = "start",
                              ![h].review = questions[Held(h)].review]
      PROVE  TypeOK' /\ Quietly(h)
  <2> DEFINE review == questions[Held(h)].review
             x == [hd[h] EXCEPT !.at = "read", !.kind = "start", !.review = review]
  <2>1. review \in Reviews \cup {NoReview}
    BY <1>1, PendingIsHeld
  <2>2. hd' = [hd EXCEPT ![h] = x]
    BY <1>4, Parts DEF HandlersOK
  <2> HIDE DEF review
  <2>3. /\ x \in HandlerFor(runs, questions, tasks) /\ x.at = "read" /\ x.late = hd[h].late
        /\ x.saw = hd[h].saw /\ x.say = hd[h].say /\ x.kind = "start"
        /\ x.question = hd[h].question
    <3>1. hd[h] \in HandlerFor(runs, questions, tasks)
      BY HandlerHere
    <3> QED BY <2>1, <3>1 DEF HandlerFor, Places, Kinds
  <2> HIDE DEF x
  <2>4. Fits(x, runs, questions, tasks)
    BY <1>1, <2>3, HandlerHere DEF Fits, Needs
  <2> QED BY <1>1, <2>2, <2>3, <2>4, MoveTyped DEF Quietly, Neutral
<1> QED BY <1>2, <1>3, <1>4 DEF Choose

-----------------------------------------------------------------------------
(* The session is written.                                                 *)

LEMMA WritesTyped ==
  ASSUME TypeOK, Grown, UNCHANGED <<runs, tasks, bindings>>,
         CountsOK', SessionOK', QuestionsOK', HandlersOK'
  PROVE  TypeOK'
<1>1. BoardOK'
  BY Parts DEF BoardOK, Grown, Later, RunIds
<1>2. BindingsOK'
  BY Parts DEF BindingsOK
<1> QED BY <1>1, <1>2, PartsNext

LEMMA ReadIntakeMoves ==
  ASSUME TypeOK, NEW h \in Handlers, ReadIntake(h)
  PROVE  /\ TypeOK' /\ Same /\ UNCHANGED <<bindings, answered>> /\ session'.data = session.data
         /\ Only(h) /\ hd'[h].late = hd[h].late
         /\ hd'[h].at = "branch" /\ hd'[h].saw = session /\ hd'[h].closed = answered
         /\ hd'[h].asked = Len(questions)
<1>1. Same /\ UNCHANGED <<bindings, answered, questions>> /\ CountsOK' /\ hd[h].at = "intake"
  BY CountsStay DEF ReadIntake, Same, counts, history
<1> DEFINE x == [hd[h] EXCEPT !.at = "branch", !.saw = session, !.closed = answered,
                              !.asked = Len(questions)]
<1>2. hd' = [hd EXCEPT ![h] = x]
  BY Parts DEF ReadIntake, HandlersOK
<1>3. /\ session \in SessionFor(questions) /\ Keeps(session, questions)
      /\ answered \subseteq 1..Len(questions) /\ Len(questions) \in 0..Len(questions)
  BY Parts, Sizes DEF SessionOK, QuestionsOK
<1>4. /\ x \in HandlerFor(runs, questions, tasks) /\ x.at = "branch" /\ x.late = hd[h].late
      /\ x.saw = session /\ x.closed = answered /\ x.say = hd[h].say /\ x.kind = hd[h].kind
      /\ x.base = hd[h].base /\ x.question = hd[h].question /\ x.asked = Len(questions)
  <2>1. hd[h] \in HandlerFor(runs, questions, tasks)
    BY HandlerHere
  <2> QED BY <1>3, <2>1 DEF HandlerFor, Places
<1> HIDE DEF x
<1>5. Fits(x, runs, questions, tasks)
  BY <1>1, <1>3, <1>4, HandlerHere DEF Fits, Needs
<1>6. HandlersOK' /\ hd'[h] = x /\ Only(h)
  BY <1>1, <1>2, <1>5, SameGrown, BecomesFits DEF Same
<1>7. /\ session' \in SessionFor(questions) /\ session'.data = session.data
  BY <1>3 DEF ReadIntake, SessionFor
<1>8. SessionOK'
  BY <1>1, <1>3, <1>7 DEF SessionOK, Keeps
<1>9. QuestionsOK'
  BY <1>1, Parts DEF QuestionsOK, Same
<1>10. TypeOK'
  BY <1>1, <1>6, <1>8, <1>9, SameGrown, WritesTyped DEF Same
<1> QED BY <1>1, <1>4, <1>6, <1>7, <1>10

(* A question is put.                                                      *)
Puts(q) ==
  /\ questions' = Append(questions, q) /\ Len(questions') = Len(questions) + 1
  /\ questions'[Len(questions) + 1] = q
  /\ \A p \in 1..Len(questions) : questions'[p] = questions[p]

LEMMA QuestionPut ==
  ASSUME TypeOK, NEW q \in QuestionFor(runs), q.kind = "rerun" => q.base # 0,
         questions' = Append(questions, q), UNCHANGED <<runs, tasks>>, answered' \subseteq answered
  PROVE  Puts(q) /\ Grown /\ QuestionsOK'
<1>1. questions \in Seq(QuestionFor(runs))
  BY Parts DEF QuestionsOK
<1>2. /\ Puts(q) /\ questions' \in Seq(QuestionFor(runs')) /\ Len(questions) \in Nat
      /\ DOMAIN questions' = 1..(Len(questions) + 1)
  BY <1>1 DEF Puts
<1>3. Grown
  BY <1>2, Sizes, Parts DEF Grown, Later, Puts, BoardOK
<1>4. \A p \in DOMAIN questions' : questions'[p].kind = "rerun" => questions'[p].base # 0
  BY <1>2, Parts, Sizes DEF QuestionsOK, Puts
<1>5. answered' \subseteq DOMAIN questions'
  BY <1>2, Parts, Sizes DEF QuestionsOK
<1> QED BY <1>2, <1>3, <1>4, <1>5 DEF QuestionsOK

(* The session asks the new question, besides those it was seen to hold,   *)
(* or alone.                                                               *)
Asks(kind, data) ==
  session' = [status |-> "active", stale |-> FALSE,
              data |-> [data EXCEPT ![kind] = Len(questions) + 1]]

LEMMA AsksTyped ==
  ASSUME TypeOK, NEW q \in QuestionFor(runs), Puts(q), NEW data, Asks(q.kind, data),
         data \in [Kinds -> 0..Len(questions)],
         \A k \in Kinds : data[k] # 0 => questions[data[k]].kind = k
  PROVE  /\ SessionOK' /\ session'.data[q.kind] = Len(questions) + 1
         /\ \A k \in Kinds \ {q.kind} : session'.data[k] = data[k]
<1>1. q.kind \in Kinds /\ Len(questions) \in Nat
  BY Sizes DEF QuestionFor
<1>2. /\ session'.data[q.kind] = Len(questions) + 1
      /\ \A k \in Kinds \ {q.kind} : session'.data[k] = data[k]
      /\ session'.data \in [Kinds -> 0..(Len(questions) + 1)]
  BY <1>1 DEF Asks
<1>3. session' \in SessionFor(questions')
  BY <1>2 DEF Asks, SessionFor, Puts
<1>4. \A k \in Kinds \ {q.kind} : data[k] # 0 => data[k] \in 1..Len(questions)
  OBVIOUS
<1>5. Keeps(session', questions')
  BY <1>1, <1>2, <1>4 DEF Keeps, Puts
<1> QED BY <1>2, <1>3, <1>5 DEF SessionOK

LEMMA NoDataHolds ==
  ASSUME NEW n \in Nat
  PROVE  NoData \in [Kinds -> 0..n] /\ \A k \in Kinds : NoData[k] = 0
BY DEF NoData

LEMMA AskMoves ==
  ASSUME TypeOK, NEW h \in Handlers, Ask(h)
  PROVE  /\ TypeOK' /\ Only(h) /\ hd'[h] = Idle /\ hd[h].at = "ask"
         /\ Puts(Question(h, hd[h].kind))
         /\ session'.data[hd[h].kind] = Len(questions) + 1
         /\ \A k \in Kinds \ {hd[h].kind} : session'.data[k] = hd[h].saw.data[k]
         /\ answered' = StillAnswered /\ hd[h].kind \in Kinds
         /\ UNCHANGED <<runs, tasks, bindings>>
<1> DEFINE q == Question(h, hd[h].kind)
<1>1. /\ UNCHANGED <<runs, tasks, bindings>> /\ CountsOK' /\ Finish(h) /\ hd[h].at = "ask"
      /\ questions' = Append(questions, q) /\ answered' = StillAnswered
      /\ Asks(hd[h].kind, hd[h].saw.data)
  BY CountsStay DEF Ask, counts, Asks, Asking
<1>2. /\ hd[h].kind \in Kinds /\ hd[h].saw \in SessionFor(questions) /\ Keeps(hd[h].saw, questions)
      /\ hd[h].review \in Reviews \cup {NoReview} /\ hd[h].base \in 0..Len(runs)
      /\ hd[h].kind = "rerun" => hd[h].base # 0
  BY HandlerHere DEF HandlerFor, Needs
<1>3. q \in QuestionFor(runs) /\ q.kind = hd[h].kind /\ (q.kind = "rerun" => q.base # 0)
  BY <1>2 DEF Question, QuestionFor
<1>4. Puts(q) /\ Grown /\ QuestionsOK'
  BY <1>1, <1>3, QuestionPut DEF StillAnswered
<1>5. /\ SessionOK' /\ session'.data[hd[h].kind] = Len(questions) + 1
      /\ \A k \in Kinds \ {hd[h].kind} : session'.data[k] = hd[h].saw.data[k]
  <2>1. Asks(q.kind, hd[h].saw.data)
    BY <1>1, <1>3 DEF Asks
  <2>2. hd[h].saw.data \in [Kinds -> 0..Len(questions)]
    BY <1>2 DEF SessionFor
  <2>3. \A k \in Kinds : hd[h].saw.data[k] # 0 => questions[hd[h].saw.data[k]].kind = k
    BY <1>2 DEF Keeps
  <2> HIDE DEF q
  <2>4. /\ SessionOK' /\ session'.data[q.kind] = Len(questions) + 1
        /\ \A k \in Kinds \ {q.kind} : session'.data[k] = hd[h].saw.data[k]
    BY <1>3, <1>4, <2>1, <2>2, <2>3, AsksTyped
  <2> QED BY <1>3, <2>4
<1>6. HandlersOK' /\ hd'[h] = Idle /\ Only(h)
  BY <1>1, <1>4, FinishFits
<1>7. TypeOK'
  BY <1>1, <1>4, <1>5, <1>6, WritesTyped
<1> QED BY <1>1, <1>2, <1>4, <1>5, <1>6, <1>7

LEMMA AskFreshMoves ==
  ASSUME TypeOK, NEW h \in Handlers, ProposeIssue(h) \/ ProposeTask(h)
  PROVE  /\ TypeOK' /\ Only(h) /\ hd'[h] = Idle /\ hd[h].at \in {"jira", "parse", "branch"}
         /\ Puts([kind |-> "confirm", review |-> NoReview, base |-> 0])
         /\ session'.data["confirm"] = Len(questions) + 1
         /\ \A k \in Kinds \ {"confirm"} : session'.data[k] = 0
         /\ UNCHANGED <<runs, tasks, bindings, answered>>
<1> DEFINE q == [kind |-> "confirm", review |-> NoReview, base |-> 0]
<1>1. /\ UNCHANGED <<runs, tasks, bindings, answered>> /\ CountsOK' /\ Finish(h)
      /\ hd[h].at \in {"jira", "parse", "branch"}
      /\ questions' = Append(questions, q) /\ Asks("confirm", NoData)
  BY CountsStay DEF ProposeIssue, ProposeTask, Interpreted, AskFresh, counts, Asks
<1>2. q \in QuestionFor(runs) /\ q.kind = "confirm"
  BY Sizes DEF QuestionFor, Kinds
<1>3. Puts(q) /\ Grown /\ QuestionsOK'
  BY <1>1, <1>2, QuestionPut
<1>4. NoData \in [Kinds -> 0..Len(questions)] /\ \A k \in Kinds : NoData[k] = 0
  BY Sizes, NoDataHolds
<1> HIDE DEF q
<1>5. /\ SessionOK' /\ session'.data["confirm"] = Len(questions) + 1
      /\ \A k \in Kinds \ {"confirm"} : session'.data[k] = NoData[k]
  BY <1>1, <1>2, <1>3, <1>4, AsksTyped
<1>6. HandlersOK' /\ hd'[h] = Idle /\ Only(h)
  BY <1>1, <1>3, FinishFits
<1>7. TypeOK'
  BY <1>1, <1>3, <1>5, <1>6, WritesTyped
<1> QED BY <1>1, <1>3, <1>4, <1>5, <1>6, <1>7 DEF q

(* The session is closed, or holds no question any more.                   *)
LEMMA ClearMoves ==
  ASSUME TypeOK, NEW h \in Handlers, Decline(h) \/ AskBack(h) \/ Close(h)
  PROVE  /\ TypeOK' /\ Same /\ Only(h) /\ hd'[h] = Idle /\ UNCHANGED bindings
         /\ hd[h].at \in {"parse", "branch", "close"}
         /\ \A k \in Kinds : session'.data[k] = 0
<1>1. /\ Same /\ UNCHANGED bindings /\ CountsOK' /\ Finish(h)
      /\ hd[h].at \in {"parse", "branch", "close"}
  BY CountsStay DEF Decline, AskBack, Close, Interpreted, Same, counts, history
<1>2. \E status \in {"active", "completed"} :
         session' = [status |-> status, stale |-> FALSE, data |-> NoData]
  BY DEF Decline, AskBack, Close, Closed
<1>3. /\ NoData \in [Kinds -> 0..Len(questions)] /\ \A k \in Kinds : NoData[k] = 0
  BY Sizes, NoDataHolds
<1>4. SessionOK' /\ \A k \in Kinds : session'.data[k] = 0
  BY <1>1, <1>2, <1>3 DEF SessionOK, SessionFor, Keeps, Same
<1>5. answered' \subseteq DOMAIN questions
  <2>1. CASE AskBack(h)
    BY <2>1, Parts DEF AskBack, history, QuestionsOK
  <2>2. CASE Decline(h)
    <3>1. Held(h) \in 1..Len(questions)
      BY <2>2, PendingIsHeld DEF Decline
    <3> QED BY <2>2, <3>1, Parts, Sizes DEF Decline, QuestionsOK
  <2>3. CASE Close(h)
    <3>1. hd[h].question \in 1..Len(questions)
      BY <2>3, HandlerHere, Sizes DEF Close, HandlerFor, Needs
    <3> QED BY <2>3, <3>1, Parts, Sizes DEF Close, QuestionsOK
  <2> QED BY <2>1, <2>2, <2>3
<1>6. QuestionsOK'
  BY <1>1, <1>5, Parts DEF QuestionsOK, Same
<1>7. HandlersOK' /\ hd'[h] = Idle /\ Only(h)
  BY <1>1, SameGrown, FinishFits
<1>8. TypeOK'
  BY <1>1, <1>4, <1>6, <1>7, SameGrown, WritesTyped DEF Same
<1> QED BY <1>1, <1>4, <1>7, <1>8

LEMMA AddContextMoves ==
  ASSUME TypeOK, NEW h \in Handlers, AddContext(h)
  PROVE  /\ TypeOK' /\ Same /\ Only(h) /\ hd'[h] = Idle /\ UNCHANGED bindings
         /\ hd[h].at = "branch" /\ session'.data = hd[h].saw.data /\ answered' = StillAnswered
<1>1. /\ Same /\ UNCHANGED bindings /\ CountsOK' /\ Finish(h)
      /\ hd[h].at = "branch" /\ answered' = StillAnswered
      /\ session' = [hd[h].saw EXCEPT !.status = "active"]
  BY CountsStay DEF AddContext, Same, counts
<1>2. hd[h].saw \in SessionFor(questions) /\ Keeps(hd[h].saw, questions)
  BY HandlerHere DEF HandlerFor, Needs
<1>3. SessionOK' /\ session'.data = hd[h].saw.data
  BY <1>1, <1>2 DEF SessionOK, SessionFor, Keeps, Same
<1>4. QuestionsOK'
  BY <1>1, Parts DEF QuestionsOK, Same, StillAnswered
<1>5. HandlersOK' /\ hd'[h] = Idle /\ Only(h)
  BY <1>1, SameGrown, FinishFits
<1>6. TypeOK'
  BY <1>1, <1>3, <1>4, <1>5, SameGrown, WritesTyped DEF Same
<1> QED BY <1>1, <1>3, <1>5, <1>6

-----------------------------------------------------------------------------
(* The board and the bindings are written.                                 *)

LEMMA BoardTyped ==
  ASSUME TypeOK, Grown, UNCHANGED <<session, questions, answered>>,
         CountsOK', BoardOK', BindingsOK', HandlersOK'
  PROVE  TypeOK'
<1>1. SessionOK'
  BY Parts DEF SessionOK
<1>2. QuestionsOK'
  <2>1. QuestionFor(runs) \subseteq QuestionFor(runs')
    <3>1. 0..Len(runs) \subseteq 0..Len(runs')
      BY DEF Grown, Later
    <3> QED BY <3>1 DEF QuestionFor
  <2>2. questions \in Seq(QuestionFor(runs))
    BY Parts DEF QuestionsOK
  <2>3. questions \in Seq(QuestionFor(runs'))
    BY <2>1, <2>2
  <2> QED BY <2>3, Parts DEF QuestionsOK
<1> QED BY <1>1, <1>2, PartsNext

LEMMA BindingsStay ==
  ASSUME TypeOK, Grown, UNCHANGED bindings
  PROVE  BindingsOK'
<1>1. 0..Len(runs) \subseteq 0..Len(runs') /\ 0..tasks \subseteq 0..tasks'
  BY DEF Grown, Later
<1>2. bindings \in [DOMAIN bindings -> 0..Len(runs)] /\ DOMAIN bindings \subseteq 0..tasks
  BY Parts DEF BindingsOK
<1> QED BY <1>1, <1>2 DEF BindingsOK

(* Another run, of the question that was agreed to, which is to be bound.  *)
Runs(h) ==
  /\ Only(h) /\ hd[h].at \in {"create", "rerun"} /\ hd'[h].at \in {"show", "bind"}
  /\ hd'[h].late = hd[h].late /\ hd'[h].run = Len(runs) + 1
  /\ Len(runs') = Len(runs) + 1 /\ \A r \in RunIds : runs'[r] = runs[r]
  /\ runs'[Len(runs) + 1].question = hd[h].question
  /\ runs'[Len(runs) + 1].asked = hd[h].asked
  /\ UNCHANGED <<session, questions, answered, bindings>>

LEMMA RunAdded ==
  ASSUME TypeOK, NEW h \in Handlers, NEW t \in 1..tasks', NEW shown \in BOOLEAN,
         runs' = Append(runs, NewRun(h, t, shown)),
         NEW at \in {"show", "bind"}, hd[h].at \in {"create", "rerun"},
         hd' = [hd EXCEPT ![h].at = at, ![h].run = Len(runs) + 1, ![h].task = t],
         tasks' \in Nat, tasks <= tasks', UNCHANGED <<session, questions, answered, bindings>>,
         UNCHANGED counts
  PROVE  TypeOK' /\ Runs(h)
<1> DEFINE run == NewRun(h, t, shown)
           x == [hd[h] EXCEPT !.at = at, !.run = Len(runs) + 1, !.task = t]
<1>1. /\ hd[h].review \in Reviews \cup {NoReview} /\ hd[h].question \in 0..Len(questions)
      /\ hd[h].asked \in 0..Len(questions) /\ hd[h].key \in Keys
  BY HandlerHere DEF HandlerFor
<1>2. t \in Nat \ {0} /\ t \in 1..tasks'
  BY Sizes
<1>3. /\ run \in Run /\ run.question = hd[h].question /\ run.asked = hd[h].asked /\ run.task = t
  BY <1>1, <1>2, Sizes DEF NewRun, Run
<1> HIDE DEF run
<1>4. /\ runs' \in Seq(Run) /\ Len(runs') = Len(runs) + 1 /\ runs'[Len(runs) + 1] = run
      /\ \A r \in RunIds : runs'[r] = runs[r]
  <2>1. runs \in Seq(Run) /\ runs' = Append(runs, run)
    BY Parts DEF BoardOK, run
  <2> QED BY <1>3, <2>1 DEF RunIds
<1>5. Grown
  BY <1>4, Sizes DEF Grown, Later
<1>6. BoardOK'
  <2>1. RunIds' = RunIds \cup {Len(runs) + 1}
    BY <1>4, Sizes DEF RunIds
  <2>2. \A r \in RunIds : /\ runs'[r].task \in 1..tasks' /\ runs'[r].question \in 0..Len(questions')
                          /\ runs'[r].asked \in 0..Len(questions')
    <3>1. \A r \in RunIds : /\ runs[r].task \in 1..tasks /\ runs[r].question \in 0..Len(questions)
                            /\ runs[r].asked \in 0..Len(questions)
      BY Parts DEF BoardOK
    <3>2. 1..tasks \subseteq 1..tasks'
      BY Sizes
    <3> QED BY <1>4, <3>1, <3>2
  <2>3. /\ runs'[Len(runs) + 1].task \in 1..tasks'
        /\ runs'[Len(runs) + 1].question \in 0..Len(questions')
        /\ runs'[Len(runs) + 1].asked \in 0..Len(questions')
    BY <1>1, <1>2, <1>3, <1>4
  <2>4. tasks' \in Nat /\ runs' \in Seq(Run)
    BY <1>4
  <2> QED BY <2>1, <2>2, <2>3, <2>4 DEF BoardOK
<1>7. BindingsOK' /\ CountsOK'
  BY <1>5, BindingsStay, CountsStay
<1>8. hd' = [hd EXCEPT ![h] = x]
  BY Parts DEF HandlersOK
<1>9. hd[h] \in HandlerFor(runs', questions', tasks') /\ Needs(hd[h], runs', questions')
  BY <1>5, HandlerHere, LaterFits DEF Grown, Fits
<1>10. /\ x \in HandlerFor(runs', questions', tasks') /\ x.at = at /\ x.late = hd[h].late
       /\ x.saw = hd[h].saw /\ x.say = hd[h].say /\ x.kind = hd[h].kind /\ x.base = hd[h].base
       /\ x.question = hd[h].question /\ x.run = Len(runs) + 1 /\ x.task = t
  <2>1. at \in Places /\ t \in 0..tasks' /\ Len(runs) + 1 \in 0..Len(runs')
    BY <1>2, <1>4, Sizes DEF Places
  <2> QED BY <1>9, <2>1 DEF HandlerFor
<1> HIDE DEF x
<1>11. Fits(x, runs', questions', tasks')
  BY <1>3, <1>4, <1>9, <1>10, Sizes DEF Fits, Needs
<1>12. HandlersOK' /\ hd'[h] = x /\ Only(h)
  BY <1>5, <1>8, <1>11, BecomesFits
<1>13. TypeOK'
  BY <1>5, <1>6, <1>7, <1>12, BoardTyped
<1> QED BY <1>3, <1>4, <1>10, <1>12, <1>13 DEF Runs

LEMMA StartRunMoves ==
  ASSUME TypeOK, NEW h \in Handlers, StartRun(h)
  PROVE  TypeOK' /\ Runs(h)
<1>1. PICK at \in {"show", "bind"} :
        hd' = [hd EXCEPT ![h].at = at, ![h].run = Len(runs) + 1, ![h].task = tasks + 1]
  BY DEF StartRun
<1>2. /\ tasks' = tasks + 1 /\ runs' = Append(runs, NewRun(h, tasks + 1, FALSE))
      /\ hd[h].at = "create"
      /\ UNCHANGED <<session, questions, answered, bindings>> /\ UNCHANGED counts
  BY DEF StartRun, counts, history
<1>3. tasks' \in Nat /\ tasks <= tasks' /\ tasks + 1 \in 1..tasks'
  BY <1>2, Sizes
<1> QED BY <1>1, <1>2, <1>3, RunAdded

LEMMA RerunMoves ==
  ASSUME TypeOK, NEW h \in Handlers, Rerun(h)
  PROVE  TypeOK' /\ Runs(h)
<1> DEFINE t == runs[hd[h].base].task
<1>1. hd' = [hd EXCEPT ![h].at = "bind", ![h].run = Len(runs) + 1, ![h].task = t]
  BY DEF Rerun
<1>2. /\ tasks' = tasks /\ runs' = Append(runs, NewRun(h, t, TRUE)) /\ hd[h].at = "rerun"
      /\ UNCHANGED <<session, questions, answered, bindings>> /\ UNCHANGED counts
  BY DEF Rerun, counts, history
<1>3. hd[h].base \in RunIds
  BY <1>2, HandlerHere, Sizes DEF HandlerFor, Needs
<1>4. t \in 1..tasks'
  BY <1>2, <1>3, Parts DEF BoardOK
<1>5. tasks' \in Nat /\ tasks <= tasks'
  BY <1>2, Sizes
<1> HIDE DEF t
<1>6. /\ hd[h].at \in {"create", "rerun"}
      /\ hd' = [hd EXCEPT ![h].at = "bind", ![h].run = Len(runs) + 1, ![h].task = t]
  BY <1>1, <1>2
<1> QED BY <1>2, <1>4, <1>5, <1>6, RunAdded

(* Runs are told more of, or that their request is over.                   *)
RunsStay ==
  /\ Len(runs') = Len(runs) /\ RunIds' = RunIds
  /\ \A r \in RunIds : /\ runs'[r].task = runs[r].task /\ runs'[r].question = runs[r].question
                       /\ runs'[r].asked = runs[r].asked

LEMMA RunsTold ==
  ASSUME TypeOK, RunsStay, runs' \in Seq(Run), UNCHANGED <<tasks, questions, bindings>>
  PROVE  Grown /\ BoardOK' /\ BindingsOK'
<1>1. Grown
  BY Sizes DEF RunsStay, Grown, Later
<1>2. BoardOK'
  BY Parts DEF RunsStay, BoardOK
<1> QED BY <1>1, <1>2, BindingsStay

LEMMA ShowReviewMoves ==
  ASSUME TypeOK, NEW h \in Handlers, ShowReview(h)
  PROVE  /\ TypeOK' /\ Only(h) /\ hd[h].at = "show" /\ hd'[h].at = "bind"
         /\ hd'[h].late = hd[h].late /\ hd'[h].run = hd[h].run
         /\ RunsStay /\ \A r \in RunIds : runs'[r].cut = runs[r].cut
         /\ UNCHANGED <<session, questions, answered, bindings>>
<1>1. /\ UNCHANGED <<session, questions, answered, bindings, tasks>> /\ CountsOK'
      /\ hd[h].at = "show" /\ hd' = [hd EXCEPT ![h].at = "bind"]
      /\ runs' = [runs EXCEPT ![hd[h].run].shown = TRUE]
  BY CountsStay DEF ShowReview, Go, counts, history
<1>2. hd[h].run \in RunIds /\ runs[hd[h].run] \in Run
  BY <1>1, HandlerHere, Sizes, Parts DEF HandlerFor, Needs, BoardOK
<1>3. runs' = [runs EXCEPT ![hd[h].run] = [runs[hd[h].run] EXCEPT !.shown = TRUE]]
  BY <1>1, <1>2, Sizes
<1>4. [runs[hd[h].run] EXCEPT !.shown = TRUE] \in Run
  BY <1>2 DEF Run
<1>5. runs' \in Seq(Run) /\ Len(runs') = Len(runs)
  BY <1>2, <1>3, <1>4, Parts, Sizes DEF BoardOK
<1>6. RunsStay /\ \A r \in RunIds : runs'[r].cut = runs[r].cut
  BY <1>2, <1>3, <1>5, Sizes, Parts DEF RunsStay, RunIds, Run, BoardOK
<1>7. Grown /\ BoardOK' /\ BindingsOK'
  BY <1>1, <1>5, <1>6, RunsTold
<1> DEFINE x == [hd[h] EXCEPT !.at = "bind"]
<1>8. hd' = [hd EXCEPT ![h] = x]
  BY <1>1, Parts DEF HandlersOK
<1>9. hd[h] \in HandlerFor(runs', questions', tasks') /\ Needs(hd[h], runs', questions')
  BY <1>7, HandlerHere, LaterFits DEF Grown, Fits
<1>10. /\ x \in HandlerFor(runs', questions', tasks') /\ x.at = "bind" /\ x.late = hd[h].late
       /\ x.saw = hd[h].saw /\ x.say = hd[h].say /\ x.kind = hd[h].kind /\ x.base = hd[h].base
       /\ x.question = hd[h].question /\ x.run = hd[h].run /\ x.task = hd[h].task
  BY <1>9 DEF HandlerFor, Places
<1> HIDE DEF x
<1>11. Fits(x, runs', questions', tasks')
  BY <1>1, <1>9, <1>10 DEF Fits, Needs
<1>12. HandlersOK' /\ hd'[h] = x /\ Only(h)
  BY <1>7, <1>8, <1>11, BecomesFits
<1>13. TypeOK'
  BY <1>1, <1>7, <1>12, BoardTyped
<1> QED BY <1>1, <1>6, <1>10, <1>12, <1>13

LEMMA FailMoves ==
  ASSUME TypeOK, NEW h \in Handlers, Fail(h)
  PROVE  /\ TypeOK' /\ Only(h) /\ hd'[h] = Idle /\ hd[h].at \in {"jira", "show", "bind", "close"}
         /\ RunsStay
         /\ \A r \in RunIds : runs'[r].cut = IF r = hd[h].run THEN TRUE ELSE runs[r].cut
         /\ UNCHANGED <<session, questions, answered, bindings>>
<1>1. /\ UNCHANGED <<session, questions, answered, bindings, tasks>>
      /\ hd[h].at \in {"jira", "show", "bind", "close"} /\ Finish(h)
      /\ runs' = [r \in RunIds |-> IF r = hd[h].run THEN [runs[r] EXCEPT !.cut = TRUE] ELSE runs[r]]
  BY DEF Fail, history
<1>2. CountsOK'
  BY Parts, IntakeAssumption DEF CountsOK, Fail, history
<1>3. \A r \in RunIds : runs[r] \in Run
  BY Parts, Sizes DEF BoardOK
<1>4. \A r \in RunIds : runs'[r] = IF r = hd[h].run THEN [runs[r] EXCEPT !.cut = TRUE] ELSE runs[r]
  BY <1>1
<1>5. \A r \in RunIds : /\ runs'[r] \in Run
                        /\ runs'[r].task = runs[r].task /\ runs'[r].question = runs[r].question
                        /\ runs'[r].asked = runs[r].asked
                        /\ runs'[r].cut = IF r = hd[h].run THEN TRUE ELSE runs[r].cut
  <2> SUFFICES ASSUME NEW r \in RunIds
               PROVE  /\ runs'[r] \in Run
                      /\ runs'[r].task = runs[r].task /\ runs'[r].question = runs[r].question
                      /\ runs'[r].asked = runs[r].asked
                      /\ runs'[r].cut = IF r = hd[h].run THEN TRUE ELSE runs[r].cut
    OBVIOUS
  <2>1. runs[r] \in Run
    BY <1>3
  <2>2. CASE r = hd[h].run
    <3>1. runs'[r] = [runs[r] EXCEPT !.cut = TRUE]
      BY <1>4, <2>2
    <3> QED BY <2>1, <2>2, <3>1 DEF Run
  <2>3. CASE r # hd[h].run
    BY <1>4, <2>1, <2>3
  <2> QED BY <2>2, <2>3
<1>6. runs' \in Seq(Run) /\ Len(runs') = Len(runs)
  <2>1. runs' \in [1..Len(runs) -> Run] /\ Len(runs) \in Nat
    BY <1>1, <1>5, Sizes
  <2>2. runs' \in Seq(Run)
    BY <2>1, SeqDef
  <2>3. Len(runs') \in Nat /\ DOMAIN runs' = 1..Len(runs')
    BY <2>2
  <2> QED BY <2>1, <2>2, <2>3
<1>7. RunsStay
  BY <1>5, <1>6 DEF RunsStay, RunIds
<1>8. Grown /\ BoardOK' /\ BindingsOK'
  BY <1>1, <1>6, <1>7, RunsTold
<1>9. HandlersOK' /\ hd'[h] = Idle /\ Only(h)
  BY <1>1, <1>8, FinishFits
<1>10. TypeOK'
  BY <1>1, <1>2, <1>8, <1>9, BoardTyped
<1> QED BY <1>1, <1>5, <1>7, <1>9, <1>10

(* The thread is bound: to an issue, or to the run that was started.       *)
LEMMA BindIssueMoves ==
  ASSUME TypeOK, NEW h \in Handlers, BindIssue(h)
  PROVE  /\ TypeOK' /\ Quietly(h) /\ Same /\ UNCHANGED <<session, answered>>
         /\ DOMAIN bindings' = DOMAIN bindings \cup {Issue}
         /\ \A t \in DOMAIN bindings \ {Issue} : bindings'[t] = bindings[t]
<1>1. /\ Same /\ UNCHANGED <<session, answered>> /\ CountsOK'
      /\ hd[h].at = "bindIssue" /\ hd' = [hd EXCEPT ![h].at = "jira"]
      /\ bindings' = [t \in DOMAIN bindings \cup {Issue} |-> IF t = Issue THEN 0 ELSE bindings[t]]
  BY CountsStay DEF BindIssue, Bound, Go, Same, counts, history
<1>2. bindings \in [DOMAIN bindings -> 0..Len(runs)] /\ DOMAIN bindings \subseteq 0..tasks
  BY Parts DEF BindingsOK
<1>3. BindingsOK'
  BY <1>1, <1>2, Sizes DEF BindingsOK, Same, Issue
<1> DEFINE x == [hd[h] EXCEPT !.at = "jira"]
<1>4. hd' = [hd EXCEPT ![h] = x]
  BY <1>1, Parts DEF HandlersOK
<1>5. /\ x \in HandlerFor(runs, questions, tasks) /\ x.at = "jira" /\ x.late = hd[h].late
      /\ x.saw = hd[h].saw /\ x.say = hd[h].say /\ x.kind = hd[h].kind /\ x.base = hd[h].base
      /\ x.question = hd[h].question
  <2>1. hd[h] \in HandlerFor(runs, questions, tasks)
    BY HandlerHere
  <2> QED BY <2>1 DEF HandlerFor, Places
<1> HIDE DEF x
<1>6. Fits(x, runs, questions, tasks)
  BY <1>1, <1>5, HandlerHere DEF Fits, Needs
<1>7. HandlersOK' /\ hd'[h] = x /\ Only(h)
  BY <1>1, <1>4, <1>6, SameGrown, BecomesFits DEF Same
<1>8. SessionOK' /\ QuestionsOK'
  BY <1>1, Parts DEF SessionOK, QuestionsOK, Same
<1>9. BoardOK'
  BY <1>1, Parts, SameGrown DEF BoardOK, Same
<1> QED BY <1>1, <1>3, <1>5, <1>7, <1>8, <1>9, PartsNext DEF Quietly, Neutral

(* The run is in the bindings, of its task.                                *)
Binds(h) ==
  /\ Only(h) /\ hd[h].at = "bind" /\ Same /\ UNCHANGED <<session, answered>>
  /\ (hd'[h].late => hd[h].late)
  /\ \/ hd'[h] = Idle /\ hd[h].question = 0
     \/ hd'[h].at = "close" /\ hd'[h].run = hd[h].run
  /\ DOMAIN bindings' \subseteq DOMAIN bindings \cup {hd[h].task} /\ hd[h].task \in DOMAIN bindings'
  /\ bindings'[hd[h].task] = hd[h].run
  /\ \A t \in DOMAIN bindings' \ {hd[h].task} : bindings'[t] = bindings[t]

LEMMA BindMoves ==
  ASSUME TypeOK, NEW h \in Handlers, Bind(h)
  PROVE  TypeOK' /\ Binds(h)
<1>1. /\ Same /\ UNCHANGED <<session, answered>> /\ CountsOK' /\ hd[h].at = "bind"
  BY CountsStay DEF Bind, Same, counts, history
<1>2. bindings \in [DOMAIN bindings -> 0..Len(runs)] /\ DOMAIN bindings \subseteq 0..tasks
  BY Parts DEF BindingsOK
<1>3. hd[h].task \in 0..tasks /\ hd[h].run \in 0..Len(runs)
  BY HandlerHere DEF HandlerFor
<1>4. SessionOK' /\ QuestionsOK' /\ BoardOK'
  BY <1>1, Parts, SameGrown DEF SessionOK, QuestionsOK, BoardOK, Same
<1>5. CASE Say(h).what = "pickRepo"
  <2>1. /\ bindings' = [t \in (DOMAIN bindings \ {Issue}) \cup {hd[h].task} |->
                          IF t = hd[h].task THEN hd[h].run ELSE bindings[t]]
        /\ Finish(h)
    BY <1>5 DEF Bind
  <2>2. /\ DOMAIN bindings' \subseteq DOMAIN bindings \cup {hd[h].task} /\ hd[h].task \in DOMAIN bindings'
        /\ bindings'[hd[h].task] = hd[h].run
        /\ \A t \in DOMAIN bindings' \ {hd[h].task} : bindings'[t] = bindings[t]
    BY <2>1
  <2>3. BindingsOK'
    BY <1>1, <1>2, <1>3, <2>1 DEF BindingsOK, Same
  <2>4. HandlersOK' /\ hd'[h] = Idle /\ Only(h)
    BY <1>1, <2>1, SameGrown, FinishFits
  <2>5. hd[h].question = 0 /\ Idle.late = FALSE
    BY <1>1, <1>5, HandlerHere DEF Needs, Say, Idle
  <2> QED BY <1>1, <1>4, <2>2, <2>3, <2>4, <2>5, PartsNext DEF Binds
<1>6. CASE Say(h).what # "pickRepo"
  <2>1. /\ bindings' = [t \in DOMAIN bindings \cup {hd[h].task} |->
                          IF t = hd[h].task THEN hd[h].run ELSE bindings[t]]
        /\ hd' = [hd EXCEPT ![h].at = "close"]
    BY <1>6 DEF Bind, Bound, BoundRun, Go
  <2>2. /\ DOMAIN bindings' \subseteq DOMAIN bindings \cup {hd[h].task} /\ hd[h].task \in DOMAIN bindings'
        /\ bindings'[hd[h].task] = hd[h].run
        /\ \A t \in DOMAIN bindings' \ {hd[h].task} : bindings'[t] = bindings[t]
    BY <2>1
  <2>3. BindingsOK'
    BY <1>1, <1>2, <1>3, <2>1 DEF BindingsOK, Same
  <2> DEFINE x == [hd[h] EXCEPT !.at = "close"]
  <2>4. hd' = [hd EXCEPT ![h] = x]
    BY <2>1, Parts DEF HandlersOK
  <2>5. /\ x \in HandlerFor(runs, questions, tasks) /\ x.at = "close" /\ x.late = hd[h].late
        /\ x.saw = hd[h].saw /\ x.say = hd[h].say /\ x.kind = hd[h].kind /\ x.base = hd[h].base
        /\ x.question = hd[h].question /\ x.run = hd[h].run
    <3>1. hd[h] \in HandlerFor(runs, questions, tasks)
      BY HandlerHere
    <3> QED BY <3>1 DEF HandlerFor, Places
  <2> HIDE DEF x
  <2>6. Fits(x, runs, questions, tasks)
    BY <1>1, <1>6, <2>5, HandlerHere DEF Fits, Needs, Say
  <2>7. HandlersOK' /\ hd'[h] = x /\ Only(h)
    BY <1>1, <2>4, <2>6, SameGrown, BecomesFits DEF Same
  <2> QED BY <1>1, <1>4, <2>2, <2>3, <2>5, <2>7, PartsNext DEF Binds
<1> QED BY <1>5, <1>6

-----------------------------------------------------------------------------
(* Requests come, and days pass.                                           *)

(* A request comes: to a thread where none is handled, or it overlaps.     *)
Comes(h) ==
  /\ Apart /\ UNCHANGED <<kv, begun>> /\ Only(h) /\ hd[h].at = "idle" /\ hd'[h].at = "key"
  /\ hd'[h].late => hd'[h].key \in begun
  /\ IF Quiet THEN UNCHANGED overlaps ELSE overlaps' = overlaps + 1

LEMMA ArriveMoves ==
  ASSUME TypeOK, NEW h \in Handlers, NEW say \in Saying, NEW key \in Keys, Arrive(h, say, key),
         say.how = "button" => say.what \in {"pickReview", "pickRepo"}, CountsOK'
  PROVE  TypeOK' /\ Comes(h)
<1>1. Apart
  BY DEF Arrive, Apart, Same
<1> DEFINE late == key \in begun
           x == [Idle EXCEPT !.at = "key", !.say = say, !.key = key, !.late = late]
<1>2. Fits(Idle, runs, questions, tasks)
  BY Sizes, IdleFits
<1>3. /\ x \in HandlerFor(runs, questions, tasks) /\ x.at = "key" /\ x.late = late /\ x.key = key
      /\ x.saw = Idle.saw /\ x.say = say /\ x.kind = Idle.kind /\ x.question = Idle.question
  <2>1. late \in BOOLEAN
    OBVIOUS
  <2> HIDE DEF late
  <2>2. Idle \in HandlerFor(runs, questions, tasks) /\ "key" \in Places
    BY <1>2 DEF Fits, Places
  <2> QED BY <2>1, <2>2 DEF HandlerFor
<1>4. hd' = [hd EXCEPT ![h] = x]
  BY DEF Arrive
<1> HIDE DEF x
<1>5. Idle.kind = "confirm" /\ Idle.question = 0
  BY DEF Idle
<1>6. Fits(x, runs, questions, tasks)
  BY <1>2, <1>3, <1>5 DEF Fits, Needs
<1>7. TypeOK' /\ Only(h) /\ hd'[h] = x
  BY <1>1, <1>4, <1>6, MoveTyped
<1> QED BY <1>1, <1>3, <1>7 DEF Comes, Arrive

LEMMA DeliverMoves ==
  ASSUME TypeOK, NEW h \in Handlers, NEW say \in Sayings, Deliver(h, say)
  PROVE  TypeOK' /\ Comes(h)
<1>1. say \in Saying
  BY IntakeAssumption
<1>2. say.how = "button" => say.what \in {"pickReview", "pickRepo"}
  BY Parts DEF Deliver, CountsOK
<1>3. /\ sent' = sent + 1 /\ sent < MaxMessages
      /\ UNCHANGED <<kv, offered, failures, begun>>
      /\ IF Quiet THEN UNCHANGED overlaps ELSE overlaps < MaxOverlaps /\ overlaps' = overlaps + 1
  BY DEF Deliver, Arrive
<1>4. sent' \in 0..MaxMessages /\ overlaps' \in 0..MaxOverlaps
  BY <1>3, Parts, IntakeAssumption DEF CountsOK
<1>5. CASE UNCHANGED <<repeated, copies>> /\ Arrive(h, say, IF say.how = "button" THEN ClickKey(say) ELSE Once)
  <2>1. (IF say.how = "button" THEN ClickKey(say) ELSE Once) \in Keys
    BY <1>1, <1>2 DEF ClickKey, Once, Keys, Saying, Whats
  <2>2. CountsOK'
    BY <1>3, <1>4, <1>5, Parts DEF CountsOK
  <2> QED BY <1>1, <1>2, <1>5, <2>1, <2>2, ArriveMoves
<1>6. CASE /\ say.how # "button" /\ repeated + failures < MaxTroubles /\ repeated' = repeated + 1
           /\ copies' = copies \cup {[say |-> say, key |-> TextKey(repeated + 1)]}
           /\ Arrive(h, say, TextKey(repeated + 1))
  <2>1. TextKey(repeated + 1) \in Keys
    BY Parts DEF TextKey, Keys, CountsOK
  <2>2. {TextKey(n) : n \in 1..repeated} \subseteq {TextKey(n) : n \in 1..(repeated + 1)}
    BY Parts DEF CountsOK
  <2>3. repeated + 1 \in 1..(repeated + 1)
    BY Parts DEF CountsOK
  <2>4. [say |-> say, key |-> TextKey(repeated + 1)] \in
           [say: {s \in Sayings : s.how # "button"}, key: {TextKey(n) : n \in 1..(repeated + 1)}]
    BY <1>6, <2>3
  <2>5. copies \subseteq [say: {s \in Sayings : s.how # "button"}, key: {TextKey(n) : n \in 1..(repeated + 1)}]
    BY <2>2, Parts DEF CountsOK
  <2>6. copies' \subseteq [say: {s \in Sayings : s.how # "button"}, key: {TextKey(n) : n \in 1..repeated'}]
    BY <1>6, <2>4, <2>5
  <2>7. repeated' \in Nat /\ repeated' + failures' <= MaxTroubles /\ failures' \in Nat
    BY <1>3, <1>6, Parts, IntakeAssumption DEF CountsOK
  <2>8. CountsOK'
    BY <1>3, <1>4, <2>6, <2>7, Parts DEF CountsOK
  <2> QED BY <1>1, <1>2, <1>6, <2>1, <2>8, ArriveMoves
<1> QED BY <1>5, <1>6 DEF Deliver

LEMMA RedeliverMoves ==
  ASSUME TypeOK, NEW h \in Handlers, Redeliver(h)
  PROVE  TypeOK' /\ Comes(h)
<1>1. PICK c \in copies : /\ copies' = copies \ {c} /\ Arrive(h, c.say, c.key)
                          /\ UNCHANGED <<sent, repeated>>
  BY DEF Redeliver
<1>2. /\ c.say \in Sayings /\ c.say.how # "button"
      /\ c.key \in {TextKey(n) : n \in 1..repeated}
  BY <1>1, Parts DEF CountsOK
<1>3. c.say \in Saying /\ c.key \in Keys
  BY <1>2, Parts, IntakeAssumption DEF CountsOK, TextKey, Keys
<1>4. /\ UNCHANGED <<kv, offered, failures, begun>>
      /\ IF Quiet THEN UNCHANGED overlaps ELSE overlaps < MaxOverlaps /\ overlaps' = overlaps + 1
  BY <1>1 DEF Arrive
<1>5. overlaps' \in 0..MaxOverlaps
  BY <1>4, Parts, IntakeAssumption DEF CountsOK
<1>6. CountsOK'
  BY <1>1, <1>4, <1>5, Parts DEF CountsOK
<1> QED BY <1>1, <1>2, <1>3, <1>6, ArriveMoves

LEMMA ExpireMoves ==
  ASSUME TypeOK, Expire
  PROVE  /\ TypeOK' /\ Same /\ session'.data = session.data
         /\ UNCHANGED <<hd, bindings, answered, begun, kv, overlaps>>
<1>1. Same /\ UNCHANGED <<bindings, answered, hd>> /\ CountsOK'
      /\ session' = [session EXCEPT !.stale = TRUE] /\ UNCHANGED <<begun, kv, overlaps>>
  BY CountsStay DEF Expire, Same, counts, history
<1>2. session' \in SessionFor(questions) /\ session'.data = session.data
  BY <1>1, Parts DEF SessionOK, SessionFor
<1>3. SessionOK'
  BY <1>1, <1>2, Parts DEF SessionOK, Keeps, Same
<1>4. BoardOK' /\ BindingsOK' /\ QuestionsOK' /\ HandlersOK'
  BY <1>1, Parts DEF BoardOK, BindingsOK, QuestionsOK, HandlersOK, Same, RunIds
<1> QED BY <1>1, <1>2, <1>3, <1>4, PartsNext

LEMMA InitTyped ==
  ASSUME Init
  PROVE  TypeOK
<1>1. PICK board \in BoardRuns : runs = board /\ tasks = Len(board)
  BY DEF Init
<1>2. /\ board \in Seq(Run) /\ Len(board) \in Nat /\ DOMAIN board = 1..Len(board)
      /\ \A r \in 1..Len(board) : board[r] \in Run
  BY IntakeAssumption
<1>3. Len(questions) = 0 /\ questions = <<>>
  BY DEF Init
<1>4. BoardOK
  <2>1. \A r \in 1..Len(board) : board[r].task \in 1..Len(board) /\ board[r].question = 0 /\ board[r].asked = 0
    BY <1>2, IntakeAssumption
  <2>2. runs = board /\ tasks = Len(board)
    BY <1>1
  <2> QED BY <1>2, <1>3, <2>1, <2>2 DEF BoardOK, RunIds
<1>5. CountsOK
  BY IntakeAssumption DEF Init, CountsOK
<1>6. SessionOK
  <2>1. NoData \in [Kinds -> 0..0] /\ \A k \in Kinds : NoData[k] = 0
    BY NoDataHolds
  <2> QED BY <1>3, <2>1 DEF Init, SessionOK, SessionFor, Keeps, NoSession
<1>7. BindingsOK
  BY <1>1, <1>2 DEF Init, BindingsOK
<1>8. QuestionsOK
  BY <1>3, EmptySeq DEF Init, QuestionsOK
<1>9. HandlersOK
  <2>1. \A h \in Handlers : hd[h] = Idle
    BY DEF Init
  <2>2. Fits(Idle, runs, questions, tasks)
    BY <1>1, <1>2, <1>3, IdleFits
  <2>3. hd = [h \in Handlers |-> Idle]
    BY DEF Init
  <2> QED BY <2>1, <2>2, <2>3 DEF HandlersOK, Fits
<1> QED BY <1>4, <1>5, <1>6, <1>7, <1>8, <1>9, Parts

-----------------------------------------------------------------------------
(* A step of a handler, in sum.                                            *)

(* The steps that leave nothing of what is said below but where h is.      *)
Quiets(h) ==
  \/ CheckKey(h) \/ MarkKey(h)
  \/ RepoUnknown(h) \/ OfferRepos(h) \/ AskWhichRepo(h) \/ RepoFound(h) \/ FindReview(h)
  \/ IssueFails(h) \/ OfferIssueRepos(h) \/ Choose(h) \/ RepoGone(h) \/ IssueUnknown(h)

LEMMA QuietMoves ==
  ASSUME TypeOK, NEW h \in Handlers, Quiets(h)
  PROVE  TypeOK' /\ Quietly(h)
BY CheckKeyMoves, MarkKeyMoves, FinishMoves, OfferReposMoves, AskWhichRepoMoves, RepoFoundMoves,
   FindReviewMoves, ChooseMoves DEF Quiets

LEMMA QuietsApart ==
  ASSUME NEW h \in Handlers, Quiets(h)
  PROVE  Apart /\ hd[h].at \notin {"show", "bind", "close"}
<1>1. CASE CheckKey(h) \/ MarkKey(h)
  BY <1>1 DEF CheckKey, MarkKey, Apart, Same, history
<1>2. CASE RepoUnknown(h) \/ OfferRepos(h) \/ AskWhichRepo(h) \/ RepoFound(h) \/ FindReview(h)
  BY <1>2 DEF RepoUnknown, OfferRepos, AskWhichRepo, RepoFound, FindReview, Apart, Same, history
<1>3. CASE IssueFails(h) \/ OfferIssueRepos(h) \/ Choose(h) \/ RepoGone(h) \/ IssueUnknown(h)
  BY <1>3 DEF IssueFails, OfferIssueRepos, Choose, RepoGone, IssueUnknown, Accepts, Interpreted,
     Apart, Same, history
<1> QED BY <1>1, <1>2, <1>3 DEF Quiets

LEMMA HandleCases ==
  ASSUME NEW h, Handle(h)
  PROVE  \/ Quiets(h)
         \/ ReadSession(h) \/ ReadIntake(h) \/ Ask(h) \/ ProposeIssue(h) \/ ProposeTask(h)
         \/ Decline(h) \/ AskBack(h) \/ Close(h) \/ AddContext(h)
         \/ AcceptReview(h) \/ AcceptRerun(h) \/ AcceptTask(h)
         \/ StartRun(h) \/ Rerun(h) \/ ShowReview(h) \/ Fail(h)
         \/ BindIssue(h) \/ Bind(h)
BY DEF Handle, Quiets

LEMMA HandleMoves ==
  ASSUME TypeOK, NEW h \in Handlers, Handle(h)
  PROVE  TypeOK' /\ Only(h) /\ (hd'[h].late => hd[h].late)
<1>1. Idle.late = FALSE
  BY DEF Idle
<1>2. CASE Quiets(h)
  BY <1>2, QuietMoves DEF Quietly
<1>3. CASE ReadSession(h) \/ ReadIntake(h)
  BY <1>3, ReadSessionMoves, ReadIntakeMoves
<1>4. CASE Ask(h) \/ ProposeIssue(h) \/ ProposeTask(h)
  BY <1>1, <1>4, AskMoves, AskFreshMoves
<1>5. CASE Decline(h) \/ AskBack(h) \/ Close(h) \/ AddContext(h)
  BY <1>1, <1>5, ClearMoves, AddContextMoves
<1>6. CASE AcceptReview(h) \/ AcceptRerun(h) \/ AcceptTask(h)
  BY <1>6, AcceptMoves DEF Agreed
<1>7. CASE StartRun(h) \/ Rerun(h)
  BY <1>7, StartRunMoves, RerunMoves DEF Runs
<1>8. CASE ShowReview(h) \/ Fail(h)
  BY <1>1, <1>8, ShowReviewMoves, FailMoves
<1>9. CASE BindIssue(h) \/ Bind(h)
  BY <1>9, BindIssueMoves, BindMoves DEF Quietly, Binds
<1> QED BY <1>2, <1>3, <1>4, <1>5, <1>6, <1>7, <1>8, <1>9, HandleCases

LEMMA StillTyped ==
  ASSUME TypeOK, UNCHANGED vars
  PROVE  TypeOK'
<1>1. CountsOK' /\ SessionOK' /\ BoardOK' /\ BindingsOK' /\ HandlersOK' /\ QuestionsOK'
  BY Parts DEF vars, CountsOK, SessionOK, BoardOK, BindingsOK, HandlersOK, QuestionsOK, RunIds
<1> QED BY <1>1, PartsNext

LEMMA NextCases ==
  ASSUME [Next]_vars
  PROVE  \/ \E h \in Handlers : Handle(h)
         \/ \E h \in Handlers, say \in Sayings : Deliver(h, say)
         \/ \E h \in Handlers : Redeliver(h)
         \/ Expire \/ UNCHANGED vars
BY DEF Next

(* No request holds what it cannot work with, and a session only questions *)
(* of their kinds (TypeOK).                                                *)
THEOREM TypesHold == Spec => []TypeOK
<1>1. Init => TypeOK
  BY InitTyped
<1>2. TypeOK /\ [Next]_vars => TypeOK'
  BY NextCases, HandleMoves, DeliverMoves, RedeliverMoves, ExpireMoves, StillTyped
<1> QED BY <1>1, <1>2, PTL DEF Spec

-----------------------------------------------------------------------------
(* A delivery whose handling has begun was noted before; a copy that comes *)
(* after that finds the note.                                              *)

KeysInv ==
  /\ begun \subseteq kv
  /\ \A h \in Handlers : hd[h].late => hd[h].at = "key" /\ hd[h].key \in kv

LEMMA HandleKeeps ==
  ASSUME NEW h \in Handlers, Handle(h)
  PROVE  /\ UNCHANGED overlaps /\ hd[h].at # "idle"
         /\ MarkKey(h) \/ UNCHANGED <<begun, kv>>
         /\ CheckKey(h) \/ hd[h].at # "key"
<1>1. CASE Quiets(h)
  BY <1>1 DEF Quiets, CheckKey, MarkKey, Begin, RepoUnknown, OfferRepos, AskWhichRepo, RepoFound,
     FindReview, IssueFails, OfferIssueRepos, Choose, RepoGone, IssueUnknown, Accepts, Interpreted,
     history
<1>2. CASE ReadSession(h) \/ ReadIntake(h) \/ Ask(h) \/ ProposeIssue(h) \/ ProposeTask(h)
  BY <1>2 DEF ReadSession, ReadIntake, Ask, ProposeIssue, ProposeTask, Interpreted, history
<1>3. CASE Decline(h) \/ AskBack(h) \/ Close(h) \/ AddContext(h)
  BY <1>3 DEF Decline, AskBack, Close, AddContext, Interpreted, history
<1>4. CASE AcceptReview(h) \/ AcceptRerun(h) \/ AcceptTask(h) \/ StartRun(h) \/ Rerun(h)
  BY <1>4 DEF AcceptReview, AcceptRerun, AcceptTask, Accepts, StartRun, Rerun, history
<1>5. CASE ShowReview(h) \/ Fail(h) \/ BindIssue(h) \/ Bind(h)
  BY <1>5 DEF ShowReview, Fail, BindIssue, Bind, history
<1> QED BY <1>1, <1>2, <1>3, <1>4, <1>5, HandleCases

LEMMA KeysNext ==
  ASSUME TypeOK, KeysInv, [Next]_vars
  PROVE  KeysInv'
<1>1. ASSUME NEW h \in Handlers, Handle(h)
      PROVE  KeysInv'
  <2>1. Only(h) /\ (hd'[h].late => hd[h].late)
    BY <1>1, HandleMoves
  <2>2. begun' \subseteq kv' /\ kv \subseteq kv'
    BY <1>1, HandleKeeps DEF KeysInv, MarkKey, Begin
  <2>3. ~hd'[h].late
    <3>1. CASE CheckKey(h)
      BY <2>1, <3>1, CheckKeyMoves DEF KeysInv, Idle
    <3>2. CASE hd[h].at # "key"
      BY <2>1, <3>2 DEF KeysInv
    <3> QED BY <1>1, <3>1, <3>2, HandleKeeps
  <2> QED BY <2>1, <2>2, <2>3 DEF KeysInv, Only
<1>2. ASSUME NEW h \in Handlers, Comes(h)
      PROVE  KeysInv'
  BY <1>2 DEF KeysInv, Comes, Only
<1>3. CASE Expire \/ UNCHANGED vars
  BY <1>3, ExpireMoves DEF KeysInv, vars
<1> QED BY <1>1, <1>2, <1>3, NextCases, DeliverMoves, RedeliverMoves

-----------------------------------------------------------------------------
(* No question of the session is answered, as far as is known; the session *)
(* a request holds has none that was answered when it was read.            *)

AnsweredInv ==
  /\ \A k \in Kinds : session.data[k] \notin answered
  /\ \A h \in Handlers : hd[h].at \in {"ask", "branch"} =>
       \A k \in Kinds : hd[h].saw.data[k] \notin hd[h].closed

(* What a step of h does to the session and the questions answered.        *)
Asked(h) ==
  \/ /\ UNCHANGED answered /\ session'.data = session.data
     /\ hd'[h].at \in {"ask", "branch"} => hd'[h].saw = session /\ hd'[h].closed = answered
  \/ /\ hd'[h].at = "idle" /\ answered' \subseteq 1..Len(questions')
     /\ \A k \in Kinds : session'.data[k] \in {0, Len(questions) + 1}
     /\ UNCHANGED answered \/ \A k \in Kinds : session'.data[k] = 0
  \/ /\ hd[h].at \in {"ask", "branch"} /\ hd'[h].at = "idle" /\ answered' = StillAnswered
     /\ \A k \in Kinds : session'.data[k] \in {hd[h].saw.data[k], Len(questions) + 1}

LEMMA HandleAsks ==
  ASSUME TypeOK, NEW h \in Handlers, Handle(h)
  PROVE  Asked(h)
<1> USE DEF Asked
<1>1. Idle.at = "idle"
  BY DEF Idle
<1>2. CASE Quiets(h) \/ BindIssue(h)
  BY <1>2, QuietMoves, QuietsApart, BindIssueMoves DEF Quietly, Neutral, Apart
<1>3. CASE ReadSession(h) \/ ReadIntake(h)
  BY <1>3, ReadSessionMoves, ReadIntakeMoves DEF ReadSession, history
<1>4. CASE Ask(h)
  BY <1>1, <1>4, AskMoves
<1>5. CASE ProposeIssue(h) \/ ProposeTask(h)
  <2>1. /\ TypeOK' /\ hd'[h] = Idle /\ UNCHANGED answered
        /\ session'.data["confirm"] = Len(questions) + 1
        /\ \A k \in Kinds \ {"confirm"} : session'.data[k] = 0
    BY <1>5, AskFreshMoves
  <2>2. answered' \subseteq 1..Len(questions')
    BY <2>1, PartsNext DEF QuestionsOK
  <2> QED BY <1>1, <2>1, <2>2
<1>6. CASE Decline(h) \/ AskBack(h) \/ Close(h)
  <2>1. TypeOK' /\ hd'[h] = Idle /\ \A k \in Kinds : session'.data[k] = 0
    BY <1>6, ClearMoves
  <2>2. answered' \subseteq 1..Len(questions')
    BY <2>1, PartsNext DEF QuestionsOK
  <2> QED BY <1>1, <2>1, <2>2
<1>7. CASE AddContext(h)
  BY <1>1, <1>7, AddContextMoves
<1>8. CASE AcceptReview(h) \/ AcceptRerun(h) \/ AcceptTask(h)
  BY <1>8, AcceptMoves DEF Agreed, Apart
<1>9. CASE StartRun(h) \/ Rerun(h)
  BY <1>9, StartRunMoves, RerunMoves DEF Runs
<1>10. CASE ShowReview(h) \/ Fail(h)
  BY <1>1, <1>10, ShowReviewMoves, FailMoves
<1>11. CASE Bind(h)
  BY <1>1, <1>11, BindMoves DEF Binds
<1> QED BY <1>2, <1>3, <1>4, <1>5, <1>6, <1>7, <1>8, <1>9, <1>10, <1>11, HandleCases

LEMMA AnsweredNext ==
  ASSUME TypeOK, AnsweredInv, [Next]_vars
  PROVE  AnsweredInv'
<1>1. ASSUME NEW h \in Handlers, Handle(h)
      PROVE  AnsweredInv'
  <2>1. Asked(h) /\ Only(h) /\ Len(questions) \in Nat /\ answered \subseteq 1..Len(questions)
    BY <1>1, HandleAsks, HandleMoves, Parts, Sizes DEF QuestionsOK
  <2>2. \A k \in Kinds : session'.data[k] \notin answered'
    BY <2>1 DEF Asked, AnsweredInv, StillAnswered
  <2>3. hd'[h].at \in {"ask", "branch"} => \A k \in Kinds : hd'[h].saw.data[k] \notin hd'[h].closed
    BY <2>1 DEF Asked, AnsweredInv
  <2> QED BY <2>1, <2>2, <2>3 DEF AnsweredInv, Only
<1>2. ASSUME NEW h \in Handlers, Comes(h)
      PROVE  AnsweredInv'
  BY <1>2 DEF AnsweredInv, Comes, Only, Apart
<1>3. CASE Expire \/ UNCHANGED vars
  BY <1>3, ExpireMoves DEF AnsweredInv, vars
<1> QED BY <1>1, <1>2, <1>3, NextCases, DeliverMoves, RedeliverMoves

LEMMA AnswersInit ==
  ASSUME Init
  PROVE  KeysInv /\ AnsweredInv
BY DEF Init, KeysInv, AnsweredInv, Idle

LEMMA NeverTakenBack ==
  ASSUME TypeOK, AnsweredInv, [Next]_vars, NEW k \in Kinds,
         session'.data[k] \in answered, session.data[k] # session'.data[k]
  PROVE  \E h \in Handlers : /\ hd[h].at # "idle" /\ hd'[h].at = "idle"
                             /\ session'.data[k] \notin hd[h].closed
<1>1. session' # session /\ session'.data # session.data
  OBVIOUS
<1>2. PICK h \in Handlers : Handle(h)
  <2>1. ASSUME NEW h \in Handlers, Comes(h)
        PROVE  FALSE
    BY <1>1, <2>1 DEF Comes, Apart
  <2>2. ~Expire /\ ~UNCHANGED vars
    BY <1>1, ExpireMoves DEF vars
  <2> QED BY <2>1, <2>2, NextCases, DeliverMoves, RedeliverMoves
<1>3. Asked(h) /\ hd[h].at # "idle" /\ Len(questions) \in Nat /\ answered \subseteq 1..Len(questions)
  BY <1>2, HandleAsks, HandleKeeps, Parts, Sizes DEF QuestionsOK
<1>4. session'.data[k] \notin {0, Len(questions) + 1}
  BY <1>3
<1> QED BY <1>1, <1>3, <1>4 DEF Asked, AnsweredInv

(* A question that was answered comes back in the session only from a      *)
(* request that had read the session before (AnsweredStaysAnswered).       *)
THEOREM AnswersStand == Spec => AnsweredStaysAnswered
<1> DEFINE Stands == \A k \in Kinds :
                       LET q == session'.data[k] IN
                       (q \in answered /\ session.data[k] # q)
                         => \E h \in Handlers : hd[h].at # "idle" /\ hd'[h].at = "idle"
                                                 /\ q \notin hd[h].closed
<1>1. Init => AnsweredInv
  BY AnswersInit
<1>2. TypeOK /\ AnsweredInv /\ [Next]_vars => AnsweredInv'
  BY AnsweredNext
<1>3. TypeOK /\ AnsweredInv /\ [Next]_vars => [Stands]_vars
  BY NeverTakenBack
<1> QED BY <1>1, <1>2, <1>3, TypesHold, PTL DEF Spec, AnsweredStaysAnswered

-----------------------------------------------------------------------------
(* Requests one after the other.                                           *)

(* What holds of the request x that is at work, or Idle, when the session  *)
(* asks ds, the questions are qs, the runs rs and the bindings bs.         *)

NewestUpTo(q, n, qs) == q # 0 => \A p \in (q + 1)..n : qs[p].kind # qs[q].kind

(* The session asks the newest questions, and is as the one at work saw it *)
(* until that one acts on it.                                              *)
Fresh(ds, qs) == \A k \in Kinds : NewestUpTo(ds[k], Len(qs), qs)
Sees(x, ds, qs) == /\ x.at \in {"ask", "branch"} => x.saw.data = ds
                   /\ x.at = "branch" => x.asked = Len(qs)

(* A question that is agreed to has no run that stands; one that has is    *)
(* out of the session, or about to be.                                     *)
Ready(x, qs, rs) ==
  (x.at \in {"create", "rerun"} /\ x.question # 0) =>
     /\ NewestUpTo(x.question, x.asked, qs)
     /\ \A r \in 1..Len(rs) : rs[r].question = x.question => rs[r].cut
Closing(x, ds, rs) ==
  \A r \in 1..Len(rs) : (rs[r].question # 0 /\ ~rs[r].cut) =>
     \/ x.at \in {"show", "bind", "close"} /\ x.run = r
     \/ \A k \in Kinds : ds[k] # rs[r].question

(* Later runs of a bound task were cut off, or are about to be bound.      *)
ToBind(x, s) == x.at \in {"show", "bind"} /\ x.run = s
Binding(x, rs, bs) ==
  /\ x.at \in {"show", "bind"} => x.run = Len(rs)
  /\ \A t \in DOMAIN bs \ {Issue} : \A s \in 1..Len(rs) :
       (s > bs[t] /\ rs[s].task = t) => rs[s].cut \/ ToBind(x, s)

Singly(rs) == \A r, s \in 1..Len(rs) :
                (r < s /\ rs[r].question # 0 /\ rs[r].question = rs[s].question) => rs[r].cut
Newly(qs, rs) == \A r \in 1..Len(rs) : NewestUpTo(rs[r].question, rs[r].asked, qs)

Calm(x, ds, qs, rs, bs) ==
  /\ Fresh(ds, qs) /\ Sees(x, ds, qs) /\ Ready(x, qs, rs) /\ Closing(x, ds, rs)
  /\ Binding(x, rs, bs) /\ Singly(rs) /\ Newly(qs, rs)
CalmNow(x) == Calm(x, session.data, questions, runs, bindings)
CalmNext(x) == Calm(x, session'.data, questions', runs', bindings')

AtWork(h) == hd[h].at # "idle"
SerialInv ==
  Serial => /\ \A g, h \in Handlers : AtWork(g) /\ AtWork(h) => g = h
            /\ Quiet => CalmNow(Idle)
            /\ \A h \in Handlers : AtWork(h) => CalmNow(hd[h])

(* What a bound task is bound to is a run of that task.                    *)
BoundInv ==
  \A t \in DOMAIN bindings \ {Issue} : bindings[t] \in RunIds /\ runs[bindings[t]].task = t

LEMMA Settles ==
  ASSUME NEW x, NEW y, NEW ds, NEW qs, NEW rs, NEW bs, Calm(x, ds, qs, rs, bs),
         x.at \notin {"show", "bind", "close"}, Neutral(y)
  PROVE  Calm(y, ds, qs, rs, bs)
<1>1. Sees(y, ds, qs) /\ Ready(y, qs, rs)
  BY DEF Neutral, Sees, Ready
<1>2. Closing(y, ds, rs)
  BY DEF Neutral, Calm, Closing
<1>3. Binding(y, rs, bs)
  BY DEF Neutral, Calm, Binding, ToBind
<1> QED BY <1>1, <1>2, <1>3 DEF Calm

(* What a session is asked is newer than what it held.                     *)
LEMMA CalmPut ==
  ASSUME TypeOK, NEW x, CalmNow(x), x.at \notin {"show", "bind", "close"},
         NEW q, q.kind \in Kinds, Puts(q), UNCHANGED <<runs, bindings>>,
         session'.data[q.kind] = Len(questions) + 1,
         \A k \in Kinds \ {q.kind} : session'.data[k] \in {0, session.data[k]}
  PROVE  CalmNext(Idle)
<1>1. /\ Len(questions) \in Nat /\ Len(questions') = Len(questions) + 1
      /\ questions'[Len(questions) + 1] = q
      /\ \A p \in 1..Len(questions) : questions'[p] = questions[p]
  BY Sizes DEF Puts
<1>2. Fresh(session.data, questions) /\ Keeps(session, questions)
      /\ \A k \in Kinds : session.data[k] \in 0..Len(questions)
  BY Parts DEF CalmNow, Calm, SessionOK, SessionFor
<1>3. Fresh(session'.data, questions')
  <2> SUFFICES ASSUME NEW k \in Kinds, NEW p \in (session'.data[k] + 1)..Len(questions'),
                      session'.data[k] # 0
               PROVE  questions'[p].kind # questions'[session'.data[k]].kind
    BY DEF Fresh, NewestUpTo
  <2>1. CASE k = q.kind
    BY <1>1, <2>1
  <2>2. CASE k # q.kind
    <3>1. session'.data[k] = session.data[k] /\ session.data[k] \in 1..Len(questions)
      BY <1>2, <2>2
    <3>2. questions'[session'.data[k]].kind = k
      BY <1>1, <1>2, <3>1 DEF Keeps
    <3>3. CASE p = Len(questions) + 1
      BY <1>1, <2>2, <3>2, <3>3
    <3>4. CASE p # Len(questions) + 1
      <4>1. p \in (session.data[k] + 1)..Len(questions)
        BY <1>1, <3>1, <3>4
      <4>2. questions[p].kind # questions[session.data[k]].kind
        BY <1>2, <3>1, <4>1 DEF Fresh, NewestUpTo
      <4> QED BY <1>1, <3>1, <4>1, <4>2
    <3> QED BY <3>3, <3>4
  <2> QED BY <2>1, <2>2
<1>4. \A r \in 1..Len(runs) : runs[r].question \in 0..Len(questions) /\ runs[r].asked \in 0..Len(questions)
  BY Parts, Sizes DEF BoardOK
<1>5. Closing(Idle, session'.data, runs')
  <2>1. \A k \in Kinds : session'.data[k] \in {0, session.data[k], Len(questions) + 1}
    OBVIOUS
  <2>2. \A r \in 1..Len(runs) : (runs[r].question # 0 /\ ~runs[r].cut) =>
           \A k \in Kinds : session.data[k] # runs[r].question
    BY DEF CalmNow, Calm, Closing
  <2> QED BY <1>1, <1>4, <2>1, <2>2 DEF Closing
<1>6. Newly(questions', runs')
  <2>1. Newly(questions, runs)
    BY DEF CalmNow, Calm
  <2> SUFFICES ASSUME NEW r \in 1..Len(runs), runs[r].question # 0,
                      NEW p \in (runs[r].question + 1)..runs[r].asked
               PROVE  questions'[p].kind # questions'[runs[r].question].kind
    BY DEF Newly, NewestUpTo
  <2>2. questions[p].kind # questions[runs[r].question].kind
    BY <2>1 DEF Newly, NewestUpTo
  <2>3. runs[r].question \in 1..Len(questions) /\ p \in 1..Len(questions)
    BY <1>1, <1>4
  <2> QED BY <1>1, <2>2, <2>3
<1>7. Calm(Idle, session.data, questions, runs, bindings)
  BY Settles DEF CalmNow, Idle, Neutral
<1>8. Sees(Idle, session'.data, questions') /\ Ready(Idle, questions', runs')
  BY DEF Sees, Ready, Idle
<1> QED BY <1>3, <1>5, <1>6, <1>7, <1>8 DEF CalmNext, Calm

(* Nothing that is said of the one at work is written to.                  *)
Untouched == Same /\ session'.data = session.data /\ UNCHANGED bindings

LEMMA CalmStays ==
  ASSUME Untouched, NEW x, CalmNow(x)
  PROVE  CalmNext(x)
BY DEF Untouched, Same, CalmNow, CalmNext

LEMMA CalmQuiet ==
  ASSUME TypeOK, NEW h \in Handlers, CalmNow(hd[h]), Quiets(h)
  PROVE  CalmNext(hd'[h])
<1>1. Quietly(h) /\ Apart /\ hd[h].at \notin {"show", "bind", "close"}
  BY QuietMoves, QuietsApart
<1>2. CalmNow(hd'[h])
  BY <1>1, Settles DEF Quietly, CalmNow
<1> QED BY <1>1, <1>2, CalmStays DEF Apart, Untouched

LEMMA CalmRead ==
  ASSUME TypeOK, NEW h \in Handlers, CalmNow(hd[h]), ReadSession(h) \/ ReadIntake(h)
  PROVE  CalmNext(hd'[h])
<1>1. /\ Untouched /\ hd[h].at \in {"read", "intake"} /\ hd'[h].saw = session
      /\ hd'[h].at \in {"ask", "branch"} /\ (hd'[h].at = "branch" => hd'[h].asked = Len(questions))
  BY ReadSessionMoves, ReadIntakeMoves DEF ReadSession, ReadIntake, history, Untouched, Same
<1>2. CalmNow(Idle)
  BY <1>1, Settles DEF Idle, Neutral, CalmNow
<1>3. Closing(hd'[h], session.data, runs) /\ Binding(hd'[h], runs, bindings)
  BY <1>1, <1>2 DEF CalmNow, Calm, Closing, Binding, ToBind, Idle
<1>4. Sees(hd'[h], session.data, questions) /\ Ready(hd'[h], questions, runs)
  BY <1>1 DEF Sees, Ready
<1>5. CalmNow(hd'[h])
  BY <1>2, <1>3, <1>4 DEF CalmNow, Calm
<1> QED BY <1>1, <1>5, CalmStays

LEMMA CalmAsk ==
  ASSUME TypeOK, NEW h \in Handlers, CalmNow(hd[h]), Ask(h)
  PROVE  CalmNext(hd'[h])
<1> DEFINE q == Question(h, hd[h].kind)
<1>1. /\ hd'[h] = Idle /\ hd[h].at = "ask" /\ Puts(q) /\ UNCHANGED <<runs, bindings>>
      /\ session'.data[hd[h].kind] = Len(questions) + 1 /\ hd[h].kind \in Kinds
      /\ \A k \in Kinds \ {hd[h].kind} : session'.data[k] = hd[h].saw.data[k]
  BY AskMoves
<1>2. hd[h].saw.data = session.data
  BY <1>1 DEF CalmNow, Calm, Sees
<1>3. q.kind = hd[h].kind
  BY DEF Question
<1> HIDE DEF q
<1> QED BY <1>1, <1>2, <1>3, CalmPut

LEMMA CalmAskFresh ==
  ASSUME TypeOK, NEW h \in Handlers, CalmNow(hd[h]), ProposeIssue(h) \/ ProposeTask(h)
  PROVE  CalmNext(hd'[h])
<1> DEFINE q == [kind |-> "confirm", review |-> NoReview, base |-> 0]
<1>1. /\ hd'[h] = Idle /\ hd[h].at \in {"jira", "parse", "branch"} /\ Puts(q)
      /\ UNCHANGED <<runs, bindings>> /\ session'.data["confirm"] = Len(questions) + 1
      /\ \A k \in Kinds \ {"confirm"} : session'.data[k] = 0
  BY AskFreshMoves
<1>2. q.kind = "confirm" /\ "confirm" \in Kinds
  BY DEF Kinds
<1> HIDE DEF q
<1> QED BY <1>1, <1>2, CalmPut

LEMMA CalmClear ==
  ASSUME TypeOK, NEW h \in Handlers, CalmNow(hd[h]), Decline(h) \/ AskBack(h) \/ Close(h)
  PROVE  CalmNext(hd'[h])
<1>1. /\ Same /\ hd'[h] = Idle /\ UNCHANGED bindings /\ hd[h].at \in {"parse", "branch", "close"}
      /\ \A k \in Kinds : session'.data[k] = 0
  BY ClearMoves
<1>2. Fresh(session'.data, questions) /\ Closing(Idle, session'.data, runs)
  BY <1>1 DEF Fresh, NewestUpTo, Closing
<1>3. Sees(Idle, session'.data, questions) /\ Ready(Idle, questions, runs)
  BY DEF Sees, Ready, Idle
<1>4. Binding(Idle, runs, bindings)
  BY <1>1 DEF CalmNow, Calm, Binding, ToBind, Idle
<1> QED BY <1>1, <1>2, <1>3, <1>4 DEF CalmNow, CalmNext, Calm, Same

LEMMA CalmAddContext ==
  ASSUME TypeOK, NEW h \in Handlers, CalmNow(hd[h]), AddContext(h)
  PROVE  CalmNext(hd'[h])
<1>1. /\ Same /\ hd'[h] = Idle /\ UNCHANGED bindings /\ hd[h].at = "branch"
      /\ session'.data = hd[h].saw.data
  BY AddContextMoves
<1>2. Untouched
  BY <1>1 DEF CalmNow, Calm, Sees, Untouched
<1>3. CalmNow(Idle)
  BY <1>1, Settles DEF Idle, Neutral, CalmNow
<1> QED BY <1>1, <1>2, <1>3, CalmStays

LEMMA CalmAccept ==
  ASSUME TypeOK, NEW h \in Handlers, CalmNow(hd[h]),
         AcceptReview(h) \/ AcceptRerun(h) \/ AcceptTask(h)
  PROVE  CalmNext(hd'[h])
<1>1. Apart /\ Agreed(h)
  BY AcceptMoves
<1>2. PICK k \in Kinds : hd'[h].question = hd[h].saw.data[k]
  BY <1>1 DEF Agreed
<1>3. /\ hd[h].at = "branch" /\ hd[h].saw.data = session.data /\ hd'[h].asked = Len(questions)
      /\ hd'[h].at \in {"create", "rerun"}
  BY <1>1 DEF Agreed, CalmNow, Calm, Sees
<1>4. Ready(hd'[h], questions, runs)
  <2>1. NewestUpTo(hd'[h].question, hd'[h].asked, questions)
    BY <1>2, <1>3 DEF CalmNow, Calm, Fresh
  <2>2. \A r \in 1..Len(runs) : (runs[r].question # 0 /\ ~runs[r].cut) => session.data[k] # runs[r].question
    BY <1>3 DEF CalmNow, Calm, Closing
  <2> QED BY <1>2, <1>3, <2>1, <2>2 DEF Ready
<1>5. CalmNow(Idle)
  BY <1>3, Settles DEF Idle, Neutral, CalmNow
<1>6. /\ Closing(hd'[h], session.data, runs) /\ Binding(hd'[h], runs, bindings)
      /\ Sees(hd'[h], session.data, questions)
  BY <1>3, <1>5 DEF CalmNow, Calm, Closing, Binding, ToBind, Idle, Sees
<1>7. CalmNow(hd'[h])
  BY <1>4, <1>5, <1>6 DEF CalmNow, Calm
<1> QED BY <1>1, <1>7, CalmStays DEF Apart, Untouched

LEMMA CalmRun ==
  ASSUME TypeOK, NEW h \in Handlers, CalmNow(hd[h]), StartRun(h) \/ Rerun(h)
  PROVE  CalmNext(hd'[h])
<1> DEFINE new == Len(runs) + 1
           x == hd[h]
           y == hd'[h]
<1>1. Runs(h)
  BY StartRunMoves, RerunMoves
<1>2. /\ x.at \in {"create", "rerun"} /\ y.at \in {"show", "bind"} /\ y.run = new
      /\ Len(runs') = new /\ \A r \in 1..Len(runs) : runs'[r] = runs[r]
      /\ runs'[new].question = x.question /\ runs'[new].asked = x.asked
      /\ UNCHANGED <<session, questions, answered, bindings>> /\ Len(runs) \in Nat
      /\ 1..Len(runs') = 1..Len(runs) \cup {new}
  BY <1>1, Sizes DEF Runs, RunIds
<1> HIDE DEF x, y
<1>3. /\ Fresh(session.data, questions) /\ Ready(x, questions, runs)
      /\ Closing(x, session.data, runs) /\ Binding(x, runs, bindings)
      /\ Singly(runs) /\ Newly(questions, runs)
  BY DEF CalmNow, Calm, x
<1>4. Fresh(session'.data, questions') /\ Sees(y, session'.data, questions') /\ Ready(y, questions', runs')
  BY <1>2, <1>3 DEF Sees, Ready
<1>5. Closing(y, session'.data, runs')
  BY <1>2, <1>3 DEF Closing
<1>6. Binding(y, runs', bindings')
  BY <1>2, <1>3 DEF Binding, ToBind
<1>7. Singly(runs')
  <2> SUFFICES ASSUME NEW r \in 1..Len(runs'), NEW s \in 1..Len(runs'), r < s,
                      runs'[r].question # 0, runs'[r].question = runs'[s].question
               PROVE  runs'[r].cut
    BY DEF Singly
  <2>1. r \in 1..Len(runs)
    BY <1>2
  <2>2. CASE s = new
    BY <1>2, <1>3, <2>1, <2>2 DEF Ready
  <2>3. CASE s # new
    <3>1. s \in 1..Len(runs)
      BY <1>2, <2>3
    <3> QED BY <1>2, <1>3, <2>1, <3>1 DEF Singly
  <2> QED BY <2>2, <2>3
<1>8. Newly(questions', runs')
  <2>1. NewestUpTo(runs'[new].question, runs'[new].asked, questions)
    BY <1>2, <1>3 DEF Ready, NewestUpTo
  <2> QED BY <1>2, <1>3, <2>1 DEF Newly
<1> QED BY <1>4, <1>5, <1>6, <1>7, <1>8 DEF CalmNext, Calm, y

(* Runs are told more of, by a request that goes on or is over.            *)
LEMMA CalmTold ==
  ASSUME TypeOK, NEW x, CalmNow(x), NEW y, RunsStay,
         UNCHANGED <<session, questions, bindings>>,
         \A r \in RunIds : runs[r].cut => runs'[r].cut,
         \/ x.at = "show" /\ y.at = "bind" /\ y.run = x.run
         \/ y = Idle /\ \A r \in RunIds : r = x.run => runs'[r].cut
  PROVE  CalmNext(y)
<1>1. /\ Len(runs') = Len(runs) /\ RunIds = 1..Len(runs) /\ Len(runs) \in Nat
      /\ \A r \in RunIds : /\ runs'[r].task = runs[r].task /\ runs'[r].question = runs[r].question
                           /\ runs'[r].asked = runs[r].asked
  BY Sizes DEF RunsStay
<1>2. /\ Fresh(session.data, questions) /\ Closing(x, session.data, runs)
      /\ Binding(x, runs, bindings) /\ Singly(runs) /\ Newly(questions, runs)
  BY DEF CalmNow, Calm
<1>3. Idle.at = "idle"
  BY DEF Idle
<1>4. Fresh(session'.data, questions') /\ Sees(y, session'.data, questions') /\ Ready(y, questions', runs')
  BY <1>2, <1>3 DEF Sees, Ready
<1>5. Closing(y, session'.data, runs')
  BY <1>1, <1>2 DEF Closing
<1>6. Binding(y, runs', bindings')
  <2> SUFFICES ASSUME NEW t \in DOMAIN bindings \ {Issue}, NEW s \in 1..Len(runs),
                      s > bindings[t], runs'[s].task = t
               PROVE  runs'[s].cut \/ ToBind(y, s)
    BY <1>1, <1>2, <1>3 DEF Binding
  <2>1. runs[s].cut \/ ToBind(x, s)
    BY <1>1, <1>2 DEF Binding
  <2> QED BY <1>1, <2>1 DEF ToBind
<1>7. Singly(runs') /\ Newly(questions', runs')
  BY <1>1, <1>2 DEF Singly, Newly
<1> QED BY <1>4, <1>5, <1>6, <1>7 DEF CalmNext, Calm

LEMMA CalmBind ==
  ASSUME TypeOK, NEW h \in Handlers, CalmNow(hd[h]), Bind(h)
  PROVE  CalmNext(hd'[h])
<1> DEFINE x == hd[h]
           y == hd'[h]
<1>1. /\ x.at = "bind" /\ Same /\ session' = session
      /\ \/ y = Idle /\ x.question = 0
         \/ y.at = "close" /\ y.run = x.run
      /\ DOMAIN bindings' \subseteq DOMAIN bindings \cup {x.task} /\ bindings'[x.task] = x.run
      /\ \A t \in DOMAIN bindings' \ {x.task} : bindings'[t] = bindings[t]
  BY BindMoves DEF Binds
<1>2. x.run \in RunIds /\ runs[x.run].task = x.task /\ runs[x.run].question = x.question
  BY <1>1, HandlerHere, Sizes DEF HandlerFor, Needs
<1> HIDE DEF x, y
<1>3. /\ Fresh(session.data, questions) /\ Closing(x, session.data, runs)
      /\ Binding(x, runs, bindings) /\ Singly(runs) /\ Newly(questions, runs)
  BY DEF CalmNow, Calm, x
<1>4. y.at \in {"idle", "close"}
  BY <1>1 DEF Idle
<1>5. Sees(y, session.data, questions) /\ Ready(y, questions, runs)
  BY <1>4 DEF Sees, Ready
<1>6. Closing(y, session.data, runs)
  BY <1>1, <1>2, <1>3 DEF Closing
<1>7. Binding(y, runs, bindings')
  <2> SUFFICES ASSUME NEW t \in DOMAIN bindings' \ {Issue}, NEW s \in 1..Len(runs),
                      s > bindings'[t], runs[s].task = t
               PROVE  runs[s].cut
    BY <1>4 DEF Binding
  <2>1. x.run = Len(runs) /\ Len(runs) \in Nat
    BY <1>1, <1>3, Sizes DEF Binding
  <2>2. t # x.task
    BY <1>1, <2>1
  <2>3. t \in DOMAIN bindings \ {Issue} /\ s > bindings[t]
    BY <1>1, <2>2
  <2>4. runs[s].cut \/ s = x.run
    BY <1>3, <2>3 DEF Binding, ToBind
  <2> QED BY <1>2, <2>2, <2>4
<1> QED BY <1>1, <1>3, <1>5, <1>6, <1>7 DEF CalmNext, Calm, Same, y

LEMMA CalmBindIssue ==
  ASSUME TypeOK, NEW h \in Handlers, CalmNow(hd[h]), BindIssue(h)
  PROVE  CalmNext(hd'[h])
<1>1. /\ Quietly(h) /\ Same /\ session' = session /\ hd[h].at = "bindIssue"
      /\ DOMAIN bindings' = DOMAIN bindings \cup {Issue}
      /\ \A t \in DOMAIN bindings \ {Issue} : bindings'[t] = bindings[t]
  BY BindIssueMoves DEF BindIssue
<1>2. CalmNow(hd'[h])
  BY <1>1, Settles DEF Quietly, CalmNow
<1>3. Binding(hd'[h], runs, bindings')
  BY <1>1, <1>2 DEF CalmNow, Calm, Binding
<1> QED BY <1>1, <1>2, <1>3 DEF CalmNow, CalmNext, Calm, Same

(* Whatever the request at work does, the next finds it as the last did.   *)
LEMMA CalmHandle ==
  ASSUME TypeOK, NEW h \in Handlers, CalmNow(hd[h]), Handle(h)
  PROVE  CalmNext(hd'[h])
<1>1. CASE ShowReview(h)
  BY <1>1, ShowReviewMoves, CalmTold
<1>2. CASE Fail(h)
  <2>1. /\ hd'[h] = Idle /\ RunsStay
        /\ \A r \in RunIds : runs'[r].cut = IF r = hd[h].run THEN TRUE ELSE runs[r].cut
        /\ UNCHANGED <<session, questions, bindings>>
    BY <1>2, FailMoves
  <2>2. \A r \in RunIds : (runs[r].cut => runs'[r].cut) /\ (r = hd[h].run => runs'[r].cut)
    BY <2>1
  <2> QED BY <2>1, <2>2, CalmTold
<1> QED BY <1>1, <1>2, HandleCases, CalmQuiet, CalmRead, CalmAsk, CalmAskFresh, CalmClear,
     CalmAddContext, CalmAccept, CalmRun, CalmBind, CalmBindIssue

LEMMA SerialInit ==
  ASSUME Init
  PROVE  SerialInv /\ BoundInv
<1>1. TypeOK /\ \A h \in Handlers : ~AtWork(h)
  BY InitTyped DEF Init, AtWork, Idle
<1>2. /\ Len(questions) = 0 /\ \A k \in Kinds : session.data[k] = 0
      /\ \A r \in RunIds : runs[r].question = 0
  <2>1. \A r \in RunIds : runs[r].question \in 0..Len(questions)
    BY <1>1, Parts DEF BoardOK
  <2>2. Len(questions) = 0 /\ session = NoSession
    BY DEF Init
  <2> QED BY <2>1, <2>2, NoDataHolds DEF NoSession
<1>3. DOMAIN bindings = {}
  BY DEF Init
<1>4. CalmNow(Idle)
  BY <1>1, <1>2, <1>3, Sizes DEF CalmNow, Calm, Fresh, NewestUpTo, Sees, Ready, Closing, Binding,
     Singly, Newly, Idle
<1> QED BY <1>1, <1>3, <1>4 DEF SerialInv, BoundInv

LEMMA SerialNext ==
  ASSUME TypeOK, SerialInv, [Next]_vars
  PROVE  SerialInv'
<1>1. ASSUME NEW h \in Handlers, Handle(h), Serial
      PROVE  SerialInv'
  <2>1. Only(h) /\ AtWork(h) /\ TypeOK'
    BY <1>1, HandleKeeps, HandleMoves DEF AtWork
  <2>2. \A g \in Handlers \ {h} : ~AtWork(g) /\ ~AtWork(g)'
    BY <1>1, <2>1 DEF SerialInv, Only, AtWork
  <2>3. CalmNext(hd'[h])
    BY <1>1, <2>1, CalmHandle DEF SerialInv
  <2>4. Quiet' => CalmNext(Idle)
    <3>1. ASSUME hd'[h].at = "idle"
          PROVE  CalmNext(Idle)
      BY <2>3, <3>1, Settles DEF CalmNext, Neutral, Idle
    <3> QED BY <3>1 DEF Quiet
  <2> QED BY <2>2, <2>3, <2>4 DEF SerialInv, AtWork, CalmNow, CalmNext
<1>2. ASSUME NEW h \in Handlers, Comes(h), Serial, Serial'
      PROVE  SerialInv'
  <2>1. Quiet
    BY <1>2 DEF Comes, Serial
  <2>2. CalmNow(Idle) /\ Neutral(hd'[h]) /\ Untouched
    BY <1>2, <2>1 DEF SerialInv, Comes, Neutral, Apart, Untouched
  <2>3. CalmNext(hd'[h])
    <3>1. CalmNow(hd'[h])
      BY <2>2, Settles DEF CalmNow, Idle
    <3> QED BY <2>2, <3>1, CalmStays
  <2>4. \A g \in Handlers \ {h} : ~AtWork(g)'
    BY <1>2, <2>1 DEF Quiet, Comes, Only, AtWork
  <2>5. ~Quiet'
    BY <1>2 DEF Comes, Quiet
  <2> QED BY <2>3, <2>4, <2>5 DEF SerialInv, AtWork, CalmNow, CalmNext
<1>3. ASSUME Untouched, UNCHANGED <<hd, overlaps>>
      PROVE  SerialInv'
  <2>1. Serial' = Serial /\ Quiet' = Quiet /\ \A h \in Handlers : AtWork(h)' = AtWork(h)
    BY <1>3 DEF Serial, Quiet, AtWork
  <2>2. Serial /\ Quiet => CalmNext(Idle)
    BY <1>3, CalmStays DEF SerialInv
  <2>3. Serial => \A h \in Handlers : AtWork(h) => CalmNext(hd'[h])
    BY <1>3, CalmStays DEF SerialInv
  <2> QED BY <1>3, <2>1, <2>2, <2>3 DEF SerialInv, CalmNow, CalmNext, Serial, Quiet, AtWork
<1>4. Serial' => Serial \/ Expire
  <2>1. ASSUME NEW h \in Handlers, Comes(h), Serial'
        PROVE  Serial
    BY <2>1, Parts DEF Comes, Serial, CountsOK
  <2>2. ASSUME NEW h \in Handlers, Handle(h), Serial'
        PROVE  Serial
    BY <2>2, HandleKeeps DEF Serial
  <2>3. UNCHANGED vars /\ Serial' => Serial
    BY DEF vars, Serial
  <2> QED BY <2>1, <2>2, <2>3, NextCases, DeliverMoves, RedeliverMoves
<1>5. CASE Expire
  BY <1>3, <1>5, ExpireMoves DEF Untouched, Same
<1>6. CASE UNCHANGED vars
  BY <1>3, <1>6 DEF vars, Untouched, Same
<1>7. CASE ~Serial'
  BY <1>7 DEF SerialInv
<1> QED BY <1>1, <1>2, <1>4, <1>5, <1>6, <1>7, NextCases, DeliverMoves, RedeliverMoves

(* Runs of a task remain so, and a run is bound to its own task.           *)
LEMMA BoundNext ==
  ASSUME TypeOK, BoundInv, [Next]_vars
  PROVE  BoundInv'
<1>1. ASSUME UNCHANGED bindings, RunIds \subseteq RunIds',
             \A r \in RunIds : runs'[r].task = runs[r].task
      PROVE  BoundInv'
  BY <1>1 DEF BoundInv
<1>2. ASSUME UNCHANGED <<bindings, runs>>
      PROVE  BoundInv'
  BY <1>2 DEF BoundInv, RunIds
<1>3. ASSUME NEW h \in Handlers, Bind(h)
      PROVE  BoundInv'
  <2>1. Binds(h) /\ UNCHANGED runs
    BY <1>3, BindMoves DEF Binds, Same
  <2>2. hd[h].run \in RunIds /\ runs[hd[h].run].task = hd[h].task
    BY <2>1, HandlerHere, Sizes DEF Binds, HandlerFor, Needs
  <2>3. RunIds' = RunIds
    BY <2>1 DEF RunIds
  <2> QED BY <2>1, <2>2, <2>3 DEF BoundInv, Binds
<1>4. ASSUME NEW h \in Handlers, BindIssue(h)
      PROVE  BoundInv'
  BY <1>4, BindIssueMoves DEF BoundInv, RunIds, Same
<1>5. ASSUME NEW h \in Handlers, StartRun(h) \/ Rerun(h) \/ ShowReview(h) \/ Fail(h)
      PROVE  BoundInv'
  <2>1. CASE StartRun(h) \/ Rerun(h)
    <3>1. Runs(h)
      BY <2>1, StartRunMoves, RerunMoves
    <3>2. UNCHANGED bindings /\ RunIds \subseteq RunIds' /\ \A r \in RunIds : runs'[r].task = runs[r].task
      BY <3>1, Sizes DEF Runs, RunIds
    <3> QED BY <1>1, <3>2
  <2>2. CASE ShowReview(h) \/ Fail(h)
    BY <1>1, <2>2, ShowReviewMoves, FailMoves DEF RunsStay
  <2> QED BY <1>5, <2>1, <2>2
<1>6. ASSUME NEW h \in Handlers, Handle(h),
             ~(Bind(h) \/ BindIssue(h) \/ StartRun(h) \/ Rerun(h) \/ ShowReview(h) \/ Fail(h))
      PROVE  UNCHANGED <<bindings, runs>>
  BY <1>6, HandleCases, QuietsApart, ReadSessionMoves, ReadIntakeMoves, AskMoves, AskFreshMoves,
     ClearMoves, AddContextMoves, AcceptMoves DEF Apart, Same, ReadSession
<1>7. ASSUME NEW h \in Handlers, Comes(h)
      PROVE  UNCHANGED <<bindings, runs>>
  BY <1>7 DEF Comes, Apart, Same
<1>8. Expire \/ UNCHANGED vars => UNCHANGED <<bindings, runs>>
  BY ExpireMoves DEF Same, vars
<1> QED BY <1>2, <1>3, <1>4, <1>5, <1>6, <1>7, <1>8, NextCases, DeliverMoves, RedeliverMoves

-----------------------------------------------------------------------------
LEMMA IntakeInvariant == Spec => [](TypeOK /\ KeysInv /\ SerialInv /\ BoundInv)
<1>1. Init => KeysInv /\ SerialInv /\ BoundInv
  BY AnswersInit, SerialInit
<1>2. TypeOK /\ KeysInv /\ SerialInv /\ BoundInv /\ [Next]_vars => (KeysInv /\ SerialInv /\ BoundInv)'
  BY KeysNext, SerialNext, BoundNext
<1> QED BY <1>1, <1>2, TypesHold, PTL DEF Spec

LEMMA SerialHolds ==
  ASSUME TypeOK, SerialInv, Serial
  PROVE  Singly(runs) /\ Newly(questions, runs)
<1>1. CASE Quiet
  BY <1>1 DEF SerialInv, CalmNow, Calm
<1>2. CASE ~Quiet
  BY <1>2 DEF SerialInv, Quiet, AtWork, CalmNow, Calm
<1> QED BY <1>1, <1>2

(* A yes starts one run, of the newest question of its kind, though        *)
(* messages come again, sessions run out and requests are cut off, as long *)
(* as no two requests are handled at once (QuestionsRunOnce).              *)
THEOREM OneYesOneRun == Spec => []QuestionsRunOnce
<1>1. TypeOK /\ KeysInv => LateCopiesIgnored
  BY DEF KeysInv, LateCopiesIgnored
<1>2. TypeOK /\ SerialInv => OneRunPerQuestion /\ NewestOfItsKind
  BY SerialHolds, Sizes DEF OneRunPerQuestion, NewestOfItsKind, Singly, Newly, NewestUpTo
<1>3. TypeOK /\ KeysInv /\ SerialInv /\ BoundInv => QuestionsRunOnce
  BY <1>1, <1>2 DEF QuestionsRunOnce
<1> QED BY <1>3, IntakeInvariant, PTL

LEMMA BoundToNewest ==
  ASSUME TypeOK, SerialInv, BoundInv
  PROVE  BoundToNewestRun
<1> SUFFICES ASSUME Serial, Quiet, NEW r \in RunIds, runs[r].task \in DOMAIN bindings,
                    \A s \in {s \in RunIds : s >= r /\ runs[s].task = runs[r].task} : ~runs[s].cut
             PROVE  IsNewest(bindings[runs[r].task], {s \in RunIds : s >= r /\ runs[s].task = runs[r].task})
  BY DEF BoundToNewestRun
<1> DEFINE t == runs[r].task
           b == bindings[t]
<1>1. t # Issue
  BY Parts DEF BoardOK, Issue
<1>2. b \in RunIds /\ runs[b].task = t
  BY <1>1 DEF BoundInv
<1>3. \A s \in RunIds : (s > b /\ runs[s].task = t) => runs[s].cut
  BY <1>1, Sizes DEF SerialInv, CalmNow, Calm, Binding, ToBind, Idle
<1>4. \A s \in RunIds : (s >= r /\ runs[s].task = t) => s <= b
  BY <1>2, <1>3, Sizes
<1>5. b >= r
  BY <1>4, Sizes
<1> QED BY <1>2, <1>4, <1>5 DEF IsNewest

(* The thread is bound to the newest run of each task it started, but for  *)
(* runs whose request was cut off, as long as no two requests are handled  *)
(* at once (BoundToNewestRun).                                             *)
THEOREM ThreadFollowsRuns == Spec => []BoundToNewestRun
<1>1. TypeOK /\ KeysInv /\ SerialInv /\ BoundInv => BoundToNewestRun
  BY BoundToNewest
<1> QED BY <1>1, IntakeInvariant, PTL
=============================================================================
