-------------------------- MODULE ReviewLoopProofs --------------------------
(***************************************************************************)
(* Proofs about ReviewLoop, for any number of reviewers, findings, reports *)
(* and faults.                                                             *)
(*                                                                         *)
(* Most steps of a review leave the run's record alone and only change     *)
(* what its reviewer holds (Proceeds).  For these it is enough that what   *)
(* the reviewer holds next is right, for the comments as they are then;    *)
(* what the others hold stays right, because their threads only get more   *)
(* comments after them and because nobody else is at work unless two       *)
(* reviews overlapped (Kept).  The steps that start and end a review are   *)
(* taken one by one.                                                       *)
(***************************************************************************)
EXTENDS ReviewLoop, TLAPS, WellFoundedInduction

(* The inductive invariant.                                                *)
Inv ==
  /\ TypeOK /\ ReviewInv
  /\ ThreadShowsFinding /\ CompletedMeansPosted /\ ArtifactsMatchRun
  /\ OnePerFinding /\ DismissedStaysAway /\ ReviewIsReported

-----------------------------------------------------------------------------
(* The first and the newest of some comments.                              *)

LEMMA Least ==
  ASSUME NEW S \in SUBSET Nat, S # {}
  PROVE  \E i \in S : \A j \in S : i <= j
<1> DEFINE Less == {p \in Nat \X Nat : p[1] < p[2]}
<1>1. IsWellFoundedOn(Less, Nat)
  BY NatLessThanWellFounded DEF OpToRel
<1>2. \E i \in S : \A j \in S : <<j, i>> \notin Less
  <2> HIDE DEF Less
  <2> QED BY <1>1, WFMin
<1>3. PICK i \in S : \A j \in S : <<j, i>> \notin Less
  BY <1>2
<1>4. ASSUME NEW j \in S PROVE i <= j
  <2>1. <<j, i>> \notin Less
    BY <1>3
  <2>2. i \in Nat /\ j \in Nat
    OBVIOUS
  <2>3. ~ j < i
    BY <2>1, <2>2
  <2> QED BY <2>2, <2>3
<1> QED BY <1>4

LEMMA Greatest ==
  ASSUME NEW n \in Nat, NEW S \in SUBSET (1..n), S # {}
  PROVE  \E i \in S : \A j \in S : j <= i
<1> DEFINE T == {n - i : i \in S}
<1>1. T \in SUBSET Nat /\ T # {}
  <2>1. \A i \in S : i \in 1..n /\ n - i \in Nat
    OBVIOUS
  <2>2. PICK i \in S : TRUE
    OBVIOUS
  <2> QED BY <2>1, <2>2
<1>2. PICK k \in T : \A j \in T : k <= j
  <2> HIDE DEF T
  <2> QED BY <1>1, Least
<1>3. PICK i \in S : k = n - i
  BY <1>2
<1>4. ASSUME NEW j \in S PROVE j <= i
  <2>1. n - j \in T
    BY <1>4
  <2> QED BY <1>2, <1>3, <1>4, <2>1
<1> QED BY <1>4

LEMMA MarkedAt ==
  ASSUME comments \in Seq(Posted), NEW f
  PROVE  /\ Marked(f) \in SUBSET (1..Len(comments)) /\ Summaries \in SUBSET (1..Len(comments))
         /\ \A i \in Marked(f) : f \in comments[i].ids
         /\ \A i \in Summaries : comments[i].kind = "summary"
BY DEF Marked, Summaries

LEMMA NewestIsOne ==
  ASSUME comments \in Seq(Posted), NEW S \in SUBSET (1..Len(comments)), S # {}
  PROVE  Newest(S) \in S
<1>1. Len(comments) \in Nat
  OBVIOUS
<1>2. \E i \in S : \A j \in S : j <= i
  BY <1>1, Greatest
<1> QED BY <1>2 DEF Newest

(* A thread that is found shows its finding, and none is found if there    *)
(* is none.                                                                *)
LEMMA ThreadFound ==
  ASSUME comments \in Seq(Posted), NEW f
  PROVE  /\ Thread(f) \in 0..Len(comments)
         /\ Thread(f) = 0 <=> Marked(f) = {}
         /\ Thread(f) # 0 => f \in comments[Thread(f)].ids
<1>1. Marked(f) \in SUBSET (1..Len(comments)) /\ Len(comments) \in Nat
  BY MarkedAt
<1>2. CASE Marked(f) = {}
  BY <1>1, <1>2 DEF Thread
<1>3. CASE Marked(f) # {}
  <2> DEFINE shown == Marked(f) \cap Summaries
  <2>1. Thread(f) \in Marked(f)
    <3>1. CASE config.provider = "github" /\ shown # {}
      <4>1. Newest(shown) \in shown
        BY <1>1, <3>1, NewestIsOne
      <4> QED BY <1>3, <3>1, <4>1 DEF Thread
    <3>2. CASE ~(config.provider = "github" /\ shown # {})
      BY <1>1, <1>3, <3>2, NewestIsOne DEF Thread
    <3> QED BY <3>1, <3>2
  <2> QED BY <1>1, <1>3, <2>1, MarkedAt
<1> QED BY <1>2, <1>3

LEMMA SummaryFound ==
  ASSUME comments \in Seq(Posted)
  PROVE  IF Summaries = {} THEN SummaryThread = 0
         ELSE SummaryThread \in Summaries /\ SummaryThread \in 1..Len(comments)
<1>1. Summaries \in SUBSET (1..Len(comments)) /\ Len(comments) \in Nat
  BY MarkedAt
<1>2. CASE Summaries # {}
  <2>1. Summaries \in SUBSET Nat
    BY <1>1
  <2>2. \E i \in Summaries : \A j \in Summaries : i <= j
    BY <1>2, <2>1, Least
  <2> QED BY <1>1, <1>2, <2>2 DEF SummaryThread
<1> QED BY <1>2 DEF SummaryThread

-----------------------------------------------------------------------------
(* What is said of the comments stays true when there are more.            *)

Grows == \/ comments' = comments
         \/ \E c \in Posted : comments' = Append(comments, c)

LEMMA GrownComments ==
  ASSUME comments \in Seq(Posted), Grows
  PROVE  /\ comments' \in Seq(Posted) /\ Len(comments) <= Len(comments')
         /\ \A i \in 1..Len(comments) : comments'[i] = comments[i]
BY DEF Grows

LEMMA GrownThreads ==
  ASSUME comments \in Seq(Posted), Grows, NEW threads, ThreadsOK(threads)
  PROVE  \A f \in Findings : threads[f] \in {Elsewhere} \cup 0..Len(comments')
<1>1. Len(comments) \in Nat /\ Len(comments') \in Nat /\ Len(comments) <= Len(comments')
  BY GrownComments
<1> QED BY <1>1 DEF ThreadsOK

LEMMA GrownShown ==
  ASSUME comments \in Seq(Posted), Grows, overlapped => overlapped',
         NEW threads, ThreadsOK(threads), NEW round, Shown(threads, round)
  PROVE  \A f \in Findings :
            threads[f] > 0 /\ (comments'[threads[f]].kind = "inline" \/ (round = 1 /\ ~overlapped'))
              => f \in comments'[threads[f]].ids
<1> SUFFICES ASSUME NEW f \in Findings, threads[f] > 0,
                    comments'[threads[f]].kind = "inline" \/ (round = 1 /\ ~overlapped')
             PROVE  f \in comments'[threads[f]].ids
  OBVIOUS
<1>1. threads[f] \in 1..Len(comments)
  BY DEF ThreadsOK, Elsewhere
<1>2. comments'[threads[f]] = comments[threads[f]]
  BY <1>1, GrownComments
<1> QED BY <1>2 DEF Shown

(* What a reviewer holds that does not take this step stays right.         *)
LEMMA Kept ==
  ASSUME Inv, NEW s \in Reviewers, rv'[s] = rv[s], config' = config,
         Grows, overlapped => overlapped', overlapped' \in BOOLEAN,
         \/ overlapped'
         \/ rv[s].at \notin Working
         \/ comments' = comments /\ files' = files /\ (blind => blind')
  PROVE  HeldInv(rv[s])' /\ HeldOK(rv[s])'
<1> DEFINE held == rv[s]
<1>1. /\ comments \in Seq(Posted) /\ ThreadsOK(held.seen) /\ ThreadsOK(held.threads)
      /\ HeldInv(held) /\ HeldOK(held) /\ held \in Reviewer /\ overlapped \in BOOLEAN
  BY DEF Inv, TypeOK, ReviewInv, HeldOK
<1>2. HeldOK(rv[s])'
  <2>1. ThreadsOK(rv[s].seen)' /\ ThreadsOK(rv[s].threads)'
    BY <1>1, GrownThreads DEF ThreadsOK
  <2> QED BY <1>1, <2>1 DEF HeldOK
<1>3. Shows(rv[s])'
  <2>1. Shown(rv[s].threads, rv[s].round)'
    <3>1. Shown(held.threads, held.round)
      BY <1>1 DEF HeldInv, Shows
    <3> HIDE DEF held
    <3>2. \A f \in Findings :
            held.threads[f] > 0 /\ (comments'[held.threads[f]].kind = "inline" \/ (held.round = 1 /\ ~overlapped'))
              => f \in comments'[held.threads[f]].ids
      BY <1>1, <3>1, GrownShown
    <3> QED BY <3>2 DEF held, Shown
  <2>2. ASSUME NEW f \in Findings, held.seen[f] > 0
        PROVE  f \in comments'[held.seen[f]].ids
    <3>1. held.seen[f] \in 1..Len(comments) /\ f \in comments[held.seen[f]].ids
      BY <1>1, <2>2 DEF HeldInv, Shows, ThreadsOK, Elsewhere
    <3> QED BY <1>1, <3>1, GrownComments
  <2>3. rv'[s].at \in {"idle", "asked"} => rv'[s].threads = None
    BY <1>1 DEF HeldInv, Shows
  <2> QED BY <2>1, <2>2, <2>3 DEF Shows, None
<1>4. Accounts(rv[s])' /\ Counts(rv[s])' /\ StaysAway(rv[s])'
  BY <1>1 DEF HeldInv, Accounts, Counts, StaysAway, Enabled, DismissedFingerprints, Previous
<1>5. ASSUME ~overlapped'
      PROVE  FirstSummary(rv[s])' /\ (rv'[s].at = "end" => files' = rv'[s].found)
             /\ (~blind' => Unposted(rv[s])')
  <2>1. CASE rv[s].at \notin Working
    BY <2>1 DEF FirstSummary, Unposted, Working, Underway, Posting, Places
  <2>2. CASE rv[s].at \in Working
    <3>1. comments' = comments /\ files' = files /\ (blind => blind') /\ ~overlapped
      BY <1>5, <2>2
    <3> QED BY <1>1, <3>1 DEF HeldInv, FirstSummary, Unposted, Marked, Summaries
  <2> QED BY <2>1, <2>2
<1> QED BY <1>2, <1>3, <1>4, <1>5 DEF HeldInv

(* A step of reviewer r that leaves the run's record alone and brings      *)
(* nobody to or from work.                                                 *)
Proceeding(r, held) ==
  /\ rv' = [rv EXCEPT ![r] = held]
  /\ rv[r].at \in Underway /\ held.at \in Underway /\ held.round = rv[r].round
  /\ UNCHANGED <<config, run, column, triggers, overlapped, last>>
  /\ blind' \in BOOLEAN /\ (blind => blind')
  /\ faults' \in 0..MaxFaults
  /\ files' \subseteq Findings /\ Grows

LEMMA Proceeds ==
  ASSUME Inv, NEW r \in Reviewers, NEW held \in Reviewer, Proceeding(r, held),
         HeldOK(held)', HeldInv(held)', OnePerFinding', DismissedStaysAway'
  PROVE  Inv'
<1>1. /\ rv \in [Reviewers -> Reviewer] /\ rv' \in [Reviewers -> Reviewer] /\ rv'[r] = held
      /\ \A s \in Reviewers \ {r} : rv'[s] = rv[s]
  BY DEF Inv, TypeOK, Proceeding
<1>2. /\ comments \in Seq(Posted) /\ ThreadsOK(run.threads)
      /\ overlapped \in BOOLEAN /\ overlapped' = overlapped /\ run' = run /\ config' = config
  BY DEF Inv, TypeOK, Proceeding
<1>3. rv[r].at \in Working /\ held.at \in Working /\ rv[r].at # "note" /\ held.at # "note"
  BY DEF Proceeding, Underway
<1>4. ~overlapped => \A s \in Reviewers \ {r} : rv[s].at \notin Working
  BY <1>3 DEF Inv, ReviewInv, OneReviewer
<1>5. \A s \in Reviewers : HeldInv(rv[s])' /\ HeldOK(rv[s])'
  <2>1. CASE overlapped
    BY <1>1, <1>2, <2>1, Kept DEF Proceeding
  <2> QED BY <1>1, <1>2, <1>4, Kept DEF Proceeding
<1>6. TypeOK'
  <2>1. ThreadsOK(run.threads)'
    BY <1>2, GrownThreads DEF Proceeding, ThreadsOK
  <2>2. comments' \in Seq(Posted)
    BY <1>2, GrownComments DEF Proceeding
  <2> QED BY <1>1, <1>2, <1>5, <2>1, <2>2 DEF Inv, TypeOK, Proceeding
<1>7. FirstRound'
  <2>1. ~overlapped => run.round > 0
    BY <1>3 DEF Inv, TypeOK, ReviewInv, OneReviewer, At, HeldInv, Counts
  <2> QED BY <1>2, <2>1 DEF Inv, TypeOK, ReviewInv, FirstRound, Enabled, Proceeding
<1>8. OneReviewer'
  BY <1>1, <1>2, <1>3, <1>4 DEF Inv, ReviewInv, OneReviewer, At, Proceeding
<1>9. ColumnFollows'
  BY <1>1, <1>2, <1>3, <1>4
     DEF Inv, ReviewInv, ColumnFollows, Nobody, At, Enabled, Proceeding, ColumnAfter, Working
<1>10. ThreadShowsFinding'
  <2>1. Shown(run.threads, run.round)
    BY DEF Inv, ThreadShowsFinding
  <2> DEFINE threads == run.threads
             round == run.round
  <2> HIDE DEF threads, round
  <2>2. Shown(threads, round) /\ ThreadsOK(threads)
    BY <1>2, <2>1 DEF threads, round
  <2>3. \A f \in Findings :
          threads[f] > 0 /\ (comments'[threads[f]].kind = "inline" \/ (round = 1 /\ ~overlapped'))
            => f \in comments'[threads[f]].ids
    BY <1>2, <2>2, GrownShown DEF Proceeding
  <2> QED BY <1>2, <2>3 DEF threads, round, ThreadShowsFinding, Shown
<1>11. CompletedMeansPosted'
  BY <1>2 DEF Inv, CompletedMeansPosted
<1>12. ArtifactsMatchRun' /\ ReviewIsReported'
  <2>1. ~overlapped => run.review = "running"
    BY <1>3 DEF Inv, ReviewInv, OneReviewer, At
  <2> QED BY <1>1, <1>2, <2>1 DEF Inv, ArtifactsMatchRun, ReviewIsReported, Proceeding
<1> QED BY <1>5, <1>6, <1>7, <1>8, <1>9, <1>10, <1>11, <1>12 DEF Inv, ReviewInv

(* The same, when nothing is posted or stored either.                      *)
LEMMA ProceedsQuietly ==
  ASSUME Inv, NEW r \in Reviewers, NEW held \in Reviewer, Proceeding(r, held),
         UNCHANGED <<comments, files>>, HeldOK(held),
         Shows(held), Accounts(held), Counts(held), StaysAway(held),
         ~overlapped => FirstSummary(held) /\ (held.at = "end" => files = held.found)
                        /\ (~blind' => Unposted(held))
  PROVE  Inv'
<1>1. config' = config /\ overlapped' = overlapped /\ run' = run /\ (blind => blind')
  BY DEF Proceeding
<1>2. HeldOK(held)'
  BY DEF HeldOK, ThreadsOK
<1>3. HeldInv(held)'
  <2>1. Shows(held)'
    BY <1>1 DEF Shows, Shown, None
  <2>2. Accounts(held)' /\ Counts(held)' /\ StaysAway(held)'
    BY <1>1 DEF Accounts, Counts, StaysAway, Enabled, DismissedFingerprints, Previous
  <2>3. ~overlapped' => FirstSummary(held)' /\ (held.at = "end" => files' = held.found)
                        /\ (~blind' => Unposted(held)')
    BY <1>1 DEF FirstSummary, Unposted, Marked, Summaries
  <2> QED BY <2>1, <2>2, <2>3 DEF HeldInv
<1>4. OnePerFinding' /\ DismissedStaysAway'
  BY <1>1 DEF Inv, OnePerFinding, DismissedStaysAway, Marked, DismissedFingerprints, Previous
<1> QED BY <1>2, <1>3, <1>4, Proceeds

LEMMA HeldNow ==
  ASSUME Inv, NEW r \in Reviewers
  PROVE  /\ rv[r] \in Reviewer /\ HeldOK(rv[r])
         /\ Shows(rv[r]) /\ Accounts(rv[r]) /\ Counts(rv[r]) /\ StaysAway(rv[r])
         /\ ~overlapped => FirstSummary(rv[r]) /\ (~blind => Unposted(rv[r]))
         /\ comments \in Seq(Posted) /\ overlapped \in BOOLEAN /\ blind \in BOOLEAN
         /\ faults \in 0..MaxFaults /\ files \subseteq Findings
         /\ rv \in [Reviewers -> Reviewer]
BY DEF Inv, TypeOK, ReviewInv, HeldInv

-----------------------------------------------------------------------------
(* The steps that only change what the reviewer holds.                     *)

(* Where a review goes on its way, with what it held before.               *)
Onwards(held, place) ==
  \/ held.at \in {"prepare", "llm", "normalize"} /\ place \in {"llm", "normalize", "catch"}
  \/ held.at = "meta" /\ place = "finding"
  \/ held.at = "finding" /\ held.todo = {} /\ place = IF held.sum = {} THEN "files" ELSE "summary"
  \/ held.at = "summary" /\ place = "sumPost" /\ Summaries = {}

LEMMA GoesOn ==
  ASSUME Inv, NEW r \in Reviewers, NEW place \in Places, Onwards(rv[r], place),
         Go(r, place), Local, faults' \in 0..MaxFaults
  PROVE  Inv'
<1> DEFINE held == [rv[r] EXCEPT !.at = place]
<1>1. held \in Reviewer /\ held = [rv[r] EXCEPT !.at = place] /\ HeldOK(held)
  <2>1. rv[r] \in Reviewer /\ HeldOK(rv[r])
    BY HeldNow
  <2> QED BY <2>1 DEF Reviewer, HeldOK
<1>2. rv[r].at \in Underway /\ place \in Underway
  BY DEF Onwards, Underway, Working, Places
<1>3. /\ held.at = place /\ held.round = rv[r].round /\ held.found = rv[r].found
      /\ held.todo = rv[r].todo /\ held.sum = rv[r].sum /\ held.seen = rv[r].seen
      /\ held.threads = rv[r].threads /\ held.errors = rv[r].errors
      /\ held.finding = rv[r].finding
  BY HeldNow DEF Reviewer
<1>4. Proceeding(r, held)
  BY <1>2, <1>3, HeldNow DEF Proceeding, Go, Local, history, Grows
<1> HIDE DEF held
<1>5. Shows(held) /\ Counts(held) /\ StaysAway(held)
  BY <1>2, <1>3, HeldNow DEF Shows, Counts, StaysAway, Underway, Working
<1>6. Accounts(held)
  BY <1>2, <1>3, HeldNow DEF Accounts, Onwards, Posting
<1>7. ~overlapped => FirstSummary(held) /\ place # "end" /\ (~blind => Unposted(held))
  <2>1. ASSUME ~overlapped PROVE FirstSummary(held)
    BY <1>2, <1>3, <2>1, HeldNow DEF FirstSummary, Onwards, Underway
  <2>2. ASSUME ~overlapped, ~blind PROVE Unposted(held)
    BY <1>2, <1>3, <2>2, HeldNow DEF Unposted, Onwards, Posting, Accounts
  <2> QED BY <2>1, <2>2 DEF Onwards
<1> QED BY <1>1, <1>3, <1>4, <1>5, <1>6, <1>7, ProceedsQuietly DEF Local, history

LEMMA FaultBound == ASSUME Inv, Fault \/ NoFault PROVE faults' \in 0..MaxFaults
BY ReviewAssumption DEF Inv, TypeOK, Fault, NoFault

LEMMA PrepareKeeps == ASSUME Inv, NEW r \in Reviewers, Prepare(r) PROVE Inv'
BY GoesOn, FaultBound DEF Prepare, Fails, At, Onwards, Places

LEMMA NativeKeeps == ASSUME Inv, NEW r \in Reviewers, NativeReview(r) PROVE Inv'
BY GoesOn, FaultBound DEF NativeReview, Fails, At, Onwards, Places

LEMMA ReportKeeps ==
  ASSUME Inv, NEW r \in Reviewers, rv[r].at \in {"llm", "normalize"}, Report(r)
  PROVE  Inv'
<1>1. CASE Fault /\ Fails(r)
  BY <1>1, GoesOn, FaultBound DEF Fails, Onwards, Places
<1>2. ASSUME NEW answer \in Reports, NoFault, Local,
             Hold(r, [rv[r] EXCEPT !.at = IF config.agent THEN "agent" ELSE "load",
                                   !.found = Suppress(answer), !.todo = Suppress(answer)])
      PROVE  Inv'
  <2> DEFINE place == IF config.agent THEN "agent" ELSE "load"
             found == Suppress(answer)
             held == [rv[r] EXCEPT !.at = place, !.found = found, !.todo = found]
  <2>1. found \subseteq Findings /\ \A f \in found : Fingerprint[f] \notin DismissedFingerprints
    BY ReviewAssumption DEF Suppress
  <2>2. place \in Underway /\ place \in {"agent", "load"} /\ (place = "agent" <=> config.agent)
    BY DEF Underway, Working, Places
  <2>3. rv' = [rv EXCEPT ![r] = held]
    BY <1>2 DEF Hold
  <2> HIDE DEF place, found
  <2>4. /\ held \in Reviewer /\ held.at = place /\ held.round = rv[r].round
        /\ held.found = found /\ held.todo = found
        /\ held.sum = rv[r].sum /\ held.seen = rv[r].seen /\ held.threads = rv[r].threads
        /\ held.errors = rv[r].errors /\ held.finding = rv[r].finding
    <3>1. rv[r] \in Reviewer /\ place \in Places
      BY <2>2, HeldNow DEF Places
    <3> QED BY <2>1, <3>1 DEF Reviewer
  <2> HIDE DEF held
  <2>5. rv[r].sum = {} /\ rv[r].finding = {} /\ rv[r].at \in Underway
    BY HeldNow DEF Accounts, Posting, Underway, Working, Places
  <2>6. Proceeding(r, held)
    BY <1>2, <2>2, <2>3, <2>4, <2>5, FaultBound, HeldNow DEF Proceeding, Local, history, Grows
  <2>7. HeldOK(held)
    BY <2>4, <2>5, HeldNow DEF HeldOK
  <2>8. Shows(held) /\ Counts(held) /\ StaysAway(held)
    BY <2>1, <2>2, <2>4, <2>5, HeldNow DEF Shows, Counts, StaysAway, Underway, Working
  <2>9. Accounts(held)
    BY <2>2, <2>4, <2>5, HeldNow DEF Accounts, Posting
  <2>10. ~overlapped => FirstSummary(held) /\ place # "end" /\ Unposted(held)
    BY <2>2, <2>4, <2>5, HeldNow DEF FirstSummary, Unposted, Posting
  <2> QED BY <1>2, <2>4, <2>6, <2>7, <2>8, <2>9, <2>10, ProceedsQuietly DEF Local, history
<1> QED BY <1>1, <1>2 DEF Report

LEMMA AgentKeeps == ASSUME Inv, NEW r \in Reviewers, AgentPosting(r) PROVE Inv'
<1> PICK posted \in SUBSET rv[r].found :
       Hold(r, [rv[r] EXCEPT
                  !.at = IF posted = {} /\ rv[r].found # {} THEN "load" ELSE "files",
                  !.threads = [f \in Findings |-> IF f \in posted THEN Elsewhere ELSE 0]])
  BY DEF AgentPosting
<1> DEFINE place == IF posted = {} /\ rv[r].found # {} THEN "load" ELSE "files"
           threads == [f \in Findings |-> IF f \in posted THEN Elsewhere ELSE 0]
           held == [rv[r] EXCEPT !.at = place, !.threads = threads]
<1>1. /\ threads \in [Findings -> Int] /\ \A f \in Findings : threads[f] \in {Elsewhere, 0}
      /\ Elsewhere = -1
  BY DEF Elsewhere
<1>2. place \in Underway /\ place \in {"load", "files"}
  BY DEF Underway, Working, Places
<1>3. rv' = [rv EXCEPT ![r] = held] /\ rv[r].at = "agent" /\ NoFault /\ Local
  BY DEF Hold, AgentPosting, At
<1> HIDE DEF place, threads
<1>4. /\ held \in Reviewer /\ held.at = place /\ held.round = rv[r].round
      /\ held.found = rv[r].found /\ held.todo = rv[r].todo
      /\ held.sum = rv[r].sum /\ held.seen = rv[r].seen /\ held.threads = threads
      /\ held.errors = rv[r].errors /\ held.finding = rv[r].finding
  <2>1. rv[r] \in Reviewer /\ place \in Places
    BY <1>2, HeldNow DEF Places
  <2> QED BY <1>1, <2>1 DEF Reviewer
<1> HIDE DEF held
<1>5. rv[r].sum = {} /\ rv[r].finding = {} /\ config.agent /\ rv[r].at \in Underway
  BY <1>3, HeldNow DEF Accounts, Posting, Underway, Working, Places
<1>6. Proceeding(r, held)
  BY <1>2, <1>3, <1>4, <1>5, FaultBound, HeldNow DEF Proceeding, Local, history, Grows
<1>7. HeldOK(held)
  <2>1. ThreadsOK(threads)
    BY <1>1, HeldNow DEF ThreadsOK
  <2> QED BY <1>4, <2>1, HeldNow DEF HeldOK
<1>8. Shows(held) /\ Counts(held) /\ StaysAway(held)
  <2>1. Shown(threads, held.round)
    BY <1>1 DEF Shown
  <2> QED BY <1>2, <1>3, <1>4, <2>1, HeldNow DEF Shows, Counts, StaysAway, Underway, Working, Places
<1>9. Accounts(held)
  BY <1>2, <1>3, <1>4, <1>5, HeldNow DEF Accounts, Posting
<1>10. ~overlapped => FirstSummary(held) /\ place # "end" /\ Unposted(held)
  BY <1>2, <1>3, <1>4, <1>5, HeldNow DEF FirstSummary, Unposted, Posting, Underway, Working, Places
<1> QED BY <1>3, <1>4, <1>6, <1>7, <1>8, <1>9, <1>10, ProceedsQuietly DEF Local, history

LEMMA LoadKeeps == ASSUME Inv, NEW r \in Reviewers, LoadThreads(r) PROVE Inv'
<1> PICK place \in {"files", "finding", "meta"}, errors \in BOOLEAN, seen \in {rv[r].seen, Threads} :
      /\ Hold(r, [rv[r] EXCEPT !.at = place, !.errors = errors, !.seen = seen])
      /\ (seen = Threads /\ place # "files") \/ errors
      /\ errors = rv[r].errors \/ errors
      /\ seen = Threads \/ place = "files" \/ blind'
  <2>1. /\ [rv[r] EXCEPT !.at = "files", !.errors = TRUE]
             = [rv[r] EXCEPT !.at = "files", !.errors = TRUE, !.seen = rv[r].seen]
        /\ [rv[r] EXCEPT !.at = "meta", !.errors = TRUE]
             = [rv[r] EXCEPT !.at = "meta", !.errors = TRUE, !.seen = rv[r].seen]
        /\ [rv[r] EXCEPT !.at = "meta", !.seen = Threads]
             = [rv[r] EXCEPT !.at = "meta", !.errors = rv[r].errors, !.seen = Threads]
        /\ [rv[r] EXCEPT !.at = "finding", !.seen = Threads]
             = [rv[r] EXCEPT !.at = "finding", !.errors = rv[r].errors, !.seen = Threads]
        /\ rv[r].errors \in BOOLEAN
    BY HeldNow DEF Reviewer
  <2> QED BY <2>1 DEF LoadThreads
<1> DEFINE held == [rv[r] EXCEPT !.at = place, !.errors = errors, !.seen = seen]
<1>1. place \in Underway /\ rv[r].at = "load" /\ rv[r].at \in Underway
  BY DEF Underway, Working, Places, LoadThreads, At
<1>2. /\ rv' = [rv EXCEPT ![r] = held] /\ faults' \in 0..MaxFaults
      /\ UNCHANGED <<config, run, comments, files, column, triggers, overlapped, last>>
      /\ blind' \in BOOLEAN /\ (blind => blind')
  <2>1. faults' \in 0..MaxFaults
    BY FaultBound DEF LoadThreads
  <2>2. rv' = [rv EXCEPT ![r] = held]
    BY DEF Hold
  <2> HIDE DEF held
  <2>3. blind' = blind \/ blind' = TRUE
    BY DEF LoadThreads
  <2>4. UNCHANGED <<config, run, comments, files, column, triggers, overlapped, last>>
    BY DEF LoadThreads
  <2>5. blind' \in BOOLEAN /\ (blind => blind')
    BY <2>3 DEF Inv, TypeOK
  <2> QED BY <2>1, <2>2, <2>4, <2>5
<1>3. \A f \in Findings :
         /\ Threads[f] \in Int /\ Threads[f] \in 0..Len(comments)
         /\ Threads[f] = 0 <=> Marked(f) = {}
         /\ Threads[f] > 0 => f \in comments[Threads[f]].ids
  BY ThreadFound, HeldNow DEF Threads
<1>4. seen \in [Findings -> Int] /\ ThreadsOK(seen)
      /\ \A f \in Findings : seen[f] > 0 => f \in comments[seen[f]].ids
  <2>1. CASE seen = Threads
    BY <1>3, <2>1 DEF ThreadsOK, Threads
  <2>2. CASE seen = rv[r].seen
    BY <2>2, HeldNow DEF Reviewer, HeldOK, Shows
  <2> QED BY <2>1, <2>2
<1>5. /\ held \in Reviewer /\ held.at = place /\ held.round = rv[r].round
      /\ held.found = rv[r].found /\ held.todo = rv[r].todo
      /\ held.sum = rv[r].sum /\ held.seen = seen /\ held.threads = rv[r].threads
      /\ held.errors = errors /\ held.finding = rv[r].finding
  <2>1. place \in Places /\ errors \in BOOLEAN /\ rv[r] \in Reviewer
    BY HeldNow DEF Places
  <2> QED BY <1>4, <2>1 DEF Reviewer
<1> HIDE DEF held
<1>6. rv[r].sum = {} /\ rv[r].finding = {}
  BY <1>1, HeldNow DEF Accounts, Posting
<1>7. Proceeding(r, held)
  BY <1>1, <1>2, <1>5, HeldNow DEF Proceeding, Grows
<1>8. HeldOK(held)
  BY <1>4, <1>5, HeldNow DEF HeldOK
<1>9. Shows(held) /\ Counts(held) /\ StaysAway(held)
  BY <1>1, <1>4, <1>5, HeldNow DEF Shows, Counts, StaysAway, Underway, Working, Places
<1>10. Accounts(held)
  BY <1>1, <1>5, <1>6, HeldNow DEF Accounts, Posting
<1>11. ~overlapped => FirstSummary(held) /\ place # "end"
  BY <1>1, <1>5, <1>6, HeldNow DEF FirstSummary
<1>12. ~blind' => Unposted(held)
  <2>1. \A f \in rv[r].todo : f \in Findings
    BY HeldNow DEF Reviewer
  <2> QED BY <1>3, <1>5, <1>6, <2>1 DEF Unposted, Posting
<1> QED BY <1>2, <1>5, <1>7, <1>8, <1>9, <1>10, <1>11, <1>12, ProceedsQuietly

LEMMA MetadataKeeps == ASSUME Inv, NEW r \in Reviewers, FetchMetadata(r) PROVE Inv'
<1>1. CASE Go(r, "finding") /\ NoFault
  BY <1>1, GoesOn, FaultBound DEF FetchMetadata, At, Onwards, Places
<1>2. CASE Fault /\ \E meta \in {"noHead", "noFiles"} :
             Hold(r, [rv[r] EXCEPT !.at = "finding", !.meta = meta, !.errors = TRUE])
  <2> PICK meta \in {"noHead", "noFiles"} :
         Hold(r, [rv[r] EXCEPT !.at = "finding", !.meta = meta, !.errors = TRUE])
    BY <1>2
  <2> DEFINE held == [rv[r] EXCEPT !.at = "finding", !.meta = meta, !.errors = TRUE]
  <2>1. rv[r].at = "meta" /\ Local /\ rv' = [rv EXCEPT ![r] = held]
    BY DEF FetchMetadata, At, Hold
  <2>2. /\ held \in Reviewer /\ held.at = "finding" /\ held.round = rv[r].round
        /\ held.found = rv[r].found /\ held.todo = rv[r].todo
        /\ held.sum = rv[r].sum /\ held.seen = rv[r].seen /\ held.threads = rv[r].threads
        /\ held.errors = TRUE /\ held.finding = rv[r].finding
    <3>1. rv[r] \in Reviewer /\ meta \in {"ok", "noHead", "noFiles"} /\ "finding" \in Places
      BY HeldNow DEF Places
    <3> QED BY <3>1 DEF Reviewer
  <2> HIDE DEF held
  <2>3. rv[r].at \in Underway /\ held.at \in Underway
    BY <2>1, <2>2 DEF Underway, Working, Places
  <2>4. Proceeding(r, held)
    BY <1>2, <2>1, <2>2, <2>3, FaultBound, HeldNow DEF Proceeding, Local, history, Grows
  <2>5. HeldOK(held) /\ Shows(held) /\ Counts(held) /\ StaysAway(held)
    BY <2>2, <2>3, HeldNow DEF HeldOK, Shows, Counts, StaysAway, Underway, Working
  <2>6. Accounts(held)
    BY <2>1, <2>2, HeldNow DEF Accounts, Posting
  <2>7. ~overlapped => FirstSummary(held) /\ (~blind => Unposted(held))
    <3>1. rv[r].sum = {}
      BY <2>1, HeldNow DEF Accounts, Posting
    <3> QED BY <2>1, <2>2, <2>3, <3>1, HeldNow DEF FirstSummary, Unposted, Posting
  <2> QED BY <2>1, <2>2, <2>4, <2>5, <2>6, <2>7, HeldNow, ProceedsQuietly DEF Local, history
<1> QED BY <1>1, <1>2 DEF FetchMetadata

-----------------------------------------------------------------------------
(* The steps about one finding.                                            *)

LEMMA Appended ==
  ASSUME comments \in Seq(Posted), NEW c \in Posted, comments' = Append(comments, c)
  PROVE  /\ Len(comments) \in Nat /\ Len(comments') = Len(comments) + 1
         /\ comments'[Len(comments) + 1] = c
         /\ \A f \in Findings :
              /\ f \in c.ids => Marked(f)' = Marked(f) \cup {Len(comments) + 1}
              /\ f \notin c.ids => Marked(f)' = Marked(f)
         /\ c.kind = "summary" => Summaries' = Summaries \cup {Len(comments) + 1}
         /\ c.kind # "summary" => Summaries' = Summaries
         /\ \A i \in Summaries : comments'[i] = comments[i]
<1>1. /\ Len(comments) \in Nat /\ Len(comments') = Len(comments) + 1
      /\ comments'[Len(comments) + 1] = c
      /\ \A i \in 1..Len(comments) : comments'[i] = comments[i]
      /\ DOMAIN comments = 1..Len(comments) /\ DOMAIN comments' = 1..(Len(comments) + 1)
      /\ DOMAIN comments' = DOMAIN comments \cup {Len(comments) + 1}
  OBVIOUS
<1> QED BY <1>1 DEF Marked, Summaries

(* What a reviewer holds refers to comments that there still are.          *)
LEMMA GrownHeld ==
  ASSUME Inv, NEW r \in Reviewers, Grows, overlapped' = overlapped
  PROVE  \A f \in Findings :
           /\ rv[r].threads[f] > 0
              /\ (comments'[rv[r].threads[f]].kind = "inline" \/ (rv[r].round = 1 /\ ~overlapped))
                => f \in comments'[rv[r].threads[f]].ids
           /\ rv[r].seen[f] > 0 => f \in comments'[rv[r].seen[f]].ids
           /\ rv[r].threads[f] \in {Elsewhere} \cup 0..Len(comments')
           /\ rv[r].seen[f] \in {Elsewhere} \cup 0..Len(comments')
<1> TAKE f \in Findings
<1>1. /\ rv[r].threads[f] \in {Elsewhere} \cup 0..Len(comments)
      /\ rv[r].seen[f] \in {Elsewhere} \cup 0..Len(comments)
  BY HeldNow DEF HeldOK, ThreadsOK
<1>2. Len(comments) \in Nat /\ Len(comments') \in Nat /\ Len(comments) <= Len(comments')
  BY HeldNow, GrownComments
<1>3. \A i \in 1..Len(comments) : comments'[i] = comments[i]
  BY HeldNow, GrownComments
<1>4. /\ rv[r].threads[f] \in {Elsewhere} \cup 0..Len(comments')
      /\ rv[r].seen[f] \in {Elsewhere} \cup 0..Len(comments')
  BY <1>1, <1>2
<1>5. rv[r].seen[f] > 0 => f \in comments'[rv[r].seen[f]].ids
  BY <1>1, <1>2, <1>3, HeldNow DEF Shows, Elsewhere
<1>6. ASSUME rv[r].threads[f] > 0,
             comments'[rv[r].threads[f]].kind = "inline" \/ (rv[r].round = 1 /\ ~overlapped)
      PROVE  f \in comments'[rv[r].threads[f]].ids
  <2>1. comments'[rv[r].threads[f]] = comments[rv[r].threads[f]]
    BY <1>1, <1>2, <1>3, <1>6 DEF Elsewhere
  <2>2. Shown(rv[r].threads, rv[r].round)
    BY HeldNow DEF Shows
  <2> QED BY <1>6, <2>1, <2>2 DEF Shown
<1> QED BY <1>4, <1>5, <1>6

(* Nothing is posted.                                                      *)
LEMMA PostedNothing ==
  ASSUME Inv, UNCHANGED <<comments, config, run, files, overlapped>>, blind => blind'
  PROVE  OnePerFinding' /\ DismissedStaysAway'
<1>1. OnePerFinding'
  BY DEF Inv, OnePerFinding, Marked
<1>2. DismissedStaysAway'
  BY DEF Inv, DismissedStaysAway, DismissedFingerprints, Previous
<1> QED BY <1>1, <1>2

(* A comment with the finding that was looked for, or with the summary.    *)
LEMMA PostedOnce ==
  ASSUME Inv, NEW r \in Reviewers, NEW c \in Posted, comments' = Append(comments, c),
         UNCHANGED <<config, run, files, overlapped>>, blind => blind',
         c.ids \subseteq rv[r].found,
         ~overlapped /\ ~blind => \A f \in c.ids : Marked(f) = {}
  PROVE  OnePerFinding' /\ DismissedStaysAway'
<1>1. c.ids \subseteq Findings /\ \A f \in c.ids : Fingerprint[f] \notin DismissedFingerprints
  BY HeldNow DEF Reviewer, StaysAway
<1>2. DismissedFingerprints' = DismissedFingerprints
  BY DEF DismissedFingerprints, Previous
<1>3. OnePerFinding'
  <2> SUFFICES ASSUME ~overlapped, ~blind, NEW f \in Findings, NEW i \in Marked(f)', NEW j \in Marked(f)'
               PROVE  i = j
    BY DEF OnePerFinding
  <2>1. /\ f \in c.ids => Marked(f)' = Marked(f) \cup {Len(comments) + 1}
        /\ f \notin c.ids => Marked(f)' = Marked(f)
    BY HeldNow, Appended
  <2>2. \A k, l \in Marked(f) : k = l
    BY DEF Inv, OnePerFinding
  <2> QED BY <2>1, <2>2
<1>4. DismissedStaysAway'
  <2>1. \A i \in DOMAIN comments' : \A f \in comments'[i].ids : f \in c.ids \/ \E k \in DOMAIN comments : f \in comments[k].ids
    <3>1. comments \in Seq(Posted)
      BY HeldNow
    <3> QED BY <3>1
  <2>2. \A k \in DOMAIN comments : \A f \in comments[k].ids : Fingerprint[f] \notin DismissedFingerprints
    BY DEF Inv, DismissedStaysAway
  <2>3. \A f \in run.findings \cup files : Fingerprint[f] \notin DismissedFingerprints
    BY DEF Inv, DismissedStaysAway
  <2> QED BY <1>1, <1>2, <2>1, <2>2, <2>3 DEF DismissedStaysAway
<1> QED BY <1>3, <1>4

LEMMA KnownHolds ==
  ASSUME Inv, NEW r \in Reviewers, NEW f \in Findings, NEW thread \in Int, Known(r, f, thread)
  PROVE  \E held \in Reviewer :
            /\ rv' = [rv EXCEPT ![r] = held]
            /\ held.at = "finding" /\ held.round = rv[r].round
            /\ held.found = rv[r].found /\ held.todo = rv[r].todo \ {f}
            /\ held.sum = rv[r].sum /\ held.seen = rv[r].seen
            /\ held.errors = rv[r].errors /\ held.finding = {}
            /\ held.threads[f] = thread
            /\ \A g \in Findings \ {f} : held.threads[g] = rv[r].threads[g]
<1> DEFINE held == [rv[r] EXCEPT !.at = "finding", !.threads[f] = thread, !.todo = @ \ {f},
                                 !.finding = {}, !.count = 1]
           threads == [rv[r].threads EXCEPT ![f] = thread]
<1>1. rv[r] \in Reviewer
  BY HeldNow
<1>2. rv' = [rv EXCEPT ![r] = held]
  BY DEF Known, Hold
<1>3. threads \in [Findings -> Int] /\ threads[f] = thread
      /\ \A g \in Findings \ {f} : threads[g] = rv[r].threads[g]
  BY <1>1 DEF Reviewer
<1>4. held = [rv[r] EXCEPT !.at = "finding", !.threads = threads, !.todo = rv[r].todo \ {f},
                           !.finding = {}, !.count = 1]
  BY <1>1 DEF Reviewer
<1> HIDE DEF held, threads
<1>5. rv[r].todo \ {f} \subseteq Findings /\ 1 \in 1..MaxAttempts /\ "finding" \in Places
  BY <1>1 DEF Reviewer, MaxAttempts, Places
<1>6. /\ held.at = "finding" /\ held.round = rv[r].round
      /\ held.found = rv[r].found /\ held.todo = rv[r].todo \ {f}
      /\ held.sum = rv[r].sum /\ held.seen = rv[r].seen
      /\ held.errors = rv[r].errors /\ held.finding = {} /\ held.threads = threads
  BY <1>1, <1>4 DEF Reviewer
<1>7. held \in Reviewer
  BY <1>1, <1>3, <1>4, <1>5 DEF Reviewer
<1> QED BY <1>2, <1>3, <1>6, <1>7

(* A thread is known for finding f: it was there, or it is made here.      *)
LEMMA KnownProceeds ==
  ASSUME Inv, NEW r \in Reviewers, NEW f \in rv[r].todo, rv[r].finding \subseteq {f},
         NEW thread \in Int, Known(r, f, thread), thread # 0,
         thread \in {Elsewhere} \cup 0..Len(comments'),
         thread > 0 => f \in comments'[thread].ids,
         \/ rv[r].at \in {"finding", "look"} /\ comments' = comments
         \/ rv[r].at = "post" /\ comments' = Append(comments, [kind |-> "inline", ids |-> {f}]),
         UNCHANGED <<config, run, files, column, triggers, history>>, faults' \in 0..MaxFaults
  PROVE  Inv'
<1> DEFINE c == [kind |-> "inline", ids |-> {f}]
<1>1. /\ rv[r] \in Reviewer /\ f \in Findings /\ f \in rv[r].found /\ rv[r].todo \subseteq rv[r].found
      /\ comments \in Seq(Posted)
      /\ c \in Posted /\ c.kind = "inline" /\ c.ids = {f}
  BY HeldNow DEF Reviewer, HeldOK, Posted
<1>2. \/ rv[r].at \in {"finding", "look"} /\ comments' = comments
      \/ rv[r].at = "post" /\ comments' = Append(comments, c)
  OBVIOUS
<1> HIDE DEF c
<1>3. rv[r].at \in Underway /\ rv[r].at \in {"finding", "look", "post"}
  BY DEF Underway, Working, Places
<1>4. PICK held \in Reviewer :
            /\ rv' = [rv EXCEPT ![r] = held]
            /\ held.at = "finding" /\ held.round = rv[r].round
            /\ held.found = rv[r].found /\ held.todo = rv[r].todo \ {f}
            /\ held.sum = rv[r].sum /\ held.seen = rv[r].seen
            /\ held.errors = rv[r].errors /\ held.finding = {}
            /\ held.threads[f] = thread
            /\ \A g \in Findings \ {f} : held.threads[g] = rv[r].threads[g]
  BY <1>1, KnownHolds
<1>5. Grows
  BY <1>1, <1>2 DEF Grows
<1>6. Proceeding(r, held)
  <2>1. held.at \in Underway
    BY <1>4 DEF Underway, Working, Places
  <2> QED BY <1>3, <1>4, <1>5, <2>1, HeldNow DEF Proceeding, history
<1>7. \A g \in Findings :
        /\ held.threads[g] > 0
           /\ (comments'[held.threads[g]].kind = "inline" \/ (rv[r].round = 1 /\ ~overlapped))
              => g \in comments'[held.threads[g]].ids
        /\ rv[r].seen[g] > 0 => g \in comments'[rv[r].seen[g]].ids
        /\ held.threads[g] \in {Elsewhere} \cup 0..Len(comments')
        /\ rv[r].seen[g] \in {Elsewhere} \cup 0..Len(comments')
  BY <1>4, <1>5, GrownHeld DEF history
<1>8. HeldOK(held)'
  BY <1>1, <1>4, <1>7, HeldNow DEF HeldOK, ThreadsOK
<1>9. rv[r].sum \cap {f} = {} /\ rv[r].sum \subseteq Findings
  BY <1>1, HeldNow DEF Accounts, Reviewer
<1>10. /\ \A g \in Findings \ {f} : Marked(g)' = Marked(g)
       /\ Summaries' = Summaries /\ \A i \in Summaries : comments'[i] = comments[i]
  <2>1. CASE comments' = comments
    BY <2>1 DEF Marked, Summaries
  <2>2. CASE comments' = Append(comments, c)
    <3>1. /\ \A g \in Findings : g \notin c.ids => Marked(g)' = Marked(g)
          /\ c.kind # "summary" => Summaries' = Summaries
          /\ \A i \in Summaries : comments'[i] = comments[i]
      BY <1>1, <2>2, Appended
    <3> QED BY <1>1, <3>1
  <2> QED BY <1>2, <2>1, <2>2
<1>11. HeldInv(held)'
  <2>1. Shows(held)'
    BY <1>4, <1>7 DEF Shows, Shown, history
  <2>2. Counts(held)' /\ StaysAway(held)'
    BY <1>3, <1>4, HeldNow
       DEF Counts, StaysAway, Underway, Enabled, DismissedFingerprints, Previous, Working, history
  <2>3. Accounts(held)'
    <3>1. rv[r].at \in Posting
      BY <1>3 DEF Posting
    <3>2. /\ held.todo \cap held.sum = {}
          /\ ~config.agent /\ ~held.errors =>
                \A g \in held.found : g \in held.todo \cup held.sum \/ held.threads[g] # 0
      BY <1>1, <1>4, <3>1, HeldNow DEF Accounts, Reviewer
    <3> QED BY <1>4, <3>2 DEF Accounts, Posting, history
  <2>4. ~overlapped => FirstSummary(held)'
    BY <1>3, <1>4, <1>10, HeldNow DEF FirstSummary
  <2>5. ~overlapped /\ ~blind => Unposted(held)'
    <3> SUFFICES ASSUME ~overlapped, ~blind PROVE Unposted(held)'
      OBVIOUS
    <3>1. rv[r].todo \subseteq Findings /\ rv[r].at \in Posting \ {"summary"}
      BY <1>1, <1>3 DEF Reviewer, Posting
    <3>2. \A g \in rv[r].todo \ {f} : Marked(g)' # {} => rv[r].seen[g] # 0
      BY <1>10, <3>1, HeldNow DEF Unposted
    <3>3. \A g \in rv[r].sum : Marked(g)' = {}
      BY <1>9, <1>10, <3>1, HeldNow DEF Unposted
    <3> QED BY <1>4, <3>2, <3>3 DEF Unposted
  <2> QED BY <1>4, <2>1, <2>2, <2>3, <2>4, <2>5 DEF HeldInv, history
<1>12. OnePerFinding' /\ DismissedStaysAway'
  <2>1. CASE comments' = comments
    BY <2>1, PostedNothing DEF history
  <2>2. CASE rv[r].at = "post" /\ comments' = Append(comments, c)
    <3>1. rv[r].finding = {f}
      BY <2>2, HeldNow DEF Accounts
    <3>2. ~overlapped /\ ~blind => Marked(f) = {}
      BY <2>2, <3>1, HeldNow DEF Unposted
    <3> QED BY <1>1, <2>2, <3>2, PostedOnce DEF history
  <2> QED BY <1>2, <2>1, <2>2
<1> QED BY <1>4, <1>6, <1>8, <1>11, <1>12, Proceeds

LEMMA FailedHolds ==
  ASSUME Inv, NEW r \in Reviewers, NEW f \in Findings, rv[r].finding = {f}, FailedAttempt(r)
  PROVE  \E held \in Reviewer :
            /\ rv' = [rv EXCEPT ![r] = held]
            /\ held.round = rv[r].round /\ held.found = rv[r].found
            /\ held.seen = rv[r].seen /\ held.threads = rv[r].threads
            /\ \/ /\ held.at = "look" /\ held.todo = rv[r].todo /\ held.sum = rv[r].sum
                  /\ held.errors = rv[r].errors /\ held.finding = {f}
               \/ /\ LastAttempt(r)
                  /\ held.at = "finding" /\ held.todo = rv[r].todo \ {f} /\ held.finding = {}
                  /\ IF config.provider = "jira"
                     THEN held.errors = TRUE /\ held.sum = rv[r].sum
                     ELSE held.errors = rv[r].errors /\ held.sum = rv[r].sum \cup {f}
<1>1. rv[r] \in Reviewer
  BY HeldNow
<1>2. CASE ~LastAttempt(r)
  <2> DEFINE held == [rv[r] EXCEPT !.at = "look", !.count = @ + 1]
  <2>1. rv' = [rv EXCEPT ![r] = held]
    BY <1>2 DEF FailedAttempt, Again, Hold
  <2>2. rv[r].count + 1 \in 1..MaxAttempts /\ "look" \in Places
    BY <1>1, <1>2 DEF Reviewer, LastAttempt, MaxAttempts, Places
  <2>3. /\ held \in Reviewer
        /\ held.round = rv[r].round /\ held.found = rv[r].found
        /\ held.seen = rv[r].seen /\ held.threads = rv[r].threads
        /\ held.at = "look" /\ held.todo = rv[r].todo /\ held.sum = rv[r].sum
        /\ held.errors = rv[r].errors /\ held.finding = {f}
    BY <1>1, <2>2 DEF Reviewer
  <2> QED BY <2>1, <2>3
<1>3. CASE LastAttempt(r)
  <2> DEFINE jira == config.provider = "jira"
             errors == rv[r].errors \/ jira
             sum == IF jira THEN rv[r].sum ELSE rv[r].sum \cup {f}
             held == [rv[r] EXCEPT !.at = "finding", !.todo = rv[r].todo \ {f}, !.finding = {},
                                   !.count = 1, !.errors = errors, !.sum = sum]
  <2>1. rv' = [rv EXCEPT ![r] = held]
    BY <1>3 DEF FailedAttempt, GiveUp, Hold
  <2>2. /\ rv[r].todo \ {f} \subseteq Findings /\ 1 \in 1..MaxAttempts /\ "finding" \in Places
        /\ sum \subseteq Findings
    BY <1>1 DEF Reviewer, MaxAttempts, Places
  <2>3. /\ errors \in BOOLEAN
        /\ jira => errors = TRUE
        /\ ~jira => errors = rv[r].errors
    BY <1>1 DEF Reviewer
  <2>4. IF jira THEN errors = TRUE /\ sum = rv[r].sum
        ELSE errors = rv[r].errors /\ sum = rv[r].sum \cup {f}
    BY <2>3
  <2> HIDE DEF jira, errors, sum
  <2>5. /\ held \in Reviewer
        /\ held.round = rv[r].round /\ held.found = rv[r].found
        /\ held.seen = rv[r].seen /\ held.threads = rv[r].threads
        /\ held.at = "finding" /\ held.todo = rv[r].todo \ {f} /\ held.finding = {}
        /\ held.errors = errors /\ held.sum = sum
    BY <1>1, <2>2, <2>3 DEF Reviewer
  <2> HIDE DEF held
  <2> QED BY <1>3, <2>1, <2>4, <2>5 DEF jira
<1> QED BY <1>2, <1>3

(* An attempt fails, whether it has posted the finding or not.             *)
LEMMA FailedProceeds ==
  ASSUME Inv, NEW r \in Reviewers, NEW f \in rv[r].todo, rv[r].finding = {f},
         \/ rv[r].at = "look" /\ comments' = comments
         \/ rv[r].at = "post" /\ comments' = comments
         \/ rv[r].at = "post" /\ comments' = Append(comments, [kind |-> "inline", ids |-> {f}]),
         FailedAttempt(r), blind' = (blind \/ GivesUpPosted(r)), Others, faults' \in 0..MaxFaults
  PROVE  Inv'
<1> DEFINE c == [kind |-> "inline", ids |-> {f}]
<1>1. /\ rv[r] \in Reviewer /\ f \in Findings /\ f \in rv[r].found /\ rv[r].todo \subseteq rv[r].found
      /\ rv[r].sum \subseteq rv[r].found /\ comments \in Seq(Posted)
      /\ c \in Posted /\ c.kind = "inline" /\ c.ids = {f}
  BY HeldNow DEF Reviewer, HeldOK, Posted
<1>2. /\ \/ comments' = comments
         \/ rv[r].at = "post" /\ comments' = Append(comments, c)
      /\ rv[r].at \in {"look", "post"}
  OBVIOUS
<1> HIDE DEF c
<1>3. /\ rv[r].at \in Underway
      /\ UNCHANGED <<config, run, files, column, triggers, overlapped, last>>
  BY DEF Underway, Working, Places, Others
<1>4. PICK held \in Reviewer :
            /\ rv' = [rv EXCEPT ![r] = held]
            /\ held.round = rv[r].round /\ held.found = rv[r].found
            /\ held.seen = rv[r].seen /\ held.threads = rv[r].threads
            /\ \/ /\ held.at = "look" /\ held.todo = rv[r].todo /\ held.sum = rv[r].sum
                  /\ held.errors = rv[r].errors /\ held.finding = {f}
               \/ /\ LastAttempt(r)
                  /\ held.at = "finding" /\ held.todo = rv[r].todo \ {f} /\ held.finding = {}
                  /\ IF config.provider = "jira"
                     THEN held.errors = TRUE /\ held.sum = rv[r].sum
                     ELSE held.errors = rv[r].errors /\ held.sum = rv[r].sum \cup {f}
  BY <1>1, FailedHolds
<1>5. Grows
  BY <1>1, <1>2 DEF Grows
<1>6. Proceeding(r, held)
  <2>1. held.at \in Underway
    BY <1>4 DEF Underway, Working, Places
  <2>2. blind' \in BOOLEAN /\ (blind => blind')
    BY DEF GivesUpPosted
  <2> QED BY <1>3, <1>4, <1>5, <2>1, <2>2, HeldNow DEF Proceeding
<1>7. \A g \in Findings :
        /\ held.threads[g] > 0
           /\ (comments'[held.threads[g]].kind = "inline" \/ (rv[r].round = 1 /\ ~overlapped))
              => g \in comments'[held.threads[g]].ids
        /\ rv[r].seen[g] > 0 => g \in comments'[rv[r].seen[g]].ids
        /\ held.threads[g] \in {Elsewhere} \cup 0..Len(comments')
        /\ rv[r].seen[g] \in {Elsewhere} \cup 0..Len(comments')
  BY <1>3, <1>4, <1>5, GrownHeld
<1>8. HeldOK(held)'
  BY <1>1, <1>4, <1>7, HeldNow DEF HeldOK, ThreadsOK
<1>9. rv[r].sum \cap {f} = {} /\ rv[r].sum \subseteq Findings
  BY <1>1, HeldNow DEF Accounts, Reviewer
<1>10. /\ \A g \in Findings \ {f} : Marked(g)' = Marked(g)
       /\ Summaries' = Summaries /\ \A i \in Summaries : comments'[i] = comments[i]
  <2>1. CASE comments' = comments
    BY <2>1 DEF Marked, Summaries
  <2>2. CASE comments' = Append(comments, c)
    <3>1. /\ \A g \in Findings : g \notin c.ids => Marked(g)' = Marked(g)
          /\ c.kind # "summary" => Summaries' = Summaries
          /\ \A i \in Summaries : comments'[i] = comments[i]
      BY <1>1, <2>2, Appended
    <3> QED BY <1>1, <3>1
  <2> QED BY <1>2, <2>1, <2>2
<1>11. HeldInv(held)'
  <2>1. Shows(held)'
    BY <1>3, <1>4, <1>7 DEF Shows, Shown
  <2>2. Counts(held)' /\ StaysAway(held)'
    BY <1>3, <1>4, HeldNow
       DEF Counts, StaysAway, Underway, Enabled, DismissedFingerprints, Previous, Working
  <2>3. Accounts(held)'
    <3>1. rv[r].at \in Posting
      BY <1>2 DEF Posting
    <3>2. /\ held.todo \cap held.sum = {}
          /\ ~config.agent /\ ~held.errors =>
                \A g \in held.found : g \in held.todo \cup held.sum \/ held.threads[g] # 0
      BY <1>1, <1>4, <3>1, HeldNow DEF Accounts, Reviewer
    <3> QED BY <1>3, <1>4, <3>2 DEF Accounts, Posting
  <2>4. ~overlapped => FirstSummary(held)'
    BY <1>2, <1>3, <1>4, <1>10, HeldNow DEF FirstSummary
  <2>5. ~overlapped /\ ~blind' => Unposted(held)'
    <3> SUFFICES ASSUME ~overlapped, ~blind' PROVE Unposted(held)'
      OBVIOUS
    <3>1. rv[r].todo \subseteq Findings /\ rv[r].at \in Posting \ {"summary"} /\ ~blind
      BY <1>1, <1>2 DEF Reviewer, Posting
    <3>2. \A g \in rv[r].todo \ {f} : Marked(g)' # {} => rv[r].seen[g] # 0
      BY <1>10, <3>1, HeldNow DEF Unposted
    <3>3. \A g \in rv[r].sum : Marked(g)' = {}
      BY <1>9, <1>10, <3>1, HeldNow DEF Unposted
    <3>4. LastAttempt(r) /\ config.provider # "jira" => Marked(f)' = {}
      BY DEF GivesUpPosted, Marked
    <3>5. \A g \in held.sum : Marked(g)' = {}
      BY <1>4, <3>3, <3>4
    <3> QED BY <1>4, <3>2, <3>5 DEF Unposted
  <2> QED BY <1>3, <1>4, <2>1, <2>2, <2>3, <2>4, <2>5 DEF HeldInv
<1>12. OnePerFinding' /\ DismissedStaysAway'
  <2>1. blind => blind'
    OBVIOUS
  <2>2. CASE comments' = comments
    BY <1>3, <2>1, <2>2, PostedNothing
  <2>3. CASE rv[r].at = "post" /\ comments' = Append(comments, c)
    <3>1. ~overlapped /\ ~blind => Marked(f) = {}
      BY <2>3, HeldNow DEF Unposted
    <3> QED BY <1>1, <1>3, <2>1, <2>3, <3>1, PostedOnce
  <2> QED BY <1>2, <2>2, <2>3
<1> QED BY <1>6, <1>8, <1>11, <1>12, Proceeds

LEMMA LookKeeps == ASSUME Inv, NEW r \in Reviewers, Look(r) PROVE Inv'
<1>1. PICK f \in rv[r].todo : rv[r].finding = {f} /\ rv[r].at = "look"
  BY HeldNow DEF Accounts, Look, At
<1>2. /\ UNCHANGED <<config, run, comments, files, column, triggers, overlapped, last>>
      /\ faults' \in 0..MaxFaults /\ f \in Findings /\ rv[r] \in Reviewer
  BY <1>1, FaultBound, HeldNow DEF Look, Others, Reviewer
<1>3. CASE Fault /\ FailedAttempt(r) /\ blind' = (blind \/ GivesUpPosted(r))
  BY <1>1, <1>2, <1>3, FailedProceeds DEF Look
<1>4. CASE UNCHANGED blind /\ Found(r, f) # 0 /\ Known(r, f, Found(r, f))
  <2> DEFINE thread == Thread(f)
  <2>1. /\ thread \in 0..Len(comments) /\ Len(comments) \in Nat
        /\ thread # 0 /\ f \in comments[thread].ids
    BY <1>4, ThreadFound, HeldNow DEF Found
  <2>2. Known(r, f, thread)
    BY <1>4 DEF Found
  <2> HIDE DEF thread
  <2>3. thread \in Int /\ thread \in {Elsewhere} \cup 0..Len(comments')
    BY <1>2, <2>1
  <2> QED BY <1>1, <1>2, <1>4, <2>1, <2>2, <2>3, KnownProceeds DEF history
<1>5. CASE UNCHANGED blind /\ Found(r, f) = 0 /\ Hold(r, [rv[r] EXCEPT !.at = "post", !.seen = Threads])
  <2> DEFINE held == [rv[r] EXCEPT !.at = "post", !.seen = Threads]
  <2>1. \A g \in Findings :
         /\ Threads[g] \in Int /\ Threads[g] \in 0..Len(comments)
         /\ Threads[g] = 0 <=> Marked(g) = {}
         /\ Threads[g] > 0 => g \in comments[Threads[g]].ids
    BY ThreadFound, HeldNow DEF Threads
  <2>2. Threads \in [Findings -> Int] /\ ThreadsOK(Threads) /\ Marked(f) = {}
    BY <1>2, <1>5, <2>1 DEF Threads, Found, ThreadsOK
  <2>3. rv' = [rv EXCEPT ![r] = held]
    BY <1>5 DEF Hold
  <2>4. /\ held \in Reviewer /\ held.at = "post" /\ held.round = rv[r].round
        /\ held.found = rv[r].found /\ held.todo = rv[r].todo
        /\ held.sum = rv[r].sum /\ held.seen = Threads /\ held.threads = rv[r].threads
        /\ held.errors = rv[r].errors /\ held.finding = {f}
    BY <1>1, <1>2, <2>2 DEF Reviewer, Places
  <2> HIDE DEF held
  <2>5. rv[r].at \in Underway /\ held.at \in Underway
    BY <1>1, <2>4 DEF Underway, Working, Places
  <2>6. Proceeding(r, held)
    BY <1>2, <1>5, <2>3, <2>4, <2>5, HeldNow DEF Proceeding, Grows
  <2>7. HeldOK(held)
    BY <1>1, <2>2, <2>4, HeldNow DEF HeldOK
  <2>8. Shows(held) /\ Counts(held) /\ StaysAway(held)
    BY <1>1, <2>1, <2>4, <2>5, HeldNow DEF Shows, Counts, StaysAway, Underway, Working
  <2>9. Accounts(held)
    BY <1>1, <2>4, HeldNow DEF Accounts, Posting
  <2>10. ~overlapped => FirstSummary(held) /\ (~blind => Unposted(held))
    <3>1. rv[r].todo \subseteq Findings /\ rv[r].at \in Posting \ {"summary"}
      BY <1>1, <1>2 DEF Reviewer, Posting
    <3> QED BY <1>1, <2>1, <2>2, <2>4, <2>5, <3>1, HeldNow DEF FirstSummary, Unposted
  <2> QED BY <1>2, <1>5, <2>4, <2>6, <2>7, <2>8, <2>9, <2>10, HeldNow, ProceedsQuietly
<1> QED BY <1>1, <1>3, <1>4, <1>5 DEF Look

LEMMA PostKeeps == ASSUME Inv, NEW r \in Reviewers, Post(r) PROVE Inv'
<1>1. PICK f \in rv[r].todo : rv[r].finding = {f} /\ rv[r].at = "post"
  BY HeldNow DEF Accounts, Post, At
<1>2. /\ UNCHANGED <<config, run, files, column, triggers, overlapped, last>>
      /\ faults' \in 0..MaxFaults /\ f \in Findings /\ rv[r] \in Reviewer /\ comments \in Seq(Posted)
  BY <1>1, FaultBound, HeldNow DEF Post, Others, Reviewer
<1> DEFINE c == [kind |-> "inline", ids |-> {f}]
<1>3. CASE Fault /\ FailedAttempt(r) /\ blind' = (blind \/ GivesUpPosted(r))
           /\ (Comment("inline", rv[r].finding) \/ UNCHANGED comments)
  BY <1>1, <1>2, <1>3, FailedProceeds DEF Post, Comment
<1>4. CASE UNCHANGED blind /\ Comment("inline", rv[r].finding) /\ Known(r, f, Len(comments) + 1)
  <2>1. comments' = Append(comments, c) /\ c \in Posted /\ c.ids = {f}
    BY <1>1, <1>2, <1>4 DEF Comment, Posted
  <2> HIDE DEF c
  <2>2. Len(comments) \in Nat /\ Len(comments') = Len(comments) + 1 /\ comments'[Len(comments) + 1] = c
    BY <1>2, <2>1, Appended
  <2> DEFINE thread == Len(comments) + 1
  <2>3. thread \in Int /\ thread # 0 /\ thread \in {Elsewhere} \cup 0..Len(comments')
        /\ f \in comments'[thread].ids /\ Known(r, f, thread)
    BY <1>4, <2>1, <2>2
  <2> HIDE DEF thread
  <2> QED BY <1>1, <1>2, <1>4, <2>1, <2>3, KnownProceeds DEF history, c
<1> QED BY <1>1, <1>3, <1>4 DEF Post

LEMMA NextFindingKeeps == ASSUME Inv, NEW r \in Reviewers, NextFinding(r) PROVE Inv'
<1>1. /\ rv[r].at = "finding" /\ rv[r].finding = {} /\ rv[r] \in Reviewer
      /\ Local /\ faults' \in 0..MaxFaults
  BY FaultBound, HeldNow DEF NextFinding, At, Accounts
<1>2. CASE rv[r].todo = {} /\ Go(r, IF rv[r].sum = {} THEN "files" ELSE "summary")
  <2> DEFINE place == IF rv[r].sum = {} THEN "files" ELSE "summary"
  <2>1. place \in Places /\ Onwards(rv[r], place) /\ Go(r, place)
    BY <1>1, <1>2 DEF Places, Onwards
  <2> HIDE DEF place
  <2> QED BY <1>1, <2>1, GoesOn
<1>3. ASSUME NEW f \in rv[r].todo, rv[r].seen[f] # 0, Known(r, f, rv[r].seen[f])
      PROVE  Inv'
  <2> DEFINE thread == rv[r].seen[f]
  <2>1. f \in Findings /\ thread \in Int
        /\ thread \in {Elsewhere} \cup 0..Len(comments) /\ (thread > 0 => f \in comments[thread].ids)
    BY <1>1, HeldNow DEF HeldOK, ThreadsOK, Reviewer, Shows
  <2>2. thread # 0 /\ Known(r, f, thread)
    BY <1>3
  <2> HIDE DEF thread
  <2> QED BY <1>1, <2>1, <2>2, KnownProceeds DEF Local
<1>4. ASSUME NEW f \in rv[r].todo, NEW held \in Reviewer, rv' = [rv EXCEPT ![r] = held],
             held.round = rv[r].round, held.found = rv[r].found,
             held.seen = rv[r].seen, held.threads = rv[r].threads, held.errors = rv[r].errors,
             \/ held.at = "look" /\ held.finding = {f} /\ held.todo = rv[r].todo /\ held.sum = rv[r].sum
             \/ /\ held.at = "finding" /\ held.finding = {} /\ rv[r].seen[f] = 0
                /\ held.todo = rv[r].todo \ {f} /\ held.sum = rv[r].sum \cup {f}
      PROVE  Inv'
  <2>1. rv[r].at \in Underway /\ held.at \in Underway /\ rv[r].at \in Posting \ {"summary"}
    BY <1>1, <1>4 DEF Underway, Working, Places, Posting
  <2>2. Proceeding(r, held)
    BY <1>1, <1>4, <2>1, HeldNow DEF Proceeding, Grows, Local, history
  <2>3. f \in rv[r].found /\ f \notin rv[r].sum /\ rv[r].todo \subseteq Findings
    BY <1>1, HeldNow DEF HeldOK, Accounts, Reviewer
  <2>4. HeldOK(held)
    BY <1>4, <2>3, HeldNow DEF HeldOK
  <2>5. Shows(held) /\ Counts(held) /\ StaysAway(held)
    BY <1>1, <1>4, <2>1, HeldNow DEF Shows, Counts, StaysAway, Underway, Working
  <2>6. Accounts(held)
    BY <1>1, <1>4, <2>1, <2>3, HeldNow DEF Accounts, Posting
  <2>7. ~overlapped => FirstSummary(held)
    BY <1>1, <1>4, <2>1, HeldNow DEF FirstSummary
  <2>8. ~overlapped /\ ~blind => Unposted(held)
    BY <1>1, <1>4, <2>1, <2>3, HeldNow DEF Unposted, Posting
  <2> QED BY <1>1, <1>4, <2>2, <2>4, <2>5, <2>6, <2>7, <2>8, HeldNow, ProceedsQuietly DEF Local, history
<1>5. ASSUME NEW f \in rv[r].todo, Hold(r, [rv[r] EXCEPT !.at = "look", !.finding = {f}])
      PROVE  Inv'
  <2> DEFINE held == [rv[r] EXCEPT !.at = "look", !.finding = {f}]
  <2>1. "look" \in Places /\ {f} \subseteq Findings
    BY <1>1 DEF Places, Reviewer
  <2>2. /\ held \in Reviewer /\ held.at = "look" /\ held.round = rv[r].round
        /\ held.found = rv[r].found /\ held.todo = rv[r].todo
        /\ held.sum = rv[r].sum /\ held.seen = rv[r].seen /\ held.threads = rv[r].threads
        /\ held.errors = rv[r].errors /\ held.finding = {f}
    BY <1>1, <2>1 DEF Reviewer
  <2>3. rv' = [rv EXCEPT ![r] = held]
    BY <1>5 DEF Hold
  <2> HIDE DEF held
  <2> QED BY <1>4, <2>2, <2>3
<1>6. ASSUME NEW f \in rv[r].todo, rv[r].seen[f] = 0,
             Hold(r, [rv[r] EXCEPT !.todo = @ \ {f}, !.sum = @ \cup {f}])
      PROVE  Inv'
  <2> DEFINE held == [rv[r] EXCEPT !.todo = @ \ {f}, !.sum = @ \cup {f}]
  <2>1. rv[r].todo \ {f} \subseteq Findings /\ rv[r].sum \cup {f} \subseteq Findings
    BY <1>1 DEF Reviewer
  <2>2. /\ held \in Reviewer /\ held.at = "finding" /\ held.round = rv[r].round
        /\ held.found = rv[r].found /\ held.todo = rv[r].todo \ {f}
        /\ held.sum = rv[r].sum \cup {f} /\ held.seen = rv[r].seen /\ held.threads = rv[r].threads
        /\ held.errors = rv[r].errors /\ held.finding = {}
    BY <1>1, <2>1 DEF Reviewer
  <2>3. rv' = [rv EXCEPT ![r] = held]
    BY <1>6 DEF Hold
  <2> HIDE DEF held
  <2> QED BY <1>4, <1>6, <2>2, <2>3
<1> QED BY <1>2, <1>3, <1>5, <1>6 DEF NextFinding

-----------------------------------------------------------------------------
(* The steps about the summary.                                            *)

LEMMA InSummaryHolds ==
  ASSUME Inv, NEW r \in Reviewers, NEW thread \in Int, InSummary(r, thread)
  PROVE  \E held \in Reviewer :
            /\ rv' = [rv EXCEPT ![r] = held]
            /\ held.at = "files" /\ held.round = rv[r].round
            /\ held.found = rv[r].found /\ held.todo = rv[r].todo
            /\ held.sum = rv[r].sum /\ held.seen = rv[r].seen
            /\ held.errors = rv[r].errors /\ held.finding = rv[r].finding
            /\ \A f \in Findings :
                 held.threads[f] = IF f \in rv[r].sum THEN thread ELSE rv[r].threads[f]
<1> DEFINE threads == [f \in Findings |-> IF f \in rv[r].sum THEN thread ELSE rv[r].threads[f]]
           held == [rv[r] EXCEPT !.at = "files", !.threads = threads]
<1>1. rv[r] \in Reviewer /\ "files" \in Places
  BY HeldNow DEF Places
<1>2. threads \in [Findings -> Int]
      /\ \A f \in Findings : threads[f] = IF f \in rv[r].sum THEN thread ELSE rv[r].threads[f]
  BY <1>1 DEF Reviewer
<1>3. rv' = [rv EXCEPT ![r] = held]
  BY <1>1 DEF InSummary, Hold, Reviewer
<1> HIDE DEF threads
<1>4. /\ held \in Reviewer /\ held.at = "files" /\ held.round = rv[r].round
      /\ held.found = rv[r].found /\ held.todo = rv[r].todo
      /\ held.sum = rv[r].sum /\ held.seen = rv[r].seen
      /\ held.errors = rv[r].errors /\ held.finding = rv[r].finding /\ held.threads = threads
  BY <1>1, <1>2 DEF Reviewer
<1> HIDE DEF held
<1> QED BY <1>2, <1>3, <1>4

LEMMA FailedSummaryHolds ==
  ASSUME Inv, NEW r \in Reviewers, FailedSummary(r)
  PROVE  \E held \in Reviewer :
            /\ rv' = [rv EXCEPT ![r] = held]
            /\ held.round = rv[r].round
            /\ held.found = rv[r].found /\ held.todo = rv[r].todo
            /\ held.sum = rv[r].sum /\ held.seen = rv[r].seen
            /\ held.finding = rv[r].finding /\ held.threads = rv[r].threads
            /\ \/ held.at = "files" /\ held.errors
               \/ held.at = "summary" /\ held.errors = rv[r].errors
<1>1. rv[r] \in Reviewer
  BY HeldNow
<1>2. CASE ~LastAttempt(r)
  <2> DEFINE held == [rv[r] EXCEPT !.at = "summary", !.count = @ + 1]
  <2>1. rv' = [rv EXCEPT ![r] = held]
    BY <1>2 DEF FailedSummary, Again, Hold
  <2>2. rv[r].count + 1 \in 1..MaxAttempts /\ "summary" \in Places
    BY <1>1, <1>2 DEF Reviewer, LastAttempt, MaxAttempts, Places
  <2>3. /\ held \in Reviewer
        /\ held.round = rv[r].round /\ held.found = rv[r].found
        /\ held.seen = rv[r].seen /\ held.threads = rv[r].threads
        /\ held.at = "summary" /\ held.todo = rv[r].todo /\ held.sum = rv[r].sum
        /\ held.errors = rv[r].errors /\ held.finding = rv[r].finding
    BY <1>1, <2>2 DEF Reviewer
  <2> QED BY <2>1, <2>3
<1>3. CASE LastAttempt(r)
  <2> DEFINE held == [rv[r] EXCEPT !.at = "files", !.errors = TRUE]
  <2>1. rv' = [rv EXCEPT ![r] = held]
    BY <1>3 DEF FailedSummary, SummaryFailed, Hold
  <2>2. "files" \in Places
    BY DEF Places
  <2>3. /\ held \in Reviewer
        /\ held.round = rv[r].round /\ held.found = rv[r].found
        /\ held.seen = rv[r].seen /\ held.threads = rv[r].threads
        /\ held.at = "files" /\ held.todo = rv[r].todo /\ held.sum = rv[r].sum
        /\ held.errors /\ held.finding = rv[r].finding
    BY <1>1, <2>2 DEF Reviewer
  <2> QED BY <2>1, <2>3
<1> QED BY <1>2, <1>3

(* The summary is there already, or is posted, or could not be.            *)
SummaryStep(r, held) ==
  \/ /\ held.at = "files" /\ held.errors = rv[r].errors
     /\ \E thread \in Summaries' :
          \A f \in Findings :
             held.threads[f] = IF f \in rv[r].sum THEN thread ELSE rv[r].threads[f]
  \/ held.threads = rv[r].threads /\ held.at = "files" /\ held.errors
  \/ held.threads = rv[r].threads /\ held.at = "summary" /\ held.errors = rv[r].errors

LEMMA SummaryProceeds ==
  ASSUME Inv, NEW r \in Reviewers, NEW held \in Reviewer, rv' = [rv EXCEPT ![r] = held],
         held.round = rv[r].round, held.found = rv[r].found, held.todo = rv[r].todo,
         held.sum = rv[r].sum, held.seen = rv[r].seen, held.finding = rv[r].finding,
         SummaryStep(r, held), NEW c \in Posted, c = [kind |-> "summary", ids |-> rv[r].sum],
         \/ rv[r].at \in {"summary", "sumPost"} /\ comments' = comments
         \/ rv[r].at = "sumPost" /\ comments' = Append(comments, c),
         UNCHANGED <<config, run, files, column, triggers, history>>, faults' \in 0..MaxFaults
  PROVE  Inv'
<1>1. /\ rv[r] \in Reviewer /\ comments \in Seq(Posted) /\ comments' \in Seq(Posted)
      /\ c.kind = "summary" /\ c.ids = rv[r].sum
      /\ rv[r].sum \subseteq Findings /\ rv[r].sum \subseteq rv[r].found
      /\ rv[r].todo = {} /\ rv[r].finding = {}
  <2>1. rv[r] \in Reviewer /\ comments \in Seq(Posted) /\ comments' \in Seq(Posted)
    BY HeldNow, GrownComments DEF Grows
  <2>2. rv[r].at \in {"summary", "sumPost"} /\ c.kind = "summary" /\ c.ids = rv[r].sum
    OBVIOUS
  <2>3. rv[r].todo = {} /\ rv[r].finding = {}
    BY <2>2, HeldNow DEF Accounts
  <2> QED BY <2>1, <2>2, <2>3, HeldNow DEF Reviewer, HeldOK
<1>2. /\ rv[r].at \in Underway /\ held.at \in Underway /\ held.at \in {"files", "summary"}
      /\ rv[r].at \in {"summary", "sumPost"}
      /\ UNCHANGED <<overlapped, blind, last>>
  BY DEF Underway, Working, Places, SummaryStep, history
<1>3. Grows
  BY DEF Grows
<1>4. Proceeding(r, held)
  BY <1>2, <1>3, HeldNow DEF Proceeding
<1>5. /\ \A i \in Summaries' : i \in 1..Len(comments') /\ comments'[i].kind = "summary"
      /\ Len(comments') \in Nat
  BY <1>1 DEF Summaries
<1>6. ~overlapped /\ rv[r].round = 1 => \A i \in Summaries' : comments'[i].ids = rv[r].sum
  <2>1. ~overlapped /\ rv[r].round = 1 => \A i \in Summaries : comments[i].ids = rv[r].sum
    BY <1>2, HeldNow DEF FirstSummary
  <2>2. CASE comments' = comments
    BY <2>1, <2>2 DEF Summaries
  <2>3. CASE comments' = Append(comments, c)
    <3>1. /\ Summaries' = Summaries \cup {Len(comments) + 1}
          /\ comments'[Len(comments) + 1] = c
          /\ \A i \in Summaries : comments'[i] = comments[i]
      BY <1>1, <2>3, Appended
    <3> QED BY <1>1, <2>1, <3>1
  <2> QED BY <2>2, <2>3
<1>7. \A g \in Findings :
        /\ rv[r].threads[g] > 0
           /\ (comments'[rv[r].threads[g]].kind = "inline" \/ (rv[r].round = 1 /\ ~overlapped))
              => g \in comments'[rv[r].threads[g]].ids
        /\ rv[r].seen[g] > 0 => g \in comments'[rv[r].seen[g]].ids
        /\ rv[r].threads[g] \in {Elsewhere} \cup 0..Len(comments')
        /\ rv[r].seen[g] \in {Elsewhere} \cup 0..Len(comments')
  BY <1>2, <1>3, GrownHeld
<1>8. /\ Shown(held.threads, held.round)' /\ ThreadsOK(held.threads)'
      /\ \A g \in Findings : g \notin rv[r].sum => held.threads[g] = rv[r].threads[g]
      /\ held.at = "files" => held.errors \/ \A g \in rv[r].sum : held.threads[g] # 0
  <2>1. ASSUME held.threads = rv[r].threads, held.at = "files" => held.errors
        PROVE  /\ Shown(held.threads, held.round)' /\ ThreadsOK(held.threads)'
               /\ \A g \in Findings : g \notin rv[r].sum => held.threads[g] = rv[r].threads[g]
               /\ held.at = "files" => held.errors \/ \A g \in rv[r].sum : held.threads[g] # 0
    <3>1. Shown(held.threads, held.round)'
      BY <1>2, <1>7, <2>1 DEF Shown
    <3>2. ThreadsOK(held.threads)'
      BY <1>7, <2>1 DEF ThreadsOK
    <3> QED BY <2>1, <3>1, <3>2
  <2>2. ASSUME NEW thread \in Summaries',
               \A f \in Findings :
                  held.threads[f] = IF f \in rv[r].sum THEN thread ELSE rv[r].threads[f]
        PROVE  /\ Shown(held.threads, held.round)' /\ ThreadsOK(held.threads)'
               /\ \A g \in Findings : g \notin rv[r].sum => held.threads[g] = rv[r].threads[g]
               /\ held.at = "files" => held.errors \/ \A g \in rv[r].sum : held.threads[g] # 0
    <3>1. thread \in 1..Len(comments') /\ comments'[thread].kind = "summary" /\ Len(comments') \in Nat
      BY <1>5
    <3>2. ~overlapped /\ rv[r].round = 1 => comments'[thread].ids = rv[r].sum
      BY <1>6
    <3>3. Shown(held.threads, held.round)'
      BY <1>2, <1>7, <2>2, <3>1, <3>2 DEF Shown
    <3>4. ThreadsOK(held.threads)'
      BY <1>7, <2>2, <3>1 DEF ThreadsOK
    <3> QED BY <1>1, <2>2, <3>1, <3>3, <3>4
  <2> QED BY <2>1, <2>2 DEF SummaryStep
<1>9. HeldOK(held)'
  BY <1>1, <1>7, <1>8, HeldNow DEF HeldOK, ThreadsOK
<1>10. HeldInv(held)'
  <2>1. Shows(held)'
    BY <1>2, <1>7, <1>8 DEF Shows
  <2>2. Counts(held)' /\ StaysAway(held)'
    BY <1>2, HeldNow
       DEF Counts, StaysAway, Underway, Enabled, DismissedFingerprints, Previous, Working
  <2>3. Accounts(held)'
    <3>1. rv[r].at \in Posting /\ held.at \in Posting \cup {"files"} /\ held.at # "agent"
      BY <1>2 DEF Posting
    <3>2. /\ ~config.agent /\ ~held.errors /\ held.at = "files" => \A g \in held.found : held.threads[g] # 0
          /\ ~config.agent /\ ~held.errors /\ held.at = "summary" =>
                \A g \in held.found : g \in held.todo \cup held.sum \/ held.threads[g] # 0
      BY <1>1, <1>2, <1>8, <3>1, HeldNow DEF Accounts, Reviewer, SummaryStep
    <3> QED BY <1>1, <1>2, <3>1, <3>2 DEF Accounts, Posting
  <2>4. ~overlapped => FirstSummary(held)'
    BY <1>2, <1>6 DEF FirstSummary
  <2>5. ~overlapped /\ ~blind => Unposted(held)'
    <3> SUFFICES ASSUME ~overlapped, ~blind, held.at = "summary", Summaries' = {}, NEW f \in rv[r].sum
                 PROVE  Marked(f)' = {}
      BY <1>1, <1>2 DEF Unposted, Posting
    <3>1. comments' = comments
      BY <1>1, Appended
    <3>2. Summaries = {}
      BY <3>1 DEF Summaries
    <3>3. Marked(f) = {}
      BY <1>2, <3>2, HeldNow DEF Unposted, Posting
    <3> QED BY <3>1, <3>3 DEF Marked
  <2> QED BY <1>2, <2>1, <2>2, <2>3, <2>4, <2>5 DEF HeldInv
<1>11. OnePerFinding' /\ DismissedStaysAway'
  <2>1. CASE comments' = comments
    BY <1>2, <2>1, PostedNothing DEF history
  <2>2. CASE rv[r].at = "sumPost" /\ comments' = Append(comments, c)
    <3>1. ~overlapped /\ ~blind => \A f \in c.ids : Marked(f) = {}
      BY <1>1, <2>2, HeldNow DEF Unposted, Posting
    <3> QED BY <1>1, <1>2, <2>2, <3>1, PostedOnce
  <2> QED BY <2>1, <2>2
<1> QED BY <1>4, <1>9, <1>10, <1>11, Proceeds

LEMMA SummaryComment ==
  ASSUME Inv, NEW r \in Reviewers
  PROVE  [kind |-> "summary", ids |-> rv[r].sum] \in Posted
BY HeldNow DEF Reviewer, Posted

LEMMA LookForSummaryKeeps == ASSUME Inv, NEW r \in Reviewers, LookForSummary(r) PROVE Inv'
<1>1. /\ rv[r].at = "summary" /\ Local /\ comments' = comments /\ faults' \in 0..MaxFaults
      /\ comments \in Seq(Posted)
  BY FaultBound, HeldNow DEF LookForSummary, At, Local
<1>2. CASE Summaries # {} /\ InSummary(r, SummaryThread)
  <2>1. SummaryThread \in Summaries /\ SummaryThread \in Int
    BY <1>1, <1>2, SummaryFound
  <2>2. SummaryThread \in Summaries'
    BY <1>1, <2>1 DEF Summaries
  <2> DEFINE thread == SummaryThread
  <2>3. thread \in Int /\ thread \in Summaries' /\ InSummary(r, thread)
    BY <1>2, <2>1, <2>2
  <2> HIDE DEF thread
  <2>4. PICK held \in Reviewer :
            /\ rv' = [rv EXCEPT ![r] = held]
            /\ held.at = "files" /\ held.round = rv[r].round
            /\ held.found = rv[r].found /\ held.todo = rv[r].todo
            /\ held.sum = rv[r].sum /\ held.seen = rv[r].seen
            /\ held.errors = rv[r].errors /\ held.finding = rv[r].finding
            /\ \A f \in Findings :
                 held.threads[f] = IF f \in rv[r].sum THEN thread ELSE rv[r].threads[f]
    BY <2>3, InSummaryHolds
  <2>5. SummaryStep(r, held)
    BY <2>3, <2>4 DEF SummaryStep
  <2> QED BY <1>1, <2>4, <2>5, SummaryComment, SummaryProceeds DEF Local
<1>3. CASE Summaries = {} /\ Go(r, "sumPost")
  BY <1>1, <1>3, GoesOn DEF Onwards, Places
<1>4. CASE FailedSummary(r)
  <2>1. PICK held \in Reviewer :
            /\ rv' = [rv EXCEPT ![r] = held]
            /\ held.round = rv[r].round
            /\ held.found = rv[r].found /\ held.todo = rv[r].todo
            /\ held.sum = rv[r].sum /\ held.seen = rv[r].seen
            /\ held.finding = rv[r].finding /\ held.threads = rv[r].threads
            /\ \/ held.at = "files" /\ held.errors
               \/ held.at = "summary" /\ held.errors = rv[r].errors
    BY <1>4, FailedSummaryHolds
  <2>2. SummaryStep(r, held)
    BY <2>1 DEF SummaryStep
  <2> QED BY <1>1, <2>1, <2>2, SummaryComment, SummaryProceeds DEF Local
<1>5. SummaryThread # 0 <=> Summaries # {}
  BY <1>1, SummaryFound
<1> QED BY <1>2, <1>3, <1>4, <1>5 DEF LookForSummary

LEMMA PostSummaryKeeps == ASSUME Inv, NEW r \in Reviewers, PostSummary(r) PROVE Inv'
<1> DEFINE c == [kind |-> "summary", ids |-> rv[r].sum]
<1>1. /\ rv[r].at = "sumPost" /\ faults' \in 0..MaxFaults /\ comments \in Seq(Posted)
      /\ UNCHANGED <<config, run, files, column, triggers, history>>
      /\ c \in Posted
  BY FaultBound, HeldNow, SummaryComment DEF PostSummary, At, Others, history
<1>2. CASE comments' = Append(comments, c) /\ InSummary(r, Len(comments) + 1)
  <2> DEFINE thread == Len(comments) + 1
  <2>1. thread \in Int /\ InSummary(r, thread)
    BY <1>1, <1>2
  <2>2. thread \in Summaries'
    <3>1. c.kind = "summary"
      OBVIOUS
    <3> HIDE DEF c
    <3> QED BY <1>1, <1>2, <3>1, Appended
  <2> HIDE DEF thread
  <2>3. PICK held \in Reviewer :
            /\ rv' = [rv EXCEPT ![r] = held]
            /\ held.at = "files" /\ held.round = rv[r].round
            /\ held.found = rv[r].found /\ held.todo = rv[r].todo
            /\ held.sum = rv[r].sum /\ held.seen = rv[r].seen
            /\ held.errors = rv[r].errors /\ held.finding = rv[r].finding
            /\ \A f \in Findings :
                 held.threads[f] = IF f \in rv[r].sum THEN thread ELSE rv[r].threads[f]
    BY <2>1, InSummaryHolds
  <2>4. SummaryStep(r, held)
    BY <2>2, <2>3 DEF SummaryStep
  <2> QED BY <1>1, <1>2, <2>3, <2>4, SummaryProceeds
<1>3. CASE FailedSummary(r) /\ (comments' = Append(comments, c) \/ comments' = comments)
  <2>1. PICK held \in Reviewer :
            /\ rv' = [rv EXCEPT ![r] = held]
            /\ held.round = rv[r].round
            /\ held.found = rv[r].found /\ held.todo = rv[r].todo
            /\ held.sum = rv[r].sum /\ held.seen = rv[r].seen
            /\ held.finding = rv[r].finding /\ held.threads = rv[r].threads
            /\ \/ held.at = "files" /\ held.errors
               \/ held.at = "summary" /\ held.errors = rv[r].errors
    BY <1>3, FailedSummaryHolds
  <2>2. SummaryStep(r, held)
    BY <2>1 DEF SummaryStep
  <2> QED BY <1>1, <1>3, <2>1, <2>2, SummaryProceeds
<1> QED BY <1>2, <1>3 DEF PostSummary, Comment, SummaryOf

LEMMA ArtifactsKeeps == ASSUME Inv, NEW r \in Reviewers, PersistArtifacts(r) PROVE Inv'
<1>1. /\ rv[r].at = "files" /\ faults' \in 0..MaxFaults /\ rv[r] \in Reviewer
      /\ UNCHANGED <<config, run, comments, column, triggers, history>>
  BY FaultBound, HeldNow DEF PersistArtifacts, At
<1>2. PICK place \in {"end", "catch"} :
         Go(r, place) /\ files' = IF place = "end" THEN rv[r].found ELSE files
  BY DEF PersistArtifacts, ArtifactsFailed
<1>3. PICK held \in Reviewer :
         /\ rv' = [rv EXCEPT ![r] = held]
         /\ held.at = place /\ held.round = rv[r].round
         /\ held.found = rv[r].found /\ held.todo = rv[r].todo
         /\ held.sum = rv[r].sum /\ held.seen = rv[r].seen /\ held.threads = rv[r].threads
         /\ held.errors = rv[r].errors /\ held.finding = rv[r].finding
  <2> DEFINE held == [rv[r] EXCEPT !.at = place]
  <2>1. place \in Places
    BY DEF Places
  <2>2. held = [rv[r] EXCEPT !.at = place]
    OBVIOUS
  <2>3. /\ held \in Reviewer /\ held.at = place /\ held.round = rv[r].round
        /\ held.found = rv[r].found /\ held.todo = rv[r].todo
        /\ held.sum = rv[r].sum /\ held.seen = rv[r].seen /\ held.threads = rv[r].threads
        /\ held.errors = rv[r].errors /\ held.finding = rv[r].finding
    BY <1>1, <2>1 DEF Reviewer
  <2>4. rv' = [rv EXCEPT ![r] = held]
    BY <1>1, <1>2 DEF Go, Reviewer
  <2> QED BY <2>3, <2>4
<1>4. rv[r].at \in Underway /\ held.at \in Underway /\ held.at \in {"end", "catch"}
  BY <1>1, <1>3 DEF Underway, Working, Places
<1>5. Proceeding(r, held)
  BY <1>1, <1>2, <1>3, <1>4, HeldNow DEF Proceeding, Grows, history, Reviewer
<1>6. HeldOK(held)'
  BY <1>1, <1>3, HeldNow DEF HeldOK, ThreadsOK
<1>7. HeldInv(held)'
  <2>1. Shows(held)'
    BY <1>1, <1>3, <1>4, HeldNow DEF Shows, Shown, history
  <2>2. Counts(held)' /\ StaysAway(held)'
    BY <1>1, <1>3, <1>4, HeldNow
       DEF Counts, StaysAway, Underway, Enabled, DismissedFingerprints, Previous, Working
  <2>3. Accounts(held)'
    BY <1>1, <1>3, <1>4, HeldNow DEF Accounts, Posting
  <2>4. ~overlapped => FirstSummary(held)' /\ (held.at = "end" => files' = held.found)
    BY <1>1, <1>2, <1>3, <1>4, HeldNow DEF FirstSummary, Summaries
  <2>5. Unposted(held)'
    BY <1>4 DEF Unposted, Posting
  <2> QED BY <1>1, <2>1, <2>2, <2>3, <2>4, <2>5 DEF HeldInv, history
<1>8. OnePerFinding' /\ DismissedStaysAway'
  <2>1. \A f \in files' : Fingerprint[f] \notin DismissedFingerprints
    BY <1>2, HeldNow DEF Inv, DismissedStaysAway, StaysAway
  <2> QED BY <1>1, <2>1 DEF Inv, OnePerFinding, DismissedStaysAway, Marked, DismissedFingerprints,
                            Previous, history
<1> QED BY <1>5, <1>6, <1>7, <1>8, Proceeds

-----------------------------------------------------------------------------
(* The steps that start and end a review.                                  *)

(* Reviewer r changes what it holds and nothing is posted or stored.       *)
Turns(r, held) ==
  /\ held \in Reviewer
  /\ rv' = [rv EXCEPT ![r] = held]
  /\ UNCHANGED <<config, comments, files, blind>>
  /\ overlapped' \in BOOLEAN /\ (overlapped => overlapped')
  /\ HeldOK(held) /\ HeldInv(held)'

LEMMA Turned ==
  ASSUME Inv, NEW r \in Reviewers, NEW held, Turns(r, held)
  PROVE  /\ rv' \in [Reviewers -> Reviewer] /\ rv'[r] = held
         /\ \A s \in Reviewers \ {r} : rv'[s] = rv[s]
         /\ \A s \in Reviewers : HeldInv(rv[s])' /\ HeldOK(rv[s])'
         /\ OnePerFinding'
<1>1. /\ rv' \in [Reviewers -> Reviewer] /\ rv'[r] = held
      /\ \A s \in Reviewers \ {r} : rv'[s] = rv[s]
  BY HeldNow DEF Turns
<1>2. HeldOK(held)'
  BY DEF Turns, HeldOK, ThreadsOK
<1>3. \A s \in Reviewers \ {r} : HeldInv(rv[s])' /\ HeldOK(rv[s])'
  BY <1>1, Kept DEF Turns, Grows
<1>4. HeldInv(held)'
  BY DEF Turns
<1>5. HeldInv(rv[r])' /\ HeldOK(rv[r])'
  BY <1>1, <1>2, <1>4
<1>6. OnePerFinding'
  BY DEF Inv, OnePerFinding, Marked, Turns
<1> QED BY <1>1, <1>3, <1>5, <1>6

(* Who is done with its review holds nothing.                              *)
LEMMA DoneTurns ==
  ASSUME Inv, NEW r \in Reviewers, NEW place \in {"idle", "final"}, Done(r, place),
         UNCHANGED <<config, comments, files, overlapped, blind>>
  PROVE  \E held : Turns(r, held) /\ held.at = place
<1> DEFINE held == [Idle EXCEPT !.at = place]
<1>1. /\ held \in Reviewer /\ held.at = place /\ held.threads = None /\ held.seen = None
      /\ held.found = {} /\ held.todo = {} /\ held.sum = {} /\ held.finding = {}
  <2>1. None \in [Findings -> Int] /\ 1 \in 1..MaxAttempts /\ place \in Places
    BY DEF None, MaxAttempts, Places
  <2>2. /\ held.at = place /\ held.threads = None /\ held.seen = None
        /\ held.found = {} /\ held.todo = {} /\ held.sum = {} /\ held.finding = {}
    BY DEF Idle
  <2>3. held \in Reviewer
    BY <2>1 DEF Idle, Reviewer
  <2> QED BY <2>2, <2>3
<1>2. rv' = [rv EXCEPT ![r] = held]
  BY DEF Done
<1> HIDE DEF held
<1>3. PICK h \in Reviewer : h = held
  BY <1>1
<1>4. ThreadsOK(None)
  BY HeldNow DEF ThreadsOK, None
<1>5. HeldOK(h)
  BY <1>1, <1>3, <1>4 DEF HeldOK
<1>6. HeldInv(h)'
  <2>1. Shows(h)'
    BY <1>1, <1>3 DEF Shows, Shown, None
  <2>2. Accounts(h)' /\ Counts(h)' /\ StaysAway(h)'
    BY <1>1, <1>3 DEF Accounts, Counts, StaysAway, Posting, Working
  <2>3. FirstSummary(h)' /\ Unposted(h)' /\ h.at # "end"
    BY <1>1, <1>3 DEF FirstSummary, Unposted, Posting, Underway, Working
  <2> QED BY <2>1, <2>2, <2>3 DEF HeldInv
<1>7. Turns(r, h) /\ h.at = place
  BY <1>1, <1>2, <1>3, <1>5, <1>6, HeldNow DEF Turns
<1> QED BY <1>7

(* What is left to show of a step that changes no more than who is where.  *)
LEMMA TypeTurned ==
  ASSUME Inv, NEW r \in Reviewers, NEW held, Turns(r, held),
         run' \in Record, ThreadsOK(run'.threads), column' \in {"REVIEW", "DONE"},
         triggers' \in Seq({"auto", "manual"}), Len(triggers') <= MaxRounds,
         faults' \in 0..MaxFaults, last' \in {"auto", "manual"}
  PROVE  TypeOK'
<1>1. rv' \in [Reviewers -> Reviewer] /\ \A s \in Reviewers : HeldOK(rv[s])'
  BY Turned
<1>2. /\ config' \in Configs /\ comments' \in Seq(Posted) /\ files' \subseteq Findings
      /\ overlapped' \in BOOLEAN /\ blind' \in BOOLEAN
  BY DEF Inv, TypeOK, Turns
<1>3. ThreadsOK(run.threads)'
  BY DEF Turns, ThreadsOK
<1> QED BY <1>1, <1>2, <1>3 DEF TypeOK

LEMMA RecordNow ==
  ASSUME Inv
  PROVE  /\ run \in Record /\ ThreadsOK(run.threads) /\ column \in {"REVIEW", "DONE"}
         /\ triggers \in Seq({"auto", "manual"}) /\ Len(triggers) <= MaxRounds
         /\ faults \in 0..MaxFaults /\ last \in {"auto", "manual"}
         /\ Shown(run.threads, run.round)
         /\ FirstRound /\ OneReviewer /\ ColumnFollows
BY DEF Inv, TypeOK, ReviewInv, ThreadShowsFinding

(* The record stays as it is.                                              *)
LEMMA RecordStays ==
  ASSUME Inv, NEW r \in Reviewers, NEW held, Turns(r, held), run' = run,
         rv[r].at \in Underway => held.at \in Underway
  PROVE  /\ ThreadShowsFinding' /\ CompletedMeansPosted' /\ ArtifactsMatchRun'
         /\ DismissedStaysAway' /\ ReviewIsReported' /\ FirstRound'
<1>1. /\ UNCHANGED <<config, comments, files, run>> /\ (overlapped => overlapped')
      /\ rv'[r] = held /\ \A s \in Reviewers \ {r} : rv'[s] = rv[s]
  BY Turned DEF Turns
<1>2. ThreadShowsFinding'
  BY <1>1, RecordNow DEF ThreadShowsFinding, Shown
<1>3. CompletedMeansPosted' /\ ArtifactsMatchRun' /\ DismissedStaysAway'
  BY <1>1 DEF Inv, CompletedMeansPosted, ArtifactsMatchRun, DismissedStaysAway,
              DismissedFingerprints, Previous
<1>4. ReviewIsReported'
  BY <1>1 DEF Inv, ReviewIsReported
<1>5. FirstRound'
  BY <1>1, RecordNow DEF FirstRound, Enabled, None
<1> QED BY <1>2, <1>3, <1>4, <1>5

LEMMA HeldStays ==
  ASSUME Inv, NEW r \in Reviewers, NEW held \in Reviewer, HeldOK(held),
         UNCHANGED <<config, comments, files, blind>>,
         overlapped' \in BOOLEAN, overlapped => overlapped',
         rv[r].at \in {"idle", "asked", "disabled", "note", "final", "move"},
         held.at \in {"asked", "disabled", "note", "prepare", "final", "move"},
         held.at = "asked" => held.threads = None,
         Shown(held.threads, held.round), Counts(held),
         held.found = rv[r].found, held.todo = rv[r].todo, held.sum = rv[r].sum,
         held.seen = rv[r].seen, held.threads = rv[r].threads, held.finding = rv[r].finding,
         ~overlapped' /\ held.at = "prepare" /\ held.round = 1 => Summaries = {}
  PROVE  HeldInv(held)'
<1>1. rv[r].sum = {} /\ rv[r].finding = {} /\ held.at \notin Posting /\ held.at # "agent"
  BY HeldNow DEF Accounts, Posting
<1>2. Shows(held)'
  BY HeldNow DEF Shows, Shown, None
<1>3. Accounts(held)'
  BY <1>1, HeldNow DEF Accounts, Posting
<1>4. Counts(held)' /\ StaysAway(held)'
  BY HeldNow DEF Counts, StaysAway, Enabled, DismissedFingerprints, Previous
<1>5. ~overlapped' => FirstSummary(held)'
  <2>1. held.at \in Underway => held.at = "prepare"
    BY DEF Underway, Working
  <2> QED BY <2>1 DEF FirstSummary, Summaries
<1>6. Unposted(held)' /\ held.at # "end"
  BY <1>1 DEF Unposted
<1> QED BY <1>2, <1>3, <1>4, <1>5, <1>6 DEF HeldInv

LEMMA TriggerKeeps == ASSUME Inv, NEW r \in Reviewers, Trigger(r) PROVE Inv'
<1>1. PICK trigger \in {"auto", "manual"} :
        /\ triggers' = Append(triggers, trigger)
        /\ Hold(r, [rv[r] EXCEPT !.at = "asked", !.trigger = trigger])
  BY DEF Trigger
<1>2. /\ rv[r].at = "idle" /\ Len(triggers) < MaxRounds /\ rv[r] \in Reviewer
      /\ UNCHANGED <<config, run, comments, files, column, faults, overlapped, blind, last>>
  BY HeldNow DEF Trigger, At, history
<1>3. PICK held \in Reviewer :
        /\ rv' = [rv EXCEPT ![r] = held] /\ held.at = "asked" /\ held.round = rv[r].round
        /\ held.found = rv[r].found /\ held.todo = rv[r].todo /\ held.sum = rv[r].sum
        /\ held.seen = rv[r].seen /\ held.threads = rv[r].threads /\ held.finding = rv[r].finding
  <2> DEFINE held == [rv[r] EXCEPT !.at = "asked", !.trigger = trigger]
  <2>1. "asked" \in Places /\ trigger \in {"auto", "manual"}
    BY DEF Places
  <2>2. /\ held \in Reviewer /\ held.at = "asked" /\ held.round = rv[r].round
        /\ held.found = rv[r].found /\ held.todo = rv[r].todo /\ held.sum = rv[r].sum
        /\ held.seen = rv[r].seen /\ held.threads = rv[r].threads /\ held.finding = rv[r].finding
    BY <1>2, <2>1 DEF Reviewer
  <2>3. rv' = [rv EXCEPT ![r] = held]
    BY <1>1 DEF Hold
  <2> QED BY <2>2, <2>3
<1>4. Turns(r, held)
  <2>1. HeldOK(held) /\ Shown(held.threads, held.round) /\ held.threads = None
    BY <1>2, <1>3, HeldNow DEF HeldOK, Shows
  <2>2. Counts(held)
    BY <1>3 DEF Counts, Working
  <2> QED BY <1>2, <1>3, <2>1, <2>2, HeldStays, HeldNow DEF Turns
<1>5. TypeOK'
  <2>1. triggers' \in Seq({"auto", "manual"}) /\ Len(triggers') <= MaxRounds
    <3>1. triggers \in Seq({"auto", "manual"}) /\ MaxRounds \in Nat
      BY RecordNow, ReviewAssumption
    <3> QED BY <1>1, <1>2, <3>1
  <2> QED BY <1>2, <1>4, <2>1, RecordNow, TypeTurned
<1>6. /\ rv'[r].at = "asked" /\ \A s \in Reviewers \ {r} : rv'[s] = rv[s]
      /\ \A s \in Reviewers : HeldInv(rv[s])'
  BY <1>3, <1>4, Turned
<1>7. OneReviewer'
  BY <1>2, <1>6, RecordNow DEF OneReviewer, Working, At, AtWork
<1>8. ColumnFollows'
  BY <1>2, <1>6, RecordNow DEF ColumnFollows, Working, At, Nobody, Enabled, ColumnAfter
<1>9. rv[r].at \notin Underway
  BY <1>2 DEF Underway, Working
<1> QED BY <1>2, <1>4, <1>5, <1>6, <1>7, <1>8, <1>9, Turned, RecordStays DEF Inv, ReviewInv

LEMMA AfterTurn ==
  ASSUME Inv, NEW r \in Reviewers
  PROVE  AfterReview(r) \in {"idle", "final"} /\ (rv[r].trigger = "manual" => AfterReview(r) = "final")
BY DEF AfterReview

(* Reviewer r is in another place, in round `round`, with what it held.    *)
Moved(r, held, place, round) ==
  /\ held \in Reviewer /\ rv' = [rv EXCEPT ![r] = held]
  /\ held.at = place /\ held.round = round
  /\ held.found = rv[r].found /\ held.todo = rv[r].todo /\ held.sum = rv[r].sum
  /\ held.seen = rv[r].seen /\ held.threads = rv[r].threads /\ held.finding = rv[r].finding

HoldsOn(r, place, round, status) ==
  Hold(r, [rv[r] EXCEPT !.at = place, !.round = round, !.column = status])

LEMMA MovesThere ==
  ASSUME Inv, NEW r \in Reviewers, NEW place \in Places, NEW round \in Nat,
         NEW status \in {"REVIEW", "DONE"}, HoldsOn(r, place, round, status)
  PROVE  \E held : Moved(r, held, place, round) /\ held.column = status
<1> DEFINE held == [rv[r] EXCEPT !.at = place, !.round = round, !.column = status]
<1>1. rv[r] \in Reviewer /\ rv' = [rv EXCEPT ![r] = held]
  BY HeldNow DEF Hold, HoldsOn
<1>2. /\ held \in Reviewer /\ held.at = place /\ held.round = round /\ held.column = status
      /\ held.found = rv[r].found /\ held.todo = rv[r].todo /\ held.sum = rv[r].sum
      /\ held.seen = rv[r].seen /\ held.threads = rv[r].threads /\ held.finding = rv[r].finding
  BY <1>1 DEF Reviewer
<1> HIDE DEF held
<1> QED BY <1>1, <1>2 DEF Moved

LEMMA ReadKeeps == ASSUME Inv, NEW r \in Reviewers, ReadForReview(r) PROVE Inv'
<1>1. /\ rv[r].at = "asked" /\ rv[r].threads = None /\ rv[r] \in Reviewer /\ run.round \in Nat
      /\ UNCHANGED <<config, run, comments, files, column, triggers, faults, blind, last>>
  BY HeldNow, RecordNow DEF ReadForReview, At, Shows, Record
<1>2. rv[r].at \notin Underway
  BY <1>1 DEF Underway, Working
<1>3. Shown(None, 0) /\ \A round : Shown(None, round)
  BY DEF Shown, None
<1>4. ASSUME NEW held, Turns(r, held), held.at \in {"idle", "final", "disabled", "note"},
             held.at = "note" => /\ run.review # "running" /\ held.round = run.round + 1
                                 /\ overlapped' \/ ~\E s \in Reviewers : AtWork(s),
             held.at # "note" => overlapped' = overlapped /\ (run.review = "running" \/ ~Enabled)
      PROVE  Inv'
  <2>1. /\ rv'[r] = held /\ \A s \in Reviewers \ {r} : rv'[s] = rv[s]
        /\ \A s \in Reviewers : HeldInv(rv[s])'
        /\ overlapped => overlapped'
    BY <1>4, Turned DEF Turns
  <2>2. TypeOK'
    BY <1>1, <1>4, RecordNow, TypeTurned
  <2>3. OneReviewer'
    <3>1. CASE held.at = "note"
      BY <1>1, <1>4, <2>1, <3>1, RecordNow DEF OneReviewer, Working, At, AtWork
    <3>2. CASE held.at # "note"
      <4>1. \A s \in Reviewers : rv[s].at = "note" => overlapped
        BY <1>4, <3>2, HeldNow, RecordNow DEF OneReviewer, Working, Places, At, Counts
      <4>2. held.at \notin Working /\ overlapped' = overlapped
        BY <1>4, <3>2 DEF Working
      <4> QED BY <1>1, <2>1, <4>1, <4>2, RecordNow DEF OneReviewer, At, AtWork
    <3> QED BY <3>1, <3>2
  <2>4. ColumnFollows'
    <3>1. CASE held.at = "note"
      <4>1. ~overlapped' => \A s \in Reviewers : rv[s].at \in {"idle", "asked"}
        BY <1>4, <3>1 DEF AtWork
      <4>2. ~overlapped' => \A s \in Reviewers : rv'[s].at # "move"
        BY <2>1, <3>1, <4>1
      <4>3. rv'[r].at \in Working
        BY <2>1, <3>1 DEF Working, Places
      <4> QED BY <1>1, <2>1, <4>2, <4>3, RecordNow DEF ColumnFollows, At, Nobody, Enabled
    <3>2. CASE held.at # "note"
      BY <1>1, <1>4, <2>1, <3>2, RecordNow DEF ColumnFollows, Working, At, Nobody, Enabled, ColumnAfter
    <3> QED BY <3>1, <3>2
  <2> QED BY <1>1, <1>2, <1>4, <2>1, <2>2, <2>3, <2>4, Turned, RecordStays DEF Inv, ReviewInv
<1>5. CASE run.review = "running" /\ Done(r, AfterReview(r)) /\ UNCHANGED overlapped
  <2>1. PICK held : Turns(r, held) /\ held.at = AfterReview(r)
    BY <1>1, <1>5, AfterTurn, DoneTurns
  <2> QED BY <1>4, <1>5, <2>1, AfterTurn
<1>6. ASSUME NEW place \in {"disabled", "note"}, NEW round \in Nat,
             Hold(r, [rv[r] EXCEPT !.at = place, !.round = round])
      PROVE  \E held : Moved(r, held, place, round)
  <2>1. [rv[r] EXCEPT !.at = place, !.round = round]
          = [rv[r] EXCEPT !.at = place, !.round = round, !.column = rv[r].column]
    BY <1>1 DEF Reviewer
  <2>2. place \in Places /\ rv[r].column \in {"REVIEW", "DONE"}
    BY <1>1 DEF Places, Reviewer
  <2>3. HoldsOn(r, place, round, rv[r].column)
    BY <1>6, <2>1 DEF HoldsOn
  <2> QED BY <2>2, <2>3, MovesThere
<1>7. CASE /\ run.review # "running" /\ ~Enabled /\ UNCHANGED overlapped
           /\ Hold(r, [rv[r] EXCEPT !.at = "disabled", !.round = run.round])
  <2>1. PICK held : Moved(r, held, "disabled", run.round)
    BY <1>1, <1>6, <1>7
  <2>2. HeldOK(held) /\ Counts(held)
    BY <1>7, <2>1, HeldNow, RecordNow DEF HeldOK, Counts, Moved, FirstRound, Working
  <2>3. Turns(r, held)
    BY <1>1, <1>3, <1>7, <2>1, <2>2, HeldStays, HeldNow DEF Turns, Moved
  <2> QED BY <1>4, <1>7, <2>1, <2>3 DEF Moved
<1>8. CASE /\ run.review # "running" /\ Enabled
           /\ Hold(r, [rv[r] EXCEPT !.at = "note", !.round = run.round + 1])
           /\ overlapped' = (overlapped \/ \E s \in Reviewers : AtWork(s))
  <2>1. PICK held : Moved(r, held, "note", run.round + 1)
    <3> DEFINE round == run.round + 1
    <3>1. round \in Nat /\ Hold(r, [rv[r] EXCEPT !.at = "note", !.round = round])
      BY <1>1, <1>8
    <3> HIDE DEF round
    <3>2. \E held : Moved(r, held, "note", round)
      BY <1>6, <3>1
    <3> QED BY <3>2 DEF round
  <2>2. HeldOK(held) /\ Counts(held)
    BY <1>1, <1>8, <2>1, HeldNow DEF HeldOK, Counts, Moved
  <2>3. overlapped' \in BOOLEAN /\ (overlapped => overlapped')
    BY <1>8
  <2>4. Turns(r, held)
    BY <1>1, <1>3, <2>1, <2>2, <2>3, HeldStays DEF Turns, Moved
  <2>5. overlapped' \/ ~\E s \in Reviewers : AtWork(s)
    BY <1>8
  <2> QED BY <1>4, <1>8, <2>1, <2>4, <2>5 DEF Moved
<1> QED BY <1>5, <1>7, <1>8 DEF ReadForReview

LEMMA SkipKeeps == ASSUME Inv, NEW r \in Reviewers, SkipReview(r) PROVE Inv'
<1>1. /\ rv[r].at = "disabled" /\ ~Enabled /\ run.round = 0 /\ rv[r].round = 0
      /\ run' = [run EXCEPT !.review = "none", !.round = rv[r].round]
      /\ UNCHANGED <<config, comments, files, column, triggers, faults, overlapped, blind, last>>
  BY HeldNow, RecordNow DEF SkipReview, At, Counts, FirstRound, history
<1>2. PICK held : Turns(r, held) /\ held.at = AfterReview(r)
  BY <1>1, AfterTurn, DoneTurns DEF SkipReview
<1>3. /\ rv'[r] = held /\ \A s \in Reviewers \ {r} : rv'[s] = rv[s]
      /\ \A s \in Reviewers : HeldInv(rv[s])'
      /\ held.at \in {"idle", "final"}
  BY <1>2, Turned, AfterTurn
<1>4. /\ run' \in Record /\ run'.review = "none" /\ run'.round = 0 /\ run'.threads = run.threads
      /\ run'.findings = run.findings /\ run'.post = run.post
  BY <1>1, RecordNow DEF Record
<1>5. TypeOK'
  BY <1>1, <1>2, <1>4, RecordNow, TypeTurned
<1>6. OneReviewer'
  <2>1. \A s \in Reviewers : rv'[s].at \notin Working
    BY <1>1, <1>3, HeldNow DEF Counts, Working
  <2> QED BY <2>1 DEF OneReviewer
<1>7. ColumnFollows' /\ FirstRound'
  BY <1>1, <1>4, RecordNow DEF ColumnFollows, FirstRound, Enabled, None
<1>8. ThreadShowsFinding'
  BY <1>1, <1>4, RecordNow DEF ThreadShowsFinding, Shown, FirstRound, None
<1>9. CompletedMeansPosted' /\ ArtifactsMatchRun' /\ DismissedStaysAway' /\ ReviewIsReported'
  BY <1>1, <1>4 DEF Inv, CompletedMeansPosted, ArtifactsMatchRun, DismissedStaysAway,
              ReviewIsReported, DismissedFingerprints, Previous
<1> QED BY <1>2, <1>3, <1>5, <1>6, <1>7, <1>8, <1>9, Turned DEF Inv, ReviewInv

LEMMA NoteKeeps == ASSUME Inv, NEW r \in Reviewers, NoteReview(r) PROVE Inv'
<1>1. /\ rv[r].at = "note" /\ rv[r] \in Reviewer /\ Enabled /\ rv[r].round > 0
      /\ run' = [run EXCEPT !.review = "running", !.round = rv[r].round,
                            !.post = "not_attempted", !.postRound = rv[r].round]
      /\ Go(r, "prepare")
      /\ UNCHANGED <<config, comments, files, column, triggers, faults, overlapped, blind, last>>
  BY HeldNow DEF NoteReview, At, Counts, Working, Places, history
<1>2. PICK held : Moved(r, held, "prepare", rv[r].round)
  <2>1. [rv[r] EXCEPT !.at = "prepare"]
          = [rv[r] EXCEPT !.at = "prepare", !.round = rv[r].round, !.column = rv[r].column]
    BY <1>1 DEF Reviewer
  <2>2. HoldsOn(r, "prepare", rv[r].round, rv[r].column)
    BY <1>1, <2>1, HeldNow DEF Go, Hold, HoldsOn
  <2>3. "prepare" \in Places /\ rv[r].round \in Nat /\ rv[r].column \in {"REVIEW", "DONE"}
    BY <1>1 DEF Places, Reviewer
  <2> QED BY <2>2, <2>3, MovesThere
<1>3. ~overlapped => /\ rv[r].round = run.round + 1 /\ \A s \in Reviewers \ {r} : ~AtWork(s)
                     /\ run.round = 0 => comments = <<>>
  BY <1>1, RecordNow DEF OneReviewer, FirstRound, At, Working, Places
<1>4. run \in Record /\ run.round \in Nat /\ rv[r].round \in Nat
  BY <1>1, RecordNow DEF Record, Reviewer
<1>5. Turns(r, held)
  <2>1. HeldOK(held) /\ Counts(held)
    BY <1>1, <1>2, HeldNow DEF HeldOK, Counts, Moved
  <2>2. Shown(held.threads, held.round)
    BY <1>2, HeldNow DEF Shows, Moved
  <2>3. ~overlapped /\ held.round = 1 => Summaries = {}
    BY <1>2, <1>3, <1>4 DEF Moved, Summaries
  <2> QED BY <1>1, <1>2, <2>1, <2>2, <2>3, HeldStays, HeldNow DEF Turns, Moved
<1>6. /\ rv'[r] = held /\ \A s \in Reviewers \ {r} : rv'[s] = rv[s]
      /\ \A s \in Reviewers : HeldInv(rv[s])'
  BY <1>5, Turned
<1>7. /\ run' \in Record /\ run'.review = "running" /\ run'.round = rv[r].round
      /\ run'.threads = run.threads /\ run'.findings = run.findings /\ run'.post = "not_attempted"
  BY <1>1, <1>4 DEF Record
<1>8. TypeOK'
  BY <1>1, <1>5, <1>7, RecordNow, TypeTurned
<1>9. rv'[r].at = "prepare" /\ rv'[r].round = rv[r].round /\ "prepare" \in Underway /\ "prepare" \in Working
  BY <1>2, <1>6 DEF Moved, Underway, Working, Places
<1>10. OneReviewer'
  <2>1. ~overlapped => \A s \in Reviewers \ {r} : rv'[s].at \notin Working
    BY <1>3, <1>6 DEF AtWork, Working
  <2> QED BY <1>1, <1>7, <1>9, <2>1 DEF OneReviewer, At
<1>11. ColumnFollows'
  <2>1. ~overlapped => \A s \in Reviewers : rv'[s].at # "move"
    BY <1>3, <1>6, <1>9 DEF AtWork
  <2> QED BY <1>1, <1>7, <1>9, <2>1 DEF ColumnFollows, At, Nobody
<1>12. FirstRound'
  BY <1>1, <1>7 DEF FirstRound, Enabled
<1>13. ThreadShowsFinding'
  <2>1. ~overlapped /\ rv[r].round = 1 => run.threads = None
    BY <1>3, <1>4, RecordNow DEF FirstRound
  <2> QED BY <1>1, <1>7, <2>1, RecordNow DEF ThreadShowsFinding, Shown, None
<1>14. CompletedMeansPosted' /\ ArtifactsMatchRun' /\ DismissedStaysAway' /\ ReviewIsReported'
  BY <1>1, <1>7, <1>9 DEF Inv, CompletedMeansPosted, ArtifactsMatchRun, DismissedStaysAway,
              ReviewIsReported, DismissedFingerprints, Previous
<1> QED BY <1>5, <1>6, <1>8, <1>10, <1>11, <1>12, <1>13, <1>14, Turned DEF Inv, ReviewInv

(* A review ends; what is noted of it is `new`.                            *)
LEMMA Ends ==
  ASSUME Inv, NEW r \in Reviewers, rv[r].at \in {"end", "catch"}, Done(r, AfterReview(r)),
         UNCHANGED <<config, comments, files, column, triggers, faults, overlapped, blind>>,
         last' = rv[r].trigger, run' \in Record, ThreadsOK(run'.threads),
         run'.review \in {"completed", "failed"}, run'.round = rv[r].round,
         ThreadShowsFinding', CompletedMeansPosted', ArtifactsMatchRun',
         \A f \in run'.findings : Fingerprint[f] \notin DismissedFingerprints
  PROVE  Inv'
<1>1. PICK held : Turns(r, held) /\ held.at = AfterReview(r)
  BY AfterTurn, DoneTurns
<1>2. /\ rv'[r] = held /\ \A s \in Reviewers \ {r} : rv'[s] = rv[s]
      /\ \A s \in Reviewers : HeldInv(rv[s])' /\ held.at \in {"idle", "final"}
      /\ rv[r].trigger = "manual" => held.at = "final"
  BY <1>1, Turned, AfterTurn
<1>3. /\ rv[r].at \in Working /\ rv[r].at # "note" /\ Enabled /\ rv[r].round > 0
      /\ rv[r].trigger \in {"auto", "manual"}
  BY HeldNow DEF Counts, Working, Places, Reviewer
<1>4. ~overlapped => \A s \in Reviewers \ {r} : rv[s].at \notin Working
  BY <1>3, RecordNow DEF OneReviewer
<1>5. TypeOK'
  BY <1>1, <1>3, RecordNow, TypeTurned
<1>6. OneReviewer'
  BY <1>2, <1>4 DEF OneReviewer, Working
<1>7. FirstRound'
  BY <1>3 DEF FirstRound, Enabled
<1>8. ColumnFollows'
  <2>1. ~overlapped => \A s \in Reviewers : rv[s].at # "move"
    BY <1>3, RecordNow DEF ColumnFollows, Nobody, At
  <2> QED BY <1>2, <2>1 DEF ColumnFollows, Nobody, At
<1>9. DismissedStaysAway' /\ ReviewIsReported'
  BY DEF Inv, DismissedStaysAway, DismissedFingerprints, Previous, ReviewIsReported
<1> QED BY <1>1, <1>2, <1>5, <1>6, <1>7, <1>8, <1>9, Turned DEF Inv, ReviewInv

LEMMA EndKeeps == ASSUME Inv, NEW r \in Reviewers, EndReview(r) PROVE Inv'
<1>1. /\ rv[r].at = "end" /\ rv[r] \in Reviewer
      /\ run' = [review |-> "completed", round |-> rv[r].round, findings |-> rv[r].found,
                 threads |-> rv[r].threads, post |-> IF rv[r].errors THEN "failed" ELSE "completed",
                 postRound |-> rv[r].round]
      /\ UNCHANGED <<config, comments, files, column, triggers, faults, overlapped, blind>>
  BY HeldNow DEF EndReview, At
<1>2. /\ run' \in Record /\ run'.review = "completed" /\ run'.round = rv[r].round
      /\ run'.findings = rv[r].found /\ run'.threads = rv[r].threads
      /\ run'.post = "completed" => ~rv[r].errors
  BY <1>1 DEF Record, Reviewer
<1>3. ThreadsOK(run'.threads) /\ \A f \in run'.findings : Fingerprint[f] \notin DismissedFingerprints
  BY <1>2, HeldNow DEF HeldOK, StaysAway
<1>4. ThreadShowsFinding'
  BY <1>1, <1>2, HeldNow DEF ThreadShowsFinding, Shows, Shown
<1>5. CompletedMeansPosted'
  BY <1>1, <1>2, HeldNow DEF CompletedMeansPosted, Accounts
<1>6. ArtifactsMatchRun'
  BY <1>1, <1>2 DEF Inv, ReviewInv, HeldInv, ArtifactsMatchRun
<1> QED BY <1>1, <1>2, <1>3, <1>4, <1>5, <1>6, Ends DEF EndReview

LEMMA CatchKeeps == ASSUME Inv, NEW r \in Reviewers, CatchError(r) PROVE Inv'
<1>1. /\ rv[r].at = "catch" /\ rv[r] \in Reviewer /\ run \in Record /\ ThreadsOK(run.threads)
      /\ run' = [run EXCEPT !.review = "failed", !.round = rv[r].round,
                            !.post = "failed", !.postRound = rv[r].round]
      /\ UNCHANGED <<config, comments, files, column, triggers, faults, overlapped, blind>>
  BY HeldNow, RecordNow DEF CatchError, At, FailedReview
<1>2. /\ run' \in Record /\ run'.review = "failed" /\ run'.round = rv[r].round
      /\ run'.findings = run.findings /\ run'.threads = run.threads /\ run'.post = "failed"
  BY <1>1 DEF Record, Reviewer
<1>3. ~overlapped => run.round = rv[r].round
  BY <1>1, RecordNow DEF OneReviewer, At, Working, Places
<1>4. ThreadShowsFinding'
  BY <1>1, <1>2, <1>3, RecordNow DEF ThreadShowsFinding, Shown
<1>5. CompletedMeansPosted' /\ ArtifactsMatchRun'
  BY <1>2 DEF CompletedMeansPosted, ArtifactsMatchRun
<1>6. \A f \in run'.findings : Fingerprint[f] \notin DismissedFingerprints
  BY <1>2 DEF Inv, DismissedStaysAway
<1> QED BY <1>1, <1>2, <1>4, <1>5, <1>6, Ends DEF CatchError

LEMMA FinalizeKeeps == ASSUME Inv, NEW r \in Reviewers, Finalize(r) PROVE Inv'
<1>1. /\ rv[r].at = "final" /\ rv[r] \in Reviewer /\ rv[r].at \notin Working
      /\ UNCHANGED <<config, run, comments, files, column, triggers, faults, overlapped, blind, last>>
  BY HeldNow DEF Finalize, At, Local, NoFault, history, Working
(* Nobody is at work when a review has ended.                              *)
<1>2. ~overlapped /\ run.review # "running" => \A s \in Reviewers : rv[s].at \notin Working
  BY <1>1, RecordNow DEF OneReviewer, At, AtWork
<1>3. ASSUME NEW held, Turns(r, held),
             \/ held.at = "idle" /\ ColumnAfter(run.review) = {}
             \/ held.at = "move" /\ held.column \in ColumnAfter(run.review)
      PROVE  Inv'
  <2>1. /\ rv'[r] = held /\ \A s \in Reviewers \ {r} : rv'[s] = rv[s]
        /\ \A s \in Reviewers : HeldInv(rv[s])'
        /\ held.at \notin Working /\ rv[r].at \notin Underway
    BY <1>1, <1>3, Turned DEF Working, Underway
  <2>2. TypeOK'
    BY <1>1, <1>3, RecordNow, TypeTurned
  <2>3. OneReviewer'
    BY <1>1, <1>3, <2>1, RecordNow DEF OneReviewer, At, AtWork
  <2>4. ColumnFollows'
    <3> SUFFICES ASSUME ~overlapped, Enabled PROVE ColumnFollows'
      BY <1>1 DEF ColumnFollows, Enabled
    <3>1. run.review \in {"none", "running", "completed", "failed"}
      BY RecordNow DEF Record
    <3>2. ColumnAfter(run.review) = {} => run.review \in {"none", "running"}
      BY <3>1 DEF ColumnAfter
    <3>3. "running" # run.review \/ \E s \in Reviewers \ {r} : rv[s].at \in Working
      BY <1>1 DEF Inv, ReviewIsReported, Underway
    <3>4. CASE held.at = "idle"
      <4>1. run.review = "running" \/ last # "manual"
        BY <1>3, <3>2, <3>4, RecordNow DEF ColumnFollows
      <4> QED BY <1>1, <2>1, <3>3, <3>4, <4>1, RecordNow DEF ColumnFollows, At, Nobody, ColumnAfter, Enabled
    <3>5. CASE held.at = "move" /\ held.column \in ColumnAfter(run.review)
      <4>1. run.review # "running"
        BY <3>5 DEF ColumnAfter
      <4>2. \A s \in Reviewers : rv'[s].at \notin Working
        BY <1>2, <2>1, <4>1
      <4>3. \A s \in Reviewers : rv'[s].at = "move" => rv'[s].column \in ColumnAfter(run.review)
        BY <2>1, <3>5, RecordNow DEF ColumnFollows, At
      <4>4. ColumnAfter(run.review)' = ColumnAfter(run.review)
        BY <1>1 DEF ColumnAfter
      <4> QED BY <1>1, <2>1, <3>5, <4>2, <4>3, <4>4, RecordNow DEF ColumnFollows, At, Nobody
    <3> QED BY <1>3, <3>4, <3>5
  <2> QED BY <1>1, <1>3, <2>1, <2>2, <2>3, <2>4, Turned, RecordStays DEF Inv, ReviewInv
<1>4. CASE ColumnAfter(run.review) = {} /\ Done(r, "idle")
  <2>1. PICK held : Turns(r, held) /\ held.at = "idle"
    BY <1>1, <1>4, DoneTurns
  <2> QED BY <1>3, <1>4, <2>1
<1>5. ASSUME NEW place \in ColumnAfter(run.review),
             Hold(r, [rv[r] EXCEPT !.at = "move", !.column = place])
      PROVE  Inv'
  <2>1. place \in {"REVIEW", "DONE"} /\ "move" \in Places /\ rv[r].round \in Nat
    BY <1>1, RecordNow DEF ColumnAfter, Places, Reviewer, Record
  <2>2. [rv[r] EXCEPT !.at = "move", !.column = place]
          = [rv[r] EXCEPT !.at = "move", !.round = rv[r].round, !.column = place]
    BY <1>1 DEF Reviewer
  <2>3. PICK held : Moved(r, held, "move", rv[r].round) /\ held.column = place
    <3>1. HoldsOn(r, "move", rv[r].round, place)
      BY <1>5, <2>2 DEF HoldsOn
    <3> QED BY <2>1, <3>1, MovesThere
  <2>4. HeldOK(held) /\ Counts(held) /\ Shown(held.threads, held.round)
    BY <2>3, HeldNow DEF HeldOK, Counts, Moved, Working, Shows
  <2>5. Turns(r, held)
    BY <1>1, <2>3, <2>4, HeldStays, HeldNow DEF Turns, Moved
  <2> QED BY <1>3, <1>5, <2>3, <2>5 DEF Moved
<1> QED BY <1>4, <1>5 DEF Finalize

LEMMA MoveKeeps == ASSUME Inv, NEW r \in Reviewers, MoveTask(r) PROVE Inv'
<1>1. /\ rv[r].at = "move" /\ rv[r] \in Reviewer /\ rv[r].at \notin Working
      /\ column' = rv[r].column /\ Done(r, "idle")
      /\ UNCHANGED <<config, run, comments, files, triggers, faults, overlapped, blind, last>>
  BY HeldNow DEF MoveTask, At, history, Working
<1>2. PICK held : Turns(r, held) /\ held.at = "idle"
  BY <1>1, DoneTurns
<1>3. /\ rv'[r] = held /\ \A s \in Reviewers \ {r} : rv'[s] = rv[s]
      /\ \A s \in Reviewers : HeldInv(rv[s])'
      /\ held.at \notin Working /\ rv[r].at \notin Underway
  BY <1>1, <1>2, Turned DEF Working, Underway
<1>4. TypeOK'
  BY <1>1, <1>2, RecordNow, TypeTurned DEF Reviewer
<1>5. OneReviewer'
  BY <1>1, <1>2, <1>3, RecordNow DEF OneReviewer, At, AtWork
<1>6. ColumnFollows'
  <2> SUFFICES ASSUME ~overlapped, Enabled PROVE ColumnFollows'
    BY <1>1 DEF ColumnFollows, Enabled
  <2>1. rv[r].column \in ColumnAfter(run.review) /\ \A s \in Reviewers : rv[s].at \notin Working
    BY <1>1, RecordNow DEF ColumnFollows, At, Nobody
  <2>2. column' = "DONE" <=> run.review = "completed"
    BY <1>1, <2>1 DEF ColumnAfter
  <2>3. \A s \in Reviewers : rv'[s].at \notin Working
    BY <1>3, <2>1
  <2>4. \A s \in Reviewers : rv'[s].at = "move" => rv'[s].column \in ColumnAfter(run.review)
    BY <1>2, <1>3, RecordNow DEF ColumnFollows, At
  <2>5. ColumnAfter(run.review)' = ColumnAfter(run.review)
    BY <1>1 DEF ColumnAfter
  <2> QED BY <1>1, <2>2, <2>3, <2>4, <2>5, RecordNow DEF ColumnFollows, At, Nobody
<1> QED BY <1>1, <1>2, <1>3, <1>4, <1>5, <1>6, Turned, RecordStays DEF Inv, ReviewInv

-----------------------------------------------------------------------------
(* The invariant, and what it means.                                       *)

LEMMA InitInv == Init => Inv
<1> SUFFICES ASSUME Init PROVE Inv
  OBVIOUS
<1>1. Idle \in Reviewer /\ Idle.at = "idle" /\ Idle.threads = None /\ Idle.seen = None
      /\ Idle.found = {} /\ Idle.todo = {} /\ Idle.sum = {} /\ Idle.finding = {}
  <2>1. None \in [Findings -> Int] /\ 1 \in 1..MaxAttempts
    BY DEF None, MaxAttempts
  <2> QED BY <2>1 DEF Idle, Reviewer, Places
<1> HIDE DEF Idle
<1>2. rv \in [Reviewers -> Reviewer] /\ \A r \in Reviewers : rv[r] = Idle
  BY <1>1 DEF Init
<1>3. comments = <<>> /\ Len(comments) = 0 /\ DOMAIN comments = {} /\ comments \in Seq(Posted)
  BY DEF Init
<1>4. ThreadsOK(None)
  BY <1>3 DEF ThreadsOK, None
<1>5. TypeOK
  <2>1. run \in Record /\ run.threads = None
    BY DEF Init, Record, None
  <2>2. \A r \in Reviewers : HeldOK(rv[r])
    BY <1>1, <1>2, <1>4 DEF HeldOK
  <2>3. triggers \in Seq({"auto", "manual"}) /\ Len(triggers) = 0 /\ MaxRounds \in Nat /\ MaxFaults \in Nat
    BY ReviewAssumption DEF Init
  <2>4. triggers \in Seq({"auto", "manual"}) /\ Len(triggers) <= MaxRounds /\ 0 \in 0..MaxFaults
    BY <2>3
  <2> QED BY <1>2, <1>3, <1>4, <2>1, <2>2, <2>4 DEF Init, TypeOK
<1>6. \A r \in Reviewers : HeldInv(rv[r])
  <2>1. Shows(Idle)
    BY <1>1 DEF Shows, Shown, None
  <2>2. Accounts(Idle) /\ Counts(Idle) /\ StaysAway(Idle)
    BY <1>1 DEF Accounts, Counts, StaysAway, Posting, Working
  <2>3. FirstSummary(Idle) /\ Unposted(Idle)
    BY <1>1 DEF FirstSummary, Unposted, Posting, Underway, Working
  <2> QED BY <1>1, <1>2, <2>1, <2>2, <2>3 DEF HeldInv
<1>7. FirstRound /\ ThreadShowsFinding
  BY DEF Init, FirstRound, ThreadShowsFinding, Shown, None
<1>8. OneReviewer /\ ColumnFollows
  BY <1>1, <1>2 DEF Init, OneReviewer, ColumnFollows, Working, At
<1>9. CompletedMeansPosted /\ ArtifactsMatchRun /\ ReviewIsReported /\ DismissedStaysAway /\ OnePerFinding
  BY <1>3 DEF Init, CompletedMeansPosted, ArtifactsMatchRun, ReviewIsReported, DismissedStaysAway,
              OnePerFinding, Marked
<1> QED BY <1>5, <1>6, <1>7, <1>8, <1>9 DEF Inv, ReviewInv

LEMMA StepInv == Inv /\ [Next]_vars => Inv'
<1> SUFFICES ASSUME Inv, [Next]_vars PROVE Inv'
  OBVIOUS
<1>1. CASE UNCHANGED vars
  <2>1. TypeOK'
    <3>1. \A r \in Reviewers : HeldOK(rv[r])'
      BY <1>1 DEF Inv, TypeOK, HeldOK, ThreadsOK, vars
    <3>2. ThreadsOK(run.threads)'
      BY <1>1 DEF Inv, TypeOK, ThreadsOK, vars
    <3>3. UNCHANGED <<config, run, rv, comments, files, column, triggers, faults, overlapped, blind, last>>
      BY <1>1 DEF vars
    <3> QED BY <3>1, <3>2, <3>3 DEF Inv, TypeOK
  <2>2. ReviewInv'
    BY <1>1 DEF Inv, ReviewInv, HeldInv, Shows, Shown, Accounts, Counts, StaysAway, FirstSummary,
                Unposted, FirstRound, OneReviewer, ColumnFollows, Nobody, ColumnAfter, At, AtWork,
                Marked, Summaries, Enabled, DismissedFingerprints, Previous, vars
  <2>3. ThreadShowsFinding' /\ CompletedMeansPosted' /\ ArtifactsMatchRun'
        /\ OnePerFinding' /\ DismissedStaysAway' /\ ReviewIsReported'
    BY <1>1 DEF Inv, ThreadShowsFinding, Shown, CompletedMeansPosted, ArtifactsMatchRun, OnePerFinding,
                Marked, DismissedStaysAway, DismissedFingerprints, Previous, ReviewIsReported, vars
  <2> QED BY <2>1, <2>2, <2>3 DEF Inv
<1>2. ASSUME NEW r \in Reviewers, Trigger(r) PROVE Inv'
  BY <1>2, TriggerKeeps
<1>3. ASSUME NEW r \in Reviewers, ReviewStep(r) PROVE Inv'
  <2>1. CASE ReadForReview(r) \/ SkipReview(r) \/ NoteReview(r)
    BY <2>1, ReadKeeps, SkipKeeps, NoteKeeps
  <2>2. CASE Prepare(r) \/ NativeReview(r)
    BY <2>2, PrepareKeeps, NativeKeeps
  <2>3. CASE StructuredReview(r) \/ NormalizeReview(r)
    BY <2>3, ReportKeeps DEF StructuredReview, NormalizeReview, At
  <2>4. CASE AgentPosting(r) \/ LoadThreads(r) \/ FetchMetadata(r)
    BY <2>4, AgentKeeps, LoadKeeps, MetadataKeeps
  <2>5. CASE NextFinding(r) \/ Look(r) \/ Post(r)
    BY <2>5, NextFindingKeeps, LookKeeps, PostKeeps
  <2>6. CASE LookForSummary(r) \/ PostSummary(r) \/ PersistArtifacts(r)
    BY <2>6, LookForSummaryKeeps, PostSummaryKeeps, ArtifactsKeeps
  <2>7. CASE EndReview(r) \/ CatchError(r) \/ Finalize(r) \/ MoveTask(r)
    BY <2>7, EndKeeps, CatchKeeps, FinalizeKeeps, MoveKeeps
  <2> QED BY <1>3, <2>1, <2>2, <2>3, <2>4, <2>5, <2>6, <2>7 DEF ReviewStep
<1> QED BY <1>1, <1>2, <1>3 DEF Next

LEMMA SpecInv == Spec => []Inv
BY InitInv, StepInv, PTL DEF Spec

(* What the run, the artifacts and the column say of a review agrees with  *)
(* the comments on the host and with how it ended.                         *)
THEOREM RecordsHold == Spec => []RecordsAgree
<1>1. Inv => RecordsAgree
  <2> SUFFICES ASSUME Inv PROVE ColumnShowsReview
    BY DEF Inv, RecordsAgree
  <2>1. (\A r \in Reviewers : At(r, "idle")) => Nobody(Working \cup {"final", "move"})
    BY DEF At, Nobody, Working
  <2> QED BY <2>1, RecordNow DEF ColumnShowsReview, ColumnFollows
<1> QED BY <1>1, SpecInv, PTL

(* No finding is posted twice, whichever calls fail after they were        *)
(* carried out, unless reviews overlapped or the host could not be looked  *)
(* at.                                                                     *)
THEOREM OnePerFindingHolds == Spec => []OnePerFinding
BY SpecInv, PTL DEF Inv

(* A finding that was dismissed in the run before is reported nowhere.     *)
THEOREM DismissedHolds == Spec => []DismissedStaysAway
BY SpecInv, PTL DEF Inv

(* A review that runs according to the board is in somebody's hands.       *)
THEOREM ReviewHolds == Spec => []ReviewIsReported
BY SpecInv, PTL DEF Inv
=============================================================================
