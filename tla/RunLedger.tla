----------------------------- MODULE RunLedger -----------------------------
(***************************************************************************)
(* What a repo board promises about runs, without columns, phases, sources *)
(* or calls in flight. RepoBoard implements it.                            *)
(***************************************************************************)
EXTENDS Integers

CONSTANTS
  MaxTasks,  \* as in DependencyState
  MaxRuns

VARIABLES
  stage,      \* of each run number
  owner,      \* the task a run belongs to, 0 for a number not in use
  published   \* the runs that have a review open

vars == <<stage, owner, published>>

Numbers == 1..MaxRuns
Held(r) == stage[r] \in {"open", "ended"}

(* The next number: numbers are used in order, and never again. *)
Fresh(r) == stage[r] = "absent" /\ \A q \in 1..(r - 1) : stage[q] # "absent"

Init ==
    /\ stage = [r \in Numbers |-> "absent"]
    /\ owner = [r \in Numbers |-> 0]
    /\ published = {}

Enter(r, t) ==
    /\ Fresh(r)
    /\ stage' = [stage EXCEPT ![r] = "open"]
    /\ owner' = [owner EXCEPT ![r] = t]

(* A run from scratch. *)
Open(r, t) == Enter(r, t) /\ UNCHANGED published

(* A run that goes on with the review of an earlier one of its task. *)
TakeUp(r, base) ==
    /\ Held(base)
    /\ Enter(r, owner[base])
    /\ published' = IF base \in published THEN published \cup {r} ELSE published

(* A run goes on, ends or is reopened; it may open a review. *)
Progress(r) ==
    /\ Held(r)
    /\ \E s \in {"open", "ended"} : stage' = [stage EXCEPT ![r] = s]
    /\ published' \in {published, published \cup {r}}
    /\ UNCHANGED owner

(* A task is deleted, and every run of it. *)
Drop(t) ==
    LET gone == {r \in Numbers : owner[r] = t}
    IN /\ stage' = [r \in Numbers |-> IF r \in gone THEN "dropped" ELSE stage[r]]
       /\ owner' = [r \in Numbers |-> IF r \in gone THEN 0 ELSE owner[r]]
       /\ published' = published \ gone

Next ==
    \/ \E r \in Numbers : Progress(r)
    \/ \E r \in Numbers, t \in 1..MaxTasks : Open(r, t)
    \/ \E r, base \in Numbers : TakeUp(r, base)
    \/ \E t \in 1..MaxTasks : Drop(t)

Spec == Init /\ [][Next]_vars
=============================================================================
