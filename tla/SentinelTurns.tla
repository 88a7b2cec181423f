--------------------------- MODULE SentinelTurns ---------------------------
(***************************************************************************)
(* What a sentinel promises: the tasks of the repo take turns.  A turn is  *)
(* taken when no task is open, its task is worked once, and the next turn  *)
(* waits until that task is done or gone.  Sentinel implements it.         *)
(***************************************************************************)
EXTENDS Integers

CONSTANTS
  MaxTasks,  \* as in Sentinel
  MaxRuns

VARIABLES
  turn,    \* the task whose turn it is, 0 between turns
  open,    \* the tasks begun that are neither done nor gone
  worked   \* for each run, the workflows it has been given to

vars == <<turn, open, worked>>

Init == turn = 0 /\ open = {} /\ worked = [r \in 1..MaxRuns |-> 0]

Take(t) ==
    /\ turn = 0 /\ open = {}
    /\ turn' = t
    /\ UNCHANGED <<open, worked>>

(* Its task may have gone in the meantime. *)
Work(r) ==
    /\ turn # 0 /\ open = {}
    /\ worked[r] = 0
    /\ worked' = [worked EXCEPT ![r] = 1]
    /\ open' \in {{turn}, {}}
    /\ UNCHANGED turn

Settle ==
    /\ open # {}
    /\ open' = {}
    /\ UNCHANGED <<turn, worked>>

Yield ==
    /\ turn # 0 /\ open = {}
    /\ turn' = 0
    /\ UNCHANGED <<open, worked>>

Next ==
    \/ \E t \in 1..MaxTasks : Take(t)
    \/ \E r \in 1..MaxRuns : Work(r)
    \/ Settle
    \/ Yield

Spec == Init /\ [][Next]_vars
=============================================================================
