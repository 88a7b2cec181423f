---------------------------- MODULE MCBoardIndex ----------------------------
(* One browser, and repositories at two paths.                             *)
EXTENDS BoardIndex, TLC

CONSTANTS p1, p2, r1, r2, s1, s2

MCIdOf == p1 :> r1 @@ p2 :> r2

Swap == p1 :> p2 @@ p2 :> p1 @@ r1 :> r2 @@ r2 :> r1
Same == [v \in {p1, p2, r1, r2} |-> v]
Alike == {Same, Swap} \cup Permutations(Syncs)
=============================================================================
