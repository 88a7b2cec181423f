---------------------------- MODULE MCSlackLoop ----------------------------
(***************************************************************************)
(* Instances of SlackLoop for TLC.                                         *)
(***************************************************************************)
EXTENDS SlackLoop, TLC
CONSTANTS c1, c2, q1, q2
Alike == Permutations(Channels) \cup Permutations(Requests)
=============================================================================
