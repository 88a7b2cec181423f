---------------------------- MODULE MCSentinel ----------------------------
(***************************************************************************)
(* Instances of Sentinel for TLC.                                          *)
(***************************************************************************)
EXTENDS Sentinel, TLC

RequestSymmetry == Permutations(Requests)

(* The second task follows the first. *)
Chain == [t \in Tasks |-> IF t = 2 THEN {1} ELSE {}]
=============================================================================
