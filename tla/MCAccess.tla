------------------------------ MODULE MCAccess ------------------------------
(* A small deployment, and two requests at a time.                          *)
EXTENDS Access, TLC

Alike == Permutations(Requests) \cup Permutations(Emails)
=============================================================================
