---------------------------- MODULE MCAssignments ----------------------------
(* TLC instances of Assignments. *)
EXTENDS Assignments

CONSTANT s1
=============================================================================
