----------------------------- MODULE MCGoalHost -----------------------------
(* TLC instance of GoalHost: a few POSTs, two runs at once. *)
EXTENDS GoalHost
=============================================================================
