--------------------------- MODULE MCRunLifecycle ---------------------------
(* TLC instances of RunLifecycle. *)
EXTENDS RunLifecycle, TLC

CONSTANTS r1, r2, c1

\* Two runs of one conversation: a permission gate or an active row of one
\* is seen by the other.
OneConv == [r \in Runs |-> c1]

Symmetric == Permutations(Runs)
=============================================================================
