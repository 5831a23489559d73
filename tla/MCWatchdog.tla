----------------------------- MODULE MCWatchdog -----------------------------
(* TLC instances of Watchdog.  The unit is 7.5 s: the tick of 15 s is 2. *)
EXTENDS Watchdog

CONSTANTS read, ask

\* `read` times out after three units; `ask` waits for the user.
CallTimeouts == [t \in Tools |-> IF t = ask THEN 1 ELSE 3]
=============================================================================
