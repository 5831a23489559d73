-------------------------- MODULE MCScheduleDaemon --------------------------
(* TLC instance of ScheduleDaemon: one cron with a slot every minute. *)
EXTENDS ScheduleDaemon

EveryMinute == [s \in Schedules |-> 1]
=============================================================================
