------------------------------ MODULE GoalHost ------------------------------
(***************************************************************************)
(* The /goal autopilot of one conversation (goal-host.ts) and the POST of    *)
(* the messages route that drives it.  A goal is the number of its set; 0 is *)
(* no goal.  Handlers of ended runs and POSTs interleave at every await.     *)
(* lastReason, token counts, cards and inFlightRunId are only reported and   *)
(* are left out.                                                             *)
(***************************************************************************)
EXTENDS Naturals, Sequences, FiniteSets

CONSTANTS
  MaxPosts,    \* bound: POSTs of the user
  MaxSlots,    \* bound: runs of the conversation alive or being handled at once
  MAX_TURNS,   \* maxGoalTurns
  THRESHOLD,   \* EVALUATOR_FAILURE_THRESHOLD
  MaxGoals,    \* bound: goals set
  MaxUpsets    \* bound: rejected statements, restarts and queued messages, together

ASSUME GoalAssumption ==
  /\ MaxPosts \in Nat /\ MaxSlots \in Nat \ {0}
  /\ MAX_TURNS \in Nat \ {0} /\ THRESHOLD \in Nat \ {0}
  /\ MaxGoals \in Nat /\ MaxUpsets \in Nat

VARIABLES
  stored,   \* conversations.metadata.goal
  recs,     \* the GoalRecord objects of this process, oldest first
  map,      \* records.get(conversation): an index of recs, 0 when absent
  run,      \* per slot: a run, or the handler of its end
  post,     \* per POST: where it is
  sweep,    \* bootSweep: "scan", "apply" or "done", and the goal it read
  pending,  \* messages in the pending queue
  goals, upsets,
  dropped,  \* observer: goals cleared, achieved, capped or replaced
  held,     \* observer: those that a handler of another run had read at that time
  parked    \* observer: why an active goal may have no run to wait for: "no" reason; "parked"
            \* since the last run; "unstarted": the last run was rejected before it began;
            \* "raced": the end of a goal overlapped a handler or a command, or a
            \* rehydration was rejected

Posts == 1 .. MaxPosts
Slots == 1 .. MaxSlots

memory    == <<recs, map, sweep, pending>>
counters  == <<goals, upsets>>
observers == <<dropped, held, parked>>
vars == <<stored, memory, run, post, counters, observers>>

Free    == [pc |-> "free", goal |-> 0, rec |-> 0, achieved |-> FALSE]
NewPost  == [pc |-> "new", kind |-> "chat", goal |-> 0]
DonePost == [NewPost EXCEPT !.pc = "done"]

\* A record as set, bootSweep and ensureGoalRecordRehydrated create it; starts
\* counts the continuations started from it, up to the cap (an observer).
FreshRecord == [status |-> "active", turns |-> 0, failures |-> 0, starts |-> 0]

Kinds == {"chat", "set", "clear"}
RunPcs == {"free", "running", "completeRead", "completeCheck", "evaluating", "mirror", "delete",
           "drop", "reread", "guard", "terminalRead", "terminalCheck", "pauseWrite"}
PostPcs == {"new", "rehydrate", "dispatch", "setRecord", "turn", "clearDelete", "clearDrop", "done"}

\* Indices name records and the observers goals that were set.
TypeOK ==
  /\ stored \in 0 .. MaxGoals
  /\ recs \in Seq([status : {"active", "paused"}, turns : Nat, failures : 0 .. THRESHOLD,
                   starts : 0 .. MAX_TURNS])
  /\ map \in 0 .. Len(recs)
  /\ run \in [Slots -> [pc : RunPcs, goal : 0 .. MaxGoals, rec : 0 .. Len(recs), achieved : BOOLEAN]]
  /\ post \in [Posts -> [pc : PostPcs, kind : Kinds, goal : 0 .. MaxGoals]]
  /\ sweep \in [pc : {"scan", "apply", "done"}, goal : 0 .. MaxGoals]
  /\ pending \in 0 .. MaxUpsets
  /\ goals \in 0 .. MaxGoals /\ upsets \in 0 .. MaxUpsets
  /\ dropped \in SUBSET (1 .. MaxGoals) /\ held \in SUBSET (1 .. MaxGoals)
  /\ parked \in {"no", "parked", "unstarted", "raced"}

\* A conversation without a goal and without a run.
Init ==
  /\ stored = 0 /\ recs = << >> /\ map = 0
  /\ run = [s \in Slots |-> Free]
  /\ post = [p \in Posts |-> NewPost]
  /\ sweep = [pc |-> "done", goal |-> 0] /\ pending = 0
  /\ goals = 0 /\ upsets = 0
  /\ dropped = {} /\ held = {} /\ parked = "no"

----------------------------------------------------------------------------
(* Persistence and records *)

\* A handler that read goal g and may still write it.
Holds(s, g) ==
  /\ run[s].goal = g
  /\ run[s].pc \in {"completeCheck", "evaluating", "mirror", "terminalCheck", "pauseWrite"}

Handling(s)  == run[s].pc \notin {"free", "running"}
Commanded(p) == post[p].pc \in {"setRecord", "clearDelete", "clearDrop"}

\* The goal stored until now ends, at the hands of the handler in slot s0 or of
\* POST p0 (the other is 0).
Ends(s0, p0) ==
  /\ dropped' = IF stored = 0 THEN dropped ELSE dropped \cup {stored}
  /\ held' = IF stored # 0 /\ \E s \in Slots \ {s0} : Holds(s, stored)
             THEN held \cup {stored} ELSE held
  /\ parked' = IF \/ \E s \in Slots \ {s0} : Handling(s)
                  \/ \E p \in Posts \ {p0} : Commanded(p)
                  \/ sweep.pc = "apply"
               THEN "raced" ELSE parked

Parks   == parked' = IF parked = "raced" THEN "raced" ELSE "parked"
Unparks == parked' = IF parked = "raced" THEN "raced" ELSE "no"

\* writePersistedGoal and deletePersistedGoal reread the metadata bag; for the
\* goal key they are one write.
writeGoal(g) == stored' = g
deleteGoal   == stored' = 0

\* Mutant: the map names a record that is not made.
setRecordUnmade == map' = Len(recs) + 1 /\ UNCHANGED recs

setRecord == recs' = Append(recs, FreshRecord) /\ map' = Len(recs) + 1

isGoalArmed(g, k) == g # 0 /\ k # 0 /\ recs[k].status = "active"

\* streamChat of a fresh run, up to its first await (see RunRejects); slots are
\* alike, so it takes the first free one.
StartRun(s) ==
  /\ run[s].pc = "free" /\ \A t \in Slots : t < s => run[t].pc # "free"
  /\ run' = [run EXCEPT ![s] = [Free EXCEPT !.pc = "running"]]

----------------------------------------------------------------------------
(* The messages route *)

\* A POST arrives (they are numbered as they come); ensureGoalRecordRehydrated reads the goal.
PostArrives(p, kind) ==
  /\ post[p].pc = "new" /\ \A q \in Posts : q < p => post[q].pc # "new"
  /\ post' = [post EXCEPT ![p] = [pc |-> "rehydrate", kind |-> kind, goal |-> stored]]
  /\ UNCHANGED <<stored, memory, run, counters, observers>>

\* ... and goes on: a missing record is rebuilt, and a paused one resumed
\* unless the POST is a /goal command.
Rehydrate(p) ==
  /\ post[p].pc = "rehydrate"
  /\ post' = [post EXCEPT ![p].pc = "dispatch", ![p].goal = 0]
  /\ \/ post[p].goal = 0 /\ UNCHANGED <<recs, map, parked>>
     \/ post[p].goal # 0 /\ map = 0 /\ setRecord /\ Parks
     \/ /\ post[p].goal # 0 /\ map # 0
        /\ recs' = [recs EXCEPT ![map].status = IF post[p].kind = "chat" THEN "active" ELSE @]
        /\ UNCHANGED <<map, parked>>
  /\ UNCHANGED <<stored, run, sweep, pending, counters, dropped, held>>

\* The read is rejected: the route goes on with the record as it is.
RehydrateThrows(p) ==
  /\ post[p].pc = "rehydrate"
  /\ upsets < MaxUpsets /\ upsets' = upsets + 1
  /\ post' = [post EXCEPT ![p].pc = "dispatch", ![p].goal = 0]
  /\ parked' = "raced"
  /\ UNCHANGED <<stored, memory, run, goals, dropped, held>>

\* handleSet: metadata.goal first ...
SetWrites(p) ==
  /\ post[p].pc = "dispatch" /\ post[p].kind = "set" /\ goals < MaxGoals
  /\ goals' = goals + 1
  /\ writeGoal(goals + 1)
  /\ Ends(0, p)
  /\ post' = [post EXCEPT ![p].pc = "setRecord"]
  /\ UNCHANGED <<memory, run, upsets>>

\* ... then the record, which replaces any other.
SetRecords(p) ==
  /\ post[p].pc = "setRecord"
  /\ setRecord
  /\ post' = [post EXCEPT ![p].pc = "turn"]
  /\ UNCHANGED <<stored, sweep, pending, run, counters, observers>>

\* The turn of a set or of an ordinary message.
PostStartsTurn(p) ==
  /\ \/ post[p].pc = "turn"
     \/ post[p].pc = "dispatch" /\ post[p].kind = "chat"
  /\ \E s \in Slots : StartRun(s)
  /\ post' = [post EXCEPT ![p] = DonePost]
  /\ Unparks
  /\ UNCHANGED <<stored, memory, counters, dropped, held>>

\* A POST that starts no turn: rejected attachments, an EZ action alone, a
\* condition that is too long, /goal as a status query.
PostEndsEarly(p) ==
  /\ post[p].pc = "dispatch"
  /\ post' = [post EXCEPT ![p] = DonePost]
  /\ Parks
  /\ UNCHANGED <<stored, memory, run, counters, dropped, held>>

\* handleClear reads the goal ...
ClearReads(p) ==
  /\ post[p].pc = "dispatch" /\ post[p].kind = "clear"
  /\ post' = [post EXCEPT ![p] = IF stored = 0 THEN DonePost ELSE [@ EXCEPT !.pc = "clearDelete"]]
  /\ UNCHANGED <<stored, memory, run, counters, observers>>

\* Mutant: /goal clear drops the record only.
ClearKeepsStored(p) ==
  /\ post[p].pc = "clearDelete"
  /\ Ends(0, p)
  /\ post' = [post EXCEPT ![p].pc = "clearDrop"]
  /\ UNCHANGED <<stored, memory, run, counters>>

\* ... deletes it ...
ClearDeletes(p) ==
  /\ post[p].pc = "clearDelete"
  /\ deleteGoal
  /\ Ends(0, p)
  /\ post' = [post EXCEPT ![p].pc = "clearDrop"]
  /\ UNCHANGED <<memory, run, counters>>

\* ... and drops the record.
ClearDrops(p) ==
  /\ post[p].pc = "clearDrop"
  /\ map' = 0
  /\ post' = [post EXCEPT ![p] = DonePost]
  /\ UNCHANGED <<stored, recs, sweep, pending, run, counters, observers>>

\* A statement of the POST is rejected: of a command, or the insert of the
\* user's message.
PostThrows(p) ==
  /\ post[p].pc \in {"dispatch", "turn", "clearDelete"}
  /\ upsets < MaxUpsets /\ upsets' = upsets + 1
  /\ post' = [post EXCEPT ![p] = DonePost]
  /\ Parks
  /\ UNCHANGED <<stored, memory, run, goals, dropped, held>>

\* The agent-chat route queues a message behind a run.
AgentChatQueues ==
  /\ upsets < MaxUpsets /\ \E s \in Slots : run[s].pc = "running"
  /\ upsets' = upsets + 1 /\ pending' = pending + 1
  /\ UNCHANGED <<stored, recs, map, sweep, run, post, goals, observers>>

----------------------------------------------------------------------------
(* run:complete *)

To(s, pc) == run' = [run EXCEPT ![s].pc = pc]
Done(s)   == run' = [run EXCEPT ![s] = Free]

\* insertRun rejects: streamChat ends before run:start, without an event, and
\* the promise's rejection is only logged, by the route and by the handler.
RunRejects(s) ==
  /\ run[s].pc = "running"
  /\ upsets < MaxUpsets /\ upsets' = upsets + 1
  /\ Done(s)
  /\ parked' = IF parked = "raced" THEN "raced" ELSE "unstarted"
  /\ UNCHANGED <<stored, memory, post, goals, dropped, held>>

RunCompletes(s) ==
  /\ run[s].pc = "running"
  /\ To(s, "completeRead")
  /\ UNCHANGED <<stored, memory, post, counters, observers>>

\* onRunComplete: the goal is read ...
ReadGoal(s) ==
  /\ run[s].pc \in {"completeRead", "terminalRead"}
  /\ run' = [run EXCEPT ![s].goal = stored,
                        ![s].pc = IF @ = "completeRead" THEN "completeCheck" ELSE "terminalCheck"]
  /\ UNCHANGED <<stored, memory, post, counters, observers>>

\* Mutant: the cap is compared with one turn too many.
CheckTurnLate(s) ==
  /\ run[s].pc = "completeCheck"
  /\ \/ ~isGoalArmed(run[s].goal, map) /\ Done(s) /\ UNCHANGED <<recs, pending, parked>>
     \/ /\ isGoalArmed(run[s].goal, map) /\ pending = 0
        /\ recs' = [recs EXCEPT ![map].turns = @ + 1]
        /\ run' = [run EXCEPT ![s].rec = map,
                              ![s].pc = IF recs'[map].turns > MAX_TURNS THEN "delete" ELSE "evaluating"]
        /\ UNCHANGED <<pending, parked>>
  /\ UNCHANGED <<stored, map, sweep, post, counters, dropped, held>>

\* ... and the record fetched: the turn is counted, a pending message
\* supersedes the evaluation, and the cap ends the goal.
CheckTurn(s) ==
  /\ run[s].pc = "completeCheck"
  /\ \/ ~isGoalArmed(run[s].goal, map) /\ Done(s) /\ UNCHANGED <<recs, pending, parked>>
     \/ /\ isGoalArmed(run[s].goal, map)
        /\ recs' = [recs EXCEPT ![map].turns = @ + 1]
        /\ \/ /\ pending > 0
              /\ pending' = pending - 1 /\ Parks
              /\ Done(s)
           \/ /\ pending = 0
              /\ run' = [run EXCEPT ![s].rec = map,
                                    ![s].pc = IF recs'[map].turns >= MAX_TURNS
                                              THEN "delete" ELSE "evaluating"]
              /\ UNCHANGED <<pending, parked>>
  /\ UNCHANGED <<stored, map, sweep, post, counters, dropped, held>>

\* pauseRecord, up to its write.
Pause(s, k) ==
  /\ recs' = [recs EXCEPT ![k].status = "paused"]
  /\ To(s, "pauseWrite")

\* The transcript, the sentinel and the evaluator: no transcript or no model,
\* a verdict, or an answer that cannot be parsed (or a timeout).
Evaluate(s, outcome) ==
  LET k == run[s].rec IN
  /\ run[s].pc = "evaluating"
  /\ \/ outcome = "unavailable" /\ Pause(s, k)
     \/ /\ outcome = "unparseable" /\ recs[k].failures + 1 >= THRESHOLD
        /\ recs' = [recs EXCEPT ![k].failures = THRESHOLD, ![k].status = "paused"]
        /\ To(s, "pauseWrite")
     \/ /\ outcome = "unparseable" /\ recs[k].failures + 1 < THRESHOLD
        /\ recs' = [recs EXCEPT ![k].failures = @ + 1]
        /\ To(s, "mirror")
     \/ /\ outcome \in {"achieved", "continue"}
        /\ recs' = [recs EXCEPT ![k].failures = 0]
        /\ run' = [run EXCEPT ![s].pc = "mirror", ![s].achieved = outcome = "achieved"]
  /\ UNCHANGED <<stored, map, sweep, pending, post, counters, observers>>

\* The reason is mirrored into metadata.goal, with the goal as read.
MirrorReason(s) ==
  /\ run[s].pc = "mirror"
  /\ writeGoal(run[s].goal)
  /\ run' = [run EXCEPT ![s].pc = IF run[s].achieved THEN "delete" ELSE "reread",
                        ![s].goal = 0, ![s].achieved = FALSE]
  /\ UNCHANGED <<memory, post, counters, observers>>

\* Achieved, or capped: metadata.goal is deleted ...
GoalEnds(s) ==
  /\ run[s].pc = "delete"
  /\ deleteGoal
  /\ Ends(s, 0)
  /\ To(s, "drop")
  /\ UNCHANGED <<memory, post, counters>>

\* ... and the record dropped.
GoalDrops(s) ==
  /\ run[s].pc = "drop"
  /\ map' = 0
  /\ Done(s)
  /\ UNCHANGED <<stored, recs, sweep, pending, post, counters, observers>>

\* The re-entry guard reads the goal again ...
Reread(s) ==
  /\ run[s].pc = "reread"
  /\ run' = [run EXCEPT ![s].goal = stored, ![s].pc = "guard"]
  /\ UNCHANGED <<stored, memory, post, counters, observers>>

\* Mutant: the handler waits for an armed goal instead of giving up.
ReenterWaits(s) ==
  /\ run[s].pc = "guard" /\ isGoalArmed(run[s].goal, run[s].rec)
  /\ run' = [run EXCEPT ![s] = [Free EXCEPT !.pc = "running"]]
  /\ UNCHANGED <<stored, memory, post, counters, observers>>

\* ... and, against the record fetched at the start, starts the continuation
\* (which takes the slot of the run that is over, and may be rejected).
Reenter(s) ==
  /\ run[s].pc = "guard"
  /\ \/ ~isGoalArmed(run[s].goal, run[s].rec) /\ Done(s) /\ UNCHANGED <<recs, parked>>
     \/ /\ isGoalArmed(run[s].goal, run[s].rec)
        /\ recs' = [recs EXCEPT ![run[s].rec].starts = IF @ < MAX_TURNS THEN @ + 1 ELSE @]
        /\ run' = [run EXCEPT ![s] = [Free EXCEPT !.pc = "running"]]
        /\ Unparks
  /\ UNCHANGED <<stored, map, sweep, pending, post, counters, dropped, held>>

----------------------------------------------------------------------------
(* run:error and run:cancel *)

RunFails(s) ==
  /\ run[s].pc = "running"
  /\ To(s, "terminalRead")
  /\ UNCHANGED <<stored, memory, post, counters, observers>>

\* Mutant: a failed or cancelled run leaves the goal active.
CheckTerminalKeeps(s) ==
  /\ run[s].pc = "terminalCheck"
  /\ Done(s)
  /\ UNCHANGED <<stored, memory, post, counters, observers>>

\* onRunTerminal pauses an armed goal.
CheckTerminal(s) ==
  /\ run[s].pc = "terminalCheck"
  /\ \/ ~isGoalArmed(run[s].goal, map) /\ Done(s) /\ UNCHANGED recs
     \/ isGoalArmed(run[s].goal, map) /\ Pause(s, map)
  /\ UNCHANGED <<stored, map, sweep, pending, post, counters, observers>>

\* The write of pauseRecord.
PauseWrites(s) ==
  /\ run[s].pc = "pauseWrite"
  /\ writeGoal(run[s].goal)
  /\ Done(s)
  /\ UNCHANGED <<memory, post, counters, observers>>

\* A statement of a handler is rejected: the handler is over, its error logged.
HandlerThrows(s) ==
  /\ run[s].pc \in {"completeRead", "terminalRead", "mirror", "delete", "reread", "pauseWrite"}
  /\ upsets < MaxUpsets /\ upsets' = upsets + 1
  /\ Done(s)
  /\ Parks
  /\ UNCHANGED <<stored, memory, post, goals, dropped, held>>

----------------------------------------------------------------------------
(* Restart *)

\* The process is restarted; start() subscribes and begins the boot sweep.
Restart ==
  /\ upsets < MaxUpsets /\ upsets' = upsets + 1
  /\ recs' = << >> /\ map' = 0 /\ pending' = 0
  /\ run' = [s \in Slots |-> Free]
  /\ post' = [p \in Posts |-> IF post[p].pc = "new" THEN NewPost ELSE DonePost]
  /\ sweep' = [pc |-> "scan", goal |-> 0]
  /\ Parks
  /\ UNCHANGED <<stored, goals, dropped, held>>

SweepScans ==
  /\ sweep.pc = "scan"
  /\ sweep' = [pc |-> "apply", goal |-> stored]
  /\ UNCHANGED <<stored, recs, map, pending, run, post, counters, observers>>

\* bootSweep sets a fresh record, whatever the map holds by then.
SweepApplies ==
  /\ sweep.pc = "apply"
  /\ sweep' = [pc |-> "done", goal |-> 0]
  /\ \/ sweep.goal = 0 /\ UNCHANGED <<recs, map, parked>>
     \/ sweep.goal # 0 /\ setRecord /\ Parks
  /\ UNCHANGED <<stored, pending, run, post, counters, dropped, held>>

----------------------------------------------------------------------------
PostStep(p) ==
  \/ Rehydrate(p) \/ SetWrites(p) \/ SetRecords(p) \/ PostStartsTurn(p)
  \/ PostEndsEarly(p) \/ ClearReads(p) \/ ClearDeletes(p) \/ ClearDrops(p)

Outcomes == {"unavailable", "unparseable", "achieved", "continue"}

HandlerStep(s) ==
  \/ ReadGoal(s) \/ CheckTurn(s) \/ MirrorReason(s) \/ GoalEnds(s) \/ GoalDrops(s)
  \/ Reread(s) \/ Reenter(s) \/ CheckTerminal(s) \/ PauseWrites(s)
  \/ \E outcome \in Outcomes : Evaluate(s, outcome)

RunEnds(s) == RunCompletes(s) \/ RunFails(s)

Next ==
  \/ \E p \in Posts : PostStep(p) \/ PostThrows(p) \/ RehydrateThrows(p)
                     \/ \E kind \in Kinds : PostArrives(p, kind)
  \/ \E s \in Slots : HandlerStep(s) \/ RunEnds(s) \/ RunRejects(s) \/ HandlerThrows(s)
  \/ AgentChatQueues
  \/ Restart \/ SweepScans \/ SweepApplies

\* Awaits return, POSTs finish, and every run that was not rejected ends and
\* says so (RunLifecycle).
Fairness ==
  /\ \A p \in Posts : WF_vars(PostStep(p))
  /\ \A s \in Slots : WF_vars(HandlerStep(s)) /\ WF_vars(RunEnds(s))
  /\ WF_vars(SweepScans) /\ WF_vars(SweepApplies)

Spec == Init /\ [][Next]_vars /\ Fairness

----------------------------------------------------------------------------
Busy == (\E s \in Slots : run[s].pc # "free")
        \/ (\E p \in Posts : post[p].pc \notin {"new", "done"})
        \/ sweep.pc # "done"

\* A goal that was cleared, replaced, achieved or capped does not come back,
\* except through a handler that had read it before: its mirror of the reason
\* writes the goal again.
EndedGoalStaysEnded ==
  stored \in dropped => stored \in held

\* The loop of one record starts fewer continuations than the turn cap,
\* however many runs of the conversation end at the same time.
ContinuationsBounded ==
  \A k \in DOMAIN recs : recs[k].starts < MAX_TURNS

\* An armed goal never stalls in silence: when nothing of the conversation is
\* in flight, an active goal has been parked by a restart, a queued message,
\* a POST without a turn or a rejected statement, its last run was rejected
\* before it began, or it was lost in a race of commands and handlers.
NoSilentStall ==
  stored # 0 /\ ~Busy /\ (map = 0 \/ recs[map].status = "active") => parked # "no"

\* Every loop comes to rest: the conversation is again and again without a
\* run, a handler or a command in flight.
LoopComesToRest == []<>(~Busy)
=============================================================================
