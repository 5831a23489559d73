----------------------------- MODULE Assignments -----------------------------
(***************************************************************************)
(* A task assignment given to a sub-agent: startAssignment and the closure  *)
(* it leaves behind, the queue of user messages, the routes that start and  *)
(* stop the assignment and talk to the sub-agent, and the two-hop bridge    *)
(* over which the closure's state reaches the task-tracking extension.      *)
(*                                                                         *)
(* The status of the assignment lives in two places: in the object each     *)
(* closure mutates (copy) and in the extension's storage row (stored), of   *)
(* which every route and every handler of the extension loads a copy of its *)
(* own and writes it back whole.  Reads and writes of the row are requests  *)
(* to one database and are answered in the order they were issued.          *)
(*                                                                         *)
(* A run is reduced to what the closure sees of it: RunLifecycle shows that *)
(* each reports a terminal event, possibly more than one (a cancelled run   *)
(* may still complete).                                                     *)
(***************************************************************************)
EXTENDS Naturals, Sequences

CONSTANTS
  Starts,      \* calls of the start route
  Nobody,      \* "no agentRunId"
  Autonomous,  \* the starts that opt in to autonomous continuation
  MaxCycles,   \* maxAutoCycles
  MaxMessages, \* bound: messages sent to the sub-agent
  MaxStops,    \* bound: calls of the stop route and of cancelRun
  MaxDrops     \* bound: notifications the dispatcher drops

ASSUME AssignmentsAssumption ==
  /\ Nobody \notin Starts
  /\ Autonomous \in SUBSET Starts
  /\ MaxCycles \in Nat /\ MaxMessages \in Nat /\ MaxStops \in Nat /\ MaxDrops \in Nat

VARIABLES
  stored,    \* the assignment in the extension's storage row
  copy,      \* per start: the assignment object of its closure
  cycle,     \* per start: autoCycle
  run,       \* per start: its current run, as the executor sees it
  listening, \* per start: the listeners of the current run are registered
  queue,     \* pending messages of the sub-conversation
  admitted,  \* agent-chat requests that found the sub-agent idle
  direct,    \* runs started by the agent-chat route itself
  bridge,    \* task:assignment_update events on their way to the extension
  requests,  \* reads and writes of the row, oldest first
  stop,      \* progress of the stop route
  taken,     \* observer: messages each start has taken from the queue
  budget     \* what is left of the bounds

closureVars == <<copy, cycle, run, listening, taken>>
vars == <<stored, closureVars, queue, admitted, direct, bridge, requests, stop, budget>>

Status   == {"assigned", "running", "completed", "failed"}
Finished == {"completed", "failed"}

\* An assignment: its status and its agentRunId, the n-th run of a start.
Assignment == [status : Status, by : Starts \cup {Nobody}, n : Nat]

Reset == [status |-> "assigned", by |-> Nobody, n |-> 0]

\* What travels on the bus: a reference to a closure's assignment, serialised
\* when it is dispatched, or the copy the stop route has reset.
Event == Starts \cup {Nobody}

\* Requests for the row.  `by` is the start or the route that issued it; an
\* update handler of the extension has read the payload it will merge.
ReadToStart(k)  == [op |-> "readToStart", by |-> k, value |-> Reset]
ReadToStop      == [op |-> "readToStop", by |-> Nobody, value |-> Reset]
ReadToMerge(a)  == [op |-> "readToMerge", by |-> Nobody, value |-> a]
Write(op, k, a) == [op |-> op, by |-> k, value |-> a]

Request == [op : {"readToStart", "readToStop", "readToMerge", "write", "writeStopped"},
            by : Starts \cup {Nobody}, value : Assignment]

Emit(k) == bridge' = Append(bridge, k)

\* The database answers in the order it is asked, as the embedded one does; on a
\* pool, requests of two handlers might overtake one another.
Serve(op) == requests # <<>> /\ Head(requests).op = op

\* A run getActiveRunForConversation finds in the sub-conversation.
Active == direct > 0 \/ \E k \in Starts : run[k] = "running"

-----------------------------------------------------------------------------
(***************************************************************************)
(* The start route.                                                        *)
(***************************************************************************)
StartRequested(k) ==
  /\ run[k] = "none"
  /\ run' = [run EXCEPT ![k] = "requested"]
  /\ requests' = Append(requests, ReadToStart(k))
  /\ UNCHANGED <<stored, copy, cycle, listening, taken, queue, admitted, direct, bridge,
                 stop, budget>>

\* 409 unless the assignment is "assigned".
StartLoaded ==
  LET k == Head(requests).by
  IN  /\ Serve("readToStart")
      /\ run' = [run EXCEPT ![k] = IF stored.status = "assigned" THEN "starting" ELSE "refused"]
      /\ requests' = Tail(requests)
      /\ UNCHANGED <<stored, copy, cycle, listening, taken, queue, admitted, direct,
                     bridge, stop, budget>>

\* startAssignment after its awaits: mutate, emit, startRun; then the route
\* writes its snapshot back.
StartAssignment(k) ==
  LET a == [status |-> "running", by |-> k, n |-> 1]
  IN  /\ run[k] = "starting"
      /\ run' = [run EXCEPT ![k] = "running"]
      /\ listening' = [listening EXCEPT ![k] = TRUE]
      /\ copy' = [copy EXCEPT ![k] = a]
      /\ Emit(k)
      /\ requests' = Append(requests, Write("write", k, a))
      /\ UNCHANGED <<stored, cycle, taken, queue, admitted, direct, stop, budget>>

-----------------------------------------------------------------------------
(***************************************************************************)
(* The closure: the listeners startRun registers for its run.              *)
(***************************************************************************)
\* startRun, from the run:complete listener: a new agentRunId, new listeners.
\* The run that has completed is forgotten.
NextRun(k) ==
  /\ copy' = [copy EXCEPT ![k].n = @ + 1]
  /\ run' = [run EXCEPT ![k] = "running"]
  /\ UNCHANGED listening

\* finalizeSuccess has set the run's status; the queued saves are awaited.
RunSaving(k) ==
  /\ run[k] = "running"
  /\ run' = [run EXCEPT ![k] = "saving"]
  /\ UNCHANGED <<stored, copy, cycle, listening, taken, queue, admitted, direct, bridge,
                 requests, stop, budget>>

Completes(k) == run[k] = "saving" /\ listening[k]

\* Mutant: the listener does not look whether dequeue returned a message.
ContinueWithMessageUnchecked(k) ==
  /\ Completes(k)
  /\ queue' = queue - 1
  /\ taken' = [taken EXCEPT ![k] = @ + 1]
  /\ NextRun(k)
  /\ Emit(k)
  /\ UNCHANGED <<stored, cycle, admitted, direct, requests, stop, budget>>

\* (1) run:complete with a user message pending.
ContinueWithMessage(k) ==
  /\ Completes(k) /\ queue > 0
  /\ queue' = queue - 1
  /\ taken' = [taken EXCEPT ![k] = @ + 1]
  /\ NextRun(k)
  /\ Emit(k)
  /\ UNCHANGED <<stored, cycle, admitted, direct, requests, stop, budget>>

\* Mutant: one cycle more than maxAutoCycles.
ContinueAutonomouslyOnceMore(k) ==
  /\ Completes(k) /\ queue = 0
  /\ k \in Autonomous /\ copy[k].status = "running" /\ cycle[k] <= MaxCycles
  /\ cycle' = [cycle EXCEPT ![k] = @ + 1]
  /\ NextRun(k)
  /\ Emit(k)
  /\ UNCHANGED <<stored, taken, queue, admitted, direct, requests, stop, budget>>

\* (2) run:complete without a done or blocked signal in the output.
ContinueAutonomously(k) ==
  /\ Completes(k) /\ queue = 0
  /\ k \in Autonomous /\ copy[k].status = "running" /\ cycle[k] < MaxCycles
  /\ cycle' = [cycle EXCEPT ![k] = @ + 1]
  /\ NextRun(k)
  /\ Emit(k)
  /\ UNCHANGED <<stored, taken, queue, admitted, direct, requests, stop, budget>>

\* The closure's last words: cleanup, the terminal status, the update.
Finish(k, s) ==
  /\ listening' = [listening EXCEPT ![k] = FALSE]
  /\ copy' = [copy EXCEPT ![k].status = s]
  /\ Emit(k)

\* Mutant: the end of an autonomous loop does not look at the queue.
RunCompletesDeaf(k) ==
  /\ Completes(k)
  /\ run' = [run EXCEPT ![k] = "over"]
  /\ Finish(k, "completed")
  /\ UNCHANGED <<stored, cycle, taken, queue, admitted, direct, requests, stop, budget>>

\* (3) run:complete: a signal, no cycle left, or no autonomy.
RunCompletes(k) ==
  /\ Completes(k) /\ queue = 0
  /\ run' = [run EXCEPT ![k] = "over"]
  /\ Finish(k, "completed")
  /\ UNCHANGED <<stored, cycle, taken, queue, admitted, direct, requests, stop, budget>>

\* Mutant: run:error marks the closure's assignment and emits nothing.
RunFailsSilently(k) ==
  /\ run[k] = "running" /\ listening[k]
  /\ run' = [run EXCEPT ![k] = "ending"]
  /\ listening' = [listening EXCEPT ![k] = FALSE]
  /\ copy' = [copy EXCEPT ![k].status = "failed"]
  /\ UNCHANGED <<stored, cycle, taken, queue, admitted, direct, bridge, requests, stop,
                 budget>>

\* run:error, of the run itself or of the watchdog, and the rejection of
\* streamChat (whose listeners stay registered, for a run that emits nothing
\* more).
RunFails(k) ==
  /\ run[k] = "running" /\ listening[k]
  /\ run' = [run EXCEPT ![k] = "ending"]
  /\ Finish(k, "failed")
  /\ UNCHANGED <<stored, cycle, taken, queue, admitted, direct, requests, stop, budget>>

\* Mutant: no listener for run:cancel.
RunCancelledUnheard(k) ==
  /\ run' = [run EXCEPT ![k] = "over"]
  /\ UNCHANGED <<listening, copy, bridge>>

\* Mutant: the run:cancel listener unsubscribes only itself.
RunCancelledKeepsListening(k) ==
  /\ run' = [run EXCEPT ![k] = "ending"]
  /\ UNCHANGED listening
  /\ copy' = [copy EXCEPT ![k].status = IF @ = "running" THEN "failed" ELSE @]
  /\ Emit(k)

\* run:cancel, emitted synchronously by cancelRun and heard by the closure.
RunCancelled(k) ==
  /\ run' = [run EXCEPT ![k] = "ending"]
  /\ IF copy[k].status = "running"
       THEN Finish(k, "failed")
       ELSE listening' = [listening EXCEPT ![k] = FALSE] /\ UNCHANGED <<copy, bridge>>

\* The run is cancelled by anybody but the stop route: the chat's own stop
\* button, a kill of the parent run.  (A force-cancel that finds the run no
\* longer running but its row still there emits run:error: the same end.)
CancelRun(k) ==
  /\ run[k] \in {"running", "saving"} /\ listening[k]
  /\ budget.stops > 0
  /\ budget' = [budget EXCEPT !.stops = @ - 1]
  /\ RunCancelled(k)
  /\ UNCHANGED <<stored, cycle, taken, queue, admitted, direct, requests, stop>>

\* A run that was cancelled or killed settles: it may complete all the same
\* (its run:complete then meets whatever listeners are left), or just return.
RunResolvesLate(k) ==
  /\ run[k] = "ending"
  /\ run' = [run EXCEPT ![k] = IF listening[k] THEN "saving" ELSE "over"]
  /\ UNCHANGED <<stored, copy, cycle, listening, taken, queue, admitted, direct, bridge,
                 requests, stop, budget>>

-----------------------------------------------------------------------------
(***************************************************************************)
(* The agent-chat route: queue behind a running run, or start one.         *)
(***************************************************************************)
Subconversation == \E k \in Starts : copy[k].n > 0

AgentChatQueues ==
  /\ Subconversation /\ Active /\ budget.messages > 0
  /\ budget' = [budget EXCEPT !.messages = @ - 1]
  /\ queue' = queue + 1
  /\ UNCHANGED <<stored, closureVars, admitted, direct, bridge, requests, stop>>

\* The agent is idle: load its configuration ...
AgentChatIdle ==
  /\ Subconversation /\ ~Active /\ budget.messages > 0
  /\ budget' = [budget EXCEPT !.messages = @ - 1]
  /\ admitted' = admitted + 1
  /\ UNCHANGED <<stored, closureVars, queue, direct, bridge, requests, stop>>

\* ... and start a run, whatever has been started in the meantime.
AgentChatStarts ==
  /\ admitted > 0
  /\ admitted' = admitted - 1
  /\ direct' = direct + 1
  /\ UNCHANGED <<stored, closureVars, queue, bridge, requests, stop, budget>>

\* Nobody looks at the queue when a run of the route ends.
DirectRunEnds ==
  /\ direct > 0
  /\ direct' = direct - 1
  /\ UNCHANGED <<stored, closureVars, queue, admitted, bridge, requests, stop,
                 budget>>

-----------------------------------------------------------------------------
(***************************************************************************)
(* The stop route.                                                         *)
(***************************************************************************)
StopRequested ==
  /\ stop # "reading" /\ stop # "writing" /\ budget.stops > 0
  /\ budget' = [budget EXCEPT !.stops = @ - 1]
  /\ stop' = "reading"
  /\ requests' = Append(requests, ReadToStop)
  /\ UNCHANGED <<stored, closureVars, queue, admitted, direct, bridge>>

\* 409 unless the assignment it has loaded is running.
StopRefused ==
  /\ Serve("readToStop") /\ stored.status # "running"
  /\ stop' = "refused"
  /\ requests' = Tail(requests)
  /\ UNCHANGED <<stored, closureVars, queue, admitted, direct, bridge, budget>>

\* cancelRun finds the stored agentRunId among the live runs.
Cancellable(k) ==
  /\ stored.by = k /\ copy[k].n = stored.n
  /\ run[k] \in {"running", "saving"} /\ listening[k]

\* cancelRun, with the listener it wakes, then the write of the copy the route
\* has reset.
StopLoaded ==
  /\ Serve("readToStop") /\ stored.status = "running"
  /\ stop' = "writing"
  /\ requests' = Append(Tail(requests), Write("writeStopped", Nobody, Reset))
  /\ \/ \E k \in Starts : Cancellable(k) /\ RunCancelled(k)
     \/ ~(\E k \in Starts : Cancellable(k)) /\ UNCHANGED <<copy, run, listening, bridge>>
  /\ UNCHANGED <<stored, cycle, taken, queue, admitted, direct, budget>>

\* The write is done: broadcast the update.
StopWritten ==
  /\ Serve("writeStopped")
  /\ stored' = Head(requests).value
  /\ requests' = Tail(requests)
  /\ stop' = "done"
  /\ Emit(Nobody)
  /\ UNCHANGED <<closureVars, queue, admitted, direct, budget>>

-----------------------------------------------------------------------------
(***************************************************************************)
(* The bridge: the dispatcher and the extension's handleAssignmentUpdate.   *)
(***************************************************************************)
\* dispatch serialises the assignment; the handler asks for the row.
Dispatch ==
  /\ bridge # <<>>
  /\ bridge' = Tail(bridge)
  /\ requests' = Append(requests,
       ReadToMerge(IF Head(bridge) = Nobody THEN Reset ELSE copy[Head(bridge)]))
  /\ UNCHANGED <<stored, closureVars, queue, admitted, direct, stop, budget>>

\* The rate limit is exhausted, or the subprocess is not running.
Drop ==
  /\ bridge # <<>> /\ budget.drops > 0
  /\ budget' = [budget EXCEPT !.drops = @ - 1]
  /\ bridge' = Tail(bridge)
  /\ UNCHANGED <<stored, closureVars, queue, admitted, direct, requests, stop>>

\* Object.assign(existing, incoming): the agentRunId the stop route has deleted
\* from its copy is no field of the update, and the one of the row stays.
Merged(a) == IF a.by = Nobody THEN [stored EXCEPT !.status = a.status] ELSE a

\* handleAssignmentUpdate has the row: skip a finished assignment, else save
\* the merged one.
Merge ==
  LET a == Merged(Head(requests).value)
  IN  /\ Serve("readToMerge")
      /\ requests' = IF stored.status \in Finished THEN Tail(requests)
                     ELSE Append(Tail(requests), Write("write", Nobody, a))
      /\ UNCHANGED <<stored, closureVars, queue, admitted, direct, bridge, stop, budget>>

\* A write of the start route or of the extension.
RowWritten ==
  /\ Serve("write")
  /\ stored' = Head(requests).value
  /\ requests' = Tail(requests)
  /\ UNCHANGED <<closureVars, queue, admitted, direct, bridge, stop, budget>>

-----------------------------------------------------------------------------
Init ==
  /\ stored = Reset
  /\ copy = [k \in Starts |-> Reset]
  /\ cycle = [k \in Starts |-> 0]
  /\ run = [k \in Starts |-> "none"]
  /\ listening = [k \in Starts |-> FALSE]
  /\ taken = [k \in Starts |-> 0]
  /\ queue = 0 /\ admitted = 0 /\ direct = 0
  /\ bridge = <<>> /\ requests = <<>>
  /\ stop = "idle"
  /\ budget = [messages |-> MaxMessages, stops |-> MaxStops, drops |-> MaxDrops]

\* What a run does by itself.
RunStep(k) ==
  \/ RunSaving(k) \/ ContinueWithMessage(k) \/ ContinueAutonomously(k)
  \/ RunCompletes(k) \/ RunFails(k) \/ RunResolvesLate(k)

Row == StartLoaded \/ StopRefused \/ StopLoaded \/ StopWritten \/ Merge \/ RowWritten

Next ==
  \/ \E k \in Starts :
       StartRequested(k) \/ StartAssignment(k) \/ RunStep(k) \/ CancelRun(k)
  \/ AgentChatQueues \/ AgentChatIdle \/ AgentChatStarts \/ DirectRunEnds
  \/ StopRequested
  \/ Dispatch \/ Drop \/ Row

Spec == Init /\ [][Next]_vars

\* The database answers, the dispatcher delivers, a run settles.
Fairness ==
  /\ \A k \in Starts : WF_vars(RunStep(k)) /\ WF_vars(StartAssignment(k))
  /\ WF_vars(DirectRunEnds)
  /\ WF_vars(Dispatch)
  /\ WF_vars(Row)

FairSpec == Spec /\ Fairness

-----------------------------------------------------------------------------
TypeOK ==
  /\ stored \in Assignment
  /\ copy \in [Starts -> Assignment]
  /\ cycle \in [Starts -> Nat]
  /\ run \in [Starts -> {"none", "requested", "refused", "starting", "running",
                         "saving", "ending", "over"}]
  /\ listening \in [Starts -> BOOLEAN]
  /\ taken \in [Starts -> Nat]
  /\ queue \in Nat /\ admitted \in Nat /\ direct \in Nat
  /\ bridge \in Seq(Event)
  /\ requests \in Seq(Request)
  /\ stop \in {"idle", "reading", "refused", "writing", "done"}
  /\ budget \in [messages : Nat, stops : Nat, drops : Nat]

\* However messages, cancels and late completions fall, a start runs its
\* sub-agent no more often than once, once per autonomous cycle and
\* once per user message it has taken (autoCycle < maxAutoCycles).
LoopBounded == \A k \in Starts : copy[k].n <= 1 + MaxCycles + taken[k]

\* "A stopped/cancelled run never re-loops" (start-assignment.ts): once the
\* closure has recorded an end, no late event of its run changes it.
EndIsFinal ==
  [][\A k \in Starts : copy[k].status \in Finished => copy'[k] = copy[k]]_vars

Quiet ==
  /\ bridge = <<>> /\ requests = <<>>
  /\ \A k \in Starts : run[k] \in {"none", "refused", "ending", "over"}

\* With a single start, nobody calling Stop, nothing dropped and a database that
\* answers in the order it is asked (Serve), the row ends up as the closure left
\* it, although updates are dispatched by reference and merged by handlers that
\* read and write the row in separate steps.
RowConverges ==
  \A k \in Starts :
    Quiet /\ stop = "idle" /\ budget.drops = MaxDrops /\ copy[k].n > 0
          /\ (\A j \in Starts \ {k} : copy[j].n = 0)
      => stored = copy[k]

\* A message is queued "for auto-continue after run completes" (agent-chat
\* route).  With a single start, one is left behind only by a run that failed
\* or was cancelled, or when the route has also been running turns of its own.
MessagesTaken ==
  \A k \in Starts :
    /\ queue > 0 /\ copy[k].n > 0 /\ ~listening[k]
    /\ \A j \in Starts \ {k} : copy[j].n = 0
    => copy[k].status = "failed" \/ MaxMessages - budget.messages > queue + taken[k]

\* An assignment the closure shows as running comes to an end; a cancel that
\* nobody hears would leave it "stuck in running forever" (start-assignment.ts).
StartEnds ==
  \A k \in Starts : copy[k].status = "running" ~> copy[k].status \in Finished

\* Stop "resets the assignment back to assigned so the Start/Resume button
\* re-appears" (stop/+server.ts): once everything has settled, with no other
\* start, it is assigned.
StopResumable ==
  \A k \in Starts :
    Quiet /\ stop = "done" /\ (\A j \in Starts \ {k} : run[j] = "none")
      => stored.status = "assigned"
=============================================================================
