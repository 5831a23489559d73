---------------------------- MODULE RunLifecycle ----------------------------
(***************************************************************************)
(* The life of a chat run, from AgentExecutor.streamChat to the last row    *)
(* it leaves behind.  A run is represented three times:                     *)
(*                                                                         *)
(*   - in memory, by the AgentRun object (status) and the executor's maps   *)
(*     (runs, controllers, runConversations, activeAgents) and those of     *)
(*     the watchdog (heartbeats, errorMessagePersisted);                    *)
(*   - in the table `runs`, its durable mirror;                             *)
(*   - in the table `active_runs`, the crash-recovery row.                  *)
(*                                                                         *)
(* streamChat, cancelRun, the watchdog tick, the orphan sweep, the route    *)
(* that force-cancels a run and a crash with the restart that follows all   *)
(* write these representations, most of them through statements nobody      *)
(* waits for.  The JavaScript event loop runs one of them at a time up to   *)
(* its next await, so an action below is the code between two awaits, and   *)
(* a database statement takes effect in a step of its own.                  *)
(*                                                                         *)
(* The executor is modelled with persist = true, the production setting.    *)
(***************************************************************************)
EXTENDS Naturals, Sequences, SequencesExt

CONSTANTS
  Runs,          \* run ids
  Convs,         \* conversation ids
  ConvOf,        \* the conversation each run belongs to
  MAX_RUNS,      \* capacity of the executor's `runs` map
  OrderedDB,     \* TRUE: embedded PGlite, one FIFO of statements;
                 \* FALSE: a Postgres pool, statements overtake one another
  MaxCancels,    \* bound: calls of cancelRun and of the force-cancel route
  MaxFailures,   \* bound: statements the database rejects
  MaxCrashes,    \* bound: crashes of the process
  MaxGates,      \* bound: tool calls and permission gates opened
  MaxHangs       \* bound: awaits that hang

ASSUME RunLifecycleAssumption ==
  /\ ConvOf \in [Runs -> Convs]
  /\ MAX_RUNS \in Nat \ {0}
  /\ OrderedDB \in BOOLEAN
  /\ MaxCancels \in Nat /\ MaxFailures \in Nat
  /\ MaxCrashes \in Nat /\ MaxGates \in Nat /\ MaxHangs \in Nat

VARIABLES
  up,         \* the process is running
  pc,         \* where each streamChat call is suspended
  wedged,     \* the await a call is suspended at never settles by itself
  status,     \* run.status of the AgentRun object
  ctrl,       \* the run's entry in controllers (and runConversations)
  agent,      \* the run has an entry in activeAgents
  order,      \* the `runs` map in insertion order
  timer,      \* the watchdog interval of the run is armed
  gate,       \* what the run waits for: a tool, a permission, the user
  slot,       \* errorMessagePersisted
  posting,    \* persistErrorMessage calls under way, per run
  bubbles,    \* error messages stored in the conversation, per run
  events,     \* terminal events emitted on the bus, per run
  db,         \* statements issued and not yet executed
  awaits,     \* the statement the streamChat call awaits
  runsRow,    \* status column of the run's `runs` row
  activeRow,  \* status column of the run's `active_runs` row
  stale,      \* rows whose last_heartbeat is older than 5 minutes
  sweep,      \* progress of cleanupOrphans
  visited,    \* controllers the sweep has looked at
  budget      \* what is left of the bounds

memVars    == <<pc, wedged, status, ctrl, agent, order, timer, gate>>
bubbleVars == <<slot, posting, bubbles>>
rowVars    == <<runsRow, activeRow, stale>>
sweepVars  == <<sweep, visited>>
vars == <<up, memVars, bubbleVars, events, db, awaits, rowVars, sweepVars, budget>>

(***************************************************************************)
(* Vocabulary.                                                             *)
(***************************************************************************)
Terminal == {"success", "error", "cancelled"}

\* Suspension points of streamChat, in the order they are reached.
Setup    == {"inserting", "setup", "armed"}
Saving   == {"saving", "savingPartial", "postingError"}
Closing  == {"updating", "releasing", "updatingSetup", "markingSetup"}
PC == {"idle", "streaming", "postingSetupError", "returned", "rejected", "dead"}
        \cup Setup \cup Saving \cup Closing

Ops == {"insertRun", "updateRun", "finalizeRunRow", "terminalizeOrphanedRuns",
        "createActiveRun", "markInterrupted", "deleteActiveRun",
        "interruptAllRuns", "cleanupOrphanedRuns", "scan", "forceCancel",
        "forceInterrupt"}

\* A statement: the rows it addresses, the status it writes, and whether the
\* streamChat call of its (single) run is suspended on it.
Statement == [op : Ops, on : SUBSET Runs, as : Terminal \cup {"running"},
              awaited : BOOLEAN]

Stmt(op, rows, as)   == [op |-> op, on |-> rows, as |-> as, awaited |-> FALSE]
Awaited(op, r, as)   == [op |-> op, on |-> {r}, as |-> as, awaited |-> TRUE]

SameConv(r) == {q \in Runs : ConvOf[q] = ConvOf[r]}

InMap(r) == \E i \in DOMAIN order : order[i] = r

\* getActiveRunForConversation: the runs it may return for r's conversation.
GetActiveRunForConversation(r) ==
  {q \in SameConv(r) : ctrl[q] # "none" /\ InMap(q) /\ status[q] = "running"}

\* storeRun: append, then drop the oldest entry when the map is over capacity,
\* whether or not that run is still running.
StoreRun(r) ==
  LET s == Append(order, r)
  IN  IF Len(s) > MAX_RUNS THEN Tail(s) ELSE s

Emit(r, e) == events' = [events EXCEPT ![r] = @ \cup {e}]

(***************************************************************************)
(* deferralReason: the idle kill waits for an open permission gate of the   *)
(* conversation, a tool within its call timeout, a tool that asks the user. *)
(***************************************************************************)
\* Mutant: a tool past its call timeout defers the kill for good.
DeferralReasonForever(r) ==
  \/ \E q \in SameConv(r) : gate[q] = "permission"
  \/ gate[r] # "none"

DeferralReason(r) ==
  \/ \E q \in SameConv(r) : gate[q] = "permission"
  \/ gate[r] \in {"tool", "userInput"}

(***************************************************************************)
(* The two tails every call runs through.  finalizeCleanup detaches, stops  *)
(* the watchdog (clearRun: timer, in-flight tools, error slot), forgets the *)
(* maps and awaits updateRun; s is the status it writes.                    *)
(***************************************************************************)
FinalizeCleanup(r, s) ==
  /\ pc' = [pc EXCEPT ![r] = "updating"]
  /\ timer' = [timer EXCEPT ![r] = FALSE]
  /\ gate' = [gate EXCEPT ![r] = IF @ = "permission" THEN @ ELSE "none"]
  /\ ctrl' = [ctrl EXCEPT ![r] = "none"]
  /\ agent' = [agent EXCEPT ![r] = FALSE]
  /\ db' = Append(db, Awaited("updateRun", r, s))
  /\ awaits' = [awaits EXCEPT ![r] = "pending"]

\* The end of finalizeSetupError: abort and forget the controller, then await
\* updateRun.  It touches neither the watchdog nor activeAgents.
FinalizeSetupTail(r, s) ==
  /\ pc' = [pc EXCEPT ![r] = "updatingSetup"]
  /\ ctrl' = [ctrl EXCEPT ![r] = "none"]
  /\ db' = Append(db, Awaited("updateRun", r, s))
  /\ awaits' = [awaits EXCEPT ![r] = "pending"]
  /\ UNCHANGED <<timer, gate, agent>>

\* claimErrorPersistSlot, and the persistErrorMessage call of the winner.
ClaimErrorPersistSlot(r) ==
  /\ slot' = slot \cup {r}
  /\ posting' = [posting EXCEPT ![r] = IF r \in slot THEN @ ELSE @ + 1]
  /\ UNCHANGED bubbles

-----------------------------------------------------------------------------
(***************************************************************************)
(* streamChat.                                                             *)
(***************************************************************************)
\* streamChat up to `await dbRuns.insertRun`.
StreamChat(r) ==
  /\ up /\ pc[r] = "idle"
  /\ pc' = [pc EXCEPT ![r] = "inserting"]
  /\ status' = [status EXCEPT ![r] = "running"]
  /\ ctrl' = [ctrl EXCEPT ![r] = "live"]
  /\ order' = StoreRun(r)
  /\ db' = Append(db, Awaited("insertRun", r, "running"))
  /\ awaits' = [awaits EXCEPT ![r] = "pending"]
  /\ UNCHANGED <<up, wedged, agent, timer, gate, bubbleVars, events, rowVars,
                 sweepVars, budget>>

\* run:start, then createActiveRun, which nobody awaits.
RunInserted(r) ==
  /\ pc[r] = "inserting" /\ awaits[r] = "ok"
  /\ pc' = [pc EXCEPT ![r] = "setup"]
  /\ awaits' = [awaits EXCEPT ![r] = "none"]
  /\ db' = Append(db, Stmt("createActiveRun", {r}, "running"))
  /\ UNCHANGED <<up, wedged, status, ctrl, agent, order, timer, gate,
                 bubbleVars, events, rowVars, sweepVars, budget>>

\* insertRun is awaited before the outer try: its rejection leaves streamChat
\* with the run still in every map.
InsertRunRejects(r) ==
  /\ pc[r] = "inserting" /\ awaits[r] = "failed"
  /\ pc' = [pc EXCEPT ![r] = "rejected"]
  /\ awaits' = [awaits EXCEPT ![r] = "none"]
  /\ UNCHANGED <<up, wedged, status, ctrl, agent, order, timer, gate,
                 bubbleVars, events, db, rowVars, sweepVars, budget>>

\* loadHistory, getConversation and setupTools are done: startWatchdog.
StartWatchdog(r) ==
  /\ pc[r] = "setup" /\ ~wedged[r]
  /\ pc' = [pc EXCEPT ![r] = "armed"]
  /\ timer' = [timer EXCEPT ![r] = TRUE]
  /\ UNCHANGED <<up, wedged, status, ctrl, agent, order, gate, bubbleVars,
                 events, db, awaits, rowVars, sweepVars, budget>>

\* Auto-spin-up and the tool filters are done: buildPiAgent, activeAgents.set,
\* subscribeBridge, and the call of piAgent.prompt.
Prompt(r) ==
  /\ pc[r] = "armed" /\ ~wedged[r]
  /\ pc' = [pc EXCEPT ![r] = "streaming"]
  /\ agent' = [agent EXCEPT ![r] = TRUE]
  /\ UNCHANGED <<up, wedged, status, ctrl, order, timer, gate, bubbleVars,
                 events, db, awaits, rowVars, sweepVars, budget>>

\* A setup phase throws, the run still running: finalizeSetupError sets the
\* status, claims the error slot and awaits the error message.  (A running run
\* never holds the slot, SlotFree in RunLifecycleProofs, so the claim wins.)
SetupThrows(r) ==
  /\ pc[r] \in {"setup", "armed"} /\ ~wedged[r] /\ status[r] = "running"
  /\ status' = [status EXCEPT ![r] = "error"]
  /\ pc' = [pc EXCEPT ![r] = "postingSetupError"]
  /\ ClaimErrorPersistSlot(r)
  /\ UNCHANGED <<up, wedged, ctrl, agent, order, timer, gate, events, db,
                 awaits, rowVars, sweepVars, budget>>

\* A setup phase throws after the run was cancelled or killed.
SetupThrowsTerminal(r) ==
  /\ pc[r] \in {"setup", "armed"} /\ ~wedged[r] /\ status[r] # "running"
  /\ FinalizeSetupTail(r, status[r])
  /\ UNCHANGED <<up, wedged, status, order, bubbleVars, events, rowVars,
                 sweepVars, budget>>

SetupErrorPosted(r) ==
  /\ pc[r] = "postingSetupError" /\ posting[r] = 0
  /\ Emit(r, "error")
  /\ FinalizeSetupTail(r, status[r])
  /\ UNCHANGED <<up, wedged, status, order, bubbleVars, rowVars, sweepVars,
                 budget>>

\* The prompt settles only when no tool call holds it, or after an abort.
CanSettle(r) ==
  /\ pc[r] = "streaming" /\ ~wedged[r]
  /\ gate[r] = "none" \/ ctrl[r] = "aborted"

\* prompt resolves without state.error: finalizeSuccess up to its first await.
PromptResolves(r) ==
  /\ CanSettle(r)
  /\ status' = [status EXCEPT ![r] = "success"]
  /\ pc' = [pc EXCEPT ![r] = "saving"]
  /\ UNCHANGED <<up, wedged, ctrl, agent, order, timer, gate, bubbleVars,
                 events, db, awaits, rowVars, sweepVars, budget>>

\* finalizeError returns at once for a cancelled run.
PromptThrowsCancelled(r) ==
  /\ CanSettle(r) /\ status[r] = "cancelled"
  /\ FinalizeCleanup(r, status[r])
  /\ slot' = slot \ {r}
  /\ UNCHANGED <<up, wedged, status, order, posting, bubbles, events, rowVars,
                 sweepVars, budget>>

\* finalizeError on an AbortError: cancelled, and the partial turn is saved.
PromptThrowsAbort(r) ==
  /\ CanSettle(r) /\ status[r] # "cancelled"
  /\ status' = [status EXCEPT ![r] = "cancelled"]
  /\ pc' = [pc EXCEPT ![r] = "savingPartial"]
  /\ UNCHANGED <<up, wedged, ctrl, agent, order, timer, gate, bubbleVars,
                 events, db, awaits, rowVars, sweepVars, budget>>

\* finalizeError on any other error (state.error included): claim the slot and
\* await the message ...
PromptThrowsError(r) ==
  /\ CanSettle(r) /\ status[r] # "cancelled" /\ r \notin slot
  /\ status' = [status EXCEPT ![r] = "error"]
  /\ pc' = [pc EXCEPT ![r] = "postingError"]
  /\ ClaimErrorPersistSlot(r)
  /\ UNCHANGED <<up, wedged, ctrl, agent, order, timer, gate, events, db,
                 awaits, rowVars, sweepVars, budget>>

\* ... or skip the message when the watchdog has claimed it.
PromptThrowsErrorAgain(r) ==
  /\ CanSettle(r) /\ status[r] # "cancelled" /\ r \in slot
  /\ status' = [status EXCEPT ![r] = "error"]
  /\ Emit(r, "error")
  /\ FinalizeCleanup(r, "error")
  /\ slot' = slot \ {r}
  /\ UNCHANGED <<up, wedged, order, posting, bubbles, rowVars, sweepVars,
                 budget>>

\* The awaits of finalizeSuccess and finalizeError are over: emit, clean up.
EventOf == [saving |-> "complete", savingPartial |-> "cancel", postingError |-> "error"]

Saved(r) ==
  /\ pc[r] \in Saving
  /\ pc[r] = "postingError" => posting[r] = 0
  /\ Emit(r, EventOf[pc[r]])
  /\ FinalizeCleanup(r, status[r])
  /\ slot' = slot \ {r}
  /\ UNCHANGED <<up, wedged, status, order, posting, bubbles, rowVars,
                 sweepVars, budget>>

\* finalizeCleanup after updateRun: delete the active row, or mark it.
RunUpdated(r) ==
  /\ pc[r] = "updating" /\ awaits[r] = "ok"
  /\ pc' = [pc EXCEPT ![r] = "releasing"]
  /\ db' = Append(db, Awaited(IF status[r] \in {"success", "cancelled"}
                                THEN "deleteActiveRun" ELSE "markInterrupted",
                              r, "error"))
  /\ awaits' = [awaits EXCEPT ![r] = "pending"]
  /\ UNCHANGED <<up, wedged, status, ctrl, agent, order, timer, gate,
                 bubbleVars, events, rowVars, sweepVars, budget>>

\* updateRun rejects inside finalizeCleanup: the outer catch runs
\* finalizeSetupError on a run that is no longer running.
UpdateRunRejects(r) ==
  /\ pc[r] = "updating" /\ awaits[r] = "failed"
  /\ FinalizeSetupTail(r, status[r])
  /\ UNCHANGED <<up, wedged, status, order, bubbleVars, events, rowVars,
                 sweepVars, budget>>

\* Mutant: finalizeSetupError returns without marking the active row.
SetupRunUpdatedOnly(r) ==
  /\ pc[r] = "updatingSetup" /\ awaits[r] = "ok"
  /\ pc' = [pc EXCEPT ![r] = "returned"]
  /\ awaits' = [awaits EXCEPT ![r] = "none"]
  /\ UNCHANGED <<up, wedged, status, ctrl, agent, order, timer, gate,
                 bubbleVars, events, db, rowVars, sweepVars, budget>>

\* finalizeSetupError after updateRun.
SetupRunUpdated(r) ==
  /\ pc[r] = "updatingSetup" /\ awaits[r] = "ok"
  /\ pc' = [pc EXCEPT ![r] = "markingSetup"]
  /\ db' = Append(db, Awaited("markInterrupted", r, "error"))
  /\ awaits' = [awaits EXCEPT ![r] = "pending"]
  /\ UNCHANGED <<up, wedged, status, ctrl, agent, order, timer, gate,
                 bubbleVars, events, rowVars, sweepVars, budget>>

\* streamChat returns: after the active row was written, or as soon as a
\* statement whose failure is swallowed has failed.
Return(r) ==
  /\ \/ pc[r] \in {"releasing", "markingSetup"} /\ awaits[r] \in {"ok", "failed"}
     \/ pc[r] = "updatingSetup" /\ awaits[r] = "failed"
  /\ pc' = [pc EXCEPT ![r] = "returned"]
  /\ awaits' = [awaits EXCEPT ![r] = "none"]
  /\ UNCHANGED <<up, wedged, status, ctrl, agent, order, timer, gate,
                 bubbleVars, events, db, rowVars, sweepVars, budget>>

\* persistErrorMessage ends; it swallows its own failure.
PersistErrorMessage(r) ==
  /\ posting[r] > 0
  /\ posting' = [posting EXCEPT ![r] = @ - 1]
  /\ \/ bubbles' = [bubbles EXCEPT ![r] = @ + 1] /\ UNCHANGED budget
     \/ /\ budget.failures > 0
        /\ budget' = [budget EXCEPT !.failures = @ - 1]
        /\ UNCHANGED bubbles
  /\ UNCHANGED <<up, memVars, slot, events, db, awaits, rowVars, sweepVars>>

-----------------------------------------------------------------------------
(***************************************************************************)
(* The world around a run: the model goes quiet, tools and gates open and   *)
(* close.                                                                  *)
(***************************************************************************)
\* The awaited setup call or provider stream hangs.
Wedge(r) ==
  /\ pc[r] \in {"setup", "armed", "streaming"} /\ ~wedged[r]
  /\ budget.hangs > 0
  /\ wedged' = [wedged EXCEPT ![r] = TRUE]
  /\ budget' = [budget EXCEPT !.hangs = @ - 1]
  /\ UNCHANGED <<up, pc, status, ctrl, agent, order, timer, gate, bubbleVars,
                 events, db, awaits, rowVars, sweepVars>>

\* An abort unblocks a hanging await, or it does not.
AbortUnblocks(r) ==
  /\ wedged[r] /\ ctrl[r] = "aborted"
  /\ wedged' = [wedged EXCEPT ![r] = FALSE]
  /\ UNCHANGED <<up, pc, status, ctrl, agent, order, timer, gate, bubbleVars,
                 events, db, awaits, rowVars, sweepVars, budget>>

\* noteToolStart, or a permission gate put into pendingPermissions.
OpenGate(r, g) ==
  /\ pc[r] = "streaming" /\ ~wedged[r] /\ gate[r] = "none"
  /\ budget.gates > 0
  /\ gate' = [gate EXCEPT ![r] = g]
  /\ budget' = [budget EXCEPT !.gates = @ - 1]
  /\ UNCHANGED <<up, pc, wedged, status, ctrl, agent, order, timer, bubbleVars,
                 events, db, awaits, rowVars, sweepVars>>

\* noteToolEnd, or the gate resolved.
CloseGate(r) ==
  /\ up /\ gate[r] # "none" /\ ~wedged[r]
  /\ gate' = [gate EXCEPT ![r] = "none"]
  /\ UNCHANGED <<up, pc, wedged, status, ctrl, agent, order, timer, bubbleVars,
                 events, db, awaits, rowVars, sweepVars, budget>>

\* A tool outlives its callTimeoutMs.
ToolTimeout(r) ==
  /\ gate[r] = "tool"
  /\ gate' = [gate EXCEPT ![r] = "expired"]
  /\ UNCHANGED <<up, pc, wedged, status, ctrl, agent, order, timer, bubbleVars,
                 events, db, awaits, rowVars, sweepVars, budget>>

-----------------------------------------------------------------------------
(***************************************************************************)
(* cancelRun, the watchdog and the sweeps.                                 *)
(***************************************************************************)
\* Mutant: cancelRun leaves the event to the aborted call.
CancelRunSilently(r) ==
  /\ InMap(r) /\ ctrl[r] # "none" /\ budget.cancels > 0
  /\ ctrl' = [ctrl EXCEPT ![r] = "aborted"]
  /\ status' = [status EXCEPT ![r] = "cancelled"]
  /\ db' = Append(db, Stmt("finalizeRunRow", {r}, "cancelled"))
  /\ budget' = [budget EXCEPT !.cancels = @ - 1]
  /\ UNCHANGED <<up, pc, wedged, agent, order, timer, gate, bubbleVars, events,
                 awaits, rowVars, sweepVars>>

\* Mutant: cancelRun leaves the `runs` row to the aborted call.
CancelRunInMemory(r) ==
  /\ InMap(r) /\ ctrl[r] # "none" /\ budget.cancels > 0
  /\ ctrl' = [ctrl EXCEPT ![r] = "aborted"]
  /\ status' = [status EXCEPT ![r] = "cancelled"]
  /\ Emit(r, "cancel")
  /\ budget' = [budget EXCEPT !.cancels = @ - 1]
  /\ UNCHANGED <<up, pc, wedged, agent, order, timer, gate, bubbleVars, db,
                 awaits, rowVars, sweepVars>>

\* cancelRun, through any of its callers.
CancelRun(r) ==
  /\ InMap(r) /\ ctrl[r] # "none" /\ budget.cancels > 0
  /\ ctrl' = [ctrl EXCEPT ![r] = "aborted"]
  /\ status' = [status EXCEPT ![r] = "cancelled"]
  /\ Emit(r, "cancel")
  /\ db' = Append(db, Stmt("finalizeRunRow", {r}, "cancelled"))
  /\ budget' = [budget EXCEPT !.cancels = @ - 1]
  /\ UNCHANGED <<up, pc, wedged, agent, order, timer, gate, bubbleVars, awaits,
                 rowVars, sweepVars>>

\* POST active-run when no run of the conversation is in memory: the read of
\* active_runs is issued.
ForceCancel(r) ==
  /\ up /\ budget.cancels > 0
  /\ GetActiveRunForConversation(r) = {}
  /\ db' = Append(db, Stmt("forceCancel", SameConv(r), "error"))
  /\ budget' = [budget EXCEPT !.cancels = @ - 1]
  /\ UNCHANGED <<up, memVars, bubbleVars, events, awaits, rowVars, sweepVars>>

\* The tick looks at a run that is in the map and still running.
Watched(r) == timer[r] /\ InMap(r) /\ status[r] = "running"

\* Mutant: the tick posts its error message without claiming the slot.
WatchdogTripUnclaimed(r) ==
  /\ Watched(r) /\ ~DeferralReason(r)
  /\ db' = db \o <<Stmt("markInterrupted", {r}, "error"),
                   Stmt("finalizeRunRow", {r}, "error")>>
  /\ status' = [status EXCEPT ![r] = "error"]
  /\ posting' = [posting EXCEPT ![r] = @ + 1]
  /\ Emit(r, "error")
  /\ ctrl' = [ctrl EXCEPT ![r] = IF @ = "none" THEN @ ELSE "aborted"]
  /\ UNCHANGED <<up, pc, wedged, agent, order, timer, gate, slot, bubbles,
                 awaits, rowVars, sweepVars, budget>>

\* The tick finds the run idle past its threshold with nothing to wait for.
WatchdogTrip(r) ==
  /\ Watched(r) /\ ~DeferralReason(r)
  /\ db' = db \o <<Stmt("markInterrupted", {r}, "error"),
                   Stmt("finalizeRunRow", {r}, "error")>>
  /\ status' = [status EXCEPT ![r] = "error"]
  /\ ClaimErrorPersistSlot(r)
  /\ Emit(r, "error")
  /\ ctrl' = [ctrl EXCEPT ![r] = IF @ = "none" THEN @ ELSE "aborted"]
  /\ UNCHANGED <<up, pc, wedged, agent, order, timer, gate, awaits, rowVars,
                 sweepVars, budget>>

\* The tick finds progress or a deferral: updateHeartbeat.
UpdateHeartbeat(r) ==
  /\ Watched(r) /\ r \in stale
  /\ stale' = stale \ {r}
  /\ UNCHANGED <<up, memVars, bubbleVars, events, db, awaits, runsRow,
                 activeRow, sweepVars, budget>>

\* Five minutes without a heartbeat: only a run no tick looks after.
RowGoesStale(r) ==
  /\ activeRow[r] = "running" /\ r \notin stale /\ ~Watched(r)
  /\ stale' = stale \cup {r}
  /\ UNCHANGED <<up, memVars, bubbleVars, events, db, awaits, runsRow,
                 activeRow, sweepVars, budget>>

\* Mutant: every sweep, not only the one at boot, terminalizes running rows.
CleanupOrphansTerminalizes ==
  /\ up /\ sweep = "idle" /\ stale # {}
  /\ sweep' = "updating" /\ visited' = {}
  /\ db' = db \o <<Stmt("terminalizeOrphanedRuns", Runs, "error"),
                   Stmt("cleanupOrphanedRuns", Runs, "error")>>
  /\ UNCHANGED <<up, memVars, bubbleVars, events, awaits, rowVars, budget>>

\* The sweep's interval fires.
CleanupOrphans ==
  /\ up /\ sweep = "idle" /\ stale # {}
  /\ sweep' = "updating" /\ visited' = {}
  /\ db' = Append(db, Stmt("cleanupOrphanedRuns", Runs, "error"))
  /\ UNCHANGED <<up, memVars, bubbleVars, events, awaits, rowVars, budget>>

\* Rows were cleaned: look up the conversation of each live controller ...
ScanController(r) ==
  /\ sweep = "scanning" /\ r \notin visited /\ ctrl[r] = "live"
  /\ sweep' = "reading" /\ visited' = visited \cup {r}
  /\ db' = Append(db, Stmt("scan", {r}, "error"))
  /\ UNCHANGED <<up, memVars, bubbleVars, events, awaits, rowVars, budget>>

\* ... until none is left.
ScanDone ==
  /\ sweep = "scanning"
  /\ \A r \in Runs : r \in visited \/ ctrl[r] # "live"
  /\ sweep' = "idle" /\ visited' = {}
  /\ UNCHANGED <<up, memVars, bubbleVars, events, db, awaits, rowVars, budget>>

-----------------------------------------------------------------------------
(***************************************************************************)
(* The database executes a statement.                                      *)
(***************************************************************************)
\* Mutant: finalizeRunRow without `status = 'running'` in its WHERE.
RunsRowAfterUnguarded(s, r) ==
  LET row == runsRow[r]
  IN  IF r \notin s.on THEN row ELSE
      CASE s.op = "insertRun" -> s.as
        [] s.op \in {"updateRun", "finalizeRunRow"} /\ row # "absent" -> s.as
        [] s.op = "terminalizeOrphanedRuns" /\ row = "running" -> s.as
        [] OTHER -> row

\* insertRun, updateRun, finalizeRunRow and terminalizeOrphanedRuns.
RunsRowAfter(s, r) ==
  LET row == runsRow[r]
  IN  IF r \notin s.on THEN row ELSE
      CASE s.op = "insertRun" -> s.as
        [] s.op = "updateRun" /\ row # "absent" -> s.as
        [] s.op \in {"finalizeRunRow", "terminalizeOrphanedRuns"}
             /\ row = "running" -> s.as
        [] OTHER -> row

\* Mutant: markInterrupted writes a status of the `runs` table.
ActiveRowAfterError(s, r) ==
  LET row == activeRow[r]
  IN  IF r \notin s.on THEN row ELSE
      CASE s.op = "createActiveRun" -> "running"
        [] s.op \in {"markInterrupted", "forceInterrupt"} /\ row # "absent"
             -> s.as
        [] s.op = "deleteActiveRun" -> "absent"
        [] OTHER -> row

\* The statements of active-runs.ts.
ActiveRowAfter(s, r) ==
  LET row == activeRow[r]
  IN  IF r \notin s.on THEN row ELSE
      CASE s.op = "createActiveRun" -> "running"
        [] s.op \in {"markInterrupted", "forceInterrupt"} /\ row # "absent"
             -> "interrupted"
        [] s.op = "deleteActiveRun" -> "absent"
        [] s.op = "interruptAllRuns" /\ row = "running" -> "interrupted"
        [] s.op = "cleanupOrphanedRuns" /\ row = "running" /\ r \in stale
             -> "interrupted"
        [] OTHER -> row

Cleaned(s) == s.op = "cleanupOrphanedRuns" /\ \E r \in stale : activeRow[r] = "running"

\* getActiveRun finds no running row for r's conversation.
NoActiveRow(r) == \A q \in SameConv(r) : activeRow[q] # "running"

\* The statements a pool may execute next; PGlite executes the oldest.
Ready == IF OrderedDB THEN {i \in DOMAIN db : i = 1} ELSE DOMAIN db

\* A write, or the read of the sweep: its continuation aborts the controller
\* of a run whose conversation has no running row.  The force-cancel route,
\* having marked the row, tells every client that the run has failed.
Execute(i) ==
  LET s == db[i]
  IN  /\ i \in Ready /\ s.op # "forceCancel"
      /\ db' = RemoveAt(db, i)
      /\ runsRow' = [r \in Runs |-> RunsRowAfter(s, r)]
      /\ activeRow' = [r \in Runs |-> ActiveRowAfter(s, r)]
      /\ stale' = {r \in stale : ActiveRowAfter(s, r) = "running"
                                   /\ s.op # "createActiveRun"}
      /\ awaits' = [r \in Runs |-> IF s.awaited /\ r \in s.on THEN "ok" ELSE awaits[r]]
      /\ sweep' = CASE s.op = "cleanupOrphanedRuns" ->
                         IF Cleaned(s) THEN "scanning" ELSE "idle"
                    [] s.op = "scan" -> "scanning"
                    [] OTHER -> sweep
      /\ ctrl' = [r \in Runs |-> IF s.op = "scan" /\ r \in s.on /\ ctrl[r] = "live"
                                      /\ NoActiveRow(r)
                                 THEN "aborted" ELSE ctrl[r]]
      /\ events' = [r \in Runs |-> IF s.op = "forceInterrupt" /\ r \in s.on
                                   THEN events[r] \cup {"error"} ELSE events[r]]
      /\ UNCHANGED <<up, pc, wedged, status, agent, order, timer, gate,
                     bubbleVars, visited, budget>>

\* The read of the force-cancel route: it marks the row it has found.
ExecuteForceCancel(i) ==
  /\ i \in Ready /\ db[i].op = "forceCancel"
  /\ \/ /\ \A r \in db[i].on : activeRow[r] # "running"
        /\ db' = RemoveAt(db, i)
     \/ \E r \in db[i].on :
          /\ activeRow[r] = "running"
          /\ db' = Append(RemoveAt(db, i), Stmt("forceInterrupt", {r}, "error"))
  /\ UNCHANGED <<up, memVars, bubbleVars, events, awaits, rowVars, sweepVars, budget>>

\* A statement the database rejects.  Nobody but an awaiting streamChat call
\* learns of it; the sweep gives up until its next interval.
Reject(i) ==
  LET s == db[i]
  IN  /\ i \in Ready /\ budget.failures > 0
      /\ db' = RemoveAt(db, i)
      /\ awaits' = [r \in Runs |-> IF s.awaited /\ r \in s.on THEN "failed" ELSE awaits[r]]
      /\ sweep' = IF s.op \in {"cleanupOrphanedRuns", "scan"} THEN "idle" ELSE sweep
      /\ visited' = IF s.op \in {"cleanupOrphanedRuns", "scan"} THEN {} ELSE visited
      /\ budget' = [budget EXCEPT !.failures = @ - 1]
      /\ UNCHANGED <<up, memVars, bubbleVars, events, rowVars>>

-----------------------------------------------------------------------------
(***************************************************************************)
(* The process dies, and boots again.                                      *)
(***************************************************************************)
Crash ==
  /\ up /\ budget.crashes > 0
  /\ up' = FALSE
  /\ pc' = [r \in Runs |-> IF pc[r] = "idle" THEN "idle" ELSE "dead"]
  /\ wedged' = [r \in Runs |-> FALSE]
  /\ status' = [r \in Runs |-> "none"]
  /\ ctrl' = [r \in Runs |-> "none"]
  /\ agent' = [r \in Runs |-> FALSE]
  /\ order' = <<>>
  /\ timer' = [r \in Runs |-> FALSE]
  /\ gate' = [r \in Runs |-> "none"]
  /\ slot' = {}
  /\ posting' = [r \in Runs |-> 0]
  /\ db' = <<>>
  /\ awaits' = [r \in Runs |-> "none"]
  /\ sweep' = "idle" /\ visited' = {}
  /\ budget' = [budget EXCEPT !.crashes = @ - 1]
  /\ UNCHANGED <<bubbles, events, rowVars>>

\* startOrphanCleanup: both boot sweeps and the first periodic one, all three
\* fire-and-forget.
StartOrphanCleanup ==
  /\ ~up
  /\ up' = TRUE
  /\ db' = <<Stmt("interruptAllRuns", Runs, "error"),
             Stmt("terminalizeOrphanedRuns", Runs, "error"),
             Stmt("cleanupOrphanedRuns", Runs, "error")>>
  /\ sweep' = "updating" /\ visited' = {}
  /\ UNCHANGED <<memVars, bubbleVars, events, awaits, rowVars, budget>>

-----------------------------------------------------------------------------
Init ==
  /\ up = FALSE
  /\ pc = [r \in Runs |-> "idle"]
  /\ wedged = [r \in Runs |-> FALSE]
  /\ status = [r \in Runs |-> "none"]
  /\ ctrl = [r \in Runs |-> "none"]
  /\ agent = [r \in Runs |-> FALSE]
  /\ order = <<>>
  /\ timer = [r \in Runs |-> FALSE]
  /\ gate = [r \in Runs |-> "none"]
  /\ slot = {}
  /\ posting = [r \in Runs |-> 0]
  /\ bubbles = [r \in Runs |-> 0]
  /\ events = [r \in Runs |-> {}]
  /\ db = <<>>
  /\ awaits = [r \in Runs |-> "none"]
  /\ runsRow = [r \in Runs |-> "absent"]
  /\ activeRow = [r \in Runs |-> "absent"]
  /\ stale = {}
  /\ sweep = "idle" /\ visited = {}
  /\ budget = [cancels |-> MaxCancels, failures |-> MaxFailures,
               crashes |-> MaxCrashes, gates |-> MaxGates, hangs |-> MaxHangs]

\* What a streamChat call does by itself once its await has settled.
Proceed(r) ==
  \/ RunInserted(r) \/ InsertRunRejects(r) \/ StartWatchdog(r) \/ Prompt(r)
  \/ SetupThrows(r) \/ SetupThrowsTerminal(r) \/ SetupErrorPosted(r)
  \/ PromptResolves(r) \/ PromptThrowsCancelled(r) \/ PromptThrowsAbort(r)
  \/ PromptThrowsError(r) \/ PromptThrowsErrorAgain(r)
  \/ Saved(r) \/ RunUpdated(r) \/ UpdateRunRejects(r) \/ SetupRunUpdated(r)
  \/ Return(r)

Environment(r) ==
  \/ Wedge(r) \/ AbortUnblocks(r)
  \/ \E g \in {"tool", "permission", "userInput"} : OpenGate(r, g)
  \/ CloseGate(r) \/ ToolTimeout(r)

Database ==
  \E i \in DOMAIN db : Execute(i) \/ ExecuteForceCancel(i) \/ Reject(i)

Next ==
  \/ \E r \in Runs :
       \/ StreamChat(r) \/ Proceed(r) \/ PersistErrorMessage(r)
       \/ Environment(r)
       \/ CancelRun(r) \/ ForceCancel(r)
       \/ WatchdogTrip(r) \/ UpdateHeartbeat(r) \/ RowGoesStale(r)
       \/ ScanController(r)
  \/ CleanupOrphans \/ ScanDone
  \/ Database
  \/ Crash \/ StartOrphanCleanup

Spec == Init /\ [][Next]_vars

(***************************************************************************)
(* Fairness.  A settled promise is continued, a statement handed to the     *)
(* database is executed, intervals fire, time passes, and a supervisor      *)
(* restarts the process.  Nothing is assumed of a wedged await, of an abort *)
(* (it may not unblock), of the user, or of a tool that holds the prompt.   *)
(***************************************************************************)
Fairness ==
  /\ \A r \in Runs :
       /\ WF_vars(Proceed(r))
       /\ WF_vars(PersistErrorMessage(r))
       /\ WF_vars(ToolTimeout(r))
       /\ WF_vars(wedged[r] /\ WatchdogTrip(r))
       /\ WF_vars(RowGoesStale(r))
       /\ WF_vars(ScanController(r))
  /\ WF_vars(ScanDone)
  /\ WF_vars(CleanupOrphans)
  /\ WF_vars(\E i \in DOMAIN db : Execute(i) \/ ExecuteForceCancel(i))
  /\ WF_vars(StartOrphanCleanup)

FairSpec == Spec /\ Fairness

-----------------------------------------------------------------------------
(***************************************************************************)
(* Properties.                                                             *)
(***************************************************************************)
TypeOK ==
  /\ up \in BOOLEAN
  /\ pc \in [Runs -> PC]
  /\ wedged \in [Runs -> BOOLEAN]
  /\ status \in [Runs -> Terminal \cup {"none", "running"}]
  /\ ctrl \in [Runs -> {"none", "live", "aborted"}]
  /\ agent \in [Runs -> BOOLEAN]
  /\ order \in Seq(Runs)
  /\ timer \in [Runs -> BOOLEAN]
  /\ gate \in [Runs -> {"none", "tool", "expired", "permission", "userInput"}]
  /\ slot \in SUBSET Runs
  /\ posting \in [Runs -> Nat]
  /\ bubbles \in [Runs -> Nat]
  /\ events \in [Runs -> SUBSET {"complete", "error", "cancel"}]
  /\ db \in Seq(Statement)
  /\ awaits \in [Runs -> {"none", "pending", "ok", "failed"}]
  /\ runsRow \in [Runs -> Terminal \cup {"absent", "running"}]
  /\ activeRow \in [Runs -> {"absent", "running", "interrupted"}]
  /\ stale \in SUBSET Runs
  /\ sweep \in {"idle", "updating", "scanning", "reading"}
  /\ visited \in SUBSET Runs
  /\ budget \in [cancels : Nat, failures : Nat, crashes : Nat, gates : Nat,
                hangs : Nat]

\* At most one error message of a run reaches the conversation, whichever of
\* the watchdog, finalizeError and finalizeSetupError get to write one and in
\* whatever order (errorMessagePersisted, claimErrorPersistSlot).
OneErrorMessage == \A r \in Runs : bubbles[r] + posting[r] <= 1

\* No streamChat call returns without a terminal event on the bus: every early
\* return of finalizeError and finalizeSetupError relies on somebody else
\* having emitted one.
ReturnReported == \A r \in Runs : pc[r] = "returned" => events[r] # {}

\* Statements that still address a row of r.
Outstanding(r) == \E i \in DOMAIN db : r \in db[i].on

\* When a call has returned and its statements are done, the `runs` row holds
\* the status of the AgentRun, although cancelRun, the watchdog and the boot
\* sweep wrote the same row without being awaited (finalizeRunRow's WHERE).
RunRowAgrees ==
  \A r \in Runs :
    pc[r] = "returned" /\ ~Outstanding(r) /\ budget.failures = MaxFailures
      => runsRow[r] = status[r]

\* With a database that keeps the order of statements, the active row of a
\* call that has returned is gone or interrupted, never left running.
ActiveRowReleased ==
  \A r \in Runs :
    OrderedDB /\ pc[r] = "returned" /\ ~Outstanding(r)
              /\ budget.failures = MaxFailures
      => activeRow[r] # "running"

\* With such a database, neither the boot sweep of this process nor anything
\* left of an earlier one terminalizes the row of a run that is executing.
LiveRunRow ==
  \A r \in Runs :
    OrderedDB /\ pc[r] \in {"setup", "armed", "streaming"} /\ status[r] = "running"
      => runsRow[r] = "running"

\* A recorded success is final: no late fire-and-forget write of cancelRun or
\* of the watchdog, no boot sweep after a crash, degrades it.
SuccessSticks ==
  [][\A r \in Runs : runsRow[r] = "success" => runsRow'[r] = "success"]_vars

\* A run that was cancelled stays cancelled ("Single source of truth for the
\* cancel terminal state", cancelRun).
CancelSticks ==
  [][\A r \in Runs : status[r] = "cancelled" /\ up' => status'[r] = "cancelled"]_vars

\* A run that reached a terminal status, or lost its process, does not stay
\* running in either table, even if its await never settles.
RowsHeal ==
  \A r \in Runs :
    (status[r] \in Terminal \/ pc[r] = "dead")
      ~> (runsRow[r] # "running" /\ activeRow[r] # "running")

\* What may legitimately hold the watchdog back from a hanging run.
HeldByUser(r) ==
  \/ gate[r] = "userInput"
  \/ \E q \in SameConv(r) : gate[q] = "permission"

\* A run that hangs once the watchdog is armed is ended and reported, unless it
\* waits for the user.
WedgedRunEnds ==
  \A r \in Runs :
    (wedged[r] /\ timer[r]) ~> (events[r] # {} \/ HeldByUser(r) \/ ~up)
=============================================================================
