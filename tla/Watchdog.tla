------------------------------ MODULE Watchdog ------------------------------
(***************************************************************************)
(* The clock of the activity watchdog (executor-watchdog.ts) for one run,   *)
(* from startWatchdog to its end.  RunLifecycle lets the watchdog trip any  *)
(* run that is not deferred; this module says when the tick really does it. *)
(* Instants are kept as ages (time since), in a unit of which TICK,         *)
(* IDLE, ... are multiples.                                                *)
(***************************************************************************)
EXTENDS Naturals

CONSTANTS
  TICK,        \* WATCHDOG_TICK_MS
  IDLE,        \* WATCHDOG_IDLE_MS
  AGENT_IDLE,  \* the threshold resolved from the agent's model: IDLE, or one
               \* of the two wider windows of a reasoning model
  REFRESH,     \* HEARTBEAT_REFRESH_MS
  ORPHAN,      \* age at which cleanupOrphanedRuns(5) interrupts a row
  Tools,       \* tool calls the agent may have in flight at once
  CALL,        \* callTimeoutMs of each
  SLOWEST,     \* a ceiling of these timeouts
  UserTools,   \* those that declare requiresUserInput
  Team,        \* the run pre-invokes team members (auto-spin-up)
  MaxSetup,    \* bound: time from createActiveRun to startWatchdog
  MaxLost      \* bound: heartbeat updates the database rejects

ASSUME WatchdogAssumption ==
  /\ TICK \in Nat \ {0} /\ IDLE \in Nat \ {0} /\ AGENT_IDLE \in Nat /\ AGENT_IDLE >= IDLE
  /\ REFRESH \in Nat \ {0} /\ ORPHAN \in Nat
  /\ CALL \in [Tools -> Nat \ {0}]
  /\ SLOWEST \in Nat /\ \A t \in Tools : CALL[t] <= SLOWEST
  /\ UserTools \in SUBSET Tools
  /\ Team \in BOOLEAN
  /\ MaxSetup \in Nat /\ MaxLost \in Nat

\* Setup is quicker than the orphan window, less what the lost updates cost.
ASSUME SetupAssumption ==
  MaxSetup + (MaxLost + 1) * (REFRESH + TICK) <= ORPHAN

VARIABLES
  phase,      \* "spinUp" until subscribeBridge, "streaming", "done", "killed"
  sinceTick,  \* age of the last tick
  idle,       \* age of lastActivityAt
  silence,    \* observer: age of the last event of the run or its sub-agents,
              \* counted up to IDLE
  hang,       \* observer: the same, or the age of the last moment the user was
              \* asked something, whichever is less
  inflight,   \* inflightTools
  age,        \* age of each call in flight, up to its timeout
  permission, \* pendingPermissions holds a gate of the conversation
  hbAge,      \* age of active_runs.last_heartbeat
  hbWrite,    \* age of lastHeartbeatWriteAt
  lost        \* heartbeat updates rejected so far

watchVars    == <<idle, inflight, age, permission>>
observerVars == <<silence, hang>>
beatVars     == <<hbAge, hbWrite, lost>>
vars == <<phase, sinceTick, watchVars, observerVars, beatVars>>

Alive == phase \in {"spinUp", "streaming"}

\* resolveIdleThreshold: the agent is reachable once activeAgents holds it.
Threshold == IF phase = "streaming" THEN AGENT_IDLE ELSE IDLE

\* The user is being asked something.
UserAsked == permission \/ inflight \cap UserTools # {}

\* Mutant: a call in flight defers the kill however long it has run.
DeferredForever == UserAsked \/ inflight # {}

\* deferralReason.
Deferred == UserAsked \/ \E t \in inflight : age[t] < CALL[t]

\* startWatchdog: bumpActivity, and a heartbeat assumed as old as the setup.
Init ==
  /\ phase = "spinUp"
  /\ sinceTick = 0 /\ idle = 0 /\ silence = 0 /\ hang = 0
  /\ inflight = {} /\ age = [t \in Tools |-> 0]
  /\ permission = FALSE
  /\ hbAge \in 0 .. MaxSetup /\ hbWrite = 0 /\ lost = 0

\* Mutant: the age of a call in flight is not compared with its timeout.
PassUncapped ==
  /\ Alive /\ sinceTick < TICK
  /\ sinceTick' = sinceTick + 1
  /\ idle' = idle + 1
  /\ silence' = IF silence < IDLE THEN silence + 1 ELSE silence
  /\ hang' = IF UserAsked THEN 0 ELSE hang + 1
  /\ age' = [t \in Tools |-> IF t \in inflight THEN age[t] + 1 ELSE age[t]]
  /\ hbAge' = hbAge + 1 /\ hbWrite' = hbWrite + 1
  /\ UNCHANGED <<phase, inflight, permission, lost>>

\* One unit of time passes; a due tick is not delayed.
Pass ==
  /\ Alive /\ sinceTick < TICK
  /\ sinceTick' = sinceTick + 1
  /\ idle' = idle + 1
  /\ silence' = IF silence < IDLE THEN silence + 1 ELSE silence
  /\ hang' = IF UserAsked THEN 0 ELSE hang + 1
  /\ age' = [t \in Tools |-> IF t \in inflight /\ age[t] < CALL[t]
                             THEN age[t] + 1 ELSE age[t]]
  /\ hbAge' = hbAge + 1 /\ hbWrite' = hbWrite + 1
  /\ UNCHANGED <<phase, inflight, permission, lost>>

\* updateHeartbeat; a rejection is swallowed and lastHeartbeatWriteAt is set
\* all the same.
WriteHeartbeat ==
  /\ hbWrite' = 0
  /\ \/ hbAge' = 0 /\ UNCHANGED lost
     \/ lost < MaxLost /\ lost' = lost + 1 /\ UNCHANGED hbAge

Due == Alive /\ sinceTick = TICK

\* Mutant: a deferring tick bumps the activity but writes no heartbeat.
TickDefersSilently ==
  /\ Due /\ Deferred
  /\ sinceTick' = 0 /\ idle' = 0
  /\ UNCHANGED <<phase, inflight, age, permission, observerVars, beatVars>>

\* Legitimate idleness: bump, so that the end of the deferral does not trip.
TickDefers ==
  /\ Due /\ Deferred
  /\ sinceTick' = 0 /\ idle' = 0
  /\ WriteHeartbeat
  /\ UNCHANGED <<phase, inflight, age, permission, observerVars>>

\* Idle past the threshold: kill the run.
TickTrips ==
  /\ Due /\ ~Deferred /\ idle >= Threshold
  /\ phase' = "killed" /\ sinceTick' = 0
  /\ UNCHANGED <<watchVars, observerVars, beatVars>>

\* Progress: heartbeat and partial response, at most once per REFRESH.
TickRefreshes ==
  /\ Due /\ ~Deferred /\ idle < Threshold /\ hbWrite >= REFRESH
  /\ sinceTick' = 0
  /\ WriteHeartbeat
  /\ UNCHANGED <<phase, watchVars, observerVars>>

TickRests ==
  /\ Due /\ ~Deferred /\ idle < Threshold /\ hbWrite < REFRESH
  /\ sinceTick' = 0
  /\ UNCHANGED <<phase, watchVars, observerVars, beatVars>>

\* buildPiAgent, activeAgents.set and subscribeBridge: from here on the events
\* of the agent and of its sub-agents bump the activity.
SubscribeBridge ==
  /\ phase = "spinUp"
  /\ phase' = "streaming"
  /\ UNCHANGED <<sinceTick, watchVars, observerVars, beatVars>>

\* Mutant: only tool events bump the activity, text and thinking do not.
AgentEventUnnoticed ==
  /\ phase = "streaming"
  /\ silence' = 0 /\ hang' = 0
  /\ \/ UNCHANGED <<idle, inflight, age>>
     \/ \E t \in Tools \ inflight :
          inflight' = inflight \cup {t} /\ age' = [age EXCEPT ![t] = 0] /\ idle' = 0
     \/ \E t \in inflight : inflight' = inflight \ {t} /\ idle' = 0 /\ UNCHANGED age
  /\ UNCHANGED <<phase, sinceTick, permission, beatVars>>

\* Any event of the pi agent; an event of a tool call also notes or drops it.
\* (invoke_agent is not noted: its sub-agents report by themselves.)
AgentEvent ==
  /\ phase = "streaming"
  /\ idle' = 0 /\ silence' = 0 /\ hang' = 0
  /\ \/ UNCHANGED <<inflight, age>>
     \/ \E t \in Tools \ inflight :
          inflight' = inflight \cup {t} /\ age' = [age EXCEPT ![t] = 0]
     \/ \E t \in inflight : inflight' = inflight \ {t} /\ UNCHANGED age
  /\ UNCHANGED <<phase, sinceTick, permission, beatVars>>

\* agent:spawn, agent:status or agent:complete of a sub-agent of this run: one
\* of the team members pre-invoked by auto-spin-up, or of an invoke_agent call.
\* Its listener is registered by subscribeBridge.
SubAgentEvent ==
  /\ Alive /\ (phase = "spinUp" => Team)
  /\ silence' = 0 /\ hang' = 0
  /\ idle' = IF phase = "streaming" THEN 0 ELSE idle
  /\ UNCHANGED <<phase, sinceTick, inflight, age, permission, beatVars>>

\* A gate of the conversation is put into or taken out of pendingPermissions,
\* by this run or by another run of the conversation.
PermissionGate ==
  /\ Alive
  /\ permission' = ~permission
  /\ hang' = 0
  /\ UNCHANGED <<phase, sinceTick, idle, inflight, age, silence, beatVars>>

\* finalizeCleanup: clearRun.
ClearRun ==
  /\ phase = "streaming"
  /\ phase' = "done"
  /\ inflight' = {} /\ age' = [t \in Tools |-> 0]
  /\ UNCHANGED <<sinceTick, idle, permission, observerVars, beatVars>>

Next ==
  \/ Pass \/ TickDefers \/ TickTrips \/ TickRefreshes \/ TickRests
  \/ SubscribeBridge \/ AgentEvent \/ SubAgentEvent \/ PermissionGate \/ ClearRun

Spec == Init /\ [][Next]_vars

-----------------------------------------------------------------------------
TypeOK ==
  /\ phase \in {"spinUp", "streaming", "done", "killed"}
  /\ sinceTick \in 0 .. TICK
  /\ idle \in Nat /\ silence \in Nat /\ hang \in Nat
  /\ inflight \in SUBSET Tools
  /\ age \in [Tools -> Nat] /\ \A t \in Tools : age[t] <= CALL[t]
  /\ permission \in BOOLEAN
  /\ hbAge \in Nat /\ hbWrite \in Nat
  /\ lost \in 0 .. MaxLost

\* The watchdog kills only a run that has been silent for the base window: a
\* run whose model, tools or sub-agents reported within it is making progress
\* ("multi-minute auto-spin-up turns aren't killed", executor.ts).
KilledInSilence == phase = "killed" => silence >= IDLE

\* The row of a run under the watchdog never gets old enough for
\* cleanupOrphanedRuns, however ticks, deferrals and lost updates fall: the
\* orphan sweep interrupts no run that the watchdog looks after.
HeartbeatFresh == Alive => hbAge < ORPHAN

\* A hanging run is found: while the user is asked nothing, a run without any
\* event survives no longer than its slowest tool's timeout, the idle window
\* that starts when the last deferral lifts, and a tick.
HangIsFound == Alive => hang <= SLOWEST + AGENT_IDLE + TICK
=============================================================================
