# TLA+ models of EZCorp's run, assignment and background core

EZCorp is a self-hosted agent platform: a server runs chat turns of language
models (runs), lets them call tools and sub-agents, mirrors their state in a
database and streams events to browsers; extensions in subprocesses track
tasks, schedule work and react to events. This directory models the part that
everything else leans on: the life of a run, the watchdog that ends it when it
hangs, the assignment loop that drives sub-agents, the goal autopilot, the cron
daemon, the embedding outbox and the calls to extension processes. The line
numbers of the code behind each definition are in `PROJECT.json` ("map").

## 1. Inventory

| Component | State | Operations | Hard behaviour |
|---|---|---|---|
| Executor (`src/runtime/executor.ts`) | maps `runs`, `controllers`, `runConversations`, `activeAgents`, `pendingPermissions`, set `errorMessagePersisted` | `streamChat`, `cancelRun`, `storeRun`, `getActiveRunForConversation`, `runAgent` | suspended calls interleave with cancels, kills and sweeps; unawaited writes |
| Finalizers (`stream-chat/finalize.ts`) | `run.status`, rows | `finalizeSuccess`, `finalizeError`, `finalizeCleanup`, `finalizeSetupError` | which of several ends a run reports, and how often |
| Watchdog (`executor-watchdog.ts`) | timers, last activity, calls in flight | tick, deferrals, boot and periodic orphan sweep | timeouts against late events; sweeps against live runs |
| Run tables (`db/queries/runs.ts`, `active-runs.ts`) | `runs`, `active_runs` | insert, update, guarded finalize, sweeps | crash recovery, statement order |
| Routes (`active-run`, `start`, `stop`, `agent-chat`) | none | cancel, force-cancel, start, stop, message | act on what they read before an await |
| Assignment loop (`start-assignment.ts`, `pending-messages.ts`) | the closure's assignment, `autoCycle`, a queue | start, continue, complete, fail, cancel | late events of a cancelled run, bounded continuation |
| Task-tracking extension (`docs/extensions/examples/task-tracking`) | the stored task snapshot | `handleAssignmentUpdate`, tools | read-modify-write across processes |
| Event dispatcher (`event-subscription-dispatcher.ts`) | subscriptions, token buckets | dispatch | drops, late serialisation |
| Embedding outbox (`message-embed-outbox.ts`, `embed-worker.ts`, `backfill-embeddings.ts`) | `message_embed_outbox`, `message_chunks`, degraded mode | enqueue, claim, drain, fail with backoff, recover, backfill | edits between the worker's read and its `markDone`; aborted ticks; crashes |
| Goal host (`goal-host.ts`, the messages route) | `metadata.goal`, the records map | set, clear, evaluate, continue, pause, rehydrate, boot sweep | commands during an evaluation; several runs ending at once; the loop's end |
| Schedule daemon (`schedule-daemon.ts`, `schedule-reconcile.ts`) | schedules, fires, concurrency counter, lockfile | start (reap, missed runs, seed), tick, `fireNow`, retry, reconcile | overlapping ticks, two-statement claims, crash between fire and advance |
| Extension calls (`registry.ts`, `subprocess.ts`, `json-rpc.ts`) | processes map, child, killed flag, callbacks, streams, failure count | `getProcess`, `call`, `kill`, timers, exit handler, frames | exit of an old child after a respawn, timeouts against shared children |
| Permission engine, gates and questions, quotas, orchestration, pipelines, providers, previews | see `PROJECT.json` | | expiry, caches, pending promises: not modelled yet |

A route or a closure calls the executor; the executor and the watchdog share
its maps and write the two run tables; every end of a run is an event on a
synchronous bus; the closure of an assignment listens to it, mutates its own
copy and emits `task:assignment_update`, which the dispatcher carries to the
extension, which merges it into storage. The goal host listens to the same
events and starts the next run of its conversation; the schedule daemon and the
dispatcher send notifications to extension processes, tool calls go to them
through `getProcess` and `callTool`; the embedding worker shares only tables
with the routes that write messages.

What makes these parts correct: a run ends once in the eyes of every
representation, is reported, leaves one error message at most, and no row stays
`running` when nobody runs; a progressing run is not killed and a hanging one
is; an assignment loop ends, its end is final, and the row agrees with it; the
search index agrees with the messages or work is recorded that will make it so; an
ended goal stays ended and its loop neither exceeds its cap nor stalls unseen; a
cron slot is sent once and a due one is served; a call to an extension is
executed at most once and settles once. The hazards behind each property are listed in `PROJECT.json`.

## 2. Modules

JavaScript runs one callback at a time, up to its next `await`. An action is
therefore the code between two awaits, and what it awaits is a step of its own.

**`RunLifecycle`** A run is represented in memory (`status`, `ctrl`, `agent`,
`order`, `timer`, `gate`, `slot`), in `runs` (`runsRow`) and in `active_runs`
(`activeRow`, `stale`). `pc[r]` is the await a `streamChat` call is suspended
at. `db` holds the statements issued and not yet executed: `OrderedDB = TRUE` is
embedded PGlite (a FIFO), `FALSE` a Postgres pool on which they overtake one
another. `awaits[r]` says what became of the statement a call waits for. One
action per continuation of `streamChat` and of the finalizers, and one each for
`cancelRun`, the force-cancel route, the watchdog's trip, each step of the
orphan sweep, the execution or rejection of a statement, a crash and the boot.
Messages, results and turns are abstracted; the time of the watchdog is too: it
may trip any run it watches that is not deferred.

**`Watchdog`** is the clock RunLifecycle leaves out: one run from
`startWatchdog` on, in ages rather than instants, with the tick's four outcomes,
the deferrals, the bumps of the event bridge and the throttled heartbeat.
`silence` and `hang` are observers.

**`Assignments`** One assignment, its closures (`copy`, `cycle`, `run`,
`listening`), the stored row, the queue of messages, and the bridge to the
extension. `requests` is the order in which the one database answers reads and
writes of the row: the order in which they are issued, as with embedded PGlite (a
pool is not modelled here). A run is reduced to the events its closure hears; that a
cancelled run may still complete is what `RunLifecycle` shows.

**`EmbedOutbox`** Messages with their text (a version number; 0 is a text that is
not indexable), their outbox rows in order of `created_at`, and their chunks.
`pc` is the await the worker's tick is suspended at, `batch` what it has claimed
and `cur` the row it drains, with the text as read; a drain is read, embed,
delete, one insert per chunk, `markDone`. The routes' transactions are single
actions: `createMessage` and `updateMessageContent` write the outbox with the
message, `CloneTurn` (a fork of a conversation) inserts the message alone. The
backfill script is a second process with a page of its own. A crash
ends the process at any point; a build with another model may start next.
Observers: `race` (where the drain was when a message was last written, or that it
is a clone nobody has enqueued), `tries`,
`orphaned` (rows stranded by an aborted tick or a failed recovery).

**`GoalHost`** One conversation: `stored` is `metadata.goal` as the number of the
set that wrote it, `recs` the record objects (a handler keeps the one it fetched,
`map` names the current one), `run` the runs alive and the handlers of the ones
that ended, `post` the POSTs of the user. Each handler is suspended at its reads,
its evaluation and its writes. A run may be rejected before it begins
(`RunRejects`, the `InsertRunRejects` of RunLifecycle): no event follows, and the
route and the handler only log it. `held`, `dropped` and `parked` are observers: which
goals ended, which of them a handler was still holding, and why an active goal
may have no run to wait for.

**`ScheduleDaemon`** The crons of one extension, their fire rows, and the *flows*
of one process: the start sequence, ticks (which the interval does not
serialise) and `fireNow`. A flow holds the rows as it selected them. Time is in
minutes of the cron grid; `next` is a period. The lockfile, a crash, `stop`, a
rejected statement at each await and the reconciler are actions. Observers:
`excused` slots and `leaked` places of the counter. The registry is an option of
the daemon that `background-timers.ts` does not pass, so in that wiring every
fire takes the "asleep" outcome; the model has all three.

**`ExtensionCalls`** Calls of one extension, the `ExtensionProcess` objects that
`getProcess` makes (two concurrent calls may each make one), the children they
spawn, one transport each with callbacks, open streams and a pipe of frames, and
the failure count. A child is external: it may answer, stream well or badly,
close its output, stay silent, or die. `Kill` closes the transport, sends the child
its signal and forgets it; the child dies in a step of its own, late or never, and
goes on reading requests until then. Observers: `killed` and `late` of a child.

**`RemoteCall`** is what `callTool` promises, without processes: `Begin`, `Serve`,
`Answer`, `FailAll`. `ExtensionCalls` implements it (`CallsAreRemote`) with
`status` from the call's await and `served` the requests some child has read; the
refinement includes the liveness of calls with a timeout.

**`RunLifecycleProofs`, `RunRowsProofs`, `WatchdogProofs`, `AssignmentsProofs`,
`EmbedOutboxProofs`, `GoalHostProofs`, `ScheduleDaemonProofs`,
`ExtensionCallsProofs`** hold the theorems (section 5); `MC*` modules and the
`.cfg` files the TLC instances.

## 3. Runs

| Run | Instance | Shows |
|---|---|---|
| `lifecycle_restart` | two runs of a conversation, map of one, ordered database, a crash, a hang | types; no sweep terminalizes a run that is executing (`LiveRunRow`) |
| `lifecycle_pool` | one run, reordering database, a cancel, a failure, a crash, a hang | `OneErrorMessage`, `ReturnReported`, `RunRowAgrees`, `SuccessSticks` |
| `lifecycle_liveness` | one run, ordered database, a cancel, a crash, a gate, two hangs, fairness | `ActiveRowReleased`, `RowsHeal`, `WedgedRunEnds` |
| `watchdog_clock` | a plain tool and one that asks the user, no team | `KilledInSilence`, `HeartbeatFresh`, `HangIsFound` |
| `assignments_loop` | one start with an autonomous cycle, two messages, a stop or cancel, a drop, fairness | `LoopBounded`, `RowConverges`, `MessagesTaken`, `EndIsFinal`, `StartEnds` |
| `embed_outbox` | two messages (created or cloned), two texts and a blank one, two chunks, batch 2, two attempts, two faults, a crash, one backfill, fairness | `IndexAgrees`, `GivenUpAfterRetries`, `ClaimedRowOwned`, `JobsSettle` |
| `goal_host` | two POSTs, two runs at once, cap 3, threshold 2, two goals, one upset (a run rejected at its start among them), fairness | `EndedGoalStaysEnded`, `ContinuationsBounded`, `NoSilentStall`, `LoopComesToRest` |
| `schedule_daemon` | one cron, three minutes over a day boundary, quota 1, cap 1, retries 0 or 1, two overlapping flows, one event, fairness | `SlotSentOnce`, `QuotaHeld`, `CounterCovers`, `ErrorsReal`, `DueIsServed` |
| `extension_calls` | two calls, one without a timeout, two frames, streams of one or two chunks | types, `NoCallbackLost`, `NoChildForgotten`, `KillNotCounted`, and the refinement `CallsAreRemote` |
| `cancel_sticks` | one run, one cancel | **violated**: a cancelled run turns into a success |
| `spin_up` | as `watchdog_clock`, with a team | **violated**: a run whose sub-agents report is killed |
| `stop_resumable` | one start, one stop | **violated**: a stopped assignment ends up failed |

*Bounds.* `MaxCancels`, `MaxFailures`, `MaxCrashes`, `MaxGates`, `MaxHangs`,
`MaxMessages`, `MaxStops` and `MaxDrops` bound how often the environment
interferes; the code itself is not bounded. Runs interact through the map's
capacity, a conversation's permission gate and its active row only, all of
which two runs of one conversation exercise, and one fault of each kind meets a
run at each of its awaits. An autonomous cycle and two messages give the loop a
first, a last and up to two middle runs, in every order. The watchdog's windows are scaled to a unit of 7.5 s,
so that TICK = 2, and shortened so that every order of tick, timeout and window
occurs; the theorems hold for all values.

The other models share the shape: a small number of actors, each at every await,
and a budget for what interferes (`MaxFaults`, `MaxCrashes`, `MaxBlanks`,
`MaxScripts`, `MaxVersion` in EmbedOutbox; `MaxUpsets`, `MaxGoals`, `MaxPosts`,
`MaxSlots` in GoalHost; `MaxEvents`, `MaxTicks`, `MaxTime` in ScheduleDaemon;
`MaxFrames`, `MaxTotal` in ExtensionCalls). Two messages give the order of a
claim and a batch with a row left over; two slots give two handlers of one
record, and a cap of 3 a first, a middle and a capped turn; three minutes with a
day of two reach a second day, a missed slot and a reaped fire; two calls share a
child, or a respawned one, or race for two objects. A budget of one event in
`schedule_daemon` and one upset in `goal_host` meets every await with every kind
of fault; two events of `ScheduleDaemon` over two minutes (4.4 million states) have
been checked as well and hold. The two frames of
`extension_calls` reach every branch of the frame handlers (a chunk of a longer
stream, the last one, a wrong one, one without a stream); one call with four
frames has been checked as well, and the theorems hold for any number.
`RowsHeal` and `ActiveRowReleased` are stated for the ordered database: on a pool
a boot sweep may be executed after the insert it precedes.

*Fairness.* `FairSpec` of RunLifecycle assumes that a settled promise is
continued, that a statement handed to the database is executed, that intervals
fire and that a supervisor restarts the process: what the event loop, the
driver and the container give. Nothing is assumed of a hanging await, of the
effect of an abort, of the user, or of a tool. The watchdog's fairness is
conditional on a hang: only then does silence last as long as its window.
`Assignments` assumes the same of the database and the dispatcher, and that a
run settles, which is `WedgedRunEnds`; a run may settle by any of its ends.
`EmbedOutbox`: ticks run and their awaits return, the process restarts, the model
loads, backoffs pass; nothing of users, the script or faults. `GoalHost`: awaits
return and a run that was not rejected ends (in any way); a POST takes one of its outcomes. An evaluator
that hangs is ended by its timeout, one of the outcomes of `Evaluate`.
`ScheduleDaemon`: statements return or throw and the interval fires; a restart
is not assumed, `DueIsServed` speaks of a daemon that is up. `ExtensionCalls`: the
host's awaits return and its timers fire; a child owes nothing.

*Deadlock* is not checked: once every run has ended and the bounds are used up
the system rests.

*What the exceptions in the properties say.* The code has races that it accepts
or overlooks. The properties do not hide them: each is stated in full with the
narrowest exception under which TLC passes, so that they characterise the race
and would catch any other way to break the promise.

- `MessagesTaken`: a message queued behind a sub-agent stays in the queue only
  when the run failed or was cancelled, or the agent-chat route ran turns itself.
- `RowConverges`: stated for the ordered database, without drops and Stop.
- `IndexAgrees`: only a write between the worker's read and its `markDone` is
  lost (`race = "read"`); an edit before the read, a crash, a failed insert and a
  stale backfill page are not. A clone (`race = "cloned"`) has no row and no chunks:
  it is one of the gaps the backfill selects, and stays one until a backfill or an
  edit. The lost write may leave a blanked
  message with its old chunks (section 4).
- `GivenUpAfterRetries`: only a write to a claimed row is given up early.
- `ClaimedRowOwned`, `JobsSettle`: only a rejected `markFailed` or recovery
  strands a row, until the next start.
- `EndedGoalStaysEnded`: only a handler that had read the goal before it ended
  brings it back, by mirroring its reason or its pause. In the case of
  section 4 the loop then goes on.
- `NoSilentStall`: an active goal without a run has been parked by a restart, a
  queued message that was taken and dropped, a POST that started no turn, a
  rejected statement or a run rejected before it began (section 4), or it
  ended in an overlap with another handler or command.
- `SlotSentOnce`: only overlapping ticks, a slow tick that rewinds the schedule,
  and a catch-up cut short between its fire and its advance send a slot twice,
  against the at-most-once invariant of the daemon (section 4).
- `ErrorsReal` bounds the count by all failed fires; that they need not be
  consecutive (section 4) is outside the run's instance.
- `QuotaHeld`: claims that look at the quota exceed it by the other flow that
  may have looked at the same time; fire-once does not look.
- `DueIsServed`: only when places of the counter that no flow holds fill the cap
  (`Wedged`: seeded for rows left `running` by a crash, or leaked by a rejected
  completion) may a due slot wait. A fire in progress is no excuse.
- `NoCallbackLost`, `NoChildForgotten`, `KillNotCounted`: a callback sent after
  the end of the read loop is settled by a timeout only; a child that runs on
  without its object was sent a SIGTERM (which nothing escalates), or is the one
  spawned just before the exit handler of the killed child before it; a kill is
  counted as a crash only when a call respawns before that handler has run.

## 4. Findings

The first three have a run of their own, which ends in the violation. The next four
are behaviours of a passing run: each is the exception of the property named, which
TLC finds violated as soon as the exception is deleted. The last is read in the code.

- **A cancel does not stick.** `finalizeSuccess` sets `success` without looking
  at the status. A cancel during setup aborts a controller nobody consults and
  finds no agent; the prompt then runs to its end. `runAgent` has the check that
  `streamChat` lacks.
- **Auto-spin-up is not seen by the watchdog.** The watchdog is armed before
  `applyAutoSpinUp`, the listeners for sub-agent events are registered after it.
- **Stop does not leave an assignment resumable.** `cancelRun` wakes the closure
  before the route resets its own copy of the assignment; the closure's copy is
  never reset, and its "failed" is merged over "assigned".
- **A blanked message keeps stale chunks** (`embed_outbox`, `race = "read"` of
  `IndexAgrees`). The edit clears its row and chunks; a
  worker that had read the text inserts the old chunks afterwards, and nothing is
  queued that would remove them.
- **A continuation that fails to start stalls the goal** (`goal_host`, `parked =
  "unstarted"` of `NoSilentStall`). `streamChat` rejects
  before it emits anything when `insertRun` does; the goal host pauses only on a
  synchronous throw.
- **A cleared goal is re-entered** (`goal_host`, `held` of `EndedGoalStaysEnded`). The evaluator's reason is mirrored by writing
  the goal as it was read; the re-entry guard then finds it armed.
- **At-most-once is not what the schedule daemon does** (`schedule_daemon`,
  `excused` of `SlotSentOnce`). The header describes one
  transaction with row locks; the claim is a select, an insert and an update.
- **Consecutive errors need not be consecutive.** The count is read with the row
  and written after the dispatch, over a reset made in between.

## 5. Theorems

Every theorem holds for all values of the constants that satisfy the named
assumption of its module: any number of runs, messages, calls, ticks or faults,
where the runs of section 3 have two or three. The assumptions say that bounds
are naturals and sets finite, and nothing about their size; only `Watchdog` has
one about the code's cadence. TLC checked each inductive invariant on an
instance before it was proved. The proofs share a layout: lemmas that say what
each action does to the state (`...Does`), lemmas that say which parts of the
invariant such a change keeps, one lemma per group of actions, and a last step
that combines them. All safety invariants and action properties of the runs that
are expected to pass are proved.

`RunLifecycleProofs` (`RunLifecycleAssumption`):

- `TypeCorrect`: `Spec => []TypeOK`. It needs `Started`: the status that
  `updateRun` writes is a status only because a call under way has one.
- `AtMostOneErrorMessage` (`OneErrorMessage`). The property is not inductive:
  nothing in it says that the slot guards the message. The invariant `LifeInv`
  adds that a running run never holds the slot (`SlotFree`: whoever claims it has
  set a terminal status before), that a running run has not reached its
  finalizers (`NotFinalized`: so the watchdog cannot claim a slot that `clearRun`
  has released), and that until that release a free slot means no message
  (`NoMessageYet`).

`RunRowsProofs`, which extends it, is about the two tables:
`EveryReturnIsReported` (`ReturnReported`), `RunRowsAgree` (`RunRowAgrees`),
`ActiveRowsReleased`, `LiveRunsHaveRows` (`LiveRunRow`) and `SuccessIsFinal`
(`SuccessSticks`). What a row holds depends on the statements still under way,
so `RowsInv` adds `Queue`: each statement awaited is the one its call is
suspended at, a call has one, an unawaited one records no success, and with an
ordered database the boot sweep and the creation of the active row are ahead of
what the call awaits. Per run, `RunFits` says what a call knows of its rows from
the await it has passed. The theorems about `active_runs` and live rows have the
properties' own premise, an ordered database without rejected statements.

`WatchdogProofs` (`WatchdogAssumption`, and `SetupAssumption`: setup, plus one
refresh period and a tick for each update that may be lost and one more, fits the
orphan window):

- `TypeCorrect`;
- `RowStaysFresh` (`HeartbeatFresh`), along `BeatInv`: the row's heartbeat is
  older than the last write by at most the setup and the lost periods, and that
  write is younger than a refresh period and a tick;
- `HangsAreFound` (`HangIsFound`), along `HangInv`: the last sign of life is
  older than the activity clock by no more than the slowest tool's age, since a
  deferral by a tool ends with its timeout;
- `KillsOnlyTheSilent` (`KilledInSilence`), for runs without a team, along
  `SilenceInv`; `spin_up` shows that the restriction is needed.

`AssignmentsProofs` (`AssignmentsAssumption`):

- `TypeCorrect`;
- `LoopIsBounded` (`LoopBounded`), along `LoopInv`: the runs of a closure are
  covered by the cycles and messages it has used, which the property itself does
  not relate to the run now listened to;
- `EndIsFinalAlways` (`EndIsFinal`), an action property;
- `MessagesAreTaken` (`MessagesTaken`), along `MessageInv`, which follows a
  message through the closure's last look at the queue;
- `RowAlwaysConverges` (`RowConverges`). The update travels by reference and is
  written by a read and a write that other handlers may separate, so `RowInv` says
  that an end is on its way or has arrived, and that in the queue of the database
  no older update follows it; `Provenance` says that nobody else writes an end.

`EmbedOutboxProofs` (`EmbedAssumption`): `TypeCorrect`, `ClaimsAreOwned`
(`ClaimedRowOwned`), `RetriesBeforeGivingUp` (`GivenUpAfterRetries`) and
`IndexAlwaysAgrees` (`IndexAgrees`). The index agrees because of what the worker
holds: `Hands` (what it claimed, and the row it drains), `Kept` (a claimed message
keeps its row until the worker deletes it), `Drained` (the chunks are the parts
inserted so far of the text as read, which is still the text unless `race` says
otherwise), `Counted` (no attempt in a row or in hand that was not made), `Rows` (a
clone has no row and no chunks, and is in nobody's hands).

`GoalHostProofs` (`GoalAssumption`): `TypeCorrect`, `EndedStaysEnded`
(`EndedGoalStaysEnded`), `ContinuationsAreBounded` (`ContinuationsBounded`) and
`StallsAreExplained` (`NoSilentStall`). `Budget` is why the cap holds although
handlers of several runs count on one record: the continuations started and the
handlers that may still start one are covered by counted turns, below the cap.
`Unraced` (`Knows`, `Recorded`, `Driven`) is why a goal does not stall: as long as
nothing overlapped, every handler knows the stored goal, and an armed goal has a
run, handler or POST that will drive it.

`ScheduleDaemonProofs` (`ScheduleAssumption`):

- `TypeCorrect`, along `TypeInv`: each flow is where its kind may be, its fire is
  its own and in the status that its next statement expects, and ticks wait for
  the start;
- `ErrorsAreReal` (`ErrorsReal`), along `ErrorsInv`: every snapshot's count is
  covered by the failed rows of the table *without* the fire in hand, so that the
  stale count plus one still is;
- `CounterAlwaysCovers` (`CounterCovers`), along `CounterInv`: the running rows
  that are not yet dispatched are not counted, and during the start the counter
  holds the start's own fire alone, because the seed comes after it;
- `QuotaAlwaysHeld` (`QuotaHeld`), along `QuotaInv`: the rows of a day and the flows
  past the check together stay within the quota and the other flows; fire-all
  checks against its own count, which covers the rows of its day;
- `SlotsSentOnce` (`SlotSentOnce`), along `SlotInv`. A slot that was sent is either
  *settled* (behind the `next` of its schedule and not after its `last`) or being
  caught up with by the start; no tick has it selected; and two ticks have selected
  the same slot only if it is excused. That a later advance, skip or catch-up keeps
  it so needs the grid (`NextSlot`: no slot lies between a time and the `next` of
  it), that a snapshot of the start is current (no tick runs beside it), that
  fire-all's cursor is past every slot sent, and that the reconciler changes the
  `next` of an absent row only.

`ExtensionCallsProofs` (`ExtensionCallsAssumption`): `TypeCorrect`,
`CallbackNeverLost` (`NoCallbackLost`), `ChildrenNotForgotten` (`NoChildForgotten`),
`KillsNotCounted` (`KillNotCounted`) and `CallsRefineRemote`, the safety half of
`CallsAreRemote`: `Init` maps to `RemoteCall`'s, and every step to one of its steps
or a stutter. The invariant relates objects, children and calls: `Owned` and `Dead`
(which child an object names and what is left of a dead one), `GivenUp` and
`KillKnown` (who ended it), `Callbacks` (where the callback of a waiting call is),
`SentOnce` and `Executed` (a request is in one child's inbox at most, or was read
by one).

Only model-checked: the liveness properties `RowsHeal`, `WedgedRunEnds`,
`StartEnds`, `JobsSettle`, `LoopComesToRest`, `DueIsServed` and the liveness half of
`CallsAreRemote`. They rest on fairness, which the prover does not treat.

## 6. What is not modelled

- *Runs and assignments*: `runAgent`, the persistence of turns and tool calls, the
  content of prompts, compaction and tool filtering; the GET of the active-run
  route (it changes nothing: `getActiveRun` returns running rows only); crashes
  in `Assignments`; the task plan of the task-tracking extension (auto-advance,
  dependents, the task's own status).
- *Embedding outbox*: the lockfile and the kill switch, `stop` (it ends ticks and
  changes no row), the chunker and the model themselves, the page size of the
  backfill (a page is all gaps). `recordCapabilityCall` inserts rows of a role that
  is never indexable; they have no part in the index.
- *Goal host*: cards and token counts, the parser of the evaluator's answer and
  the sentinel (their outcomes are the inputs of `Evaluate`), the other keys of
  the metadata bag, which `writePersistedGoal` rewrites as it read them; `stop`.
- *Schedule daemon*: the wall-clock and daylight-saving arithmetic of `cron.ts`, the
  host-wide cap (one extension never reaches it before its own), the RPC that
  lists and edits schedules, audit entries. A row removed by an uninstall is not
  modelled; neither is `stop` during `start`, a second `start` in one process or a
  `fireNow` before the start is over, which the wiring does not do. Re-enabling a cron keeps its error count, and fire-all for a schedule
  that never fired begins after its first missed slot: both are in the model, no
  property speaks of them.
- *Extension calls*: reverse requests and notifications, the sandbox, memory
  limits, `reload` and `killAll` of the registry, the permission checks of the
  tool executor, a cancellation whose reason contains "timed out" (which would
  kill the child), and the SDK's side of the channel. The idle timer of an
  extension that is not persistent also ends calls without a timeout that wait
  for the user; the abstract call may fail at any time, so no property objects.
- *Components not modelled*: the permission engine and its gates, quotas, spawning,
  orchestration, pipelines, providers, previews: within reach, see the plan. Out of
  reach or pure I/O: the web client, authentication, retrieval, installation,
  the database bootstrap, audit and import. They are most of the repository's
  lines: what the models cover is the core's concurrent control, not its bulk.

## 7. Plan

1. *Proofs*: the safety properties of the passing runs are proved. Next come
   facts that several models share, and the theorems of the components below as
   they are added.
2. *Permission gates and questions*: `tools/permissions`, `ask-user-registry`,
   `ez-client-tool-registry`, and the permission engine's always-allow cache
   against revocation and expiry.
3. *Spawning*: `spawn-assignment-handler`, `cancel-run-handler` and `spawn-quota`
   as a second driver of Assignments; the task plan with its dependencies; two
   starts of one assignment, and its crash.
4. *Circuit breaker and router*, *pipelines*, *previews*.
5. An abstract run (`running`, then one terminal status, for one observer), and
   the `runs` row of RunLifecycle shown to implement it.
