--------------------------- MODULE ScheduleDaemon ---------------------------
(***************************************************************************)
(* The cron daemon of one extension (schedule-daemon.ts), the reconciler     *)
(* that maintains its rows (schedule-reconcile.ts) and fireNow.  Ticks of    *)
(* the wake interval are not serialised, so a tick, its successor, fireNow   *)
(* and the start sequence are flows that interleave at every await.  A unit  *)
(* of time is a minute of the cron grid.  Only one extension: the host-wide  *)
(* cap of concurrent fires never binds before the cap of the extension.      *)
(***************************************************************************)
EXTENDS Integers, Sequences, FiniteSets

CONSTANTS
  Schedules,          \* the crons of the extension
  Period,             \* [Schedules -> Nat \ {0}]: minutes between the slots of a cron
  MaxConcurrentPerExt,
  AUTO_DISABLE_AFTER,
  MaxRunsPerDay, DayLength, ReapAge,   \* ReapAge is 2 * maxRunDurationMs
  MaxTicks,           \* bound: ticks and fireNow calls that overlap
  MaxTime,            \* bound: minutes
  MaxEvents           \* bound: ticks that overlap another, fireNow calls, rejected statements,
                      \* crashes, stops and reconciliations, together

ASSUME ScheduleAssumption ==
  /\ IsFiniteSet(Schedules) /\ Period \in [Schedules -> Nat \ {0}]
  /\ MaxConcurrentPerExt \in Nat \ {0} /\ AUTO_DISABLE_AFTER \in Nat \ {0}
  /\ MaxRunsPerDay \in Nat /\ DayLength \in Nat \ {0} /\ ReapAge \in Nat
  /\ MaxTicks \in Nat \ {0} /\ MaxTime \in Nat /\ MaxEvents \in Nat

VARIABLES
  now,
  maxRetries, \* of the schedule grant; its missedRunPolicy is read for each row
  sched,      \* extension_schedules
  fires,      \* extension_schedule_fires, in order of insertion
  daemon,     \* the process: "off"; "starting"; "up", the interval installed; "idle" without it
  lock,       \* the lockfile exists
  inFlight,   \* the counter of concurrent fires
  flow,       \* the start sequence, the ticks and fireNow
  recon,      \* reconcileSchedules
  events,     \* the bounded events so far
  excused,    \* observer: slots whose claims overlapped or whose catch-up was cut short
  leaked      \* observer: counted fires given up by a rejected statement

vars == <<now, maxRetries, sched, fires, daemon, lock, inFlight, flow, recon, events, excused, leaked>>
tables == <<sched, fires>>
host   == <<now, maxRetries, daemon, lock, recon>>

Ticks  == 1 .. MaxTicks   \* the flows of tick() and fireNow(), which has no further row
StartF == 0               \* the flow of start()
Flows  == Ticks \cup {StartF}

Policies == {"skip", "fire-once", "fire-all"}
Never    == -1

\* parseCron(cron).next(t): the first slot after t.
next(s, t) == (t \div Period[s] + 1) * Period[s]
day(t) == t \div DayLength

\* A flow: the time it captured, the rows it selected and has left, the row and
\* the fire in hand, claims (tick) or usedToday (fire-all), the day of its quota
\* check, the slot that fire-all has reached, the rows left to reap.
NoRow == [id |-> "none", next |-> 0, last |-> Never, errors |-> 0]
Idle == [pc |-> "idle", at |-> 0, due |-> << >>, row |-> NoRow, fire |-> 0, proc |-> FALSE,
         count |-> 0, day |-> 0, cursor |-> 0, firedAt |-> 0, reap |-> {}]
NoRecon == [pc |-> "idle", valid |-> {}, seen |-> << >>, todo |-> {}]

Init ==
  /\ now = 0
  /\ maxRetries \in {0, 1}
  /\ \E present \in SUBSET Schedules :
       sched = [s \in Schedules |-> [present |-> s \in present, enabled |-> s \in present,
                                     next |-> next(s, 0), last |-> Never, errors |-> 0]]
  /\ fires = << >>
  /\ daemon = "off" /\ lock = FALSE
  /\ inFlight = 0
  /\ flow = [f \in Flows |-> Idle]
  /\ recon = NoRecon
  /\ events = 0
  /\ excused = {} /\ leaked = 0

----------------------------------------------------------------------------
(* Statements that the flows share *)

Event == events < MaxEvents /\ events' = events + 1

DispatchPcs == {"okFire", "okSched", "errFire", "retryInsert", "errSched"}

\* Flows whose fire is counted in inFlight.
Counted(f) == flow[f].pc \in {"okFire", "okSched", "errFire"}

Due(s) == sched[s].enabled /\ sched[s].next <= now

\* A snapshot of the due rows, in the order in which the select returns them.
DueRows ==
  LET S == {s \in Schedules : sched[s].present /\ Due(s)}
      order == CHOOSE q \in [1 .. Cardinality(S) -> S] : \A i, j \in DOMAIN q : i # j => q[i] # q[j]
  IN [i \in DOMAIN order |-> [id |-> order[i], next |-> sched[order[i]].next,
                              last |-> sched[order[i]].last, errors |-> sched[order[i]].errors]]

todaysFireCount == Cardinality({k \in DOMAIN fires : day(fires[k].at) >= day(now)})

\* A fire row of flow f, running; via is the operation that claims it and day
\* the day of the quota check, Never for a claim that has none.
Fire(f, slot, at, attempt, via, checked) ==
  [sched |-> flow[f].row.id, slot |-> slot, at |-> at, status |-> "running",
   attempt |-> attempt, via |-> via, day |-> checked, sent |-> FALSE]

Set(f, status) == fires' = [fires EXCEPT ![flow[f].fire].status = status]

Discount == inFlight' = IF inFlight > 0 THEN inFlight - 1 ELSE inFlight

\* A tick goes on to its next due row, without an await; when the extension is
\* at its cap, so it is for the rows that remain.
NextRow(g, counter) ==
  IF g.due = << >> \/ counter + g.count >= MaxConcurrentPerExt THEN Idle
  ELSE [Idle EXCEPT !.pc = "quota", !.at = g.at, !.due = Tail(g.due), !.count = g.count, !.row = Head(g.due)]

\* The flow goes on at pc; the counter that its next row is held against is the new one.
Goto(f, pc) == flow' = [flow EXCEPT ![f] = CASE pc = "idle" -> Idle
                                             [] pc = "row" -> NextRow(@, inFlight')
                                             [] OTHER -> [@ EXCEPT !.pc = pc]]

\* What a flow does once dispatchFire returns, and once it throws.
After(f) == IF f \in Ticks THEN "row"
            ELSE IF fires[flow[f].fire].via = "all" THEN "missedLoop" ELSE "missedAdvance"
Caught(f) == IF f \in Ticks THEN "row" ELSE "missedRow"

----------------------------------------------------------------------------
(* dispatchFire, completeFire and handleFireError *)

Outcomes == {"asleep", "sent", "throws"}

\* The fire k of rows is counted and, without an await, its notification sent:
\* the extension is asleep, the notification leaves, or its write throws (the
\* registry is an option of the daemon: background-timers.ts gives it none, so
\* that every fire finds the extension asleep, and the sendNotification of
\* ExtensionProcess swallows its write errors).  g is the flow as it goes on.
Dispatch(f, rows, k, g) ==
  /\ inFlight' = inFlight + 1
  /\ \E outcome \in Outcomes :
       /\ fires' = [rows EXCEPT ![k].sent = outcome = "sent"]
       /\ flow' = [flow EXCEPT ![f] = [g EXCEPT !.pc = IF outcome = "throws" THEN "errFire" ELSE "okFire",
                                                !.proc = outcome # "asleep", !.fire = k]]

\* ... for a row inserted just before.
InsertAndDispatch(f, fire, g) == Dispatch(f, Append(fires, fire), Len(fires) + 1, g)

OkFire(f) ==
  /\ flow[f].pc = "okFire"
  /\ Set(f, "ok")
  /\ Goto(f, "okSched")
  /\ UNCHANGED <<host, sched, inFlight, events, excused, leaked>>

OkSched(f) ==
  /\ flow[f].pc = "okSched"
  /\ sched' = [sched EXCEPT ![flow[f].row.id].errors = 0]
  /\ Discount
  /\ Goto(f, After(f))
  /\ UNCHANGED <<host, fires, events, excused, leaked>>

\* Mutant: a fire that is not retried keeps its place in the counter.
ErrFireCounted(f) ==
  /\ flow[f].pc = "errFire"
  /\ Set(f, "error")
  /\ Goto(f, IF fires[flow[f].fire].attempt < maxRetries THEN "retryInsert" ELSE "errSched")
  /\ UNCHANGED <<host, sched, inFlight, events, excused, leaked>>

\* Mutant: one retry too many.
ErrFireOnceMore(f) ==
  /\ flow[f].pc = "errFire"
  /\ Set(f, "error")
  /\ Discount
  /\ Goto(f, IF fires[flow[f].fire].attempt <= maxRetries THEN "retryInsert" ELSE "errSched")
  /\ UNCHANGED <<host, sched, events, excused, leaked>>

\* handleFireError: the row fails; a retry is a new row and a new dispatch ...
ErrFire(f) ==
  /\ flow[f].pc = "errFire"
  /\ Set(f, "error")
  /\ Discount
  /\ Goto(f, IF fires[flow[f].fire].attempt < maxRetries THEN "retryInsert" ELSE "errSched")
  /\ UNCHANGED <<host, sched, events, excused, leaked>>

RetryInsert(f) ==
  /\ flow[f].pc = "retryInsert"
  /\ LET failed == fires[flow[f].fire] IN
     InsertAndDispatch(f, Fire(f, flow[f].row.next, now, failed.attempt + 1, failed.via, Never), flow[f])
  /\ UNCHANGED <<host, sched, events, excused, leaked>>

\* Mutant: errors of the row as it is, plus two.
ErrSchedTwice(f) ==
  LET s == flow[f].row.id IN
  /\ flow[f].pc = "errSched"
  /\ sched' = [sched EXCEPT ![s].errors = flow[f].row.errors + 2]
  /\ UNCHANGED <<host, fires, inFlight, events, excused, leaked>>
  /\ Goto(f, After(f))

\* ... or the last one: the error count as selected, plus one.
ErrSched(f) ==
  LET s == flow[f].row.id
      newCount == flow[f].row.errors + 1
  IN
  /\ flow[f].pc = "errSched"
  /\ sched' = [sched EXCEPT ![s].errors = newCount,
                            ![s].enabled = @ /\ newCount < AUTO_DISABLE_AFTER]
  /\ UNCHANGED <<host, fires, inFlight, events, excused, leaked>>
  /\ Goto(f, After(f))

----------------------------------------------------------------------------
(* tick *)

\* Slots that another flow has selected and not yet advanced.
Pending(g) ==
  {<<flow[g].due[i].id, flow[g].due[i].next>> : i \in DOMAIN flow[g].due}
    \cup (IF flow[g].pc \in {"quota", "skipSlot", "insert", "advance"}
          THEN {<<flow[g].row.id, flow[g].row.next>>} ELSE {})

\* Ticks are alike: a new one takes the first free flow.
FirstFree(f) == f \in Ticks /\ flow[f].pc = "idle" /\ \A g \in Ticks : g < f => flow[g].pc # "idle"

\* The wake interval selects the due rows (a tick that finds none changes
\* nothing).
WakeTick(f) ==
  LET due == DueRows IN
  /\ daemon = "up" /\ due # << >> /\ FirstFree(f)
  /\ IF \A g \in Ticks : flow[g].pc = "idle" THEN UNCHANGED events ELSE Event
  /\ flow' = [flow EXCEPT ![f] = NextRow([Idle EXCEPT !.at = now, !.due = due], inFlight)]
  /\ excused' = excused \cup ({<<due[i].id, due[i].next>> : i \in DOMAIN due}
                                \cap UNION {Pending(g) : g \in Ticks})
  /\ UNCHANGED <<host, tables, inFlight, leaked>>

\* Mutant: the quota of the day is not enforced.
TickQuotaFree(f) ==
  /\ f \in Ticks /\ flow[f].pc = "quota"
  /\ flow' = [flow EXCEPT ![f].pc = "insert", ![f].day = day(now)]
  /\ UNCHANGED <<host, tables, inFlight, events, excused, leaked>>

\* Mutant: a row over its quota is passed over and stays due.
TickQuotaStays(f) ==
  /\ f \in Ticks /\ flow[f].pc = "quota"
  /\ flow' = [flow EXCEPT ![f] = IF todaysFireCount >= MaxRunsPerDay THEN NextRow(@, inFlight)
                                 ELSE [@ EXCEPT !.pc = "insert", !.day = day(now)]]
  /\ UNCHANGED <<host, tables, inFlight, events, excused, leaked>>

\* maxRunsPerDay, against the rows of the day it is now.
TickQuota(f) ==
  /\ f \in Ticks /\ flow[f].pc = "quota"
  /\ flow' = [flow EXCEPT ![f].pc = IF todaysFireCount >= MaxRunsPerDay THEN "skipSlot" ELSE "insert",
                          ![f].day = day(now)]
  /\ UNCHANGED <<host, tables, inFlight, events, excused, leaked>>

\* The slots that an advance of a tick which started long ago makes due again.
Rewound(s, t) == {s} \X (next(s, t) .. sched[s].next - 1)

TickSkipsSlot(f) ==
  LET s == flow[f].row.id IN
  /\ flow[f].pc = "skipSlot"
  /\ sched' = [sched EXCEPT ![s].next = next(s, flow[f].at)]
  /\ excused' = excused \cup Rewound(s, flow[f].at)
  /\ UNCHANGED <<host, fires, inFlight, events, leaked>>
  /\ Goto(f, "row")

\* firedAt of a claim: a late one is jittered into the next minute.
FiredAts(f, late) == IF late THEN {flow[f].at, flow[f].at + 1} ELSE {flow[f].at}

TickInserts(f) ==
  LET row == flow[f].row IN
  /\ f \in Ticks /\ flow[f].pc = "insert"
  /\ \E at \in FiredAts(f, row.next < flow[f].at - 1) : 
       fires' = Append(fires, Fire(f, row.next, at, 0, "tick", flow[f].day))
  /\ flow' = [flow EXCEPT ![f].pc = "advance", ![f].fire = Len(fires) + 1]
  /\ UNCHANGED <<host, sched, inFlight, events, excused, leaked>>

\* Mutant: the claim leaves next_fire_at where it was.
TickAdvancesNot(f) ==
  /\ flow[f].pc = "advance"
  /\ sched' = [sched EXCEPT ![flow[f].row.id].last = fires[flow[f].fire].at]
  /\ Dispatch(f, fires, flow[f].fire, [flow[f] EXCEPT !.count = @ + 1])
  /\ UNCHANGED <<host, events, excused, leaked>>

\* The second statement of the claim; then the dispatch.
TickAdvances(f) ==
  LET s == flow[f].row.id IN
  /\ flow[f].pc = "advance"
  /\ sched' = [sched EXCEPT ![s].next = next(s, flow[f].at), ![s].last = fires[flow[f].fire].at]
  /\ excused' = excused \cup Rewound(s, flow[f].at)
  /\ Dispatch(f, fires, flow[f].fire, [flow[f] EXCEPT !.count = @ + 1])
  /\ UNCHANGED <<host, events, leaked>>

----------------------------------------------------------------------------
(* fireNow *)

FireNow(f, s) ==
  /\ daemon = "up" /\ FirstFree(f) /\ Event
  /\ sched[s].present /\ sched[s].enabled
  /\ flow' = [flow EXCEPT ![f].pc = "nowQuota", ![f].at = now,
                          ![f].row = [id |-> s, next |-> sched[s].next, last |-> sched[s].last,
                                      errors |-> sched[s].errors]]
  /\ UNCHANGED <<host, tables, inFlight, excused, leaked>>

NowQuota(f) ==
  /\ flow[f].pc = "nowQuota"
  /\ flow' = [flow EXCEPT ![f] = IF todaysFireCount >= MaxRunsPerDay THEN Idle
                                 ELSE [@ EXCEPT !.pc = "nowInsert", !.day = day(now)]]
  /\ UNCHANGED <<host, tables, inFlight, events, excused, leaked>>

NowInserts(f) ==
  /\ flow[f].pc = "nowInsert"
  /\ InsertAndDispatch(f, Fire(f, flow[f].at, flow[f].at, 0, "now", flow[f].day), flow[f])
  /\ UNCHANGED <<host, sched, events, excused, leaked>>

----------------------------------------------------------------------------
(* start *)

\* acquireLockfile: no lockfile, or that of a process that is dead ...
Start ==
  /\ daemon = "off"
  /\ daemon' = "starting" /\ lock' = TRUE
  /\ flow' = [flow EXCEPT ![StartF].pc = "reapSelect"]
  /\ UNCHANGED <<now, maxRetries, tables, inFlight, recon, events, excused, leaked>>

\* ... and refused when the pid it holds is alive, be it the pid of this very
\* process, which the process that crashed had before.
StartRefused ==
  /\ daemon = "off" /\ lock
  /\ daemon' = "idle"
  /\ UNCHANGED <<now, maxRetries, tables, lock, inFlight, flow, recon, events, excused, leaked>>

Running == {k \in DOMAIN fires : fires[k].status = "running"}

ReapSelects ==
  /\ flow[StartF].pc = "reapSelect"
  /\ flow' = [flow EXCEPT ![StartF].pc = "reapFire", ![StartF].at = now, ![StartF].reap = Running]
  /\ UNCHANGED <<host, tables, inFlight, events, excused, leaked>>

\* reapCrashedFires, one row: old enough and retried, it fails ...
ReapFire ==
  LET f == flow[StartF] IN
  /\ f.pc = "reapFire"
  /\ \E k \in f.reap :
       IF f.at - fires[k].at >= ReapAge /\ maxRetries > 0
       THEN /\ fires' = [fires EXCEPT ![k].status = "error"]
            /\ flow' = [flow EXCEPT ![StartF].reap = @ \ {k}, ![StartF].pc = "reapSched",
                                    ![StartF].fire = k]
       ELSE /\ flow' = [flow EXCEPT ![StartF].reap = @ \ {k}]
            /\ UNCHANGED fires
  /\ UNCHANGED <<host, sched, inFlight, events, excused, leaked>>

\* ... and its schedule is due at once.
ReapSched ==
  /\ flow[StartF].pc = "reapSched"
  /\ sched' = [sched EXCEPT ![fires[flow[StartF].fire].sched].next = flow[StartF].at]
  /\ Goto(StartF, "reapFire")
  /\ UNCHANGED <<host, fires, inFlight, events, excused, leaked>>

MissedSelects ==
  /\ \/ flow[StartF].pc = "missedSelect"
     \/ flow[StartF].pc = "reapFire" /\ flow[StartF].reap = {}
  /\ flow' = [flow EXCEPT ![StartF] = [Idle EXCEPT !.pc = "missedRow", !.at = now, !.due = DueRows]]
  /\ UNCHANGED <<host, tables, inFlight, events, excused, leaked>>

\* applyMissedRunPolicies, the next overdue row and the policy of its grant.
MissedRow(policy) ==
  LET f == flow[StartF] IN
  /\ f.pc = "missedRow" /\ f.due # << >>
  /\ flow' = [flow EXCEPT ![StartF] =
       [Idle EXCEPT !.at = f.at, !.due = Tail(f.due), !.row = Head(f.due), !.pc = policy]]
  /\ UNCHANGED <<host, tables, inFlight, events, excused, leaked>>

MissedSkips ==
  LET s == flow[StartF].row.id IN
  /\ flow[StartF].pc = "skip"
  /\ sched' = [sched EXCEPT ![s].next = next(s, flow[StartF].at)]
  /\ Goto(StartF, "missedRow")
  /\ UNCHANGED <<host, fires, inFlight, events, excused, leaked>>

\* fire-once claims without a look at the quota, and advances after the dispatch.
OnceInserts ==
  LET f == flow[StartF] IN
  /\ f.pc = "fire-once"
  /\ \E at \in FiredAts(StartF, TRUE) :
       InsertAndDispatch(StartF, Fire(StartF, f.row.next, at, 0, "once", Never), [f EXCEPT !.firedAt = at])
  /\ UNCHANGED <<host, sched, events, excused, leaked>>

MissedAdvances ==
  LET f == flow[StartF] IN
  /\ f.pc = "missedAdvance"
  /\ sched' = [sched EXCEPT ![f.row.id].next = next(f.row.id, f.at), ![f.row.id].last = f.firedAt]
  /\ Goto(StartF, "missedRow")
  /\ UNCHANGED <<host, fires, inFlight, events, excused, leaked>>

\* fire-all: the day's count and the first slot after the last fire ...
MissedCounts ==
  LET f == flow[StartF] IN
  /\ f.pc = "fire-all"
  /\ flow' = [flow EXCEPT ![StartF].pc = "missedLoop", ![StartF].count = todaysFireCount,
        ![StartF].day = day(now),
        ![StartF].cursor = next(f.row.id, IF f.row.last = Never THEN f.row.next ELSE f.row.last)]
  /\ UNCHANGED <<host, tables, inFlight, events, excused, leaked>>

\* ... a fire for each missed slot ...
AllInserts ==
  LET f == flow[StartF] IN
  /\ f.pc = "missedLoop" /\ f.cursor <= f.at /\ f.count < MaxRunsPerDay
  /\ \E at \in FiredAts(StartF, TRUE) : 
       InsertAndDispatch(StartF, Fire(StartF, f.cursor, at, 0, "all", f.day),
                         [f EXCEPT !.count = @ + 1, !.cursor = next(f.row.id, @)])
  /\ UNCHANGED <<host, sched, events, excused, leaked>>

\* ... and the schedule advances past them.
AllAdvances ==
  LET f == flow[StartF] IN
  /\ f.pc = "missedLoop" /\ ~(f.cursor <= f.at /\ f.count < MaxRunsPerDay)
  /\ sched' = [sched EXCEPT ![f.row.id].next = next(f.row.id, f.at),
                            ![f.row.id].last = IF f.fire # 0 THEN f.at ELSE @]
  /\ Goto(StartF, "missedRow")
  /\ UNCHANGED <<host, fires, inFlight, events, excused, leaked>>

\* The policies have been applied, or given up.
Seeding == flow[StartF].pc = "seed" \/ (flow[StartF].pc = "missedRow" /\ flow[StartF].due = << >>)

\* The counter is seeded with the rows still running; the interval is installed.
Seeds ==
  /\ Seeding
  /\ inFlight' = inFlight + Cardinality(Running)
  /\ daemon' = "up"
  /\ Goto(StartF, "idle")
  /\ UNCHANGED <<now, maxRetries, tables, lock, recon, events, excused, leaked>>

----------------------------------------------------------------------------
(* Rejected statements, the end of the process, the reconciler *)

\* Slots the catch-up of the row in hand has fired; cut short now, they stay due.
CutShort ==
  LET f == flow[StartF] IN
  IF f.pc \in DispatchPcs \cup {"missedAdvance", "missedLoop"}
  THEN {<<f.row.id, fires[k].slot>> :
          k \in {i \in DOMAIN fires : fires[i].sched = f.row.id /\ fires[i].at >= f.at
                                      /\ fires[i].via \in {"once", "all"}}}
  ELSE {}

\* completeFire throws inside the try of dispatchFire: the fire, though sent, is an error.
CompletionThrows(f) ==
  /\ flow[f].pc \in {"okFire", "okSched"} /\ flow[f].proc
  /\ Event
  /\ Goto(f, "errFire")
  /\ UNCHANGED <<host, tables, inFlight, excused, leaked>>

\* Any other statement of a dispatch throws to the caller of dispatchFire.
DispatchThrows(f) ==
  /\ flow[f].pc \in DispatchPcs /\ (flow[f].pc \in {"okFire", "okSched"} => ~flow[f].proc)
  /\ Event
  /\ leaked' = IF Counted(f) THEN leaked + 1 ELSE leaked
  /\ excused' = IF f = StartF THEN excused \cup CutShort ELSE excused
  /\ UNCHANGED <<host, tables, inFlight>>
  /\ Goto(f, Caught(f))

\* Where a flow goes on when one of its own statements throws.
CatcherPcs == {"quota", "skipSlot", "insert", "advance", "nowQuota", "nowInsert", "reapSelect", "reapFire",
               "reapSched", "missedSelect", "missedLoop", "missedAdvance"} \cup Policies
Catcher(pc) ==
  CASE pc \in {"quota", "nowQuota", "nowInsert"}       -> "idle"
    [] pc \in {"skipSlot", "insert", "advance"}        -> "row"
    [] pc \in {"reapSelect", "reapFire", "reapSched"}  -> "missedSelect"
    [] pc = "missedSelect"                             -> "seed"
    [] pc \in {"missedLoop", "missedAdvance"} \cup Policies -> "missedRow"

FlowThrows(f) ==
  /\ flow[f].pc \in CatcherPcs
  /\ Event
  /\ excused' = IF f = StartF THEN excused \cup CutShort ELSE excused
  /\ UNCHANGED <<host, tables, inFlight, leaked>>
  /\ Goto(f, Catcher(flow[f].pc))

\* A select of the seed throws: the interval is installed with the rows counted so far.
SeedThrows ==
  /\ Seeding
  /\ Event
  /\ \E n \in {0} \cup 0 .. Cardinality(Running) - 1 : inFlight' = inFlight + n
  /\ daemon' = "up"
  /\ Goto(StartF, "idle")
  /\ UNCHANGED <<now, maxRetries, tables, lock, recon, excused, leaked>>

\* stop: the interval is cleared and the lockfile released; flows go on.
Stop ==
  /\ daemon = "up" /\ Event
  /\ daemon' = "idle" /\ lock' = FALSE
  /\ UNCHANGED <<now, maxRetries, tables, inFlight, flow, recon, excused, leaked>>

\* The process ends: what it holds in memory is gone.
Exit ==
  /\ \/ daemon \in {"starting", "up"} /\ Event
     \/ daemon = "idle" /\ UNCHANGED events
  /\ daemon' = "off"
  /\ inFlight' = 0 /\ leaked' = 0
  /\ flow' = [f \in Flows |-> Idle] /\ recon' = NoRecon
  /\ excused' = excused \cup CutShort
  /\ UNCHANGED <<now, maxRetries, tables, lock>>

\* reconcileSchedules: the rows are read ...
ReconcileReads(valid) ==
  /\ daemon # "off" /\ recon.pc = "idle" /\ Event
  /\ recon' = [pc |-> "visit", valid |-> valid, todo |-> valid,
               seen |-> [s \in Schedules |-> [present |-> sched[s].present, enabled |-> sched[s].enabled]]]
  /\ UNCHANGED <<now, maxRetries, tables, daemon, lock, inFlight, flow, excused, leaked>>

\* ... each declared cron is added or, when it was disabled as read, enabled ...
ReconcileVisits(s) ==
  /\ recon.pc = "visit" /\ s \in recon.todo
  /\ sched' = [sched EXCEPT ![s] =
       CASE recon.seen[s].present /\ recon.seen[s].enabled -> @
         [] recon.seen[s].present /\ ~recon.seen[s].enabled -> [@ EXCEPT !.enabled = TRUE]
         [] ~recon.seen[s].present -> [@ EXCEPT !.present = TRUE, !.enabled = TRUE, !.next = next(s, now)]]
  /\ recon' = [recon EXCEPT !.todo = @ \ {s}]
  /\ UNCHANGED <<now, maxRetries, fires, daemon, lock, inFlight, flow, events, excused, leaked>>

\* ... and the others are disabled.
ReconcileDisables ==
  /\ recon.pc = "visit" /\ recon.todo = {}
  /\ sched' = [s \in Schedules |-> [sched[s] EXCEPT !.enabled = @ /\ s \in recon.valid]]
  /\ recon' = NoRecon
  /\ UNCHANGED <<now, maxRetries, fires, daemon, lock, inFlight, flow, events, excused, leaked>>

TimePasses ==
  /\ now < MaxTime
  /\ now' = now + 1
  /\ UNCHANGED <<maxRetries, tables, daemon, lock, inFlight, flow, recon, events, excused, leaked>>

----------------------------------------------------------------------------
FlowStep(f) ==
  \/ OkFire(f) \/ OkSched(f) \/ ErrFire(f) \/ RetryInsert(f) \/ ErrSched(f)
  \/ TickQuota(f) \/ TickSkipsSlot(f) \/ TickInserts(f) \/ TickAdvances(f)
  \/ NowQuota(f) \/ NowInserts(f)

StartStep ==
  \/ ReapSelects \/ ReapFire \/ ReapSched \/ MissedSelects \/ MissedSkips
  \/ \E policy \in Policies : MissedRow(policy)
  \/ OnceInserts \/ MissedAdvances \/ MissedCounts \/ AllInserts \/ AllAdvances \/ Seeds

Throws(f) == CompletionThrows(f) \/ DispatchThrows(f) \/ FlowThrows(f)

Next ==
  \/ TimePasses
  \/ Start \/ StartRefused \/ StartStep \/ SeedThrows \/ Stop \/ Exit
  \/ \E f \in Flows : WakeTick(f) \/ FlowStep(f) \/ Throws(f) \/ \E s \in Schedules : FireNow(f, s)
  \/ \E s \in Schedules : ReconcileVisits(s)
  \/ \E valid \in SUBSET Schedules : ReconcileReads(valid)
  \/ ReconcileDisables

\* The interval keeps firing, and statements return or throw.
Fairness ==
  /\ \A f \in Flows : WF_vars(FlowStep(f)) /\ WF_vars(WakeTick(f))
  /\ WF_vars(StartStep)

Spec == Init /\ [][Next]_vars /\ Fairness

----------------------------------------------------------------------------
Pcs == CatcherPcs \cup DispatchPcs \cup {"idle", "missedRow", "seed"}
RowIds == Schedules \cup {NoRow.id}
Snapshot == [id : RowIds, next : Nat, last : Nat \cup {Never}, errors : Nat]

\* Rows, flows and counters have their types; a flow that dispatches has a fire row.
TypeOK ==
  /\ now \in 0 .. MaxTime
  /\ sched \in [Schedules -> [present : BOOLEAN, enabled : BOOLEAN, next : Nat,
                              last : Nat \cup {Never}, errors : Nat]]
  /\ \A k \in DOMAIN fires :
       fires[k] \in [sched : Schedules, slot : Nat, at : Nat, status : {"running", "ok", "error"},
                     attempt : 0 .. maxRetries, via : {"tick", "now", "once", "all"},
                     day : Nat \cup {Never}, sent : BOOLEAN]
  /\ daemon \in {"off", "starting", "up", "idle"} /\ lock \in BOOLEAN
  /\ inFlight \in Nat /\ leaked \in Nat
  /\ \A f \in Flows :
       /\ flow[f].pc \in Pcs /\ flow[f].row \in Snapshot
       /\ flow[f].fire \in 0 .. Len(fires) /\ flow[f].reap \subseteq DOMAIN fires
       /\ flow[f].pc \in DispatchPcs => flow[f].fire # 0 /\ flow[f].row.id \in Schedules

\* Without retries, a slot is sent to the extension once, except a slot that
\* overlapping ticks both selected, one whose catch-up at start was cut short
\* between its dispatch and its advance, and one that the advance of a slow
\* tick, reckoned from the time of its wake, has made due again.
SlotSentOnce ==
  maxRetries = 0 =>
    \A i, j \in DOMAIN fires :
      /\ i # j /\ fires[i].sched = fires[j].sched /\ fires[i].slot = fires[j].slot
      /\ fires[i].sent /\ fires[j].sent /\ "now" \notin {fires[i].via, fires[j].via}
      => <<fires[i].sched, fires[i].slot>> \in excused

\* The claims that look at the quota exceed it by no more than the flows that
\* can have looked at the same time.
QuotaHeld ==
  \A d \in 0 .. day(MaxTime) :
    Cardinality({k \in DOMAIN fires : fires[k].day = d /\ day(fires[k].at) >= d})
      <= MaxRunsPerDay + MaxTicks - 1

\* The counter covers the fires in progress, and each excess is a fire row
\* that stays running or a fire given up by a rejected statement.
CounterCovers ==
  LET counted == {f \in Flows : Counted(f)} IN
  /\ Cardinality(counted) <= inFlight
  /\ inFlight <= Cardinality(Running) + leaked
                   + Cardinality({f \in counted : fires[flow[f].fire].status # "running"})

\* The error count that disables a schedule never exceeds its failed fires,
\* whatever a stale snapshot wrote.
ErrorsReal ==
  \A s \in Schedules :
    sched[s].errors <= Cardinality({k \in DOMAIN fires : fires[k].sched = s /\ fires[k].status = "error"})

\* The cap is used up by places of the counter that no flow will give back:
\* seeded at start for rows that nobody ends, or leaked by a rejected statement.
Wedged == inFlight - Cardinality({f \in Flows : Counted(f)}) >= MaxConcurrentPerExt

\* A due schedule is served or skipped, and advanced, while the daemon is up,
\* unless fires that never end use up the cap.
DueIsServed ==
  \A s \in Schedules :
    (daemon = "up" /\ sched[s].present /\ Due(s)) ~> (daemon # "up" \/ ~Due(s) \/ Wedged)
=============================================================================
