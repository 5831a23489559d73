------------------------ MODULE ScheduleDaemonProofs ------------------------
(***************************************************************************)
(* Proofs about ScheduleDaemon, for any schedules, periods, overlapping      *)
(* ticks, quota, cap, crashes and rejected statements: type correctness, the *)
(* error count, the concurrency counter, the quota of a day, and that a slot *)
(* is sent once.                                                             *)
(***************************************************************************)
EXTENDS ScheduleDaemon, FiniteSetTheorems, TLAPS

(***************************************************************************)
(* The shape of the state.                                                  *)
(***************************************************************************)
TickPcs  == {"quota", "skipSlot", "insert", "advance", "nowQuota", "nowInsert"}
StartPcs == Policies \cup {"reapSelect", "reapFire", "reapSched", "missedSelect", "missedRow",
                           "missedLoop", "missedAdvance", "seed"}

\* Where a flow has a row in hand, where it has a fire in hand, and where that fire is counted.
RowPcs     == TickPcs \cup DispatchPcs \cup Policies \cup {"missedLoop", "missedAdvance"}
HoldPcs    == DispatchPcs \cup {"advance"}
CountedPcs == {"okFire", "okSched", "errFire"}

SchedRec == [present : BOOLEAN, enabled : BOOLEAN, next : Nat, last : Nat \cup {Never}, errors : Nat]
FireRec(retries) ==
  [sched : Schedules, slot : Nat, at : Nat, status : {"running", "ok", "error"}, attempt : 0 .. retries,
   via : {"tick", "now", "once", "all"}, day : Nat \cup {Never}, sent : BOOLEAN]
DueRec  == [id : Schedules, next : Nat, last : Nat \cup {Never}, errors : Nat]
FlowRec == [pc : Pcs, at : Nat, due : Seq(DueRec), row : Snapshot, fire : Nat, proc : BOOLEAN, count : Nat,
            day : Nat, cursor : Nat, firedAt : Nat, reap : SUBSET Nat]
ReconRec == [pc : {"visit"}, valid : SUBSET Schedules, todo : SUBSET Schedules,
             seen : [Schedules -> [present : BOOLEAN, enabled : BOOLEAN]]]

\* The statuses that the fire in hand may have.
StatusAt(pc) == CASE pc \in {"advance", "okFire"} -> {"running"}
                  [] pc = "okSched" -> {"ok"}
                  [] pc = "errFire" -> {"running", "ok"}
                  [] pc \in {"retryInsert", "errSched"} -> {"error"}

\* A flow g of the daemon, or of its start, over the fires fs.
Fits(f, g, fs, retries) ==
  /\ g \in FlowRec
  /\ g.pc \in DispatchPcs \cup {"idle"} \cup (IF f \in Ticks THEN TickPcs ELSE StartPcs)
  /\ g.fire \in 0 .. Len(fs) /\ g.reap \subseteq DOMAIN fs
  /\ g.pc \in RowPcs => g.row.id \in Schedules
  /\ g.pc \in HoldPcs \cup {"reapSched"} => g.fire # 0
  /\ g.pc \in HoldPcs => fs[g.fire].sched = g.row.id /\ fs[g.fire].status \in StatusAt(g.pc)
  /\ g.pc = "retryInsert" => fs[g.fire].attempt < retries

Shape ==
  /\ now \in 0 .. MaxTime /\ maxRetries \in Nat /\ events \in Nat
  /\ sched \in [Schedules -> SchedRec]
  /\ fires \in Seq(FireRec(maxRetries))
  /\ daemon \in {"off", "starting", "up", "idle"} /\ lock \in BOOLEAN
  /\ inFlight \in Nat /\ leaked \in Nat
  /\ flow \in [Flows -> FlowRec]
  /\ recon \in {NoRecon} \cup ReconRec

FlowsFit == \A f \in Flows : Fits(f, flow[f], fires, maxRetries)

\* No two flows have the same fire in hand.
OwnFires == \A f, g \in Flows :
              f # g /\ flow[f].pc \in HoldPcs /\ flow[g].pc \in HoldPcs => flow[f].fire # flow[g].fire

\* The ticks wait for the start.
Phases ==
  /\ flow[StartF].pc # "idle" => daemon = "starting"
  /\ daemon \in {"off", "starting"} => \A f \in Ticks : flow[f].pc = "idle"
  /\ daemon = "off" => inFlight = 0 /\ leaked = 0

TypeInv == Shape /\ FlowsFit /\ OwnFires /\ Phases

(***************************************************************************)
(* Errors: a snapshot's count is covered by the errors that are in the       *)
(* table, without the fire in hand.                                         *)
(***************************************************************************)
Errs(fs, s) == {k \in DOMAIN fs : fs[k].sched = s /\ fs[k].status = "error"}
InHand(g) == IF g.pc \in HoldPcs THEN {g.fire} ELSE {}

RowCovered(g, fs) == g.pc \in RowPcs => g.row.errors <= Cardinality(Errs(fs, g.row.id) \ InHand(g))
DueCovered(g, fs) == \A i \in DOMAIN g.due : g.due[i].errors <= Cardinality(Errs(fs, g.due[i].id))

ErrorsInv ==
  /\ \A s \in Schedules : sched[s].errors <= Cardinality(Errs(fires, s))
  /\ \A f \in Flows : RowCovered(flow[f], fires) /\ DueCovered(flow[f], fires)

(***************************************************************************)
(* The counter: while the daemon starts it counts the fires of the start     *)
(* alone; then also the running rows, except those not yet dispatched.      *)
(***************************************************************************)
InCount   == {f \in Flows : flow[f].pc \in CountedPcs}
Done      == {f \in InCount : fires[flow[f].fire].status # "running"}
Unsent    == {k \in DOMAIN fires : \E f \in Flows : flow[f].pc = "advance" /\ flow[f].fire = k}
Accounted == Running \ Unsent

CounterInv ==
  /\ Cardinality(InCount) <= inFlight
  /\ inFlight <= leaked + (IF daemon = "starting" THEN Cardinality(InCount)
                           ELSE Cardinality(Accounted) + Cardinality(Done))

(***************************************************************************)
(* The quota: fires of the day and claims that have passed the check.       *)
(***************************************************************************)
OfDay(fs, d) == {k \in DOMAIN fs : fs[k].day = d /\ day(fs[k].at) >= d}
Passed(d) == {f \in Ticks : flow[f].pc \in {"insert", "nowInsert"} /\ flow[f].day = d}
CatchesUp(g, fs) == g.pc = "missedLoop" \/ (g.pc \in DispatchPcs /\ fs[g.fire].via = "all")

QuotaInv ==
  /\ \A d \in Nat : Cardinality(OfDay(fires, d)) + Cardinality(Passed(d)) <= MaxRunsPerDay + MaxTicks - 1
  /\ CatchesUp(flow[StartF], fires) =>
       Cardinality(OfDay(fires, flow[StartF].day)) <= flow[StartF].count

(***************************************************************************)
(* The slots: a slot that was sent is behind its schedule, so that no tick   *)
(* selects it again, or belongs to the catch-up of the row that the start    *)
(* has in hand; and no two ticks have selected a slot that is not excused.   *)
(***************************************************************************)
Slotted(s, v) == \E m \in Nat : v = m * Period[s]
SlotOf(k) == <<fires[k].sched, fires[k].slot>>
Live(k) == k \in DOMAIN fires /\ fires[k].sent /\ fires[k].via # "now" /\ SlotOf(k) \notin excused

PendPcs == {"quota", "skipSlot", "insert", "advance"}

\* What a row, and each row of a snapshot, has in common with its slot.
Known(row, at) == sched[row.id].present /\ Slotted(row.id, row.next) /\ row.next <= at
Current(row) == row.next = sched[row.id].next /\ row.last = sched[row.id].last
Others(g) == \A i \in DOMAIN g.due :
               g.due[i].id # g.row.id /\ \A j \in DOMAIN g.due : i # j => g.due[i].id # g.due[j].id

CatchPcs == DispatchPcs \cup {"missedAdvance", "missedLoop"}
StartRow == CatchPcs \cup Policies
RestPcs  == {"idle", "nowQuota", "nowInsert", "reapSelect"}

\* The claim that a tick has inserted and not yet dispatched.
Unclaimed(k, g) == k.slot = g.row.next /\ k.at >= g.at /\ k.via = "tick" /\ ~k.sent

FlowKnown(f) ==
  /\ \A i \in DOMAIN flow[f].due : Known(flow[f].due[i], flow[f].at)
  /\ flow[f].pc \in RestPcs => flow[f].due = << >>
  /\ flow[f].pc \in RowPcs => sched[flow[f].row.id].present
  /\ flow[f].pc \in PendPcs \cup DispatchPcs /\ f \in Ticks => Others(flow[f])
  /\ flow[f].pc \in PendPcs => Known(flow[f].row, flow[f].at)
  /\ flow[f].pc = "advance" => Unclaimed(fires[flow[f].fire], flow[f])

SlotsKnown == \A s \in Schedules : Slotted(s, sched[s].next)
FireKnown(k) == /\ sched[fires[k].sched].present
                /\ fires[k].via # "now" => Slotted(fires[k].sched, fires[k].slot)
ReconKnown == recon.pc = "visit" => \A s \in recon.todo : recon.seen[s].present = sched[s].present

RowsKnown ==
  /\ SlotsKnown /\ ReconKnown
  /\ \A k \in DOMAIN fires : FireKnown(k)
  /\ \A f \in Flows : FlowKnown(f)

StartKnown ==
  LET g == flow[StartF] IN
  /\ \A i \in DOMAIN g.due : Current(g.due[i])
  /\ g.pc \in StartRow => Known(g.row, g.at) /\ Others(g) /\ Current(g.row)
  /\ g.pc = "missedRow" => \A i, j \in DOMAIN g.due : i # j => g.due[i].id # g.due[j].id
  /\ g.pc = "missedAdvance" => g.firedAt >= g.at
  /\ g.pc \in DispatchPcs => /\ fires[g.fire].via \in {"once", "all"}
                             /\ fires[g.fire].via = "once" => g.firedAt >= g.at
  /\ CatchesUp(g, fires) =>
       /\ Slotted(g.row.id, g.cursor)
       /\ \A k \in DOMAIN fires : Live(k) /\ fires[k].sched = g.row.id => fires[k].slot < g.cursor
  /\ g.pc # "reapSched"

\* A slot that was sent is behind its schedule, or is being caught up with.
Settled(k) == LET r == sched[fires[k].sched] IN
              fires[k].slot < r.next /\ r.last # Never /\ fires[k].slot <= r.last
Catching(k) == LET g == flow[StartF] IN
  /\ g.pc \in CatchPcs /\ g.fire # 0 /\ fires[k].sched = g.row.id
  /\ fires[k].at >= g.at /\ fires[k].via \in {"once", "all"} /\ fires[k].slot <= g.at

Served ==
  /\ \A k \in DOMAIN fires : Live(k) => Settled(k) \/ Catching(k)
  /\ \A k \in DOMAIN fires, f \in Ticks : Live(k) => SlotOf(k) \notin Pending(f)
  /\ \A f, g \in Ticks : f # g => Pending(f) \cap Pending(g) \subseteq excused
  /\ \A i, j \in DOMAIN fires : Live(i) /\ Live(j) /\ SlotOf(i) = SlotOf(j) => i = j

Slots == RowsKnown /\ StartKnown /\ Served

SlotInv == maxRetries = 0 => Slots

-----------------------------------------------------------------------------
(***************************************************************************)
(* The grid of the slots.                                                   *)
(***************************************************************************)
\* next is later than its argument, and no slot lies between.
LEMMA NextSlot ==
  ASSUME NEW s \in Schedules, NEW t \in Nat
  PROVE  /\ next(s, t) \in Nat /\ next(s, t) > t /\ Slotted(s, next(s, t))
         /\ \A v \in Nat : Slotted(s, v) /\ v < next(s, t) => v <= t
<1> DEFINE p == Period[s]
           q == t \div p
<1>1. p \in Nat /\ p > 0
  BY ScheduleAssumption
<1>2. q \in Nat /\ q * p <= t /\ t < (q + 1) * p
  BY <1>1
<1>3. (q + 1) * p \in Nat
  BY <1>1, <1>2
<1>4. ASSUME NEW m \in Nat, m * p < (q + 1) * p
      PROVE  m * p <= t
  <2>1. m <= q
    <3>1. SUFFICES ASSUME m >= q + 1 PROVE FALSE
      BY <1>2
    <3>2. m * p >= (q + 1) * p
      BY <1>1, <1>2, <3>1
    <3> QED BY <1>1, <1>2, <1>3, <1>4, <3>2
  <2>2. m * p <= q * p
    BY <1>1, <1>2, <2>1
  <2> QED BY <1>1, <1>2, <2>2
<1>5. q + 1 \in Nat
  BY <1>2
<1> QED BY <1>2, <1>3, <1>4, <1>5 DEF next, Slotted

LEMMA DayType == ASSUME NEW t \in Nat PROVE day(t) \in Nat
  BY ScheduleAssumption DEF day

(***************************************************************************)
(* What the steps do to the flows.                                          *)
(***************************************************************************)
\* Flow f alone becomes another record.
Only(f) == flow' \in [Flows -> FlowRec] /\ \A h \in Flows : h # f => flow'[h] = flow[h]

\* It goes on at pc with all that it has in hand.
Moved(f, pc) == /\ Only(f) /\ flow'[f].pc = pc
                /\ flow'[f].at = flow[f].at /\ flow'[f].due = flow[f].due /\ flow'[f].row = flow[f].row
                /\ flow'[f].fire = flow[f].fire /\ flow'[f].proc = flow[f].proc
                /\ flow'[f].count = flow[f].count /\ flow'[f].day = flow[f].day
                /\ flow'[f].cursor = flow[f].cursor /\ flow'[f].firedAt = flow[f].firedAt
                /\ flow'[f].reap = flow[f].reap

\* It has nothing in hand, and the rows of due left.
Emptied(f, pc, due) == /\ Only(f) /\ flow'[f].pc = pc /\ flow'[f].due = due
                       /\ flow'[f].fire = 0 /\ flow'[f].reap = {}

\* It takes the first of its rows, and is at pc.
Takes(f, pc) == /\ flow[f].due # << >>
                /\ Emptied(f, pc, Tail(flow[f].due))
                /\ flow'[f].row = Head(flow[f].due) /\ flow'[f].at = flow[f].at

\* A tick ends, or goes on to its next row.
Leaves(f) == Emptied(f, "idle", << >>) \/ Takes(f, "quota")

LEMMA PcsAre ==
  Pcs = DispatchPcs \cup TickPcs \cup StartPcs \cup {"idle"}
BY DEF Pcs, DispatchPcs, TickPcs, StartPcs, CatcherPcs, Policies

LEMMA IdleType == Idle \in FlowRec
<1>1. << >> \in Seq(DueRec) /\ {} \in SUBSET Nat
  OBVIOUS
<1>2. NoRow \in Snapshot
  BY DEF NoRow, Snapshot, RowIds, Never
<1>3. "idle" \in Pcs
  BY DEF Pcs
<1> QED BY <1>1, <1>2, <1>3 DEF Idle, FlowRec

LEMMA OneFlow ==
  ASSUME flow \in [Flows -> FlowRec], NEW f \in Flows, NEW g \in FlowRec,
         flow' = [flow EXCEPT ![f] = g]
  PROVE  Only(f) /\ flow'[f] = g
BY DEF Only

LEMMA GotoMoves ==
  ASSUME flow \in [Flows -> FlowRec], NEW f \in Flows, NEW pc \in Pcs \ {"idle"}, Goto(f, pc)
  PROVE  Moved(f, pc)
<1> DEFINE g == [flow[f] EXCEPT !.pc = pc]
<1>1. flow[f] \in FlowRec
  OBVIOUS
<1>2. pc # "idle" /\ pc # "row"
  BY PcsAre DEF DispatchPcs, TickPcs, StartPcs, Policies
<1>3. flow' = [flow EXCEPT ![f] = g]
  BY <1>2 DEF Goto
<1>4. /\ g \in FlowRec /\ g.pc = pc
      /\ g.at = flow[f].at /\ g.due = flow[f].due /\ g.row = flow[f].row
      /\ g.fire = flow[f].fire /\ g.proc = flow[f].proc /\ g.count = flow[f].count
      /\ g.day = flow[f].day /\ g.cursor = flow[f].cursor /\ g.firedAt = flow[f].firedAt
      /\ g.reap = flow[f].reap
  BY <1>1 DEF FlowRec
<1> HIDE DEF g
<1>5. Only(f) /\ flow'[f] = g
  BY <1>3, <1>4, OneFlow
<1> QED BY <1>4, <1>5 DEF Moved

LEMMA NextRowTakes ==
  ASSUME NEW g \in FlowRec, NEW counter
  PROVE  /\ NextRow(g, counter) \in FlowRec
         /\ \/ NextRow(g, counter) = Idle
            \/ LET r == NextRow(g, counter) IN
               /\ g.due # << >> /\ r.pc = "quota" /\ r.due = Tail(g.due) /\ r.row = Head(g.due)
               /\ r.at = g.at /\ r.fire = 0 /\ r.reap = {}
<1> DEFINE r == [Idle EXCEPT !.pc = "quota", !.at = g.at, !.due = Tail(g.due), !.count = g.count,
                             !.row = Head(g.due)]
<1>1. CASE g.due = << >> \/ counter + g.count >= MaxConcurrentPerExt
  BY <1>1, IdleType DEF NextRow
<1>2. CASE ~(g.due = << >> \/ counter + g.count >= MaxConcurrentPerExt)
  <2>1. NextRow(g, counter) = r
    BY <1>2 DEF NextRow
  <2>2. g.due \in Seq(DueRec) /\ g.due # << >> /\ g.at \in Nat /\ g.count \in Nat
    BY <1>2 DEF FlowRec
  <2>3. Tail(g.due) \in Seq(DueRec) /\ Head(g.due) \in DueRec
    BY <2>2
  <2>4. Head(g.due) \in Snapshot
    BY <2>3 DEF DueRec, Snapshot, RowIds
  <2>5. "quota" \in Pcs
    BY DEF Pcs, CatcherPcs
  <2>6. r \in FlowRec
    BY <2>2, <2>3, <2>4, <2>5, IdleType DEF FlowRec
  <2>7. /\ r.pc = "quota" /\ r.due = Tail(g.due) /\ r.row = Head(g.due)
        /\ r.at = g.at /\ r.fire = 0 /\ r.reap = {}
    BY DEF Idle
  <2> HIDE DEF r
  <2> QED BY <2>1, <2>2, <2>6, <2>7
<1> QED BY <1>1, <1>2

LEMMA GotoRow ==
  ASSUME flow \in [Flows -> FlowRec], NEW f \in Flows, Goto(f, "row")
  PROVE  Leaves(f)
<1>1. flow[f] \in FlowRec
  OBVIOUS
<1> DEFINE r == NextRow(flow[f], inFlight')
<1>2. flow' = [flow EXCEPT ![f] = r]
  BY DEF Goto
<1>3. /\ r \in FlowRec
      /\ \/ r = Idle
         \/ /\ flow[f].due # << >> /\ r.pc = "quota" /\ r.due = Tail(flow[f].due) /\ r.row = Head(flow[f].due)
            /\ r.at = flow[f].at /\ r.fire = 0 /\ r.reap = {}
  BY <1>1, NextRowTakes
<1> HIDE DEF r
<1>4. Only(f) /\ flow'[f] = r
  BY <1>2, <1>3, OneFlow
<1>5. Idle.pc = "idle" /\ Idle.due = << >> /\ Idle.fire = 0 /\ Idle.reap = {}
  BY DEF Idle
<1> QED BY <1>3, <1>4, <1>5 DEF Leaves, Takes, Emptied

LEMMA GotoIdle ==
  ASSUME flow \in [Flows -> FlowRec], NEW f \in Flows, Goto(f, "idle")
  PROVE  Emptied(f, "idle", << >>)
<1>1. flow' = [flow EXCEPT ![f] = Idle]
  BY DEF Goto
<1> QED BY <1>1, OneFlow, IdleType DEF Emptied, Idle

(***************************************************************************)
(* What the steps do to the fires.                                          *)
(***************************************************************************)
\* Two rows that differ at most in whether the notification was sent.
Like(a, b) == /\ a.sched = b.sched /\ a.slot = b.slot /\ a.at = b.at /\ a.status = b.status
              /\ a.attempt = b.attempt /\ a.via = b.via /\ a.day = b.day

\* Row k gets another status.
Marks(k, status) ==
  /\ k \in DOMAIN fires /\ fires' \in Seq(FireRec(maxRetries)) /\ Len(fires') = Len(fires)
  /\ \A i \in DOMAIN fires : i # k => fires'[i] = fires[i]
  /\ fires'[k].status = status /\ fires'[k].sched = fires[k].sched /\ fires'[k].slot = fires[k].slot
  /\ fires'[k].at = fires[k].at /\ fires'[k].attempt = fires[k].attempt /\ fires'[k].via = fires[k].via
  /\ fires'[k].day = fires[k].day /\ fires'[k].sent = fires[k].sent

\* A row like e is added.
Adds(e) ==
  /\ fires' \in Seq(FireRec(maxRetries)) /\ Len(fires') = Len(fires) + 1
  /\ \A i \in DOMAIN fires : fires'[i] = fires[i]
  /\ Like(fires'[Len(fires) + 1], e)

\* Row k may have been sent.
Sends(k) ==
  /\ k \in DOMAIN fires /\ fires' \in Seq(FireRec(maxRetries)) /\ Len(fires') = Len(fires)
  /\ \A i \in DOMAIN fires : i # k => fires'[i] = fires[i]
  /\ Like(fires'[k], fires[k])

\* Flow f dispatches fire k and has g in hand.
Dispatched(f, k, g) ==
  /\ Only(f) /\ flow'[f].pc \in {"okFire", "errFire"} /\ flow'[f].fire = k
  /\ flow'[f].at = g.at /\ flow'[f].due = g.due /\ flow'[f].row = g.row /\ flow'[f].count = g.count
  /\ flow'[f].day = g.day /\ flow'[f].cursor = g.cursor /\ flow'[f].firedAt = g.firedAt
  /\ flow'[f].reap = g.reap

LEMMA SetMarks ==
  ASSUME fires \in Seq(FireRec(maxRetries)), NEW k \in DOMAIN fires, NEW status \in {"running", "ok", "error"},
         fires' = [fires EXCEPT ![k].status = status]
  PROVE  Marks(k, status)
<1> DEFINE e == [fires[k] EXCEPT !.status = status]
<1>1. fires[k] \in FireRec(maxRetries)
  OBVIOUS
<1>2. /\ e \in FireRec(maxRetries) /\ e.status = status /\ e.sched = fires[k].sched /\ e.slot = fires[k].slot
      /\ e.at = fires[k].at /\ e.attempt = fires[k].attempt /\ e.via = fires[k].via
      /\ e.day = fires[k].day /\ e.sent = fires[k].sent
  BY <1>1 DEF FireRec
<1>3. fires' = [fires EXCEPT ![k] = e]
  OBVIOUS
<1> HIDE DEF e
<1>4. /\ fires' \in Seq(FireRec(maxRetries)) /\ Len(fires') = Len(fires) /\ fires'[k] = e
      /\ \A i \in DOMAIN fires : i # k => fires'[i] = fires[i]
  BY <1>2, <1>3
<1> QED BY <1>2, <1>4 DEF Marks

LEMMA DispatchDoes ==
  ASSUME flow \in [Flows -> FlowRec], NEW f \in Flows, NEW rows \in Seq(FireRec(maxRetries)),
         NEW k \in DOMAIN rows, NEW g \in FlowRec, Dispatch(f, rows, k, g)
  PROVE  /\ fires' \in Seq(FireRec(maxRetries)) /\ Len(fires') = Len(rows)
         /\ \A i \in DOMAIN rows : i # k => fires'[i] = rows[i]
         /\ Like(fires'[k], rows[k])
         /\ Dispatched(f, k, g)
<1> PICK outcome \in Outcomes :
       /\ fires' = [rows EXCEPT ![k].sent = outcome = "sent"]
       /\ flow' = [flow EXCEPT ![f] = [g EXCEPT !.pc = IF outcome = "throws" THEN "errFire" ELSE "okFire",
                                                !.proc = outcome # "asleep", !.fire = k]]
  BY DEF Dispatch
<1> DEFINE e == [rows[k] EXCEPT !.sent = outcome = "sent"]
           pc == IF outcome = "throws" THEN "errFire" ELSE "okFire"
           r == [g EXCEPT !.pc = pc, !.proc = outcome # "asleep", !.fire = k]
<1>1. rows[k] \in FireRec(maxRetries) /\ k \in Nat
  OBVIOUS
<1>2. e \in FireRec(maxRetries) /\ Like(e, rows[k])
  <2>1. (outcome = "sent") \in BOOLEAN
    OBVIOUS
  <2> DEFINE b == outcome = "sent"
  <2> HIDE DEF b
  <2>2. b \in BOOLEAN
    BY <2>1 DEF b
  <2>3. [rows[k] EXCEPT !.sent = b] \in FireRec(maxRetries) /\ Like([rows[k] EXCEPT !.sent = b], rows[k])
    BY <1>1, <2>2 DEF FireRec, Like
  <2> QED BY <2>3 DEF b
<1>3. fires' = [rows EXCEPT ![k] = e]
  OBVIOUS
<1>4. pc \in {"okFire", "errFire"}
  OBVIOUS
<1>5. pc \in Pcs
  BY <1>4, PcsAre DEF DispatchPcs
<1>6. /\ r \in FlowRec /\ r.pc = pc /\ r.fire = k
      /\ r.at = g.at /\ r.due = g.due /\ r.row = g.row /\ r.count = g.count
      /\ r.day = g.day /\ r.cursor = g.cursor /\ r.firedAt = g.firedAt /\ r.reap = g.reap
  <2> DEFINE b == outcome # "asleep"
  <2>1. b \in BOOLEAN
    OBVIOUS
  <2> HIDE DEF b, pc
  <2> QED BY <1>1, <1>5, <2>1 DEF FlowRec
<1>7. flow' = [flow EXCEPT ![f] = r]
  OBVIOUS
<1> HIDE DEF e, r, pc
<1>8. /\ fires' \in Seq(FireRec(maxRetries)) /\ Len(fires') = Len(rows) /\ fires'[k] = e
      /\ \A i \in DOMAIN rows : i # k => fires'[i] = rows[i]
  BY <1>2, <1>3
<1>9. Only(f) /\ flow'[f] = r
  BY <1>6, <1>7, OneFlow
<1> QED BY <1>2, <1>4, <1>6, <1>8, <1>9 DEF Dispatched

LEMMA InsertDoes ==
  ASSUME flow \in [Flows -> FlowRec], fires \in Seq(FireRec(maxRetries)), NEW f \in Flows,
         NEW e \in FireRec(maxRetries), NEW g \in FlowRec, InsertAndDispatch(f, e, g)
  PROVE  Adds(e) /\ Dispatched(f, Len(fires) + 1, g) /\ inFlight' = inFlight + 1
<1> DEFINE rows == Append(fires, e)
           k == Len(fires) + 1
<1>1. /\ rows \in Seq(FireRec(maxRetries)) /\ Len(rows) = Len(fires) + 1 /\ k \in DOMAIN rows
      /\ rows[k] = e /\ \A i \in DOMAIN fires : i \in DOMAIN rows /\ i # k /\ rows[i] = fires[i]
  OBVIOUS
<1>2. Dispatch(f, rows, k, g)
  BY DEF InsertAndDispatch
<1>3. inFlight' = inFlight + 1
  BY <1>2 DEF Dispatch
<1> HIDE DEF rows
<1>4. /\ fires' \in Seq(FireRec(maxRetries)) /\ Len(fires') = Len(rows)
      /\ \A i \in DOMAIN rows : i # k => fires'[i] = rows[i]
      /\ Like(fires'[k], rows[k]) /\ Dispatched(f, k, g)
  BY <1>1, <1>2, DispatchDoes
<1> QED BY <1>1, <1>3, <1>4 DEF Adds

(***************************************************************************)
(* The shape is kept.                                                       *)
(***************************************************************************)
\* The rows stay, and those that other flows have in hand keep their status.
KeepsFires(f) ==
  /\ fires' \in Seq(FireRec(maxRetries)) /\ Len(fires) <= Len(fires')
  /\ \A k \in DOMAIN fires : fires'[k].sched = fires[k].sched /\ fires'[k].attempt = fires[k].attempt
  /\ \A h \in Flows : h # f /\ flow[h].pc \in HoldPcs =>
                        fires'[flow[h].fire].status = fires[flow[h].fire].status

\* A step of flow f, as far as the shape is concerned.
Acts(f) ==
  /\ Only(f) /\ KeepsFires(f) /\ Fits(f, flow'[f], fires', maxRetries)
  /\ flow'[f].pc \in HoldPcs => \/ flow[f].pc \in HoldPcs /\ flow'[f].fire = flow[f].fire
                                \/ flow'[f].fire > Len(fires)
  /\ flow[f].pc # "idle" \/ (f \in Ticks /\ daemon = "up")
  /\ sched' \in [Schedules -> SchedRec] /\ inFlight' \in Nat /\ leaked' \in Nat /\ events' \in Nat
  /\ UNCHANGED host

LEMMA FlowTypes ==
  /\ StartF \in Flows /\ StartF \notin Ticks /\ Ticks \subseteq Flows
  /\ \A f \in Flows : f \in Ticks \/ f = StartF
  /\ IsFiniteSet(Flows) /\ IsFiniteSet(Ticks) /\ Cardinality(Ticks) = MaxTicks
<1>1. MaxTicks \in Nat /\ MaxTicks > 0
  BY ScheduleAssumption
<1>2. IsFiniteSet(1 .. MaxTicks) /\ Cardinality(1 .. MaxTicks) = MaxTicks
  BY <1>1, FS_Interval
<1>3. IsFiniteSet((1 .. MaxTicks) \cup {0})
  BY <1>2, FS_AddElement
<1> QED BY <1>1, <1>2, <1>3 DEF Flows, Ticks, StartF

\* A flow whose fire keeps its schedule, attempt and status still fits.
LEMMA FitsStill ==
  ASSUME NEW f, NEW g, NEW retries, NEW fs, NEW gs, Fits(f, g, fs, retries),
         fs \in Seq(FireRec(retries)), gs \in Seq(FireRec(retries)), Len(fs) <= Len(gs),
         \A k \in DOMAIN fs : gs[k].sched = fs[k].sched /\ gs[k].attempt = fs[k].attempt,
         g.pc \in HoldPcs => gs[g.fire].status = fs[g.fire].status
  PROVE  Fits(f, g, gs, retries)
<1>1. g.fire \in 0 .. Len(gs) /\ DOMAIN fs \subseteq DOMAIN gs
  BY DEF Fits
<1>2. g.pc \in HoldPcs => g.fire \in DOMAIN fs
  BY DEF Fits
<1>3. "retryInsert" \in HoldPcs
  BY DEF HoldPcs, DispatchPcs
<1> QED BY <1>1, <1>2, <1>3 DEF Fits

LEMMA ActsKeeps ==
  ASSUME TypeInv, NEW f \in Flows, Acts(f)
  PROVE  TypeInv'
<1> USE DEF TypeInv, Acts
<1>1. maxRetries' = maxRetries
  BY DEF host
<1>2. Shape'
  BY <1>1 DEF Shape, host, KeepsFires, Only
<1>3. ASSUME NEW h \in Flows PROVE Fits(h, flow'[h], fires', maxRetries)
  <2>1. CASE h = f
    BY <2>1
  <2>2. CASE h # f
    <3>1. flow'[h] = flow[h]
      BY <2>2 DEF Only
    <3>2. Fits(h, flow[h], fires, maxRetries)
      BY DEF FlowsFit
    <3>3. /\ fires \in Seq(FireRec(maxRetries)) /\ fires' \in Seq(FireRec(maxRetries)) /\ Len(fires) <= Len(fires')
          /\ \A k \in DOMAIN fires : fires'[k].sched = fires[k].sched /\ fires'[k].attempt = fires[k].attempt
          /\ flow[h].pc \in HoldPcs => fires'[flow[h].fire].status = fires[flow[h].fire].status
      BY <2>2 DEF KeepsFires, Shape
    <3> PICK gs : gs = fires'
      OBVIOUS
    <3>4. Fits(h, flow[h], gs, maxRetries)
      BY <3>2, <3>3, FitsStill
    <3> QED BY <3>1, <3>4
  <2> QED BY <2>1, <2>2
<1>4. FlowsFit'
  BY <1>1, <1>3 DEF FlowsFit
<1>5. OwnFires'
  <2>1. ASSUME NEW h \in Flows, h # f, flow[h].pc \in HoldPcs, flow'[f].pc \in HoldPcs
        PROVE  flow[h].fire # flow'[f].fire
    <3>1. flow[h].fire \in 0 .. Len(fires) /\ Len(fires) \in Nat
      BY DEF FlowsFit, Fits, Shape
    <3> QED BY <2>1, <3>1 DEF OwnFires
  <2> QED BY <2>1 DEF OwnFires, Only
<1>6. Phases'
  <2>1. daemon' = daemon
    BY DEF host
  <2>2. daemon # "off" /\ (daemon = "starting" => f = StartF)
    BY FlowTypes DEF Phases
  <2>3. f = StartF => daemon = "starting"
    BY FlowTypes DEF Phases
  <2> QED BY <2>1, <2>2, <2>3, FlowTypes DEF Phases, Only
<1> QED BY <1>2, <1>4, <1>5, <1>6

LEMMA Basics ==
  ASSUME TypeInv, NEW f \in Flows
  PROVE  /\ flow \in [Flows -> FlowRec] /\ flow[f] \in FlowRec /\ Fits(f, flow[f], fires, maxRetries)
         /\ fires \in Seq(FireRec(maxRetries)) /\ sched \in [Schedules -> SchedRec]
         /\ maxRetries \in Nat /\ now \in Nat /\ inFlight \in Nat /\ leaked \in Nat /\ events \in Nat
         /\ Len(fires) \in Nat /\ DOMAIN fires = 1 .. Len(fires)
         /\ flow[f].pc \in HoldPcs =>
              /\ flow[f].fire \in DOMAIN fires /\ fires[flow[f].fire] \in FireRec(maxRetries)
              /\ \A h \in Flows : h # f /\ flow[h].pc \in HoldPcs =>
                   flow[h].fire # flow[f].fire /\ flow[h].fire \in DOMAIN fires
<1>1. Fits(f, flow[f], fires, maxRetries)
  BY DEF TypeInv, FlowsFit
<1>2. \A h \in Flows : flow[h].pc \in HoldPcs => flow[h].fire \in DOMAIN fires
  BY DEF TypeInv, FlowsFit, Fits, Shape
<1>3. now \in Nat
  BY DEF TypeInv, Shape
<1> QED BY <1>1, <1>2, <1>3 DEF TypeInv, Shape, OwnFires

LEMMA Statuses ==
  /\ StatusAt("advance") = {"running"} /\ StatusAt("okFire") = {"running"} /\ StatusAt("okSched") = {"ok"}
  /\ StatusAt("errFire") = {"running", "ok"}
  /\ StatusAt("retryInsert") = {"error"} /\ StatusAt("errSched") = {"error"}
BY DEF StatusAt

LEMMA KeepsWhen ==
  ASSUME TypeInv, NEW f \in Flows
  PROVE  /\ fires' = fires => KeepsFires(f)
         /\ \A e : Adds(e) => KeepsFires(f)
         /\ \A k : Sends(k) => KeepsFires(f)
         /\ \A st : flow[f].pc \in HoldPcs /\ Marks(flow[f].fire, st) => KeepsFires(f)
<1>1. /\ fires \in Seq(FireRec(maxRetries)) /\ Len(fires) \in Nat
      /\ \A h \in Flows : flow[h].pc \in HoldPcs => flow[h].fire \in DOMAIN fires
  BY Basics
<1>2. fires' = fires => KeepsFires(f)
  BY <1>1 DEF KeepsFires
<1>3. ASSUME NEW e, Adds(e) PROVE KeepsFires(f)
  BY <1>1, <1>3 DEF KeepsFires, Adds
<1>4. ASSUME NEW k, Sends(k) PROVE KeepsFires(f)
  BY <1>1, <1>4 DEF KeepsFires, Sends, Like
<1>5. ASSUME NEW st, flow[f].pc \in HoldPcs, Marks(flow[f].fire, st) PROVE KeepsFires(f)
  <2>1. \A h \in Flows : h # f /\ flow[h].pc \in HoldPcs => flow[h].fire # flow[f].fire
    BY <1>5, Basics
  <2> QED BY <1>1, <1>5, <2>1 DEF KeepsFires, Marks
<1> QED BY <1>2, <1>3, <1>4, <1>5

\* The flows that the steps leave fit.
LEMMA MovedFits ==
  ASSUME TypeInv, NEW f \in Flows, KeepsFires(f), NEW pc, Moved(f, pc),
         \/ /\ pc \in DispatchPcs /\ flow[f].pc \in DispatchPcs
            /\ fires'[flow[f].fire].status \in StatusAt(pc)
            /\ pc = "retryInsert" => fires[flow[f].fire].attempt < maxRetries
         \/ /\ pc \in (IF f \in Ticks THEN TickPcs ELSE StartPcs) \ {"advance", "reapSched"}
            /\ pc \in RowPcs => flow[f].pc \in RowPcs
  PROVE  /\ Fits(f, flow'[f], fires', maxRetries)
         /\ flow'[f].pc \in HoldPcs => flow[f].pc \in HoldPcs /\ flow'[f].fire = flow[f].fire
<1>1. /\ Fits(f, flow[f], fires, maxRetries) /\ DOMAIN fires = 1 .. Len(fires) /\ Len(fires) \in Nat
      /\ flow[f].pc \in HoldPcs => flow[f].fire \in DOMAIN fires
  BY Basics
<1>2. /\ flow'[f] \in FlowRec /\ flow'[f].pc = pc /\ flow'[f].row = flow[f].row
      /\ flow'[f].fire = flow[f].fire /\ flow'[f].reap = flow[f].reap
  BY DEF Moved, Only
<1>3. /\ fires' \in Seq(FireRec(maxRetries)) /\ Len(fires) <= Len(fires') /\ DOMAIN fires \subseteq DOMAIN fires'
  BY <1>1 DEF KeepsFires
<1>4. flow'[f].fire \in 0 .. Len(fires') /\ flow'[f].reap \subseteq DOMAIN fires'
  BY <1>1, <1>2, <1>3 DEF Fits
<1>5. CASE /\ pc \in DispatchPcs /\ flow[f].pc \in DispatchPcs
           /\ fires'[flow[f].fire].status \in StatusAt(pc)
           /\ pc = "retryInsert" => fires[flow[f].fire].attempt < maxRetries
  <2>1. flow[f].pc \in HoldPcs /\ flow[f].pc \in RowPcs
    BY <1>5 DEF HoldPcs, RowPcs
  <2>2. /\ fires'[flow[f].fire].sched = flow[f].row.id
        /\ fires'[flow[f].fire].attempt = fires[flow[f].fire].attempt
        /\ flow[f].fire # 0 /\ flow[f].row.id \in Schedules
    BY <1>1, <2>1 DEF KeepsFires, Fits
  <2> QED BY <1>2, <1>4, <1>5, <2>1, <2>2 DEF Fits
<1>6. CASE /\ pc \in (IF f \in Ticks THEN TickPcs ELSE StartPcs) \ {"advance", "reapSched"}
           /\ pc \in RowPcs => flow[f].pc \in RowPcs
  <2>1. pc \notin HoldPcs \cup {"reapSched", "retryInsert"}
    BY <1>6 DEF HoldPcs, DispatchPcs, TickPcs, StartPcs, Policies
  <2>2. pc \in RowPcs => flow[f].row.id \in Schedules
    BY <1>1, <1>6 DEF Fits
  <2> QED BY <1>2, <1>4, <1>6, <2>1, <2>2 DEF Fits
<1> QED BY <1>5, <1>6

LEMMA EmptiedFits ==
  ASSUME TypeInv, NEW f \in Flows, KeepsFires(f), NEW pc, NEW due, Emptied(f, pc, due),
         pc \in ({"idle"} \cup (IF f \in Ticks THEN TickPcs ELSE StartPcs)) \ {"advance", "reapSched"},
         pc \in RowPcs => flow'[f].row.id \in Schedules
  PROVE  Fits(f, flow'[f], fires', maxRetries) /\ flow'[f].pc \notin HoldPcs
<1>1. /\ flow'[f] \in FlowRec /\ flow'[f].pc = pc /\ flow'[f].fire = 0 /\ flow'[f].reap = {}
  BY DEF Emptied, Only
<1>2. Len(fires') \in Nat
  BY DEF KeepsFires
<1>3. pc \notin HoldPcs \cup {"reapSched", "retryInsert"}
  BY DEF HoldPcs, DispatchPcs, TickPcs, StartPcs, Policies
<1> QED BY <1>1, <1>2, <1>3 DEF Fits

LEMMA TakenRow ==
  ASSUME TypeInv, NEW f \in Flows, flow[f].due # << >>
  PROVE  /\ Head(flow[f].due) \in DueRec /\ Head(flow[f].due).id \in Schedules
         /\ Head(flow[f].due) = flow[f].due[1] /\ 1 \in DOMAIN flow[f].due
         /\ \A i \in DOMAIN Tail(flow[f].due) :
              Tail(flow[f].due)[i] = flow[f].due[i + 1] /\ i + 1 \in DOMAIN flow[f].due /\ i + 1 # 1
<1>1. flow[f].due \in Seq(DueRec)
  BY Basics DEF FlowRec
<1> PICK q \in Seq(DueRec) : q = flow[f].due
  BY <1>1
<1>2. q # << >> /\ Head(q) \in DueRec /\ Head(q) = q[1] /\ 1 \in DOMAIN q
  OBVIOUS
<1>3. \A i \in DOMAIN Tail(q) : Tail(q)[i] = q[i + 1] /\ i + 1 \in DOMAIN q /\ i + 1 # 1
  BY <1>2
<1>4. Head(q).id \in Schedules
  BY <1>2 DEF DueRec
<1> QED BY <1>2, <1>3, <1>4

LEMMA LeavesFits ==
  ASSUME TypeInv, NEW f \in Ticks, KeepsFires(f), Leaves(f)
  PROVE  Fits(f, flow'[f], fires', maxRetries) /\ flow'[f].pc \notin HoldPcs /\ Only(f)
<1>1. f \in Flows
  BY FlowTypes
<1>2. CASE Emptied(f, "idle", << >>)
  <2>1. "idle" \notin RowPcs
    BY DEF RowPcs, TickPcs, DispatchPcs, Policies
  <2> QED BY <1>1, <1>2, <2>1, EmptiedFits DEF Emptied
<1>3. CASE Takes(f, "quota")
  <2>1. flow'[f].row.id \in Schedules /\ Emptied(f, "quota", Tail(flow[f].due))
    BY <1>1, <1>3, TakenRow DEF Takes
  <2>2. "quota" \in TickPcs \ {"advance", "reapSched"}
    BY DEF TickPcs
  <2> QED BY <1>1, <2>1, <2>2, EmptiedFits DEF Emptied
<1> QED BY <1>2, <1>3 DEF Leaves

LEMMA DispatchedFits ==
  ASSUME TypeInv, NEW f \in Flows, KeepsFires(f), NEW k \in DOMAIN fires', NEW g, Dispatched(f, k, g),
         g.row.id \in Schedules, fires'[k].sched = g.row.id, fires'[k].status = "running",
         g.reap \subseteq DOMAIN fires
  PROVE  Fits(f, flow'[f], fires', maxRetries)
<1>1. /\ flow'[f] \in FlowRec /\ flow'[f].pc \in {"okFire", "errFire"} /\ flow'[f].row = g.row
      /\ flow'[f].fire = k /\ flow'[f].reap = g.reap
  BY DEF Dispatched, Only
<1>2. /\ fires' \in Seq(FireRec(maxRetries)) /\ Len(fires) <= Len(fires') /\ DOMAIN fires \subseteq DOMAIN fires'
  BY Basics DEF KeepsFires
<1>3. k \in 0 .. Len(fires') /\ k # 0
  BY <1>2
<1>4. fires'[k].status \in StatusAt(flow'[f].pc)
  BY <1>1, Statuses
<1>5. flow'[f].pc \in DispatchPcs /\ flow'[f].pc # "retryInsert"
  BY <1>1 DEF DispatchPcs
<1> QED BY <1>1, <1>2, <1>3, <1>4, <1>5 DEF Fits

(***************************************************************************)
(* The steps of a dispatch.                                                 *)
(***************************************************************************)
\* Row s of extension_schedules alone changes, to these values.
SchedIs(s, n, l, e) ==
  /\ sched' \in [Schedules -> SchedRec] /\ \A t \in Schedules : t # s => sched'[t] = sched[t]
  /\ sched'[s].present = sched[s].present
  /\ sched'[s].next = n /\ sched'[s].last = l /\ sched'[s].errors = e

\* The assignments to one row that the steps make.
LEMMA SchedSets ==
  ASSUME sched \in [Schedules -> SchedRec], NEW s \in Schedules, NEW n \in Nat, NEW l \in Nat \cup {Never},
         NEW e \in Nat
  PROVE  /\ sched' = [sched EXCEPT ![s].errors = e] => SchedIs(s, sched[s].next, sched[s].last, e)
         /\ sched' = [sched EXCEPT ![s].errors = e, ![s].enabled = @ /\ e < AUTO_DISABLE_AFTER] =>
              SchedIs(s, sched[s].next, sched[s].last, e)
         /\ sched' = [sched EXCEPT ![s].next = n] => SchedIs(s, n, sched[s].last, sched[s].errors)
         /\ sched' = [sched EXCEPT ![s].next = n, ![s].last = l] => SchedIs(s, n, l, sched[s].errors)
<1>1. sched[s] \in SchedRec
  OBVIOUS
<1> DEFINE r == sched[s]
<1>2. r.next \in Nat /\ r.last \in Nat \cup {Never} /\ r.errors \in Nat /\ r.enabled \in BOOLEAN
  BY <1>1 DEF SchedRec
<1>3. ASSUME NEW q \in SchedRec, sched' = [sched EXCEPT ![s] = q], q.present = r.present
      PROVE  SchedIs(s, q.next, q.last, q.errors)
  BY <1>3 DEF SchedIs
<1>4. ASSUME sched' = [sched EXCEPT ![s].errors = e] PROVE SchedIs(s, sched[s].next, sched[s].last, e)
  <2> DEFINE q == [r EXCEPT !.errors = e]
  <2>1. q \in SchedRec /\ q.present = r.present /\ q.next = r.next /\ q.last = r.last /\ q.errors = e
    BY <1>1 DEF SchedRec
  <2>2. sched' = [sched EXCEPT ![s] = q]
    BY <1>4
  <2> HIDE DEF q
  <2>3. SchedIs(s, q.next, q.last, q.errors)
    BY <1>3, <2>1, <2>2
  <2> QED BY <2>1, <2>3
<1>5. ASSUME sched' = [sched EXCEPT ![s].errors = e, ![s].enabled = @ /\ e < AUTO_DISABLE_AFTER]
      PROVE  SchedIs(s, sched[s].next, sched[s].last, e)
  <2> DEFINE b == r.enabled /\ e < AUTO_DISABLE_AFTER
             q == [r EXCEPT !.errors = e, !.enabled = b]
  <2>0. b \in BOOLEAN
    OBVIOUS
  <2>2. sched' = [sched EXCEPT ![s] = q]
    BY <1>1, <1>5 DEF SchedRec
  <2>1. q \in SchedRec /\ q.present = r.present /\ q.next = r.next /\ q.last = r.last /\ q.errors = e
    <3> HIDE DEF b
    <3> QED BY <1>1, <2>0 DEF SchedRec
  <2> HIDE DEF q
  <2>3. SchedIs(s, q.next, q.last, q.errors)
    BY <1>3, <2>1, <2>2
  <2> QED BY <2>1, <2>3
<1>6. ASSUME sched' = [sched EXCEPT ![s].next = n] PROVE SchedIs(s, n, sched[s].last, sched[s].errors)
  <2> DEFINE q == [r EXCEPT !.next = n]
  <2>1. q \in SchedRec /\ q.present = r.present /\ q.next = n /\ q.last = r.last /\ q.errors = r.errors
    BY <1>1 DEF SchedRec
  <2>2. sched' = [sched EXCEPT ![s] = q]
    BY <1>6
  <2> HIDE DEF q
  <2>3. SchedIs(s, q.next, q.last, q.errors)
    BY <1>3, <2>1, <2>2
  <2> QED BY <2>1, <2>3
<1>7. ASSUME sched' = [sched EXCEPT ![s].next = n, ![s].last = l] PROVE SchedIs(s, n, l, sched[s].errors)
  <2> DEFINE q == [r EXCEPT !.next = n, !.last = l]
  <2>1. q \in SchedRec /\ q.present = r.present /\ q.next = n /\ q.last = l /\ q.errors = r.errors
    BY <1>1 DEF SchedRec
  <2>2. sched' = [sched EXCEPT ![s] = q]
    BY <1>1, <1>7 DEF SchedRec
  <2> HIDE DEF q
  <2>3. SchedIs(s, q.next, q.last, q.errors)
    BY <1>3, <2>1, <2>2
  <2> QED BY <2>1, <2>3
<1> QED BY <1>4, <1>5, <1>6, <1>7

\* Once dispatchFire returns.
AfterPc(f) == IF fires[flow[f].fire].via = "all" THEN "missedLoop" ELSE "missedAdvance"

LEMMA AfterDoes ==
  ASSUME TypeInv, NEW f \in Flows, flow[f].pc \in DispatchPcs, fires' = fires, Goto(f, After(f))
  PROVE  /\ Only(f) /\ Fits(f, flow'[f], fires', maxRetries) /\ flow'[f].pc \notin HoldPcs
         /\ f \in Ticks => Leaves(f)
         /\ f = StartF => Moved(f, AfterPc(f))
<1>1. KeepsFires(f) /\ flow \in [Flows -> FlowRec]
  BY KeepsWhen, Basics
<1>2. CASE f \in Ticks
  <2>1. Goto(f, "row")
    BY <1>2 DEF After
  <2>2. Leaves(f)
    BY <1>1, <2>1, GotoRow
  <2> QED BY <1>1, <1>2, <2>2, LeavesFits, FlowTypes
<1>3. CASE f = StartF
  <2>1. Goto(f, AfterPc(f))
    BY <1>3, FlowTypes DEF After, AfterPc
  <2>2. /\ AfterPc(f) \in {"missedLoop", "missedAdvance"}
    BY DEF AfterPc
  <2>3. AfterPc(f) \in Pcs \ {"idle"} /\ AfterPc(f) \in StartPcs \ {"advance", "reapSched"}
    BY <2>2, PcsAre DEF StartPcs
  <2>4. Moved(f, AfterPc(f))
    BY <1>1, <2>1, <2>3, GotoMoves
  <2>5. AfterPc(f) \notin HoldPcs
    BY <2>2 DEF HoldPcs, DispatchPcs
  <2>6. flow[f].pc \in RowPcs
    BY DEF RowPcs
  <2>7. Fits(f, flow'[f], fires', maxRetries)
    BY <1>1, <1>3, <2>3, <2>4, <2>6, FlowTypes, MovedFits
  <2> QED BY <1>3, <2>4, <2>5, <2>7, FlowTypes DEF Moved
<1> QED BY <1>2, <1>3, FlowTypes

LEMMA OkFireDoes ==
  ASSUME TypeInv, NEW f \in Flows, OkFire(f)
  PROVE  Acts(f) /\ Moved(f, "okSched") /\ Marks(flow[f].fire, "ok")
<1>1. flow[f].pc = "okFire" /\ flow[f].pc \in DispatchPcs /\ flow[f].pc \in HoldPcs
  BY DEF OkFire, DispatchPcs, HoldPcs
<1>2. Marks(flow[f].fire, "ok")
  BY <1>1, Basics, SetMarks DEF OkFire, Set
<1>3. "okSched" \in Pcs \ {"idle"} /\ "okSched" \in DispatchPcs
  BY PcsAre DEF DispatchPcs
<1>4. Moved(f, "okSched")
  BY <1>3, Basics, GotoMoves DEF OkFire
<1>5. KeepsFires(f)
  BY <1>1, <1>2, KeepsWhen
<1>6. fires'[flow[f].fire].status \in StatusAt("okSched")
  BY <1>2, Statuses DEF Marks
<1>7. /\ Fits(f, flow'[f], fires', maxRetries)
      /\ flow'[f].pc \in HoldPcs => flow[f].pc \in HoldPcs /\ flow'[f].fire = flow[f].fire
  BY <1>1, <1>3, <1>4, <1>5, <1>6, MovedFits
<1> QED BY <1>1, <1>2, <1>4, <1>5, <1>7, Basics DEF Acts, OkFire, Moved

\* A fire that is counted leaves the counter with one less.
LEMMA Discounts ==
  ASSUME inFlight \in Nat, Discount
  PROVE  inFlight' \in Nat /\ (inFlight > 0 => inFlight' = inFlight - 1)
BY DEF Discount

LEMMA OkSchedDoes ==
  ASSUME TypeInv, NEW f \in Flows, OkSched(f)
  PROVE  /\ Acts(f) /\ (f \in Ticks => Leaves(f)) /\ (f = StartF => Moved(f, AfterPc(f)))
         /\ SchedIs(flow[f].row.id, sched[flow[f].row.id].next, sched[flow[f].row.id].last, 0)
         /\ inFlight > 0 => inFlight' = inFlight - 1
         /\ flow'[f].pc \notin HoldPcs
<1>1. flow[f].pc = "okSched" /\ flow[f].pc \in DispatchPcs /\ flow[f].pc \in RowPcs
  BY DEF OkSched, DispatchPcs, RowPcs
<1>2. flow[f].row.id \in Schedules
  BY <1>1, Basics DEF Fits
<1> PICK s \in Schedules : s = flow[f].row.id
  BY <1>2
<1>3. sched' = [sched EXCEPT ![s].errors = 0] /\ sched \in [Schedules -> SchedRec]
  BY Basics DEF OkSched
<1>4. SchedIs(s, sched[s].next, sched[s].last, 0)
  BY <1>3, SchedSets
<1>5. fires' = fires /\ KeepsFires(f)
  BY KeepsWhen DEF OkSched
<1>6. Only(f) /\ Fits(f, flow'[f], fires', maxRetries) /\ flow'[f].pc \notin HoldPcs
      /\ (f \in Ticks => Leaves(f)) /\ (f = StartF => Moved(f, AfterPc(f)))
  BY <1>1, <1>5, AfterDoes DEF OkSched
<1>7. inFlight' \in Nat /\ (inFlight > 0 => inFlight' = inFlight - 1)
  BY Basics, Discounts DEF OkSched
<1> QED BY <1>1, <1>4, <1>5, <1>6, <1>7, Basics DEF Acts, OkSched, SchedIs

ErrPc(f) == IF fires[flow[f].fire].attempt < maxRetries THEN "retryInsert" ELSE "errSched"

LEMMA ErrFireDoes ==
  ASSUME TypeInv, NEW f \in Flows, ErrFire(f)
  PROVE  /\ Acts(f) /\ Moved(f, ErrPc(f)) /\ Marks(flow[f].fire, "error")
         /\ inFlight > 0 => inFlight' = inFlight - 1
<1>1. flow[f].pc = "errFire" /\ flow[f].pc \in DispatchPcs /\ flow[f].pc \in HoldPcs
  BY DEF ErrFire, DispatchPcs, HoldPcs
<1>2. Marks(flow[f].fire, "error")
  BY <1>1, Basics, SetMarks DEF ErrFire, Set
<1>3. ErrPc(f) \in {"retryInsert", "errSched"}
  BY DEF ErrPc
<1>4. ErrPc(f) \in Pcs \ {"idle"} /\ ErrPc(f) \in DispatchPcs
  BY <1>3, PcsAre DEF DispatchPcs
<1>5. Goto(f, ErrPc(f))
  BY DEF ErrFire, ErrPc
<1>6. Moved(f, ErrPc(f))
  BY <1>4, <1>5, Basics, GotoMoves
<1>7. KeepsFires(f)
  BY <1>1, <1>2, KeepsWhen
<1>8. fires'[flow[f].fire].status \in StatusAt(ErrPc(f))
  BY <1>2, <1>3, Statuses DEF Marks
<1>9. ErrPc(f) = "retryInsert" => fires[flow[f].fire].attempt < maxRetries
  BY DEF ErrPc
<1>10. /\ Fits(f, flow'[f], fires', maxRetries)
       /\ flow'[f].pc \in HoldPcs => flow[f].pc \in HoldPcs /\ flow'[f].fire = flow[f].fire
  BY <1>1, <1>4, <1>6, <1>7, <1>8, <1>9, MovedFits
<1>11. inFlight' \in Nat /\ (inFlight > 0 => inFlight' = inFlight - 1)
  BY Basics, Discounts DEF ErrFire
<1> QED BY <1>1, <1>2, <1>6, <1>7, <1>10, <1>11, Basics DEF Acts, ErrFire, Moved

\* A step that inserts a row and dispatches it.
LEMMA InsertActs ==
  ASSUME TypeInv, NEW f \in Flows, NEW e \in FireRec(maxRetries), NEW g \in FlowRec,
         InsertAndDispatch(f, e, g), e.status = "running", e.sched = g.row.id,
         g.reap = flow[f].reap, flow[f].pc # "idle", UNCHANGED <<host, sched, events, excused, leaked>>
  PROVE  Acts(f) /\ Adds(e) /\ Dispatched(f, Len(fires) + 1, g) /\ inFlight' = inFlight + 1
<1>1. Adds(e) /\ Dispatched(f, Len(fires) + 1, g) /\ inFlight' = inFlight + 1
  BY Basics, InsertDoes
<1>2. KeepsFires(f)
  BY <1>1, KeepsWhen
<1>3. /\ Len(fires) + 1 \in DOMAIN fires' /\ fires'[Len(fires) + 1].sched = g.row.id
      /\ fires'[Len(fires) + 1].status = "running"
  BY <1>1, Basics DEF Adds, Like
<1>4. g.row.id \in Schedules /\ g.reap \subseteq DOMAIN fires
  BY Basics DEF FireRec, Fits
<1>5. Fits(f, flow'[f], fires', maxRetries)
  BY <1>1, <1>2, <1>3, <1>4, DispatchedFits
<1>6. flow'[f].fire = Len(fires) + 1 /\ flow'[f].fire > Len(fires)
  BY <1>1, Basics DEF Dispatched
<1> QED BY <1>1, <1>2, <1>5, <1>6, Basics DEF Acts, Dispatched

Retry(f) == LET failed == fires[flow[f].fire] IN
            Fire(f, flow[f].row.next, now, failed.attempt + 1, failed.via, Never)

LEMMA RetryInsertDoes ==
  ASSUME TypeInv, NEW f \in Flows, RetryInsert(f)
  PROVE  /\ Acts(f) /\ Adds(Retry(f)) /\ Dispatched(f, Len(fires) + 1, flow[f]) /\ inFlight' = inFlight + 1
         /\ Retry(f).day = Never /\ Retry(f).status = "running" /\ Retry(f).sched = flow[f].row.id
         /\ Retry(f).via = fires[flow[f].fire].via /\ maxRetries # 0
<1>1. flow[f].pc = "retryInsert" /\ flow[f].pc \in HoldPcs /\ flow[f].pc \in RowPcs
  BY DEF RetryInsert, HoldPcs, RowPcs, DispatchPcs
<1>2. /\ fires[flow[f].fire] \in FireRec(maxRetries) /\ fires[flow[f].fire].attempt < maxRetries
      /\ flow[f].row.id \in Schedules /\ flow[f] \in FlowRec /\ now \in Nat /\ maxRetries \in Nat
  BY <1>1, Basics DEF Fits
<1> DEFINE failed == fires[flow[f].fire]
           attempt == failed.attempt + 1
<1>3. /\ attempt \in 0 .. maxRetries /\ failed.via \in {"tick", "now", "once", "all"} /\ Never \in Nat \cup {Never}
      /\ maxRetries # 0
  BY <1>2 DEF FireRec
<1>4. flow[f].row.next \in Nat
  BY <1>2 DEF FlowRec, Snapshot
<1>5. Retry(f) = Fire(f, flow[f].row.next, now, attempt, failed.via, Never)
  BY DEF Retry
<1> HIDE DEF failed, attempt
<1> PICK e : e = Retry(f)
  OBVIOUS
<1>6. e \in FireRec(maxRetries) /\ e.sched = flow[f].row.id /\ e.status = "running" /\ e.via = failed.via
      /\ e.day = Never
  <2> PICK slot \in Nat, at \in Nat, n \in 0 .. maxRetries, via \in {"tick", "now", "once", "all"} :
         slot = flow[f].row.next /\ at = now /\ n = attempt /\ via = failed.via
    BY <1>2, <1>3, <1>4
  <2>1. e = Fire(f, slot, at, n, via, Never)
    BY <1>5
  <2>2. /\ e \in FireRec(maxRetries) /\ e.sched = flow[f].row.id /\ e.status = "running"
        /\ e.via = via /\ e.day = Never
    BY <1>2, <2>1 DEF Fire, FireRec
  <2> QED BY <2>2
<1>7. InsertAndDispatch(f, e, flow[f]) /\ UNCHANGED <<host, sched, events, excused, leaked>>
  BY DEF RetryInsert, Retry
<1>8. Acts(f) /\ Adds(e) /\ Dispatched(f, Len(fires) + 1, flow[f]) /\ inFlight' = inFlight + 1
  BY <1>1, <1>2, <1>6, <1>7, InsertActs
<1> QED BY <1>3, <1>6, <1>8 DEF failed

LEMMA ErrSchedDoes ==
  ASSUME TypeInv, NEW f \in Flows, ErrSched(f)
  PROVE  /\ Acts(f) /\ (f \in Ticks => Leaves(f)) /\ (f = StartF => Moved(f, AfterPc(f)))
         /\ SchedIs(flow[f].row.id, sched[flow[f].row.id].next, sched[flow[f].row.id].last, flow[f].row.errors + 1)
         /\ flow'[f].pc \notin HoldPcs
<1>1. flow[f].pc = "errSched" /\ flow[f].pc \in DispatchPcs /\ flow[f].pc \in RowPcs
  BY DEF ErrSched, DispatchPcs, RowPcs
<1>2. flow[f].row.id \in Schedules
  BY <1>1, Basics DEF Fits
<1> PICK s \in Schedules : s = flow[f].row.id
  BY <1>2
<1>3. flow[f].row.errors + 1 \in Nat
  BY Basics DEF FlowRec, Snapshot
<1> PICK e \in Nat : e = flow[f].row.errors + 1
  BY <1>3
<1>4. sched' = [sched EXCEPT ![s].errors = e, ![s].enabled = @ /\ e < AUTO_DISABLE_AFTER]
      /\ sched \in [Schedules -> SchedRec]
  BY Basics DEF ErrSched
<1>5. SchedIs(s, sched[s].next, sched[s].last, e)
  BY <1>4, SchedSets
<1>6. fires' = fires /\ KeepsFires(f)
  BY KeepsWhen DEF ErrSched
<1>7. Only(f) /\ Fits(f, flow'[f], fires', maxRetries) /\ flow'[f].pc \notin HoldPcs
      /\ (f \in Ticks => Leaves(f)) /\ (f = StartF => Moved(f, AfterPc(f)))
  BY <1>1, <1>6, AfterDoes DEF ErrSched
<1> QED BY <1>1, <1>5, <1>6, <1>7, Basics DEF Acts, ErrSched, SchedIs

(***************************************************************************)
(* The steps of a tick and of fireNow.                                      *)
(***************************************************************************)
\* The select returns each due row once.
LEMMA DueRowsAre ==
  ASSUME TypeInv
  PROVE  /\ DueRows \in Seq(DueRec)
         /\ \A i \in DOMAIN DueRows :
              LET r == DueRows[i] IN
              /\ sched[r.id].present /\ sched[r.id].enabled /\ sched[r.id].next <= now
              /\ r.next = sched[r.id].next /\ r.last = sched[r.id].last /\ r.errors = sched[r.id].errors
         /\ \A i, j \in DOMAIN DueRows : i # j => DueRows[i].id # DueRows[j].id
<1> DEFINE S == {s \in Schedules : sched[s].present /\ Due(s)}
           n == Cardinality(S)
           Order(q) == \A i, j \in DOMAIN q : i # j => q[i] # q[j]
           order == CHOOSE q \in [1 .. n -> S] : Order(q)
<1>1. sched \in [Schedules -> SchedRec]
  BY DEF TypeInv, Shape
<1>2. IsFiniteSet(S)
  BY ScheduleAssumption, FS_Subset
<1> HIDE DEF S
<1>3. n \in Nat /\ ExistsBijection(1 .. n, S)
  BY <1>2, FS_CardinalityType
<1> HIDE DEF n
<1>4. \E q \in [1 .. n -> S] : Order(q)
  <2>1. PICK q \in Bijection(1 .. n, S) : TRUE
    BY <1>3 DEF ExistsBijection
  <2>2. q \in [1 .. n -> S] /\ \A i, j \in 1 .. n : q[i] = q[j] => i = j
    BY <2>1 DEF Bijection, Injection, IsInjective
  <2> QED BY <2>2
<1>5. order \in [1 .. n -> S] /\ Order(order)
  BY <1>4
<1>6. DueRows = [i \in DOMAIN order |-> [id |-> order[i], next |-> sched[order[i]].next,
                                         last |-> sched[order[i]].last, errors |-> sched[order[i]].errors]]
  BY DEF DueRows, S, n
<1> HIDE DEF order
<1>7. /\ DOMAIN DueRows = 1 .. n
      /\ \A i \in 1 .. n : DueRows[i] = [id |-> order[i], next |-> sched[order[i]].next,
                                         last |-> sched[order[i]].last, errors |-> sched[order[i]].errors]
  BY <1>5, <1>6
<1>8. ASSUME NEW i \in 1 .. n
      PROVE  /\ order[i] \in Schedules /\ sched[order[i]] \in SchedRec
             /\ sched[order[i]].present /\ sched[order[i]].enabled /\ sched[order[i]].next <= now
  <2>1. order[i] \in S
    BY <1>5
  <2> QED BY <1>1, <2>1 DEF S, Due
<1>9. \A i \in 1 .. n : DueRows[i] \in DueRec
  BY <1>7, <1>8 DEF DueRec, SchedRec
<1>10. DueRows \in Seq(DueRec)
  BY <1>3, <1>6, <1>7, <1>9
<1>11. \A i \in 1 .. n : /\ DueRows[i].id = order[i] /\ DueRows[i].next = sched[order[i]].next
                         /\ DueRows[i].last = sched[order[i]].last /\ DueRows[i].errors = sched[order[i]].errors
  BY <1>7
<1>12. \A i, j \in 1 .. n : i # j => order[i] # order[j]
  BY <1>5
<1>13. ASSUME NEW i \in DOMAIN DueRows
       PROVE  LET r == DueRows[i] IN
              /\ sched[r.id].present /\ sched[r.id].enabled /\ sched[r.id].next <= now
              /\ r.next = sched[r.id].next /\ r.last = sched[r.id].last /\ r.errors = sched[r.id].errors
  BY <1>7, <1>8, <1>11
<1> QED BY <1>7, <1>10, <1>11, <1>12, <1>13

\* The tick has selected the due rows and taken the first.
Wakes(f) ==
  \/ Emptied(f, "idle", << >>)
  \/ /\ DueRows # << >> /\ Emptied(f, "quota", Tail(DueRows))
     /\ flow'[f].row = Head(DueRows) /\ flow'[f].at = now

LEMMA SeqFacts ==
  ASSUME NEW q \in Seq(DueRec), q # << >>
  PROVE  /\ Head(q) = q[1] /\ 1 \in DOMAIN q /\ q[1] \in DueRec /\ q[1].id \in Schedules /\ Tail(q) \in Seq(DueRec)
         /\ \A i \in DOMAIN Tail(q) : Tail(q)[i] = q[i + 1] /\ i + 1 \in DOMAIN q /\ i + 1 # 1
<1>1. Head(q) = q[1] /\ 1 \in DOMAIN q /\ q[1] \in DueRec /\ Tail(q) \in Seq(DueRec)
  OBVIOUS
<1>2. \A i \in DOMAIN Tail(q) : Tail(q)[i] = q[i + 1] /\ i + 1 \in DOMAIN q /\ i + 1 # 1
  OBVIOUS
<1> QED BY <1>1, <1>2 DEF DueRec

LEMMA EventCounts ==
  ASSUME events \in Nat, Event \/ UNCHANGED events
  PROVE  events' \in Nat
BY DEF Event

LEMMA WakeTickDoes ==
  ASSUME TypeInv, NEW f \in Flows, WakeTick(f)
  PROVE  Acts(f) /\ Wakes(f) /\ f \in Ticks /\ flow[f].pc = "idle" /\ daemon = "up"
<1>1. f \in Ticks /\ flow[f].pc = "idle" /\ daemon = "up"
  BY DEF WakeTick, FirstFree
<1> DEFINE g == [Idle EXCEPT !.at = now, !.due = DueRows]
           r == NextRow(g, inFlight)
<1>2. g \in FlowRec /\ g.due = DueRows /\ g.at = now
  BY Basics, DueRowsAre, IdleType DEF FlowRec
<1>3. flow' = [flow EXCEPT ![f] = r]
  BY DEF WakeTick
<1> HIDE DEF g
<1>4. /\ r \in FlowRec
      /\ \/ r = Idle
         \/ /\ g.due # << >> /\ r.pc = "quota" /\ r.due = Tail(g.due) /\ r.row = Head(g.due)
            /\ r.at = g.at /\ r.fire = 0 /\ r.reap = {}
  BY <1>2, NextRowTakes
<1> HIDE DEF r
<1>5. Only(f) /\ flow'[f] = r
  BY <1>3, <1>4, Basics, OneFlow
<1>6. Idle.pc = "idle" /\ Idle.due = << >> /\ Idle.fire = 0 /\ Idle.reap = {}
  BY DEF Idle
<1>7. Wakes(f)
  BY <1>2, <1>4, <1>5, <1>6 DEF Wakes, Emptied
<1>8. fires' = fires /\ KeepsFires(f)
  BY KeepsWhen DEF WakeTick, tables
<1>9. Fits(f, flow'[f], fires', maxRetries) /\ flow'[f].pc \notin HoldPcs
  <2>1. CASE Emptied(f, "idle", << >>)
    <3>1. "idle" \notin RowPcs
      BY DEF RowPcs, TickPcs, DispatchPcs, Policies
    <3> QED BY <1>8, <2>1, <3>1, EmptiedFits
  <2>2. CASE /\ DueRows # << >> /\ Emptied(f, "quota", Tail(DueRows))
             /\ flow'[f].row = Head(DueRows) /\ flow'[f].at = now
    <3>1. Head(DueRows).id \in Schedules
      BY <2>2, DueRowsAre, SeqFacts
    <3>2. "quota" \in TickPcs \ {"advance", "reapSched"}
      BY DEF TickPcs
    <3> QED BY <1>1, <1>8, <2>2, <3>1, <3>2, EmptiedFits
  <2> QED BY <1>7, <2>1, <2>2 DEF Wakes
<1>10. events' \in Nat
  BY Basics, EventCounts DEF WakeTick
<1> QED BY <1>1, <1>5, <1>7, <1>8, <1>9, <1>10, Basics DEF Acts, WakeTick, tables

\* A claim has looked at the quota.
Checked(f, pc) ==
  /\ Only(f) /\ flow'[f].pc = pc /\ flow'[f].day = day(now)
  /\ flow'[f].at = flow[f].at /\ flow'[f].due = flow[f].due /\ flow'[f].row = flow[f].row
  /\ flow'[f].fire = flow[f].fire /\ flow'[f].reap = flow[f].reap

LEMMA CheckedActs ==
  ASSUME TypeInv, NEW f \in Ticks, NEW pc \in {"skipSlot", "insert", "nowInsert"},
         flow' = [flow EXCEPT ![f] = [@ EXCEPT !.pc = pc, !.day = day(now)]], flow[f].pc \in TickPcs,
         UNCHANGED <<host, tables, inFlight, events, excused, leaked>>
  PROVE  Acts(f) /\ Checked(f, pc)
<1>0. f \in Flows
  BY FlowTypes
<1> DEFINE g == [flow[f] EXCEPT !.pc = pc, !.day = day(now)]
<1>1. pc \in Pcs /\ day(now) \in Nat /\ flow[f] \in FlowRec
  BY <1>0, PcsAre, Basics, DayType DEF TickPcs
<1>2. /\ g \in FlowRec /\ g.pc = pc /\ g.day = day(now) /\ g.at = flow[f].at /\ g.due = flow[f].due
      /\ g.row = flow[f].row /\ g.fire = flow[f].fire /\ g.reap = flow[f].reap
  BY <1>1 DEF FlowRec
<1>3. flow' = [flow EXCEPT ![f] = g]
  OBVIOUS
<1> HIDE DEF g
<1>4. Only(f) /\ flow'[f] = g
  BY <1>0, <1>2, <1>3, Basics, OneFlow
<1>5. Checked(f, pc)
  BY <1>2, <1>4 DEF Checked
<1>6. fires' = fires /\ KeepsFires(f)
  BY <1>0, KeepsWhen DEF tables
<1>7. pc \in TickPcs /\ pc \notin HoldPcs \cup {"reapSched", "retryInsert"}
  BY DEF TickPcs, HoldPcs, DispatchPcs
<1>8. /\ flow[f].row.id \in Schedules /\ flow[f].fire \in 0 .. Len(fires) /\ flow[f].reap \subseteq DOMAIN fires
  BY <1>0, Basics DEF Fits, RowPcs
<1>9. Fits(f, flow'[f], fires', maxRetries)
  BY <1>2, <1>4, <1>6, <1>7, <1>8 DEF Fits
<1>10. flow[f].pc # "idle"
  BY DEF TickPcs
<1> QED BY <1>0, <1>2, <1>4, <1>5, <1>6, <1>7, <1>9, <1>10, Basics DEF Acts, tables

QuotaPc == IF todaysFireCount >= MaxRunsPerDay THEN "skipSlot" ELSE "insert"

LEMMA TickQuotaDoes ==
  ASSUME TypeInv, NEW f \in Flows, TickQuota(f)
  PROVE  Acts(f) /\ Checked(f, QuotaPc) /\ f \in Ticks /\ flow[f].pc = "quota"
<1>1. f \in Ticks /\ flow[f].pc = "quota" /\ flow[f].pc \in TickPcs
  BY DEF TickQuota, TickPcs
<1>2. QuotaPc \in {"skipSlot", "insert", "nowInsert"}
  BY DEF QuotaPc
<1> PICK pc \in {"skipSlot", "insert", "nowInsert"} : pc = QuotaPc
  BY <1>2
<1>3. flow' = [flow EXCEPT ![f] = [@ EXCEPT !.pc = pc, !.day = day(now)]]
  BY Basics DEF TickQuota, QuotaPc
<1> QED BY <1>1, <1>3, CheckedActs DEF TickQuota

LEMMA TickRow ==
  ASSUME TypeInv, NEW f \in Flows, flow[f].pc \in TickPcs
  PROVE  f \in Ticks /\ flow[f].row.id \in Schedules /\ flow[f].at \in Nat /\ flow[f].pc # "idle"
<1>1. flow[f].pc \notin DispatchPcs \cup {"idle"} \cup StartPcs
  BY DEF TickPcs, DispatchPcs, StartPcs, Policies
<1> QED BY <1>1, Basics DEF Fits, FlowRec, RowPcs

LEMMA TickSkipsSlotDoes ==
  ASSUME TypeInv, NEW f \in Flows, TickSkipsSlot(f)
  PROVE  /\ Acts(f) /\ Leaves(f) /\ f \in Ticks
         /\ LET s == flow[f].row.id IN SchedIs(s, next(s, flow[f].at), sched[s].last, sched[s].errors)
<1>1. flow[f].pc = "skipSlot" /\ flow[f].pc \in TickPcs
  BY DEF TickSkipsSlot, TickPcs
<1>2. f \in Ticks /\ flow[f].row.id \in Schedules /\ flow[f].at \in Nat /\ flow[f].pc # "idle"
  BY <1>1, TickRow
<1> PICK s \in Schedules : s = flow[f].row.id
  BY <1>2
<1>3. next(s, flow[f].at) \in Nat
  BY <1>2, NextSlot
<1> PICK n \in Nat : n = next(s, flow[f].at)
  BY <1>3
<1>4. sched' = [sched EXCEPT ![s].next = n] /\ sched \in [Schedules -> SchedRec]
  BY Basics DEF TickSkipsSlot
<1>5. SchedIs(s, n, sched[s].last, sched[s].errors)
  <2>1. Never \in Nat \cup {Never}
    OBVIOUS
  <2> QED BY <1>4, <2>1, SchedSets
<1>6. Leaves(f)
  BY Basics, GotoRow DEF TickSkipsSlot
<1>7. fires' = fires /\ KeepsFires(f)
  BY KeepsWhen DEF TickSkipsSlot
<1>8. Fits(f, flow'[f], fires', maxRetries) /\ flow'[f].pc \notin HoldPcs /\ Only(f)
  BY <1>2, <1>6, <1>7, LeavesFits
<1> QED BY <1>2, <1>5, <1>6, <1>7, <1>8, Basics DEF Acts, TickSkipsSlot, SchedIs

\* A tick has inserted its claim.
Claims(f) ==
  /\ Only(f) /\ flow'[f].pc = "advance" /\ flow'[f].fire = Len(fires) + 1
  /\ flow'[f].at = flow[f].at /\ flow'[f].due = flow[f].due /\ flow'[f].row = flow[f].row
  /\ flow'[f].reap = flow[f].reap

\* The row that a tick inserts.
Claim(f, e) ==
  /\ e.sched = flow[f].row.id /\ e.slot = flow[f].row.next /\ e.at >= flow[f].at /\ e.status = "running"
  /\ e.via = "tick" /\ e.day = flow[f].day

LEMMA TickInsertsDoes ==
  ASSUME TypeInv, NEW f \in Flows, TickInserts(f)
  PROVE  /\ Acts(f) /\ Claims(f) /\ f \in Ticks /\ flow[f].pc = "insert"
         /\ \E e : Adds(e) /\ Claim(f, e)
         /\ ~fires'[Len(fires) + 1].sent
<1>1. f \in Ticks /\ flow[f].pc = "insert" /\ flow[f].pc \in TickPcs
  BY DEF TickInserts, TickPcs
<1>2. flow[f].row.id \in Schedules /\ flow[f].at \in Nat /\ flow[f].pc # "idle"
  BY <1>1, TickRow
<1>3. PICK at \in FiredAts(f, flow[f].row.next < flow[f].at - 1) :
        fires' = Append(fires, Fire(f, flow[f].row.next, at, 0, "tick", flow[f].day))
  BY DEF TickInserts
<1>4. at \in Nat /\ at >= flow[f].at
  BY <1>2 DEF FiredAts
<1>5. flow[f].row.next \in Nat /\ flow[f].day \in Nat /\ 0 \in 0 .. maxRetries
  BY Basics DEF FlowRec, Snapshot
<1> PICK e : e = Fire(f, flow[f].row.next, at, 0, "tick", flow[f].day)
  OBVIOUS
<1>6. e \in FireRec(maxRetries) /\ Claim(f, e) /\ ~e.sent
  BY <1>2, <1>4, <1>5 DEF Fire, FireRec, Claim
<1>7. fires' = Append(fires, e) /\ fires \in Seq(FireRec(maxRetries))
  BY <1>3, Basics
<1>8. /\ fires' \in Seq(FireRec(maxRetries)) /\ Len(fires') = Len(fires) + 1 /\ fires'[Len(fires) + 1] = e
      /\ \A i \in DOMAIN fires : fires'[i] = fires[i]
  BY <1>6, <1>7
<1>9. Adds(e)
  BY <1>8 DEF Adds, Like
<1>10. KeepsFires(f)
  BY <1>9, KeepsWhen
<1> DEFINE g == [flow[f] EXCEPT !.pc = "advance", !.fire = Len(fires) + 1]
<1>11. "advance" \in Pcs /\ Len(fires) + 1 \in Nat /\ flow[f] \in FlowRec
  BY PcsAre, Basics DEF TickPcs
<1>12. /\ g \in FlowRec /\ g.pc = "advance" /\ g.fire = Len(fires) + 1 /\ g.at = flow[f].at
       /\ g.due = flow[f].due /\ g.row = flow[f].row /\ g.reap = flow[f].reap
  BY <1>11 DEF FlowRec
<1>13. flow' = [flow EXCEPT ![f] = g]
  BY Basics DEF TickInserts
<1> HIDE DEF g
<1>14. Only(f) /\ flow'[f] = g
  BY <1>12, <1>13, Basics, OneFlow
<1>15. Claims(f)
  BY <1>12, <1>14 DEF Claims
<1>16. Fits(f, flow'[f], fires', maxRetries)
  <2>1. g.pc \in TickPcs /\ g.fire \in 0 .. Len(fires') /\ g.fire # 0 /\ g.pc # "retryInsert"
    BY <1>8, <1>11, <1>12 DEF TickPcs
  <2>2. g.reap \subseteq DOMAIN fires'
    BY <1>8, <1>12, Basics DEF Fits
  <2>3. fires'[g.fire].sched = g.row.id /\ fires'[g.fire].status \in StatusAt(g.pc)
    BY <1>6, <1>8, <1>12, Statuses DEF Claim
  <2> QED BY <1>1, <1>2, <1>12, <1>14, <2>1, <2>2, <2>3 DEF Fits
<1>17. flow'[f].fire > Len(fires)
  BY <1>11, <1>12, <1>14
<1>18. ~fires'[Len(fires) + 1].sent
  BY <1>6, <1>8
<1> QED BY <1>1, <1>2, <1>6, <1>9, <1>10, <1>14, <1>15, <1>16, <1>17, <1>18, Basics DEF Acts, TickInserts

LEMMA TickAdvancesDoes ==
  ASSUME TypeInv, NEW f \in Flows, TickAdvances(f)
  PROVE  /\ Acts(f) /\ Sends(flow[f].fire) /\ f \in Ticks /\ inFlight' = inFlight + 1
         /\ Dispatched(f, flow[f].fire, [flow[f] EXCEPT !.count = @ + 1])
         /\ LET s == flow[f].row.id IN
            SchedIs(s, next(s, flow[f].at), fires[flow[f].fire].at, sched[s].errors)
<1>1. flow[f].pc = "advance" /\ flow[f].pc \in TickPcs /\ flow[f].pc \in HoldPcs
  BY DEF TickAdvances, TickPcs, HoldPcs
<1>2. f \in Ticks /\ flow[f].row.id \in Schedules /\ flow[f].at \in Nat /\ flow[f].pc # "idle"
  BY <1>1, TickRow
<1>3. /\ flow[f].fire \in DOMAIN fires /\ fires[flow[f].fire] \in FireRec(maxRetries)
      /\ fires[flow[f].fire].sched = flow[f].row.id /\ fires[flow[f].fire].status = "running"
  BY <1>1, Basics, Statuses DEF Fits
<1> DEFINE g == [flow[f] EXCEPT !.count = @ + 1]
<1>4. /\ g \in FlowRec /\ g.row = flow[f].row /\ g.reap = flow[f].reap
  <2>1. flow[f] \in FlowRec /\ flow[f].count + 1 \in Nat
    BY Basics DEF FlowRec
  <2> QED BY <2>1 DEF FlowRec
<1>5. Dispatch(f, fires, flow[f].fire, g)
  BY DEF TickAdvances
<1> HIDE DEF g
<1>6. /\ fires' \in Seq(FireRec(maxRetries)) /\ Len(fires') = Len(fires)
      /\ \A i \in DOMAIN fires : i # flow[f].fire => fires'[i] = fires[i]
      /\ Like(fires'[flow[f].fire], fires[flow[f].fire])
      /\ Dispatched(f, flow[f].fire, g)
  <2> PICK fs \in Seq(FireRec(maxRetries)), k \in DOMAIN fires : fs = fires /\ k = flow[f].fire
    BY <1>3, Basics
  <2>1. Dispatch(f, fs, k, g) /\ k \in DOMAIN fs
    BY <1>5
  <2>2. /\ fires' \in Seq(FireRec(maxRetries)) /\ Len(fires') = Len(fs)
        /\ \A i \in DOMAIN fs : i # k => fires'[i] = fs[i]
        /\ Like(fires'[k], fs[k])
        /\ Dispatched(f, k, g)
    BY <1>4, <2>1, Basics, DispatchDoes
  <2> QED BY <2>2
<1>7. inFlight' = inFlight + 1
  BY <1>5 DEF Dispatch
<1>8. Sends(flow[f].fire)
  BY <1>3, <1>6 DEF Sends
<1>9. KeepsFires(f)
  BY <1>8, KeepsWhen
<1>10. Fits(f, flow'[f], fires', maxRetries)
  <2>1. /\ flow[f].fire \in DOMAIN fires' /\ fires'[flow[f].fire].sched = g.row.id
        /\ fires'[flow[f].fire].status = "running"
    BY <1>3, <1>4, <1>6, Basics DEF Like
  <2>2. g.row.id \in Schedules /\ g.reap \subseteq DOMAIN fires
    BY <1>2, <1>4, Basics DEF Fits
  <2> QED BY <1>6, <1>9, <2>1, <2>2, DispatchedFits
<1>11. flow'[f].fire = flow[f].fire /\ Only(f)
  BY <1>6 DEF Dispatched
<1> PICK s \in Schedules, n \in Nat, l \in Nat :
       s = flow[f].row.id /\ n = next(s, flow[f].at) /\ l = fires[flow[f].fire].at
  BY <1>2, <1>3, NextSlot DEF FireRec
<1>12. sched' = [sched EXCEPT ![s].next = n, ![s].last = l] /\ sched \in [Schedules -> SchedRec]
  BY Basics DEF TickAdvances
<1>13. SchedIs(s, n, l, sched[s].errors)
  <2>1. 0 \in Nat /\ l \in Nat \cup {Never}
    OBVIOUS
  <2> QED BY <1>12, <2>1, SchedSets
<1>14. SchedIs(flow[f].row.id, next(flow[f].row.id, flow[f].at), fires[flow[f].fire].at,
               sched[flow[f].row.id].errors)
  BY <1>13
<1>15. Acts(f)
  <2>1. sched' \in [Schedules -> SchedRec]
    BY <1>13 DEF SchedIs
  <2>2. inFlight' \in Nat /\ leaked' \in Nat /\ events' \in Nat /\ UNCHANGED host
    BY <1>7, Basics DEF TickAdvances
  <2> QED BY <1>1, <1>2, <1>9, <1>10, <1>11, <2>1, <2>2 DEF Acts
<1>16. Dispatched(f, flow[f].fire, [flow[f] EXCEPT !.count = @ + 1])
  BY <1>6 DEF g
<1> QED BY <1>2, <1>7, <1>8, <1>14, <1>15, <1>16

\* fireNow has read the schedule.
NowStarts(f, s) ==
  /\ Only(f) /\ flow'[f].pc = "nowQuota" /\ flow'[f].at = now /\ flow'[f].due = flow[f].due
  /\ flow'[f].row.id = s /\ flow'[f].row.errors = sched[s].errors
  /\ flow'[f].fire = flow[f].fire /\ flow'[f].reap = flow[f].reap

LEMMA FireNowDoes ==
  ASSUME TypeInv, NEW f \in Flows, NEW s \in Schedules, FireNow(f, s)
  PROVE  Acts(f) /\ NowStarts(f, s) /\ f \in Ticks /\ flow[f].pc = "idle" /\ sched[s].present /\ daemon = "up"
<1>1. f \in Ticks /\ flow[f].pc = "idle" /\ daemon = "up" /\ sched[s].present
  BY DEF FireNow, FirstFree
<1> DEFINE r == [id |-> s, next |-> sched[s].next, last |-> sched[s].last, errors |-> sched[s].errors]
           g == [flow[f] EXCEPT !.pc = "nowQuota", !.at = now, !.row = r]
<1>2. sched[s] \in SchedRec /\ flow[f] \in FlowRec /\ now \in Nat /\ "nowQuota" \in Pcs
  BY Basics, PcsAre DEF TickPcs
<1>3. r \in Snapshot /\ r.id = s /\ r.errors = sched[s].errors
  BY <1>2 DEF SchedRec, Snapshot, RowIds
<1> HIDE DEF r
<1>4. /\ g \in FlowRec /\ g.pc = "nowQuota" /\ g.at = now /\ g.row = r /\ g.due = flow[f].due
      /\ g.fire = flow[f].fire /\ g.reap = flow[f].reap
  BY <1>2, <1>3 DEF FlowRec
<1>5. flow' = [flow EXCEPT ![f] = g]
  BY Basics DEF FireNow, r
<1> HIDE DEF g
<1>6. Only(f) /\ flow'[f] = g
  BY <1>4, <1>5, Basics, OneFlow
<1>7. NowStarts(f, s)
  BY <1>3, <1>4, <1>6 DEF NowStarts
<1>8. fires' = fires /\ KeepsFires(f)
  BY KeepsWhen DEF FireNow, tables
<1>9. g.pc \in TickPcs /\ g.pc \notin HoldPcs \cup {"reapSched", "retryInsert"}
  BY <1>4 DEF TickPcs, HoldPcs, DispatchPcs
<1>10. flow[f].fire \in 0 .. Len(fires) /\ flow[f].reap \subseteq DOMAIN fires
  BY Basics DEF Fits
<1>11. Fits(f, flow'[f], fires', maxRetries)
  BY <1>1, <1>3, <1>4, <1>6, <1>8, <1>9, <1>10 DEF Fits
<1>12. events' \in Nat
  BY Basics, EventCounts DEF FireNow
<1> QED BY <1>1, <1>4, <1>6, <1>7, <1>8, <1>9, <1>11, <1>12, Basics DEF Acts, FireNow, tables

\* A tick that has nothing to do any more.
LEMMA LeavesActs ==
  ASSUME TypeInv, NEW f \in Ticks, Leaves(f), flow[f].pc # "idle", UNCHANGED <<host, tables>>,
         inFlight' \in Nat, leaked' \in Nat, events' \in Nat
  PROVE  Acts(f) /\ flow'[f].pc \notin HoldPcs
<1>1. f \in Flows
  BY FlowTypes
<1>2. fires' = fires /\ KeepsFires(f)
  BY <1>1, KeepsWhen DEF tables
<1>3. Fits(f, flow'[f], fires', maxRetries) /\ flow'[f].pc \notin HoldPcs /\ Only(f)
  BY <1>2, LeavesFits
<1> QED BY <1>1, <1>2, <1>3, Basics DEF Acts, tables

LEMMA NowQuotaDoes ==
  ASSUME TypeInv, NEW f \in Flows, NowQuota(f)
  PROVE  /\ Acts(f) /\ f \in Ticks /\ flow[f].pc = "nowQuota"
         /\ IF todaysFireCount >= MaxRunsPerDay THEN Emptied(f, "idle", << >>) ELSE Checked(f, "nowInsert")
<1>1. flow[f].pc = "nowQuota" /\ flow[f].pc \in TickPcs
  BY DEF NowQuota, TickPcs
<1>2. f \in Ticks /\ flow[f].pc # "idle"
  BY <1>1, TickRow
<1>3. CASE todaysFireCount >= MaxRunsPerDay
  <2>1. flow' = [flow EXCEPT ![f] = Idle]
    BY <1>3 DEF NowQuota
  <2>2. Emptied(f, "idle", << >>)
    BY <2>1, Basics, OneFlow, IdleType DEF Emptied, Idle
  <2>3. Acts(f)
    BY <1>2, <2>2, Basics, LeavesActs DEF Leaves, NowQuota
  <2> QED BY <1>1, <1>2, <1>3, <2>2, <2>3
<1>4. CASE ~(todaysFireCount >= MaxRunsPerDay)
  <2>1. flow' = [flow EXCEPT ![f] = [@ EXCEPT !.pc = "nowInsert", !.day = day(now)]]
    BY <1>4 DEF NowQuota
  <2> PICK pc \in {"skipSlot", "insert", "nowInsert"} : pc = "nowInsert"
    OBVIOUS
  <2>2. Acts(f) /\ Checked(f, pc)
    BY <1>1, <1>2, <2>1, CheckedActs DEF NowQuota
  <2> QED BY <1>1, <1>2, <1>4, <2>2
<1> QED BY <1>3, <1>4

LEMMA NowInsertsDoes ==
  ASSUME TypeInv, NEW f \in Flows, NowInserts(f)
  PROVE  /\ Acts(f) /\ f \in Ticks /\ flow[f].pc = "nowInsert" /\ inFlight' = inFlight + 1
         /\ Dispatched(f, Len(fires) + 1, flow[f])
         /\ \E e : /\ Adds(e) /\ e.via = "now" /\ e.status = "running" /\ e.day = flow[f].day
                   /\ e.sched = flow[f].row.id
<1>1. flow[f].pc = "nowInsert" /\ flow[f].pc \in TickPcs
  BY DEF NowInserts, TickPcs
<1>2. f \in Ticks /\ flow[f].row.id \in Schedules /\ flow[f].at \in Nat /\ flow[f].pc # "idle"
  BY <1>1, TickRow
<1>3. flow[f] \in FlowRec /\ flow[f].day \in Nat /\ 0 \in 0 .. maxRetries
  BY Basics DEF FlowRec
<1> PICK e : e = Fire(f, flow[f].at, flow[f].at, 0, "now", flow[f].day)
  OBVIOUS
<1>4. /\ e \in FireRec(maxRetries) /\ e.via = "now" /\ e.status = "running" /\ e.day = flow[f].day
      /\ e.sched = flow[f].row.id
  BY <1>2, <1>3 DEF Fire, FireRec
<1>5. InsertAndDispatch(f, e, flow[f]) /\ UNCHANGED <<host, sched, events, excused, leaked>>
  BY DEF NowInserts
<1>6. Acts(f) /\ Adds(e) /\ Dispatched(f, Len(fires) + 1, flow[f]) /\ inFlight' = inFlight + 1
  BY <1>2, <1>3, <1>4, <1>5, InsertActs
<1> QED BY <1>1, <1>2, <1>4, <1>6

(***************************************************************************)
(* Rejected statements.                                                     *)
(***************************************************************************)
LEMMA CompletionThrowsDoes ==
  ASSUME TypeInv, NEW f \in Flows, CompletionThrows(f)
  PROVE  Acts(f) /\ Moved(f, "errFire") /\ flow[f].pc \in {"okFire", "okSched"}
<1>1. flow[f].pc \in {"okFire", "okSched"} /\ flow[f].pc \in DispatchPcs /\ flow[f].pc \in HoldPcs
      /\ flow[f].pc # "idle"
  BY DEF CompletionThrows, DispatchPcs, HoldPcs
<1>2. "errFire" \in Pcs \ {"idle"} /\ "errFire" \in DispatchPcs
  BY PcsAre DEF DispatchPcs
<1>3. Moved(f, "errFire")
  BY <1>2, Basics, GotoMoves DEF CompletionThrows
<1>4. fires' = fires /\ KeepsFires(f)
  BY KeepsWhen DEF CompletionThrows, tables
<1>5. fires'[flow[f].fire].status \in StatusAt("errFire")
  BY <1>1, <1>4, Basics, Statuses DEF Fits
<1>6. /\ Fits(f, flow'[f], fires', maxRetries)
      /\ flow'[f].pc \in HoldPcs => flow[f].pc \in HoldPcs /\ flow'[f].fire = flow[f].fire
  BY <1>1, <1>2, <1>3, <1>4, <1>5, MovedFits
<1>7. events' \in Nat
  BY Basics, EventCounts DEF CompletionThrows
<1> QED BY <1>1, <1>3, <1>4, <1>6, <1>7, Basics DEF Acts, CompletionThrows, Moved, tables

\* The start goes on without a row in hand.
PlainPcs == {"missedRow", "missedSelect", "seed", "reapFire"}

LEMMA StartMovedActs ==
  ASSUME TypeInv, NEW pc \in PlainPcs, Moved(StartF, pc), flow[StartF].pc # "idle", fires' = fires,
         UNCHANGED host, sched' \in [Schedules -> SchedRec], inFlight' \in Nat, leaked' \in Nat, events' \in Nat
  PROVE  Acts(StartF) /\ flow'[StartF].pc \notin HoldPcs \cup RowPcs
<1>1. KeepsFires(StartF) /\ StartF \in Flows /\ StartF \notin Ticks
  BY KeepsWhen, FlowTypes
<1>2. pc \in StartPcs \ {"advance", "reapSched"} /\ pc \notin RowPcs /\ pc \notin HoldPcs
  BY DEF PlainPcs, StartPcs, RowPcs, HoldPcs, DispatchPcs, TickPcs, Policies
<1>3. Fits(StartF, flow'[StartF], fires', maxRetries)
  BY <1>1, <1>2, MovedFits
<1>4. flow'[StartF].pc = pc
  BY DEF Moved
<1> QED BY <1>1, <1>2, <1>3, <1>4 DEF Acts, Moved

\* What a throw that ends the dispatch, or another step of a flow, leaves.
Thrown(f) == /\ f \in Ticks => Leaves(f)
             /\ f = StartF => \E pc \in PlainPcs : Moved(f, pc)

LEMMA ThrownActs ==
  ASSUME TypeInv, NEW f \in Flows, Thrown(f), flow[f].pc # "idle", UNCHANGED <<host, tables>>,
         inFlight' \in Nat, leaked' \in Nat, events' \in Nat
  PROVE  Acts(f) /\ flow'[f].pc \notin HoldPcs
<1>1. fires' = fires /\ sched' \in [Schedules -> SchedRec]
  BY Basics DEF tables
<1>2. CASE f \in Ticks
  BY <1>2, LeavesActs, FlowTypes DEF Thrown
<1>3. CASE f = StartF
  BY <1>1, <1>3, StartMovedActs DEF Thrown
<1> QED BY <1>2, <1>3, FlowTypes

LEMMA DispatchThrowsDoes ==
  ASSUME TypeInv, NEW f \in Flows, DispatchThrows(f)
  PROVE  Acts(f) /\ Thrown(f) /\ flow'[f].pc \notin HoldPcs /\ flow[f].pc \in DispatchPcs
<1>1. flow[f].pc \in DispatchPcs /\ flow[f].pc # "idle"
  BY DEF DispatchThrows, DispatchPcs
<1>2. Thrown(f)
  <2>1. CASE f \in Ticks
    <3>1. Goto(f, "row")
      BY <2>1 DEF DispatchThrows, Caught
    <3> QED BY <2>1, <3>1, Basics, GotoRow, FlowTypes DEF Thrown
  <2>2. CASE f = StartF
    <3>1. Goto(f, "missedRow")
      BY <2>2, FlowTypes DEF DispatchThrows, Caught
    <3>2. "missedRow" \in Pcs \ {"idle"}
      BY PcsAre DEF StartPcs
    <3>3. Moved(f, "missedRow")
      BY <3>1, <3>2, Basics, GotoMoves
    <3> QED BY <2>2, <3>3, FlowTypes DEF Thrown, PlainPcs
  <2> QED BY <2>1, <2>2, FlowTypes
<1>3. events' \in Nat /\ leaked' \in Nat /\ inFlight' \in Nat
  <2>1. events' \in Nat
    BY Basics, EventCounts DEF DispatchThrows
  <2> QED BY <2>1, Basics DEF DispatchThrows
<1>4. UNCHANGED <<host, tables>>
  BY DEF DispatchThrows
<1> QED BY <1>1, <1>2, <1>3, <1>4, ThrownActs

LEMMA CatcherIs ==
  ASSUME NEW pc \in CatcherPcs
  PROVE  /\ pc \in TickPcs => Catcher(pc) \in {"idle", "row"}
         /\ pc \in StartPcs => Catcher(pc) \in {"missedSelect", "seed", "missedRow"}
         /\ pc # "idle" /\ pc \notin DispatchPcs
BY DEF CatcherPcs, Catcher, TickPcs, StartPcs, Policies, DispatchPcs

LEMMA FlowThrowsDoes ==
  ASSUME TypeInv, NEW f \in Flows, FlowThrows(f)
  PROVE  Acts(f) /\ Thrown(f) /\ flow'[f].pc \notin HoldPcs /\ flow[f].pc \notin DispatchPcs
<1>1. flow[f].pc \in CatcherPcs /\ Goto(f, Catcher(flow[f].pc))
  BY DEF FlowThrows
<1> PICK pc \in CatcherPcs : pc = flow[f].pc
  BY <1>1
<1>2. /\ pc \in TickPcs => Catcher(pc) \in {"idle", "row"}
      /\ pc \in StartPcs => Catcher(pc) \in {"missedSelect", "seed", "missedRow"}
      /\ pc # "idle" /\ pc \notin DispatchPcs
  BY CatcherIs
<1>3. (f \in Ticks => pc \in TickPcs) /\ (f = StartF => pc \in StartPcs)
  BY <1>2, Basics, FlowTypes DEF Fits
<1>4. Thrown(f)
  <2>1. CASE f \in Ticks
    <3>1. Goto(f, "idle") \/ Goto(f, "row")
      BY <1>1, <1>2, <1>3, <2>1
    <3> QED BY <2>1, <3>1, Basics, GotoRow, GotoIdle, FlowTypes DEF Thrown, Leaves
  <2>2. CASE f = StartF
    <3> PICK p : p = Catcher(pc)
      OBVIOUS
    <3>1. Goto(f, p) /\ p \in {"missedSelect", "seed", "missedRow"}
      BY <1>1, <1>2, <1>3, <2>2
    <3>2. p \in Pcs \ {"idle"} /\ p \in PlainPcs
      BY <3>1, PcsAre DEF StartPcs, PlainPcs
    <3>3. Moved(f, p)
      BY <3>1, <3>2, Basics, GotoMoves
    <3> QED BY <2>2, <3>2, <3>3, FlowTypes DEF Thrown
  <2> QED BY <2>1, <2>2, FlowTypes
<1>5. events' \in Nat /\ leaked' \in Nat /\ inFlight' \in Nat
  <2>1. events' \in Nat
    BY Basics, EventCounts DEF FlowThrows
  <2> QED BY <2>1, Basics DEF FlowThrows
<1>6. UNCHANGED <<host, tables>>
  BY DEF FlowThrows
<1>7. flow[f].pc # "idle" /\ flow[f].pc \notin DispatchPcs
  BY <1>2
<1>8. Acts(f) /\ flow'[f].pc \notin HoldPcs
  BY <1>4, <1>5, <1>6, <1>7, ThrownActs
<1> QED BY <1>4, <1>7, <1>8

(***************************************************************************)
(* The steps of the start.                                                  *)
(***************************************************************************)
LEMMA StartRuns ==
  ASSUME TypeInv, flow[StartF].pc # "idle"
  PROVE  daemon = "starting" /\ \A f \in Ticks : flow[f].pc = "idle" /\ flow[f].pc \notin HoldPcs \cup CountedPcs
<1>1. "idle" \notin HoldPcs \cup CountedPcs
  BY DEF HoldPcs, DispatchPcs, CountedPcs
<1> QED BY <1>1 DEF TypeInv, Phases

LEMMA Countable ==
  ASSUME TypeInv, NEW S \in SUBSET DOMAIN fires
  PROVE  IsFiniteSet(S) /\ Cardinality(S) \in Nat
<1>1. DOMAIN fires = 1 .. Len(fires) /\ Len(fires) \in Nat
  BY DEF TypeInv, Shape
<1>2. IsFiniteSet(1 .. Len(fires))
  BY <1>1, FS_Interval
<1> QED BY <1>1, <1>2, FS_Subset, FS_CardinalityType

\* The start has changed its own record only.
LEMMA StartSets ==
  ASSUME TypeInv, NEW g \in FlowRec, flow' = [flow EXCEPT ![StartF] = g], KeepsFires(StartF),
         Fits(StartF, g, fires', maxRetries), g.pc \notin HoldPcs, flow[StartF].pc # "idle",
         UNCHANGED <<host, sched, inFlight, events, excused, leaked>>
  PROVE  Acts(StartF) /\ Only(StartF) /\ flow'[StartF] = g
<1>1. Only(StartF) /\ flow'[StartF] = g
  BY Basics, OneFlow, FlowTypes
<1> QED BY <1>1, Basics, FlowTypes DEF Acts

LEMMA ReapSelectsDoes ==
  ASSUME TypeInv, ReapSelects
  PROVE  /\ Acts(StartF) /\ flow[StartF].pc = "reapSelect"
         /\ flow'[StartF].pc = "reapFire" /\ flow'[StartF].due = flow[StartF].due
<1> DEFINE g == [flow[StartF] EXCEPT !.pc = "reapFire", !.at = now, !.reap = Running]
<1>1. /\ Fits(StartF, flow[StartF], fires, maxRetries) /\ flow[StartF] \in FlowRec /\ now \in Nat
      /\ flow[StartF].pc = "reapSelect" /\ StartF \notin Ticks /\ DOMAIN fires \subseteq Nat
  BY Basics, FlowTypes DEF ReapSelects
<1>2. Running \subseteq DOMAIN fires /\ "reapFire" \in Pcs
  BY PcsAre DEF Running, StartPcs
<1>3. /\ g \in FlowRec /\ g.pc = "reapFire" /\ g.reap = Running /\ g.fire = flow[StartF].fire
      /\ g.due = flow[StartF].due
  BY <1>1, <1>2 DEF FlowRec
<1>4. flow' = [flow EXCEPT ![StartF] = g]
  BY Basics, FlowTypes DEF ReapSelects
<1> HIDE DEF g
<1>5. fires' = fires /\ KeepsFires(StartF)
  BY KeepsWhen, FlowTypes DEF ReapSelects, tables
<1>6. "reapFire" \in StartPcs /\ "reapFire" \notin HoldPcs \cup RowPcs \cup {"reapSched", "retryInsert"}
  BY DEF StartPcs, HoldPcs, RowPcs, DispatchPcs, TickPcs, Policies
<1>7. Fits(StartF, g, fires', maxRetries)
  BY <1>1, <1>2, <1>3, <1>5, <1>6 DEF Fits
<1>8. g.pc \notin HoldPcs /\ UNCHANGED <<host, sched, inFlight, events, excused, leaked>>
  BY <1>3, <1>6 DEF ReapSelects, tables
<1> QED BY <1>1, <1>3, <1>4, <1>5, <1>7, <1>8, StartSets

\* A row has been reaped, or left.
Reaps(k) ==
  /\ k \in flow[StartF].reap /\ flow'[StartF].due = flow[StartF].due /\ flow'[StartF].at = flow[StartF].at
  /\ \/ Marks(k, "error") /\ flow'[StartF].pc = "reapSched" /\ maxRetries # 0
     \/ fires' = fires /\ flow'[StartF].pc = "reapFire"

LEMMA ReapFireDoes ==
  ASSUME TypeInv, ReapFire
  PROVE  Acts(StartF) /\ flow[StartF].pc = "reapFire" /\ \E k \in DOMAIN fires : Reaps(k)
<1>1. /\ Fits(StartF, flow[StartF], fires, maxRetries) /\ flow[StartF] \in FlowRec
      /\ flow[StartF].pc = "reapFire" /\ StartF \notin Ticks /\ DOMAIN fires = 1 .. Len(fires) /\ Len(fires) \in Nat
  BY Basics, FlowTypes DEF ReapFire
<1>2. flow[StartF].reap \in SUBSET Nat /\ flow[StartF].reap \subseteq DOMAIN fires /\ flow[StartF].fire \in 0 .. Len(fires)
  BY <1>1 DEF Fits, FlowRec
<1>3. PICK k \in flow[StartF].reap :
       IF flow[StartF].at - fires[k].at >= ReapAge /\ maxRetries > 0
       THEN /\ fires' = [fires EXCEPT ![k].status = "error"]
            /\ flow' = [flow EXCEPT ![StartF].reap = @ \ {k}, ![StartF].pc = "reapSched", ![StartF].fire = k]
       ELSE /\ flow' = [flow EXCEPT ![StartF].reap = @ \ {k}]
            /\ UNCHANGED fires
  BY DEF ReapFire
<1>4. k \in DOMAIN fires /\ k \in Nat /\ k # 0 /\ flow[StartF].reap \ {k} \in SUBSET Nat
  BY <1>1, <1>2
<1>5. UNCHANGED <<host, sched, inFlight, events, excused, leaked>> /\ flow[StartF].pc # "idle"
  BY <1>1 DEF ReapFire
<1>6. \A f \in Flows : f # StartF => flow[f].pc \notin HoldPcs
  BY <1>5, StartRuns, FlowTypes
<1>7. {"reapFire", "reapSched"} \subseteq StartPcs \ (HoldPcs \cup RowPcs \cup {"retryInsert"})
      /\ {"reapFire", "reapSched"} \subseteq Pcs
  BY PcsAre DEF StartPcs, HoldPcs, RowPcs, DispatchPcs, TickPcs, Policies
<1>8. CASE flow[StartF].at - fires[k].at >= ReapAge /\ maxRetries > 0
  <2> DEFINE g == [flow[StartF] EXCEPT !.reap = @ \ {k}, !.pc = "reapSched", !.fire = k]
  <2>1. /\ g \in FlowRec /\ g.pc = "reapSched" /\ g.reap = flow[StartF].reap \ {k} /\ g.fire = k
        /\ g.due = flow[StartF].due /\ g.at = flow[StartF].at
    BY <1>1, <1>4, <1>7 DEF FlowRec
  <2>2. flow' = [flow EXCEPT ![StartF] = g]
    BY <1>3, <1>8, Basics, FlowTypes
  <2> HIDE DEF g
  <2>3. Marks(k, "error")
    BY <1>3, <1>4, <1>8, Basics, SetMarks, FlowTypes
  <2>4. KeepsFires(StartF)
    BY <1>1, <1>6, <2>3 DEF KeepsFires, Marks
  <2>5. g.fire \in 0 .. Len(fires') /\ g.reap \subseteq DOMAIN fires' /\ g.fire # 0
    BY <1>1, <1>2, <1>4, <2>1, <2>3 DEF Marks
  <2>6. Fits(StartF, g, fires', maxRetries)
    BY <1>1, <1>7, <2>1, <2>5 DEF Fits
  <2>7. g.pc \notin HoldPcs
    BY <1>7, <2>1
  <2>8. Acts(StartF) /\ flow'[StartF] = g
    BY <1>5, <2>1, <2>2, <2>4, <2>6, <2>7, StartSets
  <2>9. maxRetries # 0
    BY <1>8
  <2> QED BY <1>1, <1>4, <2>1, <2>3, <2>8, <2>9 DEF Reaps
<1>9. CASE ~(flow[StartF].at - fires[k].at >= ReapAge /\ maxRetries > 0)
  <2> DEFINE g == [flow[StartF] EXCEPT !.reap = @ \ {k}]
  <2>1. /\ g \in FlowRec /\ g.pc = "reapFire" /\ g.reap = flow[StartF].reap \ {k} /\ g.fire = flow[StartF].fire
        /\ g.due = flow[StartF].due /\ g.at = flow[StartF].at
    BY <1>1, <1>4 DEF FlowRec
  <2>2. flow' = [flow EXCEPT ![StartF] = g]
    BY <1>3, <1>9
  <2> HIDE DEF g
  <2>3. fires' = fires /\ KeepsFires(StartF)
    BY <1>3, <1>9, KeepsWhen, FlowTypes
  <2>4. Fits(StartF, g, fires', maxRetries)
    BY <1>1, <1>2, <1>7, <2>1, <2>3 DEF Fits
  <2>5. g.pc \notin HoldPcs
    BY <1>7, <2>1
  <2>6. Acts(StartF) /\ flow'[StartF] = g
    BY <1>5, <2>1, <2>2, <2>3, <2>4, <2>5, StartSets
  <2> QED BY <1>1, <1>4, <2>1, <2>3, <2>6 DEF Reaps
<1> QED BY <1>8, <1>9

\* The start changes a schedule and goes on without it.
LEMMA StartSchedActs ==
  ASSUME TypeInv, NEW pc \in PlainPcs, Goto(StartF, pc), flow[StartF].pc # "idle", fires' = fires,
         NEW s, NEW n, NEW l, NEW e, SchedIs(s, n, l, e),
         UNCHANGED <<host, inFlight, events, excused, leaked>>
  PROVE  Acts(StartF) /\ Moved(StartF, pc) /\ flow'[StartF].pc \notin HoldPcs \cup RowPcs
<1>1. pc \in Pcs \ {"idle"}
  BY PcsAre DEF PlainPcs, StartPcs
<1>2. Moved(StartF, pc)
  BY <1>1, Basics, GotoMoves, FlowTypes
<1>3. sched' \in [Schedules -> SchedRec]
  BY DEF SchedIs
<1> QED BY <1>2, <1>3, Basics, FlowTypes, StartMovedActs

LEMMA ReapSchedDoes ==
  ASSUME TypeInv, ReapSched
  PROVE  /\ Acts(StartF) /\ Moved(StartF, "reapFire") /\ flow[StartF].pc = "reapSched"
         /\ \E s \in Schedules : SchedIs(s, flow[StartF].at, sched[s].last, sched[s].errors)
<1>1. /\ Fits(StartF, flow[StartF], fires, maxRetries) /\ flow[StartF] \in FlowRec
      /\ flow[StartF].pc = "reapSched" /\ DOMAIN fires = 1 .. Len(fires) /\ Len(fires) \in Nat
  BY Basics, FlowTypes DEF ReapSched
<1>2. flow[StartF].fire \in DOMAIN fires
  BY <1>1 DEF Fits
<1>3. fires[flow[StartF].fire] \in FireRec(maxRetries)
  BY <1>2, Basics, FlowTypes
<1>4. fires[flow[StartF].fire].sched \in Schedules /\ flow[StartF].at \in Nat
  BY <1>1, <1>3 DEF FireRec, FlowRec
<1> PICK s \in Schedules, n \in Nat : s = fires[flow[StartF].fire].sched /\ n = flow[StartF].at
  BY <1>4
<1>5. sched' = [sched EXCEPT ![s].next = n] /\ sched \in [Schedules -> SchedRec]
  BY Basics, FlowTypes DEF ReapSched
<1>6. SchedIs(s, n, sched[s].last, sched[s].errors)
  <2>1. 0 \in Nat /\ Never \in Nat \cup {Never}
    OBVIOUS
  <2> QED BY <1>5, <2>1, SchedSets
<1>7. "reapFire" \in PlainPcs
  BY DEF PlainPcs
<1>8. Acts(StartF) /\ Moved(StartF, "reapFire")
  BY <1>1, <1>6, <1>7, StartSchedActs DEF ReapSched
<1> QED BY <1>1, <1>6, <1>8

LEMMA MissedSelectsDoes ==
  ASSUME TypeInv, MissedSelects
  PROVE  /\ Acts(StartF) /\ Emptied(StartF, "missedRow", DueRows) /\ flow'[StartF].at = now
         /\ flow[StartF].pc \in {"missedSelect", "reapFire"}
<1>1. flow[StartF].pc \in {"missedSelect", "reapFire"} /\ flow[StartF].pc # "idle" /\ now \in Nat
  BY Basics, FlowTypes DEF MissedSelects
<1> DEFINE g == [Idle EXCEPT !.pc = "missedRow", !.at = now, !.due = DueRows]
<1>2. "missedRow" \in Pcs /\ DueRows \in Seq(DueRec)
  BY PcsAre, DueRowsAre DEF StartPcs
<1>3. g \in FlowRec
  BY <1>1, <1>2, IdleType DEF FlowRec
<1>4. g.pc = "missedRow" /\ g.at = now /\ g.due = DueRows /\ g.fire = 0 /\ g.reap = {}
  BY DEF Idle
<1>5. flow' = [flow EXCEPT ![StartF] = g]
  BY DEF MissedSelects
<1> HIDE DEF g
<1>6. Only(StartF) /\ flow'[StartF] = g
  BY <1>3, <1>5, Basics, OneFlow, FlowTypes
<1>7. Emptied(StartF, "missedRow", DueRows)
  BY <1>4, <1>6 DEF Emptied
<1>8. fires' = fires /\ KeepsFires(StartF)
  BY KeepsWhen, FlowTypes DEF MissedSelects, tables
<1>9. "missedRow" \in StartPcs \ {"advance", "reapSched"} /\ "missedRow" \notin RowPcs
  BY DEF StartPcs, RowPcs, TickPcs, DispatchPcs, Policies
<1>10. Fits(StartF, flow'[StartF], fires', maxRetries) /\ flow'[StartF].pc \notin HoldPcs
  BY <1>7, <1>8, <1>9, EmptiedFits, FlowTypes
<1> QED BY <1>1, <1>4, <1>6, <1>7, <1>8, <1>10, Basics, FlowTypes DEF Acts, MissedSelects, tables

LEMMA MissedRowDoes ==
  ASSUME TypeInv, NEW policy \in Policies, MissedRow(policy)
  PROVE  Acts(StartF) /\ Takes(StartF, policy) /\ flow[StartF].pc = "missedRow"
<1>1. flow[StartF].pc = "missedRow" /\ flow[StartF].due # << >> /\ flow[StartF] \in FlowRec
  BY Basics, FlowTypes DEF MissedRow
<1>2. flow[StartF].due \in Seq(DueRec) /\ flow[StartF].at \in Nat
  BY <1>1 DEF FlowRec
<1> PICK q \in Seq(DueRec) : q = flow[StartF].due
  BY <1>2
<1>3. Tail(q) \in Seq(DueRec) /\ Head(q) \in DueRec /\ Head(q).id \in Schedules
  BY <1>1, SeqFacts
<1>4. Head(q) \in Snapshot
  BY <1>3 DEF DueRec, Snapshot, RowIds
<1>5. policy \in Pcs
  BY PcsAre DEF StartPcs
<1> DEFINE g == [Idle EXCEPT !.at = flow[StartF].at, !.due = Tail(q), !.row = Head(q), !.pc = policy]
<1>6. g \in FlowRec
  BY <1>2, <1>3, <1>4, <1>5, IdleType DEF FlowRec
<1>7. /\ g.pc = policy /\ g.at = flow[StartF].at /\ g.due = Tail(q) /\ g.row = Head(q) /\ g.fire = 0
      /\ g.reap = {}
  BY DEF Idle
<1>8. flow' = [flow EXCEPT ![StartF] = g]
  BY DEF MissedRow
<1> HIDE DEF g
<1>9. Only(StartF) /\ flow'[StartF] = g
  BY <1>6, <1>8, Basics, OneFlow, FlowTypes
<1>10. Takes(StartF, policy) /\ Emptied(StartF, policy, Tail(q))
  BY <1>1, <1>7, <1>9 DEF Takes, Emptied
<1>11. fires' = fires /\ KeepsFires(StartF)
  BY KeepsWhen, FlowTypes DEF MissedRow, tables
<1>12. policy \in StartPcs \ {"advance", "reapSched"}
  BY DEF StartPcs, Policies
<1>13. flow'[StartF].row.id \in Schedules
  BY <1>3, <1>7, <1>9
<1>14. Fits(StartF, flow'[StartF], fires', maxRetries) /\ flow'[StartF].pc \notin HoldPcs
  BY <1>10, <1>11, <1>12, <1>13, EmptiedFits, FlowTypes
<1> QED BY <1>1, <1>9, <1>10, <1>11, <1>14, Basics, FlowTypes DEF Acts, MissedRow, tables

\* The row that the start has in hand.
LEMMA StartRowIs ==
  ASSUME TypeInv, flow[StartF].pc \in Policies \cup {"missedLoop", "missedAdvance"}
  PROVE  /\ flow[StartF] \in FlowRec /\ flow[StartF].row.id \in Schedules /\ flow[StartF].pc # "idle"
         /\ flow[StartF].at \in Nat /\ flow[StartF].row.next \in Nat /\ flow[StartF].row.last \in Nat \cup {Never}
         /\ flow[StartF].firedAt \in Nat /\ flow[StartF].cursor \in Nat /\ flow[StartF].count \in Nat
         /\ flow[StartF].day \in Nat
<1>1. flow[StartF].pc \in RowPcs /\ flow[StartF].pc # "idle"
  BY DEF RowPcs, Policies
<1> QED BY <1>1, Basics, FlowTypes DEF Fits, FlowRec, Snapshot

LEMMA MissedSkipsDoes ==
  ASSUME TypeInv, MissedSkips
  PROVE  /\ Acts(StartF) /\ Moved(StartF, "missedRow") /\ flow[StartF].pc = "skip"
         /\ LET s == flow[StartF].row.id IN
            SchedIs(s, next(s, flow[StartF].at), sched[s].last, sched[s].errors)
<1>1. flow[StartF].pc = "skip" /\ flow[StartF].row.id \in Schedules /\ flow[StartF].at \in Nat
      /\ flow[StartF].pc # "idle"
  BY StartRowIs DEF MissedSkips, Policies
<1> PICK s \in Schedules, n \in Nat : s = flow[StartF].row.id /\ n = next(s, flow[StartF].at)
  BY <1>1, NextSlot
<1>2. sched' = [sched EXCEPT ![s].next = n] /\ sched \in [Schedules -> SchedRec]
  BY Basics, FlowTypes DEF MissedSkips
<1>3. SchedIs(s, n, sched[s].last, sched[s].errors)
  <2>1. 0 \in Nat /\ Never \in Nat \cup {Never}
    OBVIOUS
  <2> QED BY <1>2, <2>1, SchedSets
<1>4. "missedRow" \in PlainPcs
  BY DEF PlainPcs
<1>5. Acts(StartF) /\ Moved(StartF, "missedRow")
  BY <1>1, <1>3, <1>4, StartSchedActs DEF MissedSkips
<1> QED BY <1>1, <1>3, <1>5

LEMMA MissedAdvancesDoes ==
  ASSUME TypeInv, MissedAdvances
  PROVE  /\ Acts(StartF) /\ Moved(StartF, "missedRow") /\ flow[StartF].pc = "missedAdvance"
         /\ LET s == flow[StartF].row.id IN
            SchedIs(s, next(s, flow[StartF].at), flow[StartF].firedAt, sched[s].errors)
<1>1. flow[StartF].pc = "missedAdvance" /\ flow[StartF].row.id \in Schedules /\ flow[StartF].at \in Nat
      /\ flow[StartF].pc # "idle" /\ flow[StartF].firedAt \in Nat
  BY StartRowIs DEF MissedAdvances
<1> PICK s \in Schedules, n \in Nat, l \in Nat :
      s = flow[StartF].row.id /\ n = next(s, flow[StartF].at) /\ l = flow[StartF].firedAt
  BY <1>1, NextSlot
<1>2. sched' = [sched EXCEPT ![s].next = n, ![s].last = l] /\ sched \in [Schedules -> SchedRec]
  BY Basics, FlowTypes DEF MissedAdvances
<1>3. SchedIs(s, n, l, sched[s].errors)
  <2>1. 0 \in Nat /\ l \in Nat \cup {Never}
    OBVIOUS
  <2> QED BY <1>2, <2>1, SchedSets
<1>4. "missedRow" \in PlainPcs
  BY DEF PlainPcs
<1>5. Acts(StartF) /\ Moved(StartF, "missedRow")
  BY <1>1, <1>3, <1>4, StartSchedActs DEF MissedAdvances
<1> QED BY <1>1, <1>3, <1>5

LEMMA AllAdvancesDoes ==
  ASSUME TypeInv, AllAdvances
  PROVE  /\ Acts(StartF) /\ Moved(StartF, "missedRow") /\ flow[StartF].pc = "missedLoop"
         /\ LET s == flow[StartF].row.id IN
            SchedIs(s, next(s, flow[StartF].at),
                    IF flow[StartF].fire # 0 THEN flow[StartF].at ELSE sched[s].last, sched[s].errors)
<1>1. flow[StartF].pc = "missedLoop" /\ flow[StartF].row.id \in Schedules /\ flow[StartF].at \in Nat
      /\ flow[StartF].pc # "idle"
  BY StartRowIs DEF AllAdvances
<1> PICK s \in Schedules, n \in Nat : s = flow[StartF].row.id /\ n = next(s, flow[StartF].at)
  BY <1>1, NextSlot
<1>2. sched[s] \in SchedRec /\ sched \in [Schedules -> SchedRec]
  BY Basics, FlowTypes
<1>3. (IF flow[StartF].fire # 0 THEN flow[StartF].at ELSE sched[s].last) \in Nat \cup {Never}
  BY <1>1, <1>2 DEF SchedRec
<1> PICK l \in Nat \cup {Never} : l = IF flow[StartF].fire # 0 THEN flow[StartF].at ELSE sched[s].last
  BY <1>3
<1>4. sched' = [sched EXCEPT ![s].next = n, ![s].last = l]
  BY <1>2 DEF AllAdvances, SchedRec
<1>5. SchedIs(s, n, l, sched[s].errors)
  <2>1. 0 \in Nat
    OBVIOUS
  <2> QED BY <1>2, <1>4, <2>1, SchedSets
<1>6. "missedRow" \in PlainPcs
  BY DEF PlainPcs
<1>7. Acts(StartF) /\ Moved(StartF, "missedRow")
  BY <1>1, <1>5, <1>6, StartSchedActs DEF AllAdvances
<1> QED BY <1>1, <1>5, <1>7

\* The row that a catch-up inserts for slot, and the flow that dispatches it.
Catch(e, slot, via, d) ==
  /\ e.sched = flow[StartF].row.id /\ e.slot = slot /\ e.at >= flow[StartF].at /\ e.status = "running"
  /\ e.via = via /\ e.day = d

LEMMA OnceInsertsDoes ==
  ASSUME TypeInv, OnceInserts
  PROVE  /\ Acts(StartF) /\ flow[StartF].pc = "fire-once" /\ inFlight' = inFlight + 1
         /\ \E e : Adds(e) /\ Catch(e, flow[StartF].row.next, "once", Never)
         /\ \E g : /\ Dispatched(StartF, Len(fires) + 1, g) /\ g.firedAt >= flow[StartF].at
                   /\ g.at = flow[StartF].at /\ g.due = flow[StartF].due /\ g.row = flow[StartF].row
<1>1. flow[StartF].pc = "fire-once" /\ flow[StartF].row.id \in Schedules /\ flow[StartF].at \in Nat
      /\ flow[StartF].pc # "idle" /\ flow[StartF].row.next \in Nat /\ flow[StartF] \in FlowRec
  BY StartRowIs DEF OnceInserts, Policies
<1>2. PICK at \in FiredAts(StartF, TRUE) :
        InsertAndDispatch(StartF, Fire(StartF, flow[StartF].row.next, at, 0, "once", Never),
                          [flow[StartF] EXCEPT !.firedAt = at])
  BY DEF OnceInserts
<1>3. at \in Nat /\ at >= flow[StartF].at /\ 0 \in 0 .. maxRetries
  BY <1>1, Basics, FlowTypes DEF FiredAts
<1> PICK e : e = Fire(StartF, flow[StartF].row.next, at, 0, "once", Never)
  OBVIOUS
<1> PICK g : g = [flow[StartF] EXCEPT !.firedAt = at]
  OBVIOUS
<1>4. e \in FireRec(maxRetries) /\ Catch(e, flow[StartF].row.next, "once", Never)
  BY <1>1, <1>3 DEF Fire, FireRec, Catch
<1>5. /\ g \in FlowRec /\ g.firedAt = at /\ g.at = flow[StartF].at /\ g.due = flow[StartF].due
      /\ g.row = flow[StartF].row /\ g.reap = flow[StartF].reap
  BY <1>1, <1>3 DEF FlowRec
<1>6. InsertAndDispatch(StartF, e, g) /\ UNCHANGED <<host, sched, events, excused, leaked>>
  BY <1>2 DEF OnceInserts
<1>7. e.status = "running" /\ e.sched = g.row.id
  BY <1>4, <1>5 DEF Catch
<1>8. Acts(StartF) /\ Adds(e) /\ Dispatched(StartF, Len(fires) + 1, g) /\ inFlight' = inFlight + 1
  BY <1>1, <1>4, <1>5, <1>6, <1>7, InsertActs, FlowTypes
<1> QED BY <1>1, <1>3, <1>4, <1>5, <1>8

LEMMA AllInsertsDoes ==
  ASSUME TypeInv, AllInserts
  PROVE  /\ Acts(StartF) /\ flow[StartF].pc = "missedLoop" /\ inFlight' = inFlight + 1
         /\ flow[StartF].cursor <= flow[StartF].at /\ flow[StartF].count < MaxRunsPerDay
         /\ \E e : Adds(e) /\ Catch(e, flow[StartF].cursor, "all", flow[StartF].day)
         /\ \E g : /\ Dispatched(StartF, Len(fires) + 1, g) /\ g.count = flow[StartF].count + 1
                   /\ g.cursor = next(flow[StartF].row.id, flow[StartF].cursor) /\ g.day = flow[StartF].day
                   /\ g.at = flow[StartF].at /\ g.due = flow[StartF].due /\ g.row = flow[StartF].row
<1>1. /\ flow[StartF].pc = "missedLoop" /\ flow[StartF].row.id \in Schedules /\ flow[StartF].at \in Nat
      /\ flow[StartF].pc # "idle" /\ flow[StartF].cursor \in Nat /\ flow[StartF] \in FlowRec
      /\ flow[StartF].count \in Nat /\ flow[StartF].day \in Nat
      /\ flow[StartF].cursor <= flow[StartF].at /\ flow[StartF].count < MaxRunsPerDay
  BY StartRowIs DEF AllInserts
<1> PICK s \in Schedules, c \in Nat : s = flow[StartF].row.id /\ c = flow[StartF].cursor
  BY <1>1
<1>2. next(s, c) \in Nat
  BY NextSlot
<1> PICK n \in Nat : n = next(s, c)
  BY <1>2
<1>3. PICK at \in FiredAts(StartF, TRUE) :
        InsertAndDispatch(StartF, Fire(StartF, c, at, 0, "all", flow[StartF].day),
                          [flow[StartF] EXCEPT !.count = @ + 1, !.cursor = next(flow[StartF].row.id, @)])
  BY DEF AllInserts
<1>4. at \in Nat /\ at >= flow[StartF].at /\ 0 \in 0 .. maxRetries
  BY <1>1, Basics, FlowTypes DEF FiredAts
<1> PICK e : e = Fire(StartF, c, at, 0, "all", flow[StartF].day)
  OBVIOUS
<1> PICK g : g = [flow[StartF] EXCEPT !.count = @ + 1, !.cursor = n]
  OBVIOUS
<1>5. e \in FireRec(maxRetries) /\ Catch(e, c, "all", flow[StartF].day)
  BY <1>1, <1>4 DEF Fire, FireRec, Catch
<1>6. /\ g \in FlowRec /\ g.count = flow[StartF].count + 1 /\ g.cursor = n /\ g.day = flow[StartF].day
      /\ g.at = flow[StartF].at /\ g.due = flow[StartF].due
      /\ g.row = flow[StartF].row /\ g.reap = flow[StartF].reap
  <2>1. flow[StartF].count + 1 \in Nat
    BY <1>1
  <2> QED BY <1>1, <2>1 DEF FlowRec
<1>7. InsertAndDispatch(StartF, e, g) /\ UNCHANGED <<host, sched, events, excused, leaked>>
  <2>1. g = [flow[StartF] EXCEPT !.count = @ + 1, !.cursor = next(flow[StartF].row.id, @)]
    BY <1>1 DEF FlowRec
  <2> QED BY <1>3, <2>1 DEF AllInserts
<1>8. e.status = "running" /\ e.sched = g.row.id
  BY <1>5, <1>6 DEF Catch
<1>9. Acts(StartF) /\ Adds(e) /\ Dispatched(StartF, Len(fires) + 1, g) /\ inFlight' = inFlight + 1
  BY <1>1, <1>5, <1>6, <1>7, <1>8, InsertActs, FlowTypes
<1> QED BY <1>1, <1>5, <1>6, <1>9

\* fire-all has counted the fires of the day.
Counts(s) ==
  /\ Only(StartF) /\ flow'[StartF].pc = "missedLoop" /\ flow'[StartF].count = todaysFireCount
  /\ flow'[StartF].day = day(now) /\ flow'[StartF].at = flow[StartF].at
  /\ flow'[StartF].due = flow[StartF].due /\ flow'[StartF].row = flow[StartF].row
  /\ flow'[StartF].cursor = next(s, IF flow[StartF].row.last = Never THEN flow[StartF].row.next
                                    ELSE flow[StartF].row.last)

LEMMA MissedCountsDoes ==
  ASSUME TypeInv, MissedCounts
  PROVE  Acts(StartF) /\ Counts(flow[StartF].row.id) /\ flow[StartF].pc = "fire-all"
<1>1. /\ flow[StartF].pc = "fire-all" /\ flow[StartF].row.id \in Schedules /\ flow[StartF].pc # "idle"
      /\ flow[StartF].row.next \in Nat /\ flow[StartF].row.last \in Nat \cup {Never} /\ flow[StartF] \in FlowRec
  BY StartRowIs DEF MissedCounts, Policies
<1> DEFINE from == IF flow[StartF].row.last = Never THEN flow[StartF].row.next ELSE flow[StartF].row.last
<1>2. from \in Nat
  BY <1>1
<1> HIDE DEF from
<1> PICK s \in Schedules : s = flow[StartF].row.id
  BY <1>1
<1> PICK c : c = next(s, from)
  OBVIOUS
<1>3. c \in Nat
  BY <1>2, NextSlot
<1>4. todaysFireCount \in Nat /\ day(now) \in Nat
  BY Basics, Countable, DayType, FlowTypes DEF todaysFireCount
<1> DEFINE g == [flow[StartF] EXCEPT !.pc = "missedLoop", !.count = todaysFireCount, !.day = day(now), !.cursor = c]
<1>5. flow' = [flow EXCEPT ![StartF] = g]
  BY Basics, FlowTypes DEF MissedCounts, from
<1>6. "missedLoop" \in Pcs
  BY PcsAre DEF StartPcs
<1>7. /\ g \in FlowRec /\ g.pc = "missedLoop" /\ g.count = todaysFireCount /\ g.day = day(now) /\ g.cursor = c
      /\ g.at = flow[StartF].at /\ g.due = flow[StartF].due /\ g.row = flow[StartF].row
      /\ g.fire = flow[StartF].fire /\ g.reap = flow[StartF].reap
  BY <1>1, <1>3, <1>4, <1>6 DEF FlowRec
<1> HIDE DEF g
<1>8. fires' = fires /\ KeepsFires(StartF) /\ StartF \notin Ticks
  BY KeepsWhen, FlowTypes DEF MissedCounts, tables
<1>9. g.pc \in StartPcs /\ g.pc \notin HoldPcs \cup {"reapSched", "retryInsert"}
  BY <1>7 DEF StartPcs, HoldPcs, DispatchPcs
<1>10. Fits(StartF, g, fires', maxRetries)
  <2>1. flow[StartF].fire \in 0 .. Len(fires) /\ flow[StartF].reap \subseteq DOMAIN fires
    BY Basics, FlowTypes DEF Fits
  <2> QED BY <1>1, <1>7, <1>8, <1>9, <2>1 DEF Fits
<1>11. Acts(StartF) /\ Only(StartF) /\ flow'[StartF] = g
  <2>1. UNCHANGED <<host, sched, inFlight, events, excused, leaked>>
    BY DEF MissedCounts, tables
  <2> QED BY <1>1, <1>5, <1>7, <1>8, <1>9, <1>10, <2>1, StartSets
<1> QED BY <1>1, <1>7, <1>11 DEF Counts, from

(***************************************************************************)
(* The steps of the process and of the reconciler, and type correctness.    *)
(***************************************************************************)
LEMMA SeedsDoes ==
  ASSUME TypeInv, Seeds \/ SeedThrows
  PROVE  /\ Emptied(StartF, "idle", << >>) /\ flow[StartF].pc \in {"seed", "missedRow"} /\ daemon = "starting"
         /\ \E n \in 0 .. Cardinality(Running) : inFlight' = inFlight + n
         /\ daemon' = "up" /\ events' \in Nat /\ UNCHANGED <<now, maxRetries, sched, fires, lock, recon, leaked>>
<1>1. flow[StartF].pc \in {"seed", "missedRow"} /\ flow[StartF].pc # "idle" /\ Goto(StartF, "idle")
  BY DEF Seeds, SeedThrows, Seeding
<1>2. Emptied(StartF, "idle", << >>)
  BY <1>1, Basics, GotoIdle, FlowTypes
<1>3. Cardinality(Running) \in Nat
  BY Countable DEF Running
<1>4. \E n \in 0 .. Cardinality(Running) : inFlight' = inFlight + n
  <2>1. CASE Seeds
    BY <1>3, <2>1 DEF Seeds
  <2>2. CASE SeedThrows
    <3>1. PICK n \in {0} \cup 0 .. Cardinality(Running) - 1 : inFlight' = inFlight + n
      BY <2>2 DEF SeedThrows
    <3>2. n \in 0 .. Cardinality(Running)
      BY <1>3, <3>1
    <3> QED BY <3>1, <3>2
  <2> QED BY <2>1, <2>2
<1>5. events' \in Nat
  BY Basics, EventCounts, FlowTypes DEF Seeds, SeedThrows
<1>6. daemon' = "up" /\ UNCHANGED <<now, maxRetries, sched, fires, lock, recon, leaked>>
  BY DEF Seeds, SeedThrows, tables
<1> QED BY <1>1, <1>2, <1>4, <1>5, <1>6, StartRuns

\* A step that changes no record of a flow but one without a fire.
LEMMA QuietKeeps ==
  ASSUME TypeInv, NEW f \in Flows, Only(f), Fits(f, flow'[f], fires, maxRetries), flow'[f].pc \notin HoldPcs,
         UNCHANGED <<fires, maxRetries>>
  PROVE  FlowsFit' /\ OwnFires'
BY DEF TypeInv, FlowsFit, OwnFires, Only

LEMMA FreshFits ==
  ASSUME TypeInv, NEW f \in Flows
  PROVE  Fits(f, Idle, fires, maxRetries)
<1>1. Idle.pc = "idle" /\ Idle.fire = 0 /\ Idle.reap = {}
  BY DEF Idle
<1>2. "idle" \notin RowPcs \cup HoldPcs \cup {"reapSched", "retryInsert"}
  BY DEF RowPcs, HoldPcs, DispatchPcs, TickPcs, Policies
<1>3. Len(fires) \in Nat
  BY Basics
<1> QED BY <1>1, <1>2, <1>3, IdleType DEF Fits

LEMMA ProcessKeeps ==
  ASSUME TypeInv, Start \/ StartRefused \/ Seeds \/ SeedThrows \/ Stop \/ Exit \/ TimePasses
  PROVE  TypeInv'
<1> USE FlowTypes
<1>1. CASE Start
  <2> DEFINE g == [flow[StartF] EXCEPT !.pc = "reapSelect"]
  <2>1. daemon = "off" /\ flow[StartF].pc = "idle" /\ \A f \in Ticks : flow[f].pc = "idle"
    BY <1>1 DEF Start, TypeInv, Phases
  <2>2. "reapSelect" \in Pcs /\ flow[StartF] \in FlowRec
    BY PcsAre, Basics DEF StartPcs
  <2>3. g \in FlowRec /\ g.pc = "reapSelect" /\ g.fire = flow[StartF].fire /\ g.reap = flow[StartF].reap
    BY <2>2 DEF FlowRec
  <2>4. flow' = [flow EXCEPT ![StartF] = g]
    BY <1>1 DEF Start
  <2> HIDE DEF g
  <2>5. Only(StartF) /\ flow'[StartF] = g
    BY <2>3, <2>4, Basics, OneFlow
  <2>6. "reapSelect" \in StartPcs /\ "reapSelect" \notin RowPcs \cup HoldPcs \cup {"reapSched", "retryInsert"}
    BY DEF StartPcs, RowPcs, HoldPcs, DispatchPcs, TickPcs, Policies
  <2>7. Fits(StartF, g, fires, maxRetries)
    BY <2>3, <2>6, Basics DEF Fits
  <2>8. FlowsFit' /\ OwnFires'
    BY <1>1, <2>3, <2>5, <2>6, <2>7, QuietKeeps DEF Start, tables
  <2>9. Shape'
    BY <1>1, <2>5 DEF Start, Only, TypeInv, Shape, tables
  <2>10. Phases'
    BY <1>1, <2>1, <2>5 DEF Start, Phases, Only
  <2> QED BY <2>8, <2>9, <2>10 DEF TypeInv
<1>2. CASE StartRefused
  <2>1. UNCHANGED <<now, maxRetries, sched, fires, lock, inFlight, flow, recon, events, leaked>> /\ daemon' = "idle"
        /\ daemon = "off"
    BY <1>2 DEF StartRefused, tables
  <2>2. Shape' /\ FlowsFit' /\ OwnFires'
    BY <2>1 DEF TypeInv, Shape, FlowsFit, OwnFires
  <2>3. Phases'
    BY <2>1 DEF TypeInv, Phases
  <2> QED BY <2>2, <2>3 DEF TypeInv
<1>3. CASE Seeds \/ SeedThrows
  <2>1. /\ Emptied(StartF, "idle", << >>) /\ daemon = "starting"
        /\ \E n \in 0 .. Cardinality(Running) : inFlight' = inFlight + n
        /\ daemon' = "up" /\ events' \in Nat /\ UNCHANGED <<now, maxRetries, sched, fires, lock, recon, leaked>>
    BY <1>3, SeedsDoes
  <2>2. fires' = fires /\ KeepsFires(StartF)
    BY <2>1, KeepsWhen
  <2>3. "idle" \notin RowPcs
    BY DEF RowPcs, DispatchPcs, TickPcs, Policies
  <2>4. Fits(StartF, flow'[StartF], fires', maxRetries) /\ flow'[StartF].pc \notin HoldPcs
    BY <2>1, <2>2, <2>3, EmptiedFits
  <2>5. FlowsFit' /\ OwnFires'
    BY <2>1, <2>2, <2>4, QuietKeeps DEF Emptied
  <2>6. inFlight' \in Nat
    BY <2>1, Basics
  <2>7. Shape'
    BY <2>1, <2>6 DEF Emptied, Only, TypeInv, Shape
  <2>8. Phases'
    BY <2>1 DEF Phases, Emptied
  <2> QED BY <2>5, <2>7, <2>8 DEF TypeInv
<1>4. CASE Stop
  <2>1. UNCHANGED <<now, maxRetries, sched, fires, inFlight, flow, recon, leaked>> /\ daemon' = "idle"
        /\ daemon = "up" /\ lock' = FALSE
    BY <1>4 DEF Stop, tables
  <2>2. events' \in Nat
    BY <1>4, Basics, EventCounts DEF Stop
  <2>3. Shape' /\ FlowsFit' /\ OwnFires'
    BY <2>1, <2>2 DEF TypeInv, Shape, FlowsFit, OwnFires
  <2>4. Phases'
    BY <2>1 DEF TypeInv, Phases
  <2> QED BY <2>3, <2>4 DEF TypeInv
<1>5. CASE Exit
  <2>1. /\ UNCHANGED <<now, maxRetries, sched, fires, lock>> /\ daemon' = "off" /\ inFlight' = 0 /\ leaked' = 0
        /\ flow' = [f \in Flows |-> Idle] /\ recon' = NoRecon
    BY <1>5 DEF Exit, tables
  <2>2. events' \in Nat
    BY <1>5, Basics, EventCounts DEF Exit
  <2>3. flow' \in [Flows -> FlowRec] /\ \A f \in Flows : flow'[f] = Idle
    BY <2>1, IdleType
  <2>4. Shape'
    BY <2>1, <2>2, <2>3 DEF TypeInv, Shape
  <2>5. Idle.pc = "idle" /\ "idle" \notin HoldPcs
    BY DEF Idle, HoldPcs, DispatchPcs
  <2>6. FlowsFit' /\ OwnFires'
    BY <2>1, <2>3, <2>5, FreshFits DEF FlowsFit, OwnFires
  <2>7. Phases'
    BY <2>1, <2>3, <2>5 DEF Phases
  <2> QED BY <2>4, <2>6, <2>7 DEF TypeInv
<1>6. CASE TimePasses
  <2>1. UNCHANGED <<maxRetries, sched, fires, daemon, lock, inFlight, flow, recon, events, leaked>>
        /\ now' \in 0 .. MaxTime
    <3>1. MaxTime \in Nat
      BY ScheduleAssumption
    <3> QED BY <1>6, <3>1 DEF TimePasses, tables, TypeInv, Shape
  <2>2. Shape' /\ FlowsFit' /\ OwnFires' /\ Phases'
    BY <2>1 DEF TypeInv, Shape, FlowsFit, OwnFires, Phases
  <2> QED BY <2>2 DEF TypeInv
<1> QED BY <1>1, <1>2, <1>3, <1>4, <1>5, <1>6


LEMMA ReconcileDoes ==
  ASSUME TypeInv, \/ \E s \in Schedules : ReconcileVisits(s)
                  \/ \E valid \in SUBSET Schedules : ReconcileReads(valid)
                  \/ ReconcileDisables
  PROVE  /\ sched' \in [Schedules -> SchedRec] /\ recon' \in {NoRecon} \cup ReconRec /\ events' \in Nat
         /\ UNCHANGED <<now, maxRetries, fires, daemon, lock, inFlight, flow, excused, leaked>>
         /\ \A t \in Schedules : sched'[t].errors = sched[t].errors /\ sched'[t].last = sched[t].last
<1>0. sched \in [Schedules -> SchedRec] /\ recon \in {NoRecon} \cup ReconRec /\ events \in Nat /\ now \in Nat
  BY DEF TypeInv, Shape
<1>1. ASSUME NEW s \in Schedules, ReconcileVisits(s) PROVE
         /\ sched' \in [Schedules -> SchedRec] /\ recon' \in {NoRecon} \cup ReconRec /\ events' \in Nat
         /\ UNCHANGED <<now, maxRetries, fires, daemon, lock, inFlight, flow, excused, leaked>>
         /\ \A t \in Schedules : sched'[t].errors = sched[t].errors /\ sched'[t].last = sched[t].last
  <2>1. recon \in ReconRec
    <3>1. NoRecon.pc = "idle"
      BY DEF NoRecon
    <3> QED BY <1>0, <1>1, <3>1 DEF ReconcileVisits
  <2>2. recon' \in ReconRec
    BY <1>1, <2>1 DEF ReconcileVisits, ReconRec
  <2>3. recon.seen[s].present \in BOOLEAN /\ recon.seen[s].enabled \in BOOLEAN
    BY <2>1 DEF ReconRec
  <2>4. next(s, now) \in Nat
    BY <1>0, NextSlot
  <2> DEFINE r == CASE recon.seen[s].present /\ recon.seen[s].enabled -> sched[s]
         [] recon.seen[s].present /\ ~recon.seen[s].enabled -> [sched[s] EXCEPT !.enabled = TRUE]
         [] ~recon.seen[s].present -> [sched[s] EXCEPT !.present = TRUE, !.enabled = TRUE, !.next = next(s, now)]
  <2>5. sched' = [sched EXCEPT ![s] = r]
    BY <1>1 DEF ReconcileVisits
  <2>6. sched[s] \in SchedRec
    BY <1>0
  <2>7. r \in SchedRec /\ r.errors = sched[s].errors /\ r.last = sched[s].last
    <3>1. CASE recon.seen[s].present /\ recon.seen[s].enabled
      BY <2>6, <3>1
    <3>2. CASE recon.seen[s].present /\ ~recon.seen[s].enabled
      <4>1. r = [sched[s] EXCEPT !.enabled = TRUE]
        BY <3>2
      <4> HIDE DEF r
      <4> QED BY <2>6, <4>1 DEF SchedRec
    <3>3. CASE ~recon.seen[s].present
      <4>1. r = [sched[s] EXCEPT !.present = TRUE, !.enabled = TRUE, !.next = next(s, now)]
        BY <3>3
      <4> HIDE DEF r
      <4> QED BY <2>4, <2>6, <4>1 DEF SchedRec
    <3> QED BY <2>3, <3>1, <3>2, <3>3
  <2> HIDE DEF r
  <2>8. sched' \in [Schedules -> SchedRec]
        /\ \A t \in Schedules : sched'[t].errors = sched[t].errors /\ sched'[t].last = sched[t].last
    BY <1>0, <2>5, <2>7
  <2> QED BY <1>0, <1>1, <2>2, <2>8 DEF ReconcileVisits
<1>2. ASSUME NEW valid \in SUBSET Schedules, ReconcileReads(valid) PROVE
         /\ sched' \in [Schedules -> SchedRec] /\ recon' \in {NoRecon} \cup ReconRec /\ events' \in Nat
         /\ UNCHANGED <<now, maxRetries, fires, daemon, lock, inFlight, flow, excused, leaked>>
         /\ \A t \in Schedules : sched'[t].errors = sched[t].errors /\ sched'[t].last = sched[t].last
  <2> DEFINE seen == [s \in Schedules |-> [present |-> sched[s].present, enabled |-> sched[s].enabled]]
  <2>1. \A s \in Schedules : sched[s].present \in BOOLEAN /\ sched[s].enabled \in BOOLEAN
    BY <1>0 DEF SchedRec
  <2>2. seen \in [Schedules -> [present : BOOLEAN, enabled : BOOLEAN]]
    BY <2>1
  <2>3. recon' = [pc |-> "visit", valid |-> valid, todo |-> valid, seen |-> seen]
    BY <1>2 DEF ReconcileReads
  <2> HIDE DEF seen
  <2>4. recon' \in ReconRec
    BY <2>2, <2>3 DEF ReconRec
  <2>5. events' \in Nat
    BY <1>0, <1>2, EventCounts DEF ReconcileReads
  <2> QED BY <1>0, <1>2, <2>4, <2>5 DEF ReconcileReads, tables
<1>3. ASSUME ReconcileDisables PROVE
         /\ sched' \in [Schedules -> SchedRec] /\ recon' \in {NoRecon} \cup ReconRec /\ events' \in Nat
         /\ UNCHANGED <<now, maxRetries, fires, daemon, lock, inFlight, flow, excused, leaked>>
         /\ \A t \in Schedules : sched'[t].errors = sched[t].errors /\ sched'[t].last = sched[t].last
  <2> DEFINE b(s) == sched[s].enabled /\ s \in recon.valid
  <2>1. sched' = [s \in Schedules |-> [sched[s] EXCEPT !.enabled = b(s)]]
    BY <1>0, <1>3 DEF ReconcileDisables, SchedRec
  <2>2. \A s \in Schedules : b(s) \in BOOLEAN
    OBVIOUS
  <2> HIDE DEF b
  <2>3. ASSUME NEW s \in Schedules
        PROVE  /\ sched'[s] \in SchedRec /\ sched'[s].errors = sched[s].errors
               /\ sched'[s].last = sched[s].last
    <3>1. sched'[s] = [sched[s] EXCEPT !.enabled = b(s)] /\ sched[s] \in SchedRec /\ b(s) \in BOOLEAN
      BY <1>0, <2>1, <2>2
    <3> QED BY <3>1 DEF SchedRec
  <2>4. sched' \in [Schedules -> SchedRec]
    BY <2>1, <2>3
  <2> QED BY <1>0, <1>3, <2>3, <2>4 DEF ReconcileDisables
<1> QED BY <1>1, <1>2, <1>3

\* The steps: of the process, of the reconciler, of the ticks and of the start.
ProcessStep == Start \/ StartRefused \/ Seeds \/ SeedThrows \/ Stop \/ Exit \/ TimePasses
ReconcileStep == \/ \E s \in Schedules : ReconcileVisits(s)
                 \/ \E valid \in SUBSET Schedules : ReconcileReads(valid)
                 \/ ReconcileDisables
TickStep(f) == WakeTick(f) \/ FlowStep(f) \/ Throws(f) \/ \E s \in Schedules : FireNow(f, s)
CatchUpStep ==
  \/ ReapSelects \/ ReapFire \/ ReapSched \/ MissedSelects \/ MissedSkips
  \/ \E policy \in Policies : MissedRow(policy)
  \/ OnceInserts \/ MissedAdvances \/ MissedCounts \/ AllInserts \/ AllAdvances

LEMMA NextIs ==
  ASSUME Next
  PROVE  ProcessStep \/ ReconcileStep \/ CatchUpStep \/ \E f \in Flows : TickStep(f)
BY DEF Next, StartStep, ProcessStep, ReconcileStep, CatchUpStep, TickStep

LEMMA FlowActs ==
  ASSUME TypeInv, NEW f \in Flows, TickStep(f)
  PROVE  Acts(f)
<1>1. CASE FlowStep(f)
  BY <1>1, OkFireDoes, OkSchedDoes, ErrFireDoes, RetryInsertDoes, ErrSchedDoes, TickQuotaDoes,
     TickSkipsSlotDoes, TickInsertsDoes, TickAdvancesDoes, NowQuotaDoes, NowInsertsDoes DEF FlowStep
<1>2. CASE Throws(f)
  BY <1>2, CompletionThrowsDoes, DispatchThrowsDoes, FlowThrowsDoes DEF Throws
<1> QED BY <1>1, <1>2, WakeTickDoes, FireNowDoes DEF TickStep

LEMMA CatchUpActs ==
  ASSUME TypeInv, CatchUpStep
  PROVE  Acts(StartF) /\ flow[StartF].pc # "idle"
<1>1. Acts(StartF)
  BY ReapSelectsDoes, ReapFireDoes, ReapSchedDoes, MissedSelectsDoes, MissedSkipsDoes, MissedRowDoes,
     OnceInsertsDoes, MissedAdvancesDoes, MissedCountsDoes, AllInsertsDoes, AllAdvancesDoes DEF CatchUpStep
<1> QED BY <1>1, FlowTypes DEF Acts

LEMMA TypeInit == Init => TypeInv
<1> SUFFICES ASSUME Init PROVE TypeInv
  OBVIOUS
<1>1. fires = << >> /\ fires \in Seq(FireRec(maxRetries)) /\ maxRetries \in Nat
  BY DEF Init
<1>2. flow \in [Flows -> FlowRec] /\ \A f \in Flows : flow[f] = Idle
  BY IdleType DEF Init
<1>3. sched \in [Schedules -> SchedRec]
  <2>1. PICK present \in SUBSET Schedules :
          sched = [s \in Schedules |-> [present |-> s \in present, enabled |-> s \in present,
                                        next |-> next(s, 0), last |-> Never, errors |-> 0]]
    BY DEF Init
  <2>2. \A s \in Schedules : next(s, 0) \in Nat
    BY NextSlot
  <2>3. ASSUME NEW s \in Schedules PROVE sched[s] \in SchedRec
    <3> DEFINE b == s \in present
    <3>1. b \in BOOLEAN
      OBVIOUS
    <3>2. sched[s] = [present |-> b, enabled |-> b, next |-> next(s, 0), last |-> Never, errors |-> 0]
      BY <2>1
    <3> HIDE DEF b
    <3> QED BY <2>2, <3>1, <3>2 DEF SchedRec
  <2> QED BY <2>1, <2>3
<1>4. now \in 0 .. MaxTime
  BY ScheduleAssumption DEF Init
<1>5. Shape
  BY <1>1, <1>2, <1>3, <1>4 DEF Init, Shape
<1>6. Idle.pc = "idle" /\ Idle.fire = 0 /\ Idle.reap = {}
  BY DEF Idle
<1>7. "idle" \notin RowPcs \cup HoldPcs \cup {"reapSched", "retryInsert"}
  BY DEF RowPcs, HoldPcs, DispatchPcs, TickPcs, Policies
<1>8. FlowsFit
  <2>1. ASSUME NEW f \in Flows PROVE Fits(f, Idle, fires, maxRetries)
    <3>1. Len(fires) = 0
      BY <1>1
    <3> QED BY <1>6, <1>7, <3>1, IdleType DEF Fits
  <2> QED BY <1>2, <2>1 DEF FlowsFit
<1>9. OwnFires /\ Phases
  BY <1>2, <1>6, <1>7, FlowTypes DEF Init, OwnFires, Phases
<1> QED BY <1>5, <1>8, <1>9 DEF TypeInv

LEMMA ReconcileKeeps ==
  ASSUME TypeInv, ReconcileStep
  PROVE  TypeInv'
<1>1. /\ sched' \in [Schedules -> SchedRec] /\ recon' \in {NoRecon} \cup ReconRec /\ events' \in Nat
      /\ UNCHANGED <<now, maxRetries, fires, daemon, lock, inFlight, flow, leaked>>
  BY ReconcileDoes DEF ReconcileStep
<1> QED BY <1>1 DEF TypeInv, Shape, FlowsFit, OwnFires, Phases

LEMMA TypeNext == TypeInv /\ [Next]_vars => TypeInv'
<1> SUFFICES ASSUME TypeInv, [Next]_vars PROVE TypeInv'
  OBVIOUS
<1>1. CASE ProcessStep
  BY <1>1, ProcessKeeps DEF ProcessStep
<1>2. CASE ReconcileStep
  BY <1>2, ReconcileKeeps
<1>3. CASE CatchUpStep
  BY <1>3, CatchUpActs, ActsKeeps, FlowTypes
<1>4. CASE \E f \in Flows : TickStep(f)
  BY <1>4, FlowActs, ActsKeeps
<1>5. CASE UNCHANGED vars
  BY <1>5 DEF vars, TypeInv, Shape, FlowsFit, OwnFires, Phases
<1> QED BY <1>1, <1>2, <1>3, <1>4, <1>5, NextIs

LEMMA TypeFollows == TypeInv => TypeOK
<1> SUFFICES ASSUME TypeInv PROVE TypeOK
  OBVIOUS
<1>1. \A k \in DOMAIN fires : fires[k] \in FireRec(maxRetries)
  BY DEF TypeInv, Shape
<1>2. ASSUME NEW f \in Flows
      PROVE  /\ flow[f].pc \in Pcs /\ flow[f].row \in Snapshot
             /\ flow[f].fire \in 0 .. Len(fires) /\ flow[f].reap \subseteq DOMAIN fires
             /\ flow[f].pc \in DispatchPcs => flow[f].fire # 0 /\ flow[f].row.id \in Schedules
  BY Basics DEF Fits, FlowRec, HoldPcs, RowPcs
<1> QED BY <1>1, <1>2 DEF TypeInv, Shape, TypeOK, SchedRec, FireRec

\* Rows, flows and counters have their types, and a flow that dispatches has a fire row.
THEOREM TypeCorrect == Spec => []TypeOK
<1>1. Spec => []TypeInv
  BY TypeInit, TypeNext, PTL DEF Spec
<1> QED BY <1>1, TypeFollows, PTL

-----------------------------------------------------------------------------
(***************************************************************************)
(* Error counts.                                                            *)
(***************************************************************************)
\* No failed fire is forgotten.
ErrorsStay ==
  \A k \in DOMAIN fires : /\ fires'[k].sched = fires[k].sched
                          /\ fires[k].status = "error" => fires'[k].status = "error"

LEMMA StayWhen ==
  ASSUME TypeInv
  PROVE  /\ fires' = fires => ErrorsStay
         /\ \A e : Adds(e) => ErrorsStay
         /\ \A k : Sends(k) => ErrorsStay
         /\ \A k : Marks(k, "error") => ErrorsStay
         /\ \A k : Marks(k, "ok") /\ fires[k].status = "running" => ErrorsStay
<1>1. \A e : Adds(e) => ErrorsStay
  BY DEF Adds, ErrorsStay
<1>2. \A k : Sends(k) => ErrorsStay
  BY DEF Sends, Like, ErrorsStay
<1>3. \A k : Marks(k, "error") => ErrorsStay
  BY DEF Marks, ErrorsStay
<1>4. \A k : Marks(k, "ok") /\ fires[k].status = "running" => ErrorsStay
  BY DEF Marks, ErrorsStay
<1> QED BY <1>1, <1>2, <1>3, <1>4 DEF ErrorsStay

\* Rows that remain cover what they covered.
LEMMA ErrsGrow ==
  ASSUME fires \in Seq(FireRec(maxRetries)), fires' \in Seq(FireRec(maxRetries)), Len(fires) <= Len(fires'),
         ErrorsStay, NEW s, NEW S, NEW T,
         Errs(fires, s) \cap T \subseteq S
  PROVE  /\ Cardinality(Errs(fires, s) \ S) <= Cardinality(Errs(fires', s) \ T)
         /\ Cardinality(Errs(fires, s) \ S) \in Nat /\ Cardinality(Errs(fires', s) \ T) \in Nat
<1>1. DOMAIN fires' = 1 .. Len(fires') /\ Len(fires') \in Nat /\ DOMAIN fires \subseteq DOMAIN fires'
  OBVIOUS
<1>2. IsFiniteSet(DOMAIN fires')
  BY <1>1, FS_Interval
<1>3. Errs(fires, s) \subseteq Errs(fires', s)
  BY <1>1 DEF Errs, ErrorsStay
<1>4. Errs(fires', s) \ T \subseteq DOMAIN fires' /\ Errs(fires, s) \ S \subseteq Errs(fires', s) \ T
  BY <1>3 DEF Errs
<1>5. IsFiniteSet(Errs(fires', s) \ T)
  BY <1>2, <1>4, FS_Subset
<1>6. IsFiniteSet(Errs(fires, s) \ S) /\ Cardinality(Errs(fires, s) \ S) <= Cardinality(Errs(fires', s) \ T)
  BY <1>4, <1>5, FS_Subset
<1> QED BY <1>5, <1>6, FS_CardinalityType

LEMMA ErrsGrowAll ==
  ASSUME fires \in Seq(FireRec(maxRetries)), fires' \in Seq(FireRec(maxRetries)), Len(fires) <= Len(fires'),
         ErrorsStay, NEW s
  PROVE  /\ Cardinality(Errs(fires, s)) <= Cardinality(Errs(fires', s))
         /\ Cardinality(Errs(fires, s)) \in Nat /\ Cardinality(Errs(fires', s)) \in Nat
<1>1. Errs(fires, s) \ {} = Errs(fires, s) /\ Errs(fires', s) \ {} = Errs(fires', s)
  OBVIOUS
<1> PICK S : S = {}
  OBVIOUS
<1>2. Errs(fires, s) \cap S \subseteq S
  OBVIOUS
<1>3. /\ Cardinality(Errs(fires, s) \ S) <= Cardinality(Errs(fires', s) \ S)
      /\ Cardinality(Errs(fires, s) \ S) \in Nat /\ Cardinality(Errs(fires', s) \ S) \in Nat
  BY <1>2, ErrsGrow
<1> QED BY <1>1, <1>3

\* The flow keeps its rows in hand, or loses the one.
RowKept(f) == /\ flow'[f].row = flow[f].row /\ flow'[f].due = flow[f].due
              /\ flow'[f].pc \in RowPcs => flow[f].pc \in RowPcs

LEMMA KeptCovered ==
  ASSUME TypeInv, ErrorsInv, NEW f \in Flows, Acts(f), ErrorsStay, RowKept(f)
  PROVE  RowCovered(flow'[f], fires') /\ DueCovered(flow'[f], fires')
<1>1. /\ fires \in Seq(FireRec(maxRetries)) /\ fires' \in Seq(FireRec(maxRetries)) /\ Len(fires) <= Len(fires')
      /\ flow[f] \in FlowRec /\ flow'[f] \in FlowRec
  BY Basics DEF Acts, KeepsFires, Only
<1>2. DueCovered(flow'[f], fires')
  <2> SUFFICES ASSUME NEW i \in DOMAIN flow[f].due
               PROVE  flow[f].due[i].errors <= Cardinality(Errs(fires', flow[f].due[i].id))
    BY DEF DueCovered, RowKept
  <2> PICK r : r = flow[f].due[i]
    OBVIOUS
  <2>1. r \in DueRec
    BY <1>1 DEF FlowRec
  <2>2. r.errors <= Cardinality(Errs(fires, r.id))
    BY DEF ErrorsInv, DueCovered
  <2>3. /\ Cardinality(Errs(fires, r.id)) <= Cardinality(Errs(fires', r.id))
        /\ Cardinality(Errs(fires, r.id)) \in Nat /\ Cardinality(Errs(fires', r.id)) \in Nat
    BY <1>1, ErrsGrowAll
  <2>4. r.errors \in Nat
    BY <2>1 DEF DueRec
  <2> QED BY <2>2, <2>3, <2>4
<1>3. RowCovered(flow'[f], fires')
  <2> SUFFICES ASSUME flow'[f].pc \in RowPcs
               PROVE  flow'[f].row.errors <= Cardinality(Errs(fires', flow'[f].row.id) \ InHand(flow'[f]))
    BY DEF RowCovered
  <2> PICK r : r = flow[f].row
    OBVIOUS
  <2> PICK S : S = InHand(flow[f])
    OBVIOUS
  <2> PICK T : T = InHand(flow'[f])
    OBVIOUS
  <2>1. r.errors <= Cardinality(Errs(fires, r.id) \ S)
    BY DEF ErrorsInv, RowCovered, RowKept
  <2>2. Errs(fires, r.id) \cap T \subseteq S
    <3>1. T \subseteq S \/ \A k \in T : k > Len(fires)
      BY DEF InHand, Acts
    <3>2. \A k \in Errs(fires, r.id) : k <= Len(fires) /\ k \in Nat /\ Len(fires) \in Nat
      BY <1>1 DEF Errs
    <3> QED BY <3>1, <3>2
  <2>3. /\ Cardinality(Errs(fires, r.id) \ S) <= Cardinality(Errs(fires', r.id) \ T)
        /\ Cardinality(Errs(fires, r.id) \ S) \in Nat /\ Cardinality(Errs(fires', r.id) \ T) \in Nat
    BY <1>1, <2>2, ErrsGrow
  <2>4. r.errors \in Nat /\ r = flow'[f].row
    BY <1>1 DEF FlowRec, Snapshot, RowKept
  <2> QED BY <2>1, <2>3, <2>4
<1> QED BY <1>2, <1>3

\* A row that was selected while its count was covered, taken by a flow.
LEMMA FreshCovered ==
  ASSUME TypeInv, NEW f \in Flows, flow' \in [Flows -> FlowRec], fires' = fires,
         flow'[f].pc \notin HoldPcs,
         flow'[f].pc \in RowPcs => flow'[f].row.errors <= Cardinality(Errs(fires, flow'[f].row.id)),
         \A i \in DOMAIN flow'[f].due :
           flow'[f].due[i].errors <= Cardinality(Errs(fires, flow'[f].due[i].id))
  PROVE  RowCovered(flow'[f], fires') /\ DueCovered(flow'[f], fires')
<1>1. InHand(flow'[f]) = {}
  BY DEF InHand
<1>2. Errs(fires, flow'[f].row.id) \ {} = Errs(fires, flow'[f].row.id)
  OBVIOUS
<1>3. DueCovered(flow'[f], fires')
  BY DEF DueCovered
<1>4. RowCovered(flow'[f], fires')
  BY <1>1, <1>2 DEF RowCovered
<1> QED BY <1>3, <1>4

LEMMA LeavesCovered ==
  ASSUME TypeInv, ErrorsInv, NEW f \in Flows, fires' = fires, NEW pc, Takes(f, pc) \/ Emptied(f, "idle", << >>),
         pc \notin HoldPcs
  PROVE  RowCovered(flow'[f], fires') /\ DueCovered(flow'[f], fires')
<1>1. flow[f] \in FlowRec
  BY Basics
<1>2. CASE Emptied(f, "idle", << >>)
  <2>1. "idle" \notin RowPcs \cup HoldPcs
    BY DEF RowPcs, HoldPcs, DispatchPcs, TickPcs, Policies
  <2>2. flow'[f].pc = "idle" /\ flow'[f].due = << >> /\ flow' \in [Flows -> FlowRec]
    BY <1>2 DEF Emptied, Only
  <2>3. DOMAIN flow'[f].due = {}
    BY <2>2
  <2> QED BY <2>1, <2>2, <2>3, FreshCovered
<1>3. CASE Takes(f, pc)
  <2>1. \A i \in DOMAIN flow[f].due : flow[f].due[i].errors <= Cardinality(Errs(fires, flow[f].due[i].id))
    BY DEF ErrorsInv, DueCovered
  <2>2. /\ flow'[f].pc = pc /\ flow'[f].row = Head(flow[f].due) /\ flow'[f].due = Tail(flow[f].due)
        /\ flow' \in [Flows -> FlowRec] /\ flow[f].due # << >>
    BY <1>3 DEF Takes, Emptied, Only
  <2>3. flow'[f].row.errors <= Cardinality(Errs(fires, flow'[f].row.id))
    BY <2>1, <2>2, TakenRow
  <2>4. ASSUME NEW i \in DOMAIN flow'[f].due
        PROVE  flow'[f].due[i].errors <= Cardinality(Errs(fires, flow'[f].due[i].id))
    BY <2>1, <2>2, TakenRow
  <2> QED BY <2>2, <2>3, <2>4, FreshCovered
<1> QED BY <1>2, <1>3

\* Every count that is written is covered, and so are the rows of flow f.
LEMMA ErrorsStep ==
  ASSUME TypeInv, ErrorsInv, NEW f \in Flows, Acts(f), ErrorsStay,
         RowCovered(flow'[f], fires') /\ DueCovered(flow'[f], fires'),
         \A s \in Schedules : \/ sched'[s].errors = sched[s].errors
                              \/ sched'[s].errors <= Cardinality(Errs(fires, s)) /\ fires' = fires
  PROVE  ErrorsInv'
<1>1. /\ fires \in Seq(FireRec(maxRetries)) /\ fires' \in Seq(FireRec(maxRetries)) /\ Len(fires) <= Len(fires')
  BY Basics DEF Acts, KeepsFires
<1>2. ASSUME NEW s \in Schedules PROVE sched'[s].errors <= Cardinality(Errs(fires', s))
  <2>1. /\ Cardinality(Errs(fires, s)) <= Cardinality(Errs(fires', s))
        /\ Cardinality(Errs(fires, s)) \in Nat /\ Cardinality(Errs(fires', s)) \in Nat
    BY <1>1, ErrsGrowAll
  <2>2. sched[s].errors <= Cardinality(Errs(fires, s)) /\ sched[s].errors \in Nat
    BY Basics DEF ErrorsInv, SchedRec
  <2> QED BY <2>1, <2>2
<1>3. ASSUME NEW h \in Flows PROVE RowCovered(flow'[h], fires') /\ DueCovered(flow'[h], fires')
  <2>1. CASE h = f
    BY <2>1
  <2>2. CASE h # f
    <3>1. flow'[h] = flow[h] /\ flow[h] \in FlowRec
      BY <2>2, Basics DEF Acts, Only
    <3> PICK g \in FlowRec : g = flow[h]
      BY <3>1
    <3>2. RowCovered(g, fires) /\ DueCovered(g, fires)
      BY DEF ErrorsInv
    <3>3. DueCovered(g, fires')
      <4> SUFFICES ASSUME NEW i \in DOMAIN g.due
                   PROVE  g.due[i].errors <= Cardinality(Errs(fires', g.due[i].id))
        BY DEF DueCovered
      <4>0. g.due[i] \in DueRec
        BY DEF FlowRec
      <4>1. g.due[i].errors <= Cardinality(Errs(fires, g.due[i].id)) /\ g.due[i].errors \in Nat
        BY <3>2, <4>0 DEF DueCovered, DueRec
      <4>2. /\ Cardinality(Errs(fires, g.due[i].id)) <= Cardinality(Errs(fires', g.due[i].id))
            /\ Cardinality(Errs(fires, g.due[i].id)) \in Nat /\ Cardinality(Errs(fires', g.due[i].id)) \in Nat
        BY <1>1, ErrsGrowAll
      <4> QED BY <4>1, <4>2
    <3>4. RowCovered(g, fires')
      <4> SUFFICES ASSUME g.pc \in RowPcs
                   PROVE  g.row.errors <= Cardinality(Errs(fires', g.row.id) \ InHand(g))
        BY DEF RowCovered
      <4>1. g.row.errors <= Cardinality(Errs(fires, g.row.id) \ InHand(g)) /\ g.row.errors \in Nat
        BY <3>2 DEF RowCovered, FlowRec, Snapshot
      <4> PICK S : S = InHand(g)
        OBVIOUS
      <4>2. Errs(fires, g.row.id) \cap S \subseteq S
        OBVIOUS
      <4>3. /\ Cardinality(Errs(fires, g.row.id) \ S) <= Cardinality(Errs(fires', g.row.id) \ S)
            /\ Cardinality(Errs(fires, g.row.id) \ S) \in Nat /\ Cardinality(Errs(fires', g.row.id) \ S) \in Nat
        BY <1>1, <4>2, ErrsGrow
      <4> QED BY <4>1, <4>3
    <3> QED BY <3>1, <3>3, <3>4
  <2> QED BY <2>1, <2>2
<1> QED BY <1>2, <1>3 DEF ErrorsInv

LEMMA MovedKept ==
  ASSUME NEW f, NEW pc, Moved(f, pc), pc \in RowPcs => flow[f].pc \in RowPcs
  PROVE  RowKept(f)
BY DEF Moved, RowKept

\* Steps that leave the counts as they are, and the row in hand.
LEMMA KeptErrors ==
  ASSUME TypeInv, ErrorsInv, NEW f \in Flows, Acts(f), ErrorsStay, RowKept(f),
         \A s \in Schedules : sched'[s].errors = sched[s].errors
  PROVE  ErrorsInv'
BY KeptCovered, ErrorsStep

LEMMA SchedIsErrors ==
  ASSUME TypeInv, NEW s \in Schedules, NEW n, NEW l, SchedIs(s, n, l, sched[s].errors)
  PROVE  \A t \in Schedules : sched'[t].errors = sched[t].errors
BY DEF SchedIs

\* Once dispatchFire has returned or a statement has thrown: the flow has left its row,
\* or the start keeps it.
LEMMA LeftErrors ==
  ASSUME TypeInv, ErrorsInv, NEW f \in Flows, Acts(f), fires' = fires,
         f \in Ticks => Leaves(f),
         f = StartF => \E pc : Moved(f, pc) /\ (pc \in RowPcs => flow[f].pc \in RowPcs),
         \A s \in Schedules : \/ sched'[s].errors = sched[s].errors
                              \/ sched'[s].errors <= Cardinality(Errs(fires, s))
  PROVE  ErrorsInv'
<1>1. ErrorsStay
  BY StayWhen
<1>2. RowCovered(flow'[f], fires') /\ DueCovered(flow'[f], fires')
  <2>1. CASE f \in Ticks
    <3>1. "quota" \notin HoldPcs
      BY DEF HoldPcs, DispatchPcs
    <3> QED BY <2>1, <3>1, LeavesCovered DEF Leaves
  <2>2. CASE f = StartF
    BY <1>1, <2>2, MovedKept, KeptCovered
  <2> QED BY <2>1, <2>2, FlowTypes
<1> QED BY <1>1, <1>2, ErrorsStep

LEMMA DispatchErrors ==
  ASSUME TypeInv, ErrorsInv, NEW f \in Flows,
         OkFire(f) \/ OkSched(f) \/ ErrFire(f) \/ RetryInsert(f) \/ ErrSched(f)
  PROVE  ErrorsInv'
<1>0. /\ flow[f].pc \in DispatchPcs /\ flow[f].pc \in RowPcs /\ flow[f].pc \in HoldPcs
      /\ flow[f].row.id \in Schedules /\ sched \in [Schedules -> SchedRec]
      /\ flow[f].fire \in DOMAIN fires /\ fires[flow[f].fire].status \in StatusAt(flow[f].pc)
      /\ fires[flow[f].fire].sched = flow[f].row.id
  <2>1. flow[f].pc \in DispatchPcs
    BY DEF OkFire, OkSched, ErrFire, RetryInsert, ErrSched, DispatchPcs
  <2>2. flow[f].pc \in RowPcs /\ flow[f].pc \in HoldPcs
    BY <2>1 DEF RowPcs, HoldPcs
  <2> QED BY <2>1, <2>2, Basics DEF Fits
<1>1. CASE OkFire(f)
  <2>1. Acts(f) /\ RowKept(f) /\ Marks(flow[f].fire, "ok")
    BY <1>0, <1>1, OkFireDoes, MovedKept
  <2>2. ErrorsStay
    BY <1>0, <1>1, <2>1, StayWhen, Statuses DEF OkFire
  <2>3. sched' = sched
    BY <1>1 DEF OkFire
  <2> QED BY <2>1, <2>2, <2>3, KeptErrors
<1>2. CASE ErrFire(f)
  <2>1. Acts(f) /\ RowKept(f) /\ Marks(flow[f].fire, "error")
    BY <1>0, <1>2, ErrFireDoes, MovedKept
  <2>2. ErrorsStay
    BY <2>1, StayWhen
  <2>3. sched' = sched
    BY <1>2 DEF ErrFire
  <2> QED BY <2>1, <2>2, <2>3, KeptErrors
<1>3. CASE RetryInsert(f)
  <2>1. Acts(f) /\ Adds(Retry(f)) /\ Dispatched(f, Len(fires) + 1, flow[f])
    BY <1>3, RetryInsertDoes
  <2>2. ErrorsStay
    BY <2>1, StayWhen
  <2>3. RowKept(f)
    BY <1>0, <2>1 DEF RowKept, Dispatched
  <2>4. sched' = sched
    BY <1>3 DEF RetryInsert
  <2> QED BY <2>1, <2>2, <2>3, <2>4, KeptErrors
<1>4. CASE OkSched(f) \/ ErrSched(f)
  <2>1. Acts(f) /\ (f \in Ticks => Leaves(f)) /\ (f = StartF => Moved(f, AfterPc(f))) /\ fires' = fires
    BY <1>4, OkSchedDoes, ErrSchedDoes DEF OkSched, ErrSched
  <2>2. f = StartF => \E pc : Moved(f, pc) /\ (pc \in RowPcs => flow[f].pc \in RowPcs)
    BY <1>0, <2>1
  <2> PICK s \in Schedules : s = flow[f].row.id
    BY <1>0
  <2>3. Cardinality(Errs(fires, s)) \in Nat /\ IsFiniteSet(Errs(fires, s))
    BY Countable DEF Errs
  <2>4. \A t \in Schedules : t # s => sched'[t].errors = sched[t].errors
    BY <1>4, OkSchedDoes, ErrSchedDoes DEF SchedIs
  <2>5. sched'[s].errors <= Cardinality(Errs(fires, s))
    <3>1. CASE OkSched(f)
      <4>1. sched'[s].errors = 0
        BY <3>1, OkSchedDoes DEF SchedIs
      <4> QED BY <2>3, <4>1
    <3>2. CASE ErrSched(f)
      <4>1. sched'[s].errors = flow[f].row.errors + 1
        BY <3>2, ErrSchedDoes DEF SchedIs
      <4> PICK k : k = flow[f].fire
        OBVIOUS
      <4>2. InHand(flow[f]) = {k}
        BY <1>0 DEF InHand
      <4>3. flow[f].row.errors <= Cardinality(Errs(fires, s) \ {k})
        BY <1>0, <4>2 DEF ErrorsInv, RowCovered
      <4>4. k \in Errs(fires, s)
        <5>1. flow[f].pc = "errSched"
          BY <3>2 DEF ErrSched
        <5>2. fires[k].status = "error" /\ fires[k].sched = s /\ k \in DOMAIN fires
          BY <1>0, <5>1, Statuses
        <5> QED BY <5>2 DEF Errs
      <4>5. Cardinality(Errs(fires, s) \ {k}) = Cardinality(Errs(fires, s)) - 1
        BY <2>3, <4>4, FS_RemoveElement
      <4>6. flow[f].row.errors \in Nat
        BY Basics DEF FlowRec, Snapshot
      <4> QED BY <2>3, <4>1, <4>3, <4>5, <4>6
    <3> QED BY <1>4, <3>1, <3>2
  <2> QED BY <2>1, <2>2, <2>4, <2>5, LeftErrors
<1> QED BY <1>1, <1>2, <1>3, <1>4

\* Rows as they are selected now.
LEMMA SelectedCovered ==
  ASSUME TypeInv, ErrorsInv, NEW i \in DOMAIN DueRows
  PROVE  DueRows[i].errors <= Cardinality(Errs(fires, DueRows[i].id))
<1>1. DueRows[i] \in DueRec /\ DueRows[i].errors = sched[DueRows[i].id].errors
  BY DueRowsAre
<1>2. DueRows[i].id \in Schedules
  BY <1>1 DEF DueRec
<1> QED BY <1>1, <1>2 DEF ErrorsInv

LEMMA TickErrors ==
  ASSUME TypeInv, ErrorsInv, NEW f \in Flows, TickStep(f)
  PROVE  ErrorsInv'
<1>0. Acts(f) /\ sched \in [Schedules -> SchedRec]
  BY FlowActs, Basics
<1>1. CASE OkFire(f) \/ OkSched(f) \/ ErrFire(f) \/ RetryInsert(f) \/ ErrSched(f)
  BY <1>1, DispatchErrors
<1>2. CASE TickQuota(f)
  <2>1. RowKept(f) /\ fires' = fires /\ sched' = sched
    <3>1. flow[f].pc \in RowPcs
      BY <1>2 DEF TickQuota, RowPcs, TickPcs
    <3> QED BY <1>2, <3>1, TickQuotaDoes DEF Checked, RowKept, TickQuota, tables
  <2> QED BY <1>0, <2>1, StayWhen, KeptErrors
<1>3. CASE TickSkipsSlot(f)
  <2>1. Leaves(f) /\ fires' = fires /\ f \in Ticks
    BY <1>3, TickSkipsSlotDoes DEF TickSkipsSlot
  <2>2. flow[f].row.id \in Schedules
    BY <1>3, TickRow DEF TickSkipsSlot, TickPcs
  <2> PICK s \in Schedules : s = flow[f].row.id
    BY <2>2
  <2>3. SchedIs(s, next(s, flow[f].at), sched[s].last, sched[s].errors)
    BY <1>3, TickSkipsSlotDoes
  <2>4. \A t \in Schedules : sched'[t].errors = sched[t].errors
    BY <2>3, SchedIsErrors
  <2> QED BY <1>0, <2>1, <2>4, LeftErrors, FlowTypes
<1>4. CASE TickInserts(f)
  <2>1. Claims(f) /\ sched' = sched /\ ErrorsStay
    BY <1>4, TickInsertsDoes, StayWhen DEF TickInserts
  <2>2. RowKept(f)
    BY <1>4, <2>1 DEF RowKept, Claims, TickInserts, RowPcs, TickPcs
  <2> QED BY <1>0, <2>1, <2>2, KeptErrors
<1>5. CASE TickAdvances(f)
  <2>1. Sends(flow[f].fire) /\ Dispatched(f, flow[f].fire, [flow[f] EXCEPT !.count = @ + 1])
    BY <1>5, TickAdvancesDoes
  <2>2. flow[f].pc \in RowPcs /\ flow[f] \in FlowRec /\ flow[f].row.id \in Schedules
    BY <1>5, Basics, TickRow DEF TickAdvances, RowPcs, TickPcs
  <2>3. RowKept(f)
    BY <2>1, <2>2 DEF RowKept, Dispatched, FlowRec
  <2> PICK s \in Schedules : s = flow[f].row.id
    BY <2>2
  <2>4. SchedIs(s, next(s, flow[f].at), fires[flow[f].fire].at, sched[s].errors)
    BY <1>5, TickAdvancesDoes
  <2>5. \A t \in Schedules : sched'[t].errors = sched[t].errors
    BY <2>4, SchedIsErrors
  <2> QED BY <1>0, <2>1, <2>3, <2>5, StayWhen, KeptErrors
<1>6. CASE NowQuota(f)
  <2>1. fires' = fires /\ sched' = sched
    BY <1>6 DEF NowQuota, tables
  <2>2. CASE Emptied(f, "idle", << >>)
    <3>1. f \in Ticks /\ Leaves(f)
      BY <1>6, <2>2, NowQuotaDoes DEF Leaves
    <3> QED BY <1>0, <2>1, <3>1, LeftErrors, FlowTypes
  <2>3. CASE Checked(f, "nowInsert")
    <3>1. RowKept(f)
      BY <1>6, <2>3 DEF RowKept, Checked, NowQuota, RowPcs, TickPcs
    <3> QED BY <1>0, <2>1, <3>1, StayWhen, KeptErrors
  <2> QED BY <1>6, <2>2, <2>3, NowQuotaDoes
<1>7. CASE NowInserts(f)
  <2>1. Dispatched(f, Len(fires) + 1, flow[f]) /\ ErrorsStay /\ sched' = sched
    BY <1>7, NowInsertsDoes, StayWhen DEF NowInserts
  <2>2. RowKept(f)
    BY <1>7, <2>1 DEF RowKept, Dispatched, NowInserts, RowPcs, TickPcs
  <2> QED BY <1>0, <2>1, <2>2, KeptErrors
<1>8. CASE WakeTick(f)
  <2>1. fires' = fires /\ sched' = sched /\ flow' \in [Flows -> FlowRec]
    BY <1>0, <1>8 DEF WakeTick, tables, Acts, Only
  <2>2. RowCovered(flow'[f], fires') /\ DueCovered(flow'[f], fires')
    <3>1. CASE Emptied(f, "idle", << >>)
      <4>1. "quota" \notin HoldPcs
        BY DEF HoldPcs, DispatchPcs
      <4> QED BY <2>1, <3>1, <4>1, LeavesCovered
    <3>2. CASE /\ DueRows # << >> /\ Emptied(f, "quota", Tail(DueRows)) /\ flow'[f].row = Head(DueRows)
      <4>1. "quota" \notin HoldPcs /\ flow'[f].pc = "quota" /\ flow'[f].due = Tail(DueRows)
        BY <3>2 DEF HoldPcs, DispatchPcs, Emptied
      <4>2. /\ Head(DueRows) = DueRows[1] /\ 1 \in DOMAIN DueRows
            /\ \A i \in DOMAIN Tail(DueRows) : Tail(DueRows)[i] = DueRows[i + 1] /\ i + 1 \in DOMAIN DueRows
        BY <3>2, DueRowsAre, SeqFacts
      <4>3. flow'[f].row.errors <= Cardinality(Errs(fires, flow'[f].row.id))
        BY <3>2, <4>2, SelectedCovered
      <4>4. \A i \in DOMAIN flow'[f].due : flow'[f].due[i].errors <= Cardinality(Errs(fires, flow'[f].due[i].id))
        BY <4>1, <4>2, SelectedCovered
      <4> QED BY <2>1, <4>1, <4>3, <4>4, FreshCovered
    <3> QED BY <1>8, <3>1, <3>2, WakeTickDoes DEF Wakes
  <2> QED BY <1>0, <2>1, <2>2, StayWhen, ErrorsStep
<1>9. CASE Throws(f)
  <2>1. fires' = fires /\ sched' = sched
    BY <1>9 DEF Throws, CompletionThrows, DispatchThrows, FlowThrows, tables
  <2>2. CASE CompletionThrows(f)
    <3>1. RowKept(f)
      BY <2>2, CompletionThrowsDoes, MovedKept DEF RowPcs, DispatchPcs
    <3> QED BY <1>0, <2>1, <3>1, StayWhen, KeptErrors
  <2>3. CASE DispatchThrows(f) \/ FlowThrows(f)
    <3>1. Thrown(f)
      BY <2>3, DispatchThrowsDoes, FlowThrowsDoes
    <3>2. \A pc \in PlainPcs : pc \notin RowPcs
      BY DEF PlainPcs, RowPcs, TickPcs, DispatchPcs, Policies
    <3> QED BY <1>0, <2>1, <3>1, <3>2, LeftErrors DEF Thrown
  <2> QED BY <1>9, <2>2, <2>3 DEF Throws
<1>10. CASE \E s \in Schedules : FireNow(f, s)
  <2> PICK s \in Schedules : FireNow(f, s)
    BY <1>10
  <2>1. fires' = fires /\ sched' = sched /\ NowStarts(f, s) /\ flow' \in [Flows -> FlowRec]
    BY FireNowDoes DEF FireNow, tables, NowStarts, Only
  <2>2. flow'[f].row.errors <= Cardinality(Errs(fires, flow'[f].row.id))
    BY <2>1 DEF NowStarts, ErrorsInv
  <2>3. \A i \in DOMAIN flow'[f].due : flow'[f].due[i].errors <= Cardinality(Errs(fires, flow'[f].due[i].id))
    BY <2>1 DEF NowStarts, ErrorsInv, DueCovered
  <2>4. flow'[f].pc \notin HoldPcs
    BY <2>1 DEF NowStarts, HoldPcs, DispatchPcs
  <2>5. RowCovered(flow'[f], fires') /\ DueCovered(flow'[f], fires')
    BY <2>1, <2>2, <2>3, <2>4, FreshCovered
  <2> QED BY <1>0, <2>1, <2>5, StayWhen, ErrorsStep
<1> QED BY <1>1, <1>2, <1>3, <1>4, <1>5, <1>6, <1>7, <1>8, <1>9, <1>10 DEF TickStep, FlowStep

LEMMA CatchUpErrors ==
  ASSUME TypeInv, ErrorsInv, CatchUpStep
  PROVE  ErrorsInv'
<1>0. Acts(StartF) /\ sched \in [Schedules -> SchedRec] /\ StartF \in Flows /\ StartF \notin Ticks
  BY CatchUpActs, Basics, FlowTypes
<1>1. CASE ReapSelects
  <2>1. fires' = fires /\ sched' = sched
    BY <1>1 DEF ReapSelects, tables
  <2>2. /\ flow'[StartF].pc \notin HoldPcs \cup RowPcs /\ flow'[StartF].due = flow[StartF].due
        /\ flow' \in [Flows -> FlowRec]
    BY <1>0, <1>1, ReapSelectsDoes DEF HoldPcs, RowPcs, DispatchPcs, TickPcs, Policies, Acts, Only
  <2>3. RowCovered(flow'[StartF], fires') /\ DueCovered(flow'[StartF], fires')
    BY <1>0, <2>1, <2>2 DEF RowCovered, DueCovered, ErrorsInv
  <2> QED BY <1>0, <2>1, <2>3, StayWhen, ErrorsStep
<1>2. CASE ReapFire
  <2>1. PICK k \in DOMAIN fires : Reaps(k)
    BY <1>2, ReapFireDoes
  <2>2. ErrorsStay
    BY <2>1, StayWhen DEF Reaps
  <2>3. sched' = sched
    BY <1>2 DEF ReapFire
  <2>4. flow'[StartF].pc \notin HoldPcs \cup RowPcs /\ flow'[StartF].due = flow[StartF].due
    BY <2>1 DEF Reaps, HoldPcs, RowPcs, DispatchPcs, TickPcs, Policies
  <2>5. /\ fires \in Seq(FireRec(maxRetries)) /\ fires' \in Seq(FireRec(maxRetries)) /\ Len(fires) <= Len(fires')
        /\ flow[StartF] \in FlowRec
    BY <1>0, Basics DEF Acts, KeepsFires
  <2>6. RowCovered(flow'[StartF], fires')
    BY <2>4 DEF RowCovered
  <2>7. DueCovered(flow'[StartF], fires')
    <3> SUFFICES ASSUME NEW i \in DOMAIN flow[StartF].due
                 PROVE  flow[StartF].due[i].errors <= Cardinality(Errs(fires', flow[StartF].due[i].id))
      BY <2>4 DEF DueCovered
    <3>1. flow[StartF].due[i].errors <= Cardinality(Errs(fires, flow[StartF].due[i].id))
      BY <1>0 DEF ErrorsInv, DueCovered
    <3>2. flow[StartF].due[i].errors \in Nat
      <4>1. flow[StartF].due \in Seq(DueRec)
        BY <2>5 DEF FlowRec
      <4>2. flow[StartF].due[i] \in DueRec
        BY <4>1
      <4> QED BY <4>2 DEF DueRec
    <3>3. PICK s : s = flow[StartF].due[i].id
      OBVIOUS
    <3>4. /\ Cardinality(Errs(fires, s)) <= Cardinality(Errs(fires', s))
          /\ Cardinality(Errs(fires, s)) \in Nat /\ Cardinality(Errs(fires', s)) \in Nat
      BY <2>2, <2>5, ErrsGrowAll
    <3> QED BY <3>1, <3>2, <3>3, <3>4
  <2> QED BY <1>0, <2>2, <2>3, <2>6, <2>7, ErrorsStep
<1>3. CASE ReapSched \/ MissedSkips \/ MissedAdvances \/ AllAdvances
  <2>1. fires' = fires
    BY <1>3 DEF ReapSched, MissedSkips, MissedAdvances, AllAdvances
  <2>2. Moved(StartF, "reapFire") \/ Moved(StartF, "missedRow")
    BY <1>3, ReapSchedDoes, MissedSkipsDoes, MissedAdvancesDoes, AllAdvancesDoes
  <2>3. \E pc : Moved(StartF, pc) /\ (pc \in RowPcs => flow[StartF].pc \in RowPcs)
    BY <2>2 DEF RowPcs, DispatchPcs, TickPcs, Policies
  <2>4. \A t \in Schedules : sched'[t].errors = sched[t].errors
    <3>1. CASE ReapSched
      BY <3>1, ReapSchedDoes, SchedIsErrors
    <3>2. CASE MissedSkips \/ MissedAdvances \/ AllAdvances
      <4>1. flow[StartF].row.id \in Schedules
        BY <3>2, StartRowIs DEF MissedSkips, MissedAdvances, AllAdvances, Policies
      <4> PICK s \in Schedules : s = flow[StartF].row.id
        BY <4>1
      <4>2. \E n, l : SchedIs(s, n, l, sched[s].errors)
        BY <3>2, MissedSkipsDoes, MissedAdvancesDoes, AllAdvancesDoes
      <4> QED BY <4>2, SchedIsErrors
    <3> QED BY <1>3, <3>1, <3>2
  <2> QED BY <1>0, <2>1, <2>3, <2>4, LeftErrors
<1>4. CASE MissedSelects
  <2>1. fires' = fires /\ sched' = sched
    BY <1>4 DEF MissedSelects, tables
  <2>2. Emptied(StartF, "missedRow", DueRows)
    BY <1>4, MissedSelectsDoes
  <2>3. /\ flow'[StartF].pc \notin HoldPcs \cup RowPcs /\ flow'[StartF].due = DueRows
        /\ flow' \in [Flows -> FlowRec]
    BY <2>2 DEF Emptied, HoldPcs, RowPcs, DispatchPcs, TickPcs, Policies, Only
  <2>4. \A i \in DOMAIN flow'[StartF].due :
          flow'[StartF].due[i].errors <= Cardinality(Errs(fires, flow'[StartF].due[i].id))
    BY <2>3, SelectedCovered
  <2>5. RowCovered(flow'[StartF], fires') /\ DueCovered(flow'[StartF], fires')
    BY <1>0, <2>1, <2>3, <2>4, FreshCovered
  <2> QED BY <1>0, <2>1, <2>5, StayWhen, ErrorsStep
<1>5. CASE \E policy \in Policies : MissedRow(policy)
  <2> PICK policy \in Policies : MissedRow(policy)
    BY <1>5
  <2>1. fires' = fires /\ sched' = sched
    BY DEF MissedRow, tables
  <2>2. Takes(StartF, policy) /\ policy \notin HoldPcs
    BY MissedRowDoes DEF HoldPcs, DispatchPcs, Policies
  <2>3. RowCovered(flow'[StartF], fires') /\ DueCovered(flow'[StartF], fires')
    BY <1>0, <2>1, <2>2, LeavesCovered
  <2> QED BY <1>0, <2>1, <2>3, StayWhen, ErrorsStep
<1>6. CASE OnceInserts \/ AllInserts
  <2>1. /\ \E e : Adds(e)
        /\ \E g : Dispatched(StartF, Len(fires) + 1, g) /\ g.due = flow[StartF].due /\ g.row = flow[StartF].row
        /\ flow[StartF].pc \in RowPcs
    BY <1>6, OnceInsertsDoes, AllInsertsDoes DEF RowPcs, Policies
  <2>2. RowKept(StartF) /\ ErrorsStay
    BY <2>1, StayWhen DEF RowKept, Dispatched
  <2>3. sched' = sched
    BY <1>6 DEF OnceInserts, AllInserts
  <2> QED BY <1>0, <2>2, <2>3, KeptErrors
<1>7. CASE MissedCounts
  <2>1. fires' = fires /\ sched' = sched
    BY <1>7 DEF MissedCounts, tables
  <2>2. RowKept(StartF)
    BY <1>7, MissedCountsDoes DEF RowKept, Counts, RowPcs, Policies
  <2> QED BY <1>0, <2>1, <2>2, StayWhen, KeptErrors
<1> QED BY <1>1, <1>2, <1>3, <1>4, <1>5, <1>6, <1>7 DEF CatchUpStep

\* A flow of a process that has ended, or one that goes on without a row.
LEMMA ProcessErrors ==
  ASSUME TypeInv, ErrorsInv, ProcessStep
  PROVE  ErrorsInv'
<1>1. fires' = fires /\ sched' = sched
  BY DEF ProcessStep, Start, StartRefused, Seeds, SeedThrows, Stop, Exit, TimePasses, tables
<1>2. SUFFICES ASSUME NEW f \in Flows
               PROVE  RowCovered(flow'[f], fires) /\ DueCovered(flow'[f], fires)
  BY <1>1 DEF ErrorsInv
<1>3. RowCovered(flow[f], fires) /\ DueCovered(flow[f], fires)
  BY DEF ErrorsInv
<1>4. "idle" \notin RowPcs /\ "reapSelect" \notin RowPcs
  BY DEF RowPcs, DispatchPcs, TickPcs, Policies
<1>5. CASE StartRefused \/ Stop \/ TimePasses
  BY <1>3, <1>5 DEF StartRefused, Stop, TimePasses
<1>6. CASE Start
  <2>1. flow[f] \in FlowRec /\ flow \in [Flows -> FlowRec]
    BY Basics
  <2>2. flow'[f] = flow[f] \/ (flow'[f].pc = "reapSelect" /\ flow'[f].due = flow[f].due)
    BY <1>6, <2>1 DEF Start, FlowRec
  <2> QED BY <1>3, <1>4, <2>2 DEF RowCovered, DueCovered
<1>7. CASE Seeds \/ SeedThrows
  <2>1. Emptied(StartF, "idle", << >>)
    BY <1>7, SeedsDoes
  <2>2. flow'[f] = flow[f] \/ (flow'[f].pc = "idle" /\ flow'[f].due = << >>)
    BY <2>1 DEF Emptied, Only
  <2>3. CASE flow'[f].pc = "idle" /\ flow'[f].due = << >>
    BY <1>4, <2>3 DEF RowCovered, DueCovered
  <2> QED BY <1>3, <2>2, <2>3
<1>8. CASE Exit
  <2>1. flow'[f].pc = "idle" /\ flow'[f].due = << >>
    BY <1>8 DEF Exit, Idle
  <2> QED BY <1>4, <2>1 DEF RowCovered, DueCovered
<1> QED BY <1>5, <1>6, <1>7, <1>8 DEF ProcessStep

LEMMA ErrorsInit == Init => ErrorsInv
<1> SUFFICES ASSUME Init PROVE ErrorsInv
  OBVIOUS
<1>1. TypeInv /\ fires = << >>
  BY TypeInit DEF Init
<1>2. \A s \in Schedules : sched[s].errors = 0
  BY DEF Init
<1>3. \A s : Cardinality(Errs(fires, s)) \in Nat
  BY <1>1, Countable DEF Errs
<1>4. \A f \in Flows : flow[f].pc = "idle" /\ flow[f].due = << >>
  BY DEF Init, Idle
<1>5. "idle" \notin RowPcs
  BY DEF RowPcs, DispatchPcs, TickPcs, Policies
<1> QED BY <1>2, <1>3, <1>4, <1>5 DEF ErrorsInv, RowCovered, DueCovered

LEMMA ErrorsNext == TypeInv /\ ErrorsInv /\ [Next]_vars => ErrorsInv'
<1> SUFFICES ASSUME TypeInv, ErrorsInv, [Next]_vars PROVE ErrorsInv'
  OBVIOUS
<1>1. CASE ReconcileStep
  <2>1. fires' = fires /\ flow' = flow /\ \A t \in Schedules : sched'[t].errors = sched[t].errors
    BY <1>1, ReconcileDoes DEF ReconcileStep
  <2> QED BY <2>1 DEF ErrorsInv
<1>2. CASE UNCHANGED vars
  BY <1>2 DEF vars, ErrorsInv
<1> QED BY <1>1, <1>2, NextIs, ProcessErrors, CatchUpErrors, TickErrors

\* handleFireError writes the count of a snapshot plus one: whatever overlapped since, the count that
\* disables a schedule never exceeds the fires of that schedule that have failed.
THEOREM ErrorsAreReal == Spec => []ErrorsReal
<1>1. TypeInv /\ ErrorsInv => ErrorsReal
  BY DEF ErrorsInv, ErrorsReal, Errs
<1> QED BY <1>1, TypeInit, TypeNext, ErrorsInit, ErrorsNext, PTL DEF Spec

(***************************************************************************)
(* The counter of concurrent fires.                                         *)
(***************************************************************************)
LEMMA CountedHold ==
  /\ CountedPcs \subseteq HoldPcs /\ "advance" \in HoldPcs /\ "advance" \notin CountedPcs
  /\ "idle" \notin HoldPcs /\ "idle" \notin CountedPcs
BY DEF CountedPcs, HoldPcs, DispatchPcs

LEMMA CounterSets ==
  ASSUME TypeInv
  PROVE  /\ IsFiniteSet(InCount) /\ IsFiniteSet(Done) /\ IsFiniteSet(Accounted) /\ IsFiniteSet(Running)
         /\ Cardinality(InCount) \in Nat /\ Cardinality(Done) \in Nat
         /\ Cardinality(Accounted) \in Nat /\ Cardinality(Running) \in Nat
<1>1. InCount \subseteq Flows /\ Done \subseteq Flows
  BY DEF InCount, Done
<1>2. IsFiniteSet(InCount) /\ IsFiniteSet(Done)
  BY <1>1, FlowTypes, FS_Subset
<1>3. Accounted \subseteq DOMAIN fires /\ Running \subseteq DOMAIN fires
  BY DEF Accounted, Running
<1> QED BY <1>2, <1>3, Countable, FS_CardinalityType

\* The same of the state that a step of a flow leaves.
LEMMA CounterSetsNext ==
  ASSUME TypeInv, NEW f \in Flows, Acts(f)
  PROVE  /\ IsFiniteSet(InCount') /\ IsFiniteSet(Done') /\ IsFiniteSet(Accounted')
         /\ Cardinality(InCount') \in Nat /\ Cardinality(Done') \in Nat /\ Cardinality(Accounted') \in Nat
<1>1. InCount' \subseteq Flows /\ Done' \subseteq Flows
  BY DEF InCount, Done
<1>2. IsFiniteSet(InCount') /\ IsFiniteSet(Done')
  BY <1>1, FlowTypes, FS_Subset
<1>3. fires' \in Seq(FireRec(maxRetries))
  BY DEF Acts, KeepsFires
<1>4. Len(fires') \in Nat /\ DOMAIN fires' = 1 .. Len(fires')
  BY <1>3
<1>5. IsFiniteSet(DOMAIN fires')
  BY <1>4, FS_Interval
<1>6. Accounted' \subseteq DOMAIN fires'
  BY DEF Accounted, Running
<1>7. IsFiniteSet(Accounted')
  BY <1>5, <1>6, FS_Subset
<1> QED BY <1>2, <1>7, FS_CardinalityType

\* How a step of flow f changes the set of the counted flows.
LEMMA CountMoves ==
  ASSUME TypeInv, NEW f \in Flows, Acts(f)
  PROVE  /\ (flow[f].pc \in CountedPcs <=> flow'[f].pc \in CountedPcs) =>
              Cardinality(InCount') = Cardinality(InCount)
         /\ flow[f].pc \notin CountedPcs /\ flow'[f].pc \in CountedPcs =>
              Cardinality(InCount') = Cardinality(InCount) + 1
         /\ flow[f].pc \in CountedPcs /\ flow'[f].pc \notin CountedPcs =>
              Cardinality(InCount') = Cardinality(InCount) - 1
<1>1. \A h \in Flows : h # f => flow'[h] = flow[h]
  BY DEF Acts, Only
<1>2. IsFiniteSet(InCount)
  BY CounterSets
<1>3. CASE flow[f].pc \in CountedPcs <=> flow'[f].pc \in CountedPcs
  <2>1. InCount' = InCount
    BY <1>1, <1>3 DEF InCount
  <2> QED BY <1>3, <2>1
<1>4. CASE flow[f].pc \notin CountedPcs /\ flow'[f].pc \in CountedPcs
  <2>1. InCount' = InCount \cup {f} /\ f \notin InCount
    BY <1>1, <1>4 DEF InCount
  <2> QED BY <1>2, <1>4, <2>1, FS_AddElement
<1>5. CASE flow[f].pc \in CountedPcs /\ flow'[f].pc \notin CountedPcs
  <2>1. InCount' = InCount \ {f} /\ f \in InCount
    BY <1>1, <1>5 DEF InCount
  <2> QED BY <1>2, <1>5, <2>1, FS_RemoveElement
<1> QED BY <1>3, <1>4, <1>5

\* The other flows are done as before, and have the same fires unsent.
LEMMA OthersCount ==
  ASSUME TypeInv, NEW f \in Flows, Acts(f)
  PROVE  /\ \A h \in Flows : h # f => (h \in Done' <=> h \in Done)
         /\ \A k \in DOMAIN fires : k \in Unsent' /\ k \notin Unsent =>
              flow'[f].pc = "advance" /\ flow'[f].fire = k
         /\ \A k \in DOMAIN fires : k \in Unsent /\ k \notin Unsent' =>
              flow[f].pc = "advance" /\ flow[f].fire = k
<1>1. \A h \in Flows : h # f => flow'[h] = flow[h]
  BY DEF Acts, Only
<1>2. /\ Len(fires) \in Nat /\ DOMAIN fires = 1 .. Len(fires) /\ DOMAIN fires' = 1 .. Len(fires')
      /\ Len(fires') \in Nat /\ Len(fires) <= Len(fires')
  BY Basics DEF Acts, KeepsFires
<1>3. ASSUME NEW h \in Flows, h # f PROVE h \in Done' <=> h \in Done
  <2>1. CASE flow[h].pc \in CountedPcs
    <3>1. fires'[flow[h].fire].status = fires[flow[h].fire].status
      BY <1>3, <2>1, CountedHold DEF Acts, KeepsFires
    <3> QED BY <1>1, <1>3, <2>1, <3>1 DEF Done, InCount
  <2>2. CASE flow[h].pc \notin CountedPcs
    BY <1>1, <1>3, <2>2 DEF Done, InCount
  <2> QED BY <2>1, <2>2
<1>4. ASSUME NEW k \in DOMAIN fires, k \in Unsent', k \notin Unsent
      PROVE  flow'[f].pc = "advance" /\ flow'[f].fire = k
  BY <1>1, <1>4 DEF Unsent
<1>5. ASSUME NEW k \in DOMAIN fires, k \in Unsent, k \notin Unsent'
      PROVE  flow[f].pc = "advance" /\ flow[f].fire = k
  <2>1. k \in DOMAIN fires'
    BY <1>2
  <2> QED BY <1>1, <1>5, <2>1 DEF Unsent
<1> QED BY <1>3, <1>4, <1>5

\* A step that takes up gain places and gives up loss of them.
LEMMA CounterStep ==
  ASSUME TypeInv, CounterInv, NEW f \in Flows, Acts(f), NEW gain \in Int, NEW loss \in Nat,
         inFlight' = inFlight + gain, leaked' = leaked + loss,
         Cardinality(InCount') = Cardinality(InCount) + gain - loss,
         daemon # "starting" => Cardinality(Accounted) + Cardinality(Done) + gain - loss
                                  <= Cardinality(Accounted') + Cardinality(Done')
  PROVE  CounterInv'
<1>1. /\ Cardinality(InCount) \in Nat /\ Cardinality(Done) \in Nat /\ Cardinality(Accounted) \in Nat
      /\ Cardinality(InCount') \in Nat /\ Cardinality(Done') \in Nat /\ Cardinality(Accounted') \in Nat
  BY CounterSets, CounterSetsNext
<1>2. inFlight \in Nat /\ leaked \in Nat /\ daemon' = daemon
  BY Basics DEF Acts, host
<1>3. Cardinality(InCount) <= inFlight
  BY DEF CounterInv
<1>4. Cardinality(InCount') <= inFlight'
  BY <1>1, <1>2, <1>3
<1>5. CASE daemon = "starting"
  <2>1. inFlight <= leaked + Cardinality(InCount)
    BY <1>5 DEF CounterInv
  <2>2. inFlight' <= leaked' + Cardinality(InCount')
    BY <1>1, <1>2, <2>1
  <2> QED BY <1>2, <1>4, <1>5, <2>2 DEF CounterInv
<1>6. CASE daemon # "starting"
  <2>1. inFlight <= leaked + (Cardinality(Accounted) + Cardinality(Done))
    BY <1>6 DEF CounterInv
  <2>2. inFlight' <= leaked' + (Cardinality(Accounted') + Cardinality(Done'))
    BY <1>1, <1>2, <1>6, <2>1
  <2> QED BY <1>2, <1>4, <1>6, <2>2 DEF CounterInv
<1> QED BY <1>5, <1>6

\* A step of a flow whose fire is not counted, before and after.
LEMMA QuietCounter ==
  ASSUME TypeInv, CounterInv, NEW f \in Flows, Acts(f),
         flow[f].pc \notin CountedPcs, flow'[f].pc \notin CountedPcs,
         inFlight' = inFlight, leaked' = leaked,
         daemon # "starting" => /\ Running \subseteq Running'
                                /\ flow'[f].pc = "advance" => flow'[f].fire > Len(fires)
  PROVE  CounterInv'
<1>1. Cardinality(InCount') = Cardinality(InCount)
  BY CountMoves
<1>2. ASSUME daemon # "starting"
      PROVE  Cardinality(Accounted) + Cardinality(Done) <= Cardinality(Accounted') + Cardinality(Done')
  <2>1. Done' = Done
    BY OthersCount DEF Done, InCount
  <2>2. Accounted \subseteq Accounted'
    <3> SUFFICES ASSUME NEW k \in Accounted PROVE k \in Accounted'
      OBVIOUS
    <3>1. k \in Running' /\ k \in DOMAIN fires /\ k \notin Unsent
      BY <1>2 DEF Accounted, Running
    <3>2. k <= Len(fires) /\ k \in Nat /\ Len(fires) \in Nat
      BY <3>1, Basics
    <3>3. k \notin Unsent'
      BY <1>2, <3>1, <3>2, OthersCount
    <3> QED BY <3>1, <3>3 DEF Accounted
  <2>3. Cardinality(Accounted) <= Cardinality(Accounted')
    BY <2>2, CounterSetsNext, FS_Subset
  <2> QED BY <2>1, <2>3, CounterSets, CounterSetsNext
<1>3. /\ inFlight' = inFlight + 0 /\ leaked' = leaked + 0
      /\ Cardinality(InCount') = Cardinality(InCount) + 0 - 0
  BY <1>1, Basics, CounterSets
<1>4. daemon # "starting" => Cardinality(Accounted) + Cardinality(Done) + 0 - 0
                                  <= Cardinality(Accounted') + Cardinality(Done')
  BY <1>2, CounterSets
<1> QED BY <1>3, <1>4, CounterStep

\* A fire is dispatched: one more is counted, and its row is accounted for.
LEMMA DispatchCounter ==
  ASSUME TypeInv, CounterInv, NEW f \in Flows, Acts(f), NEW k, NEW g, Dispatched(f, k, g),
         flow[f].pc \notin CountedPcs, inFlight' = inFlight + 1, leaked' = leaked,
         \/ \E e : Adds(e) /\ e.status = "running" /\ k = Len(fires) + 1 /\ flow[f].pc # "advance"
         \/ Sends(k) /\ flow[f].pc = "advance" /\ flow[f].fire = k
  PROVE  CounterInv'
<1>0. /\ Len(fires) \in Nat /\ DOMAIN fires = 1 .. Len(fires) /\ DOMAIN fires' = 1 .. Len(fires')
      /\ Len(fires') \in Nat /\ Len(fires) <= Len(fires')
  BY Basics DEF Acts, KeepsFires
<1>1. flow'[f].pc \in CountedPcs /\ flow'[f].pc # "advance" /\ flow'[f].fire = k
  BY DEF Dispatched, CountedPcs
<1>2. Cardinality(InCount') = Cardinality(InCount) + 1
  BY <1>1, CountMoves
<1>3. k \in DOMAIN fires' /\ fires'[k].status = "running"
  <2>1. CASE \E e : Adds(e) /\ e.status = "running" /\ k = Len(fires) + 1 /\ flow[f].pc # "advance"
    BY <1>0, <2>1 DEF Adds, Like
  <2>2. CASE Sends(k) /\ flow[f].pc = "advance" /\ flow[f].fire = k
    <3>1. fires[k].status = "running"
      BY <2>2, CountedHold, Basics, Statuses DEF Fits
    <3> QED BY <1>0, <2>2, <3>1 DEF Sends, Like
  <2> QED BY <2>1, <2>2
<1>4. Done' = Done
  BY <1>1, <1>3, OthersCount DEF Done, InCount
<1>5. k \notin Accounted
  <2>1. CASE k = Len(fires) + 1
    BY <1>0, <2>1 DEF Accounted, Running
  <2>2. CASE Sends(k) /\ flow[f].pc = "advance" /\ flow[f].fire = k
    BY <2>2 DEF Accounted, Unsent, Sends
  <2> QED BY <2>1, <2>2
<1>6. k \notin Unsent'
  <2>1. ASSUME NEW h \in Flows, flow'[h].pc = "advance", flow'[h].fire = k
        PROVE  FALSE
    <3>1. h # f /\ flow'[h] = flow[h] /\ flow[h].pc \in HoldPcs
      BY <1>1, <2>1, CountedHold DEF Acts, Only
    <3>2. flow[h].fire \in DOMAIN fires /\ flow[h].fire = k
      BY <2>1, <3>1, Basics
    <3>3. flow[f].pc = "advance" /\ flow[f].fire = k
      BY <1>0, <3>2
    <3> QED BY <3>1, <3>2, <3>3, CountedHold, Basics
  <2> QED BY <2>1 DEF Unsent
<1>7. \A i \in Running : i \in Running'
  <2> SUFFICES ASSUME NEW i \in Running PROVE i \in Running'
    OBVIOUS
  <2>1. i \in DOMAIN fires' /\ i \in DOMAIN fires /\ fires[i].status = "running"
    BY <1>0 DEF Running
  <2>2. fires'[i].status = "running"
    BY <1>3, <2>1 DEF Adds, Sends
  <2> QED BY <2>1, <2>2 DEF Running
<1>8. Accounted \cup {k} \subseteq Accounted'
  <2>1. k \in Accounted'
    BY <1>3, <1>6 DEF Accounted, Running
  <2>2. ASSUME NEW i \in Accounted PROVE i \in Accounted'
    <3>1. i \in Running' /\ i \in DOMAIN fires /\ i \notin Unsent
      BY <1>7 DEF Accounted, Running
    <3>2. i \notin Unsent'
      BY <1>1, <3>1, OthersCount
    <3> QED BY <3>1, <3>2 DEF Accounted
  <2> QED BY <2>1, <2>2
<1>9. Cardinality(Accounted) + 1 <= Cardinality(Accounted')
  <2>1. Cardinality(Accounted \cup {k}) = Cardinality(Accounted) + 1
    BY <1>5, CounterSets, FS_AddElement
  <2>2. Cardinality(Accounted \cup {k}) <= Cardinality(Accounted')
    BY <1>8, CounterSetsNext, FS_Subset
  <2> QED BY <2>1, <2>2
<1>10. Cardinality(Accounted) + Cardinality(Done) + 1 - 0 <= Cardinality(Accounted') + Cardinality(Done')
  BY <1>4, <1>9, CounterSets, CounterSetsNext
<1>11. leaked' = leaked + 0 /\ Cardinality(InCount') = Cardinality(InCount) + 1 - 0
  BY <1>2, Basics, CounterSets
<1> QED BY <1>10, <1>11, CounterStep

\* What a flow that leaves the counter gives up: its row as accounted for, or as done.
LEMMA LeavesCounter ==
  ASSUME TypeInv, CounterInv, NEW f \in Flows, Acts(f),
         flow[f].pc \in CountedPcs, flow'[f].pc \notin CountedPcs \cup {"advance"},
         NEW gain \in {-1, 0}, inFlight' = inFlight + gain, leaked' = leaked + (1 + gain),
         fires' = fires \/ Marks(flow[f].fire, "error"),
         gain = -1 => f \in Done \/ Marks(flow[f].fire, "error")
  PROVE  CounterInv'
<1>0. /\ Len(fires) \in Nat /\ DOMAIN fires = 1 .. Len(fires) /\ DOMAIN fires' = 1 .. Len(fires')
      /\ Len(fires') \in Nat /\ Len(fires) <= Len(fires') /\ flow[f].pc \in HoldPcs /\ flow[f].pc # "advance"
  BY Basics, CountedHold DEF Acts, KeepsFires
<1>1. Cardinality(InCount') = Cardinality(InCount) - 1
  BY CountMoves
<1>2. Done' = Done \ {f}
  <2>1. f \notin Done'
    BY DEF Done, InCount
  <2>2. \A h \in Done : h \in Flows
    BY DEF Done, InCount
  <2>3. \A h \in Done' : h \in Flows
    BY DEF Done, InCount
  <2> QED BY <2>1, <2>2, <2>3, OthersCount
<1> PICK k \in DOMAIN fires : k = flow[f].fire
  BY <1>0, Basics
<1>3. Accounted \ {k} \subseteq Accounted' /\ (fires' = fires => Accounted \subseteq Accounted')
  <2>1. ASSUME NEW i \in Accounted, i # k \/ fires' = fires PROVE i \in Accounted'
    <3>1. i \in DOMAIN fires /\ i \in DOMAIN fires' /\ fires[i].status = "running" /\ i \notin Unsent
      BY <1>0 DEF Accounted, Running
    <3>2. fires'[i].status = "running"
      BY <2>1, <3>1 DEF Marks
    <3>3. i \notin Unsent'
      BY <3>1, OthersCount
    <3> QED BY <3>1, <3>2, <3>3 DEF Accounted, Running
  <2> QED BY <2>1
<1>4. /\ Cardinality(Accounted) \in Nat /\ Cardinality(Accounted') \in Nat
      /\ Cardinality(Done) \in Nat /\ Cardinality(Done') \in Nat
      /\ IsFiniteSet(Accounted) /\ IsFiniteSet(Accounted') /\ IsFiniteSet(Done)
  BY CounterSets, CounterSetsNext
<1>5. Cardinality(Accounted \ {k}) <= Cardinality(Accounted') /\ Cardinality(Accounted \ {k}) \in Nat
  <2>1. IsFiniteSet(Accounted \ {k})
    BY <1>4, FS_Subset
  <2> QED BY <1>3, <1>4, <2>1, FS_Subset, FS_CardinalityType
<1>6. fires' = fires => Cardinality(Accounted) <= Cardinality(Accounted')
  BY <1>3, <1>4, FS_Subset
<1>7. /\ k \in Accounted => Cardinality(Accounted \ {k}) = Cardinality(Accounted) - 1
      /\ k \notin Accounted => Accounted \ {k} = Accounted
  <2>1. ASSUME k \in Accounted PROVE Cardinality(Accounted \ {k}) = Cardinality(Accounted) - 1
    BY <1>4, <2>1, FS_RemoveElement
  <2>2. ASSUME k \notin Accounted PROVE Accounted \ {k} = Accounted
    BY <2>2
  <2> QED BY <2>1, <2>2
<1>8. /\ f \in Done => Cardinality(Done') = Cardinality(Done) - 1
      /\ f \notin Done => Done' = Done
  <2>1. ASSUME f \in Done PROVE Cardinality(Done') = Cardinality(Done) - 1
    BY <1>2, <1>4, <2>1, FS_RemoveElement
  <2>2. ASSUME f \notin Done PROVE Done' = Done
    BY <1>2, <2>2
  <2> QED BY <2>1, <2>2
<1>9. f \in Done => k \notin Accounted
  BY DEF Done, Accounted, Running
<1>10. Cardinality(Accounted) + Cardinality(Done) - 1 <= Cardinality(Accounted') + Cardinality(Done')
  <2>1. CASE f \in Done
    <3>1. Cardinality(Accounted) <= Cardinality(Accounted')
      BY <1>5, <1>7, <1>9, <2>1
    <3> QED BY <1>4, <1>8, <2>1, <3>1
  <2>2. CASE f \notin Done
    <3>1. Cardinality(Accounted) - 1 <= Cardinality(Accounted')
      <4>1. CASE k \in Accounted
        BY <1>4, <1>5, <1>7, <4>1
      <4>2. CASE k \notin Accounted
        BY <1>4, <1>5, <1>7, <4>2
      <4> QED BY <4>1, <4>2
    <3>2. Cardinality(Done') = Cardinality(Done)
      BY <1>8, <2>2
    <3> QED BY <1>4, <3>1, <3>2
  <2> QED BY <2>1, <2>2
<1>11. /\ gain \in Int /\ 1 + gain \in Nat /\ Cardinality(InCount) \in Nat
       /\ Cardinality(InCount) + gain - (1 + gain) = Cardinality(InCount) - 1
       /\ Cardinality(Accounted) + Cardinality(Done) + gain - (1 + gain)
            = Cardinality(Accounted) + Cardinality(Done) - 1
  BY <1>4, CounterSets
<1> QED BY <1>1, <1>10, <1>11, CounterStep

\* completeFire marks the row: it is no longer running, and the flow is done.
LEMMA OkFireCounter ==
  ASSUME TypeInv, CounterInv, NEW f \in Flows, OkFire(f)
  PROVE  CounterInv'
<1>0. Acts(f) /\ Moved(f, "okSched") /\ Marks(flow[f].fire, "ok") /\ flow[f].pc = "okFire"
  BY OkFireDoes DEF OkFire
<1>1. /\ flow[f].pc \in CountedPcs /\ flow[f].pc \in HoldPcs /\ flow'[f].pc \in CountedPcs
      /\ flow'[f].pc # "advance" /\ flow'[f].fire = flow[f].fire
  BY <1>0, CountedHold DEF CountedPcs, Moved
<1> PICK k \in DOMAIN fires : k = flow[f].fire
  BY <1>1, Basics
<1>2. fires[k].status = "running" /\ fires'[k].status = "ok"
  BY <1>0, <1>1, Basics, Statuses DEF Fits, Marks
<1>3. f \notin Done /\ Done' = Done \cup {f}
  <2>1. f \notin Done /\ f \in Done'
    BY <1>0, <1>1, <1>2 DEF Done, InCount
  <2>2. \A h \in Done : h \in Flows
    BY DEF Done, InCount
  <2>3. \A h \in Done' : h \in Flows
    BY DEF Done, InCount
  <2> QED BY <1>0, <2>1, <2>2, <2>3, OthersCount
<1>4. Accounted \ {k} \subseteq Accounted'
  <2> SUFFICES ASSUME NEW i \in Accounted, i # k PROVE i \in Accounted'
    OBVIOUS
  <2>1. i \in DOMAIN fires /\ fires[i].status = "running" /\ i \notin Unsent
    BY DEF Accounted, Running
  <2>2. i \in DOMAIN fires' /\ fires'[i].status = "running"
    BY <1>0, <2>1, Basics DEF Marks
  <2>3. i \notin Unsent'
    BY <1>0, <1>1, <2>1, OthersCount
  <2> QED BY <2>1, <2>2, <2>3 DEF Accounted, Running
<1>5. Cardinality(Accounted) - 1 <= Cardinality(Accounted')
  <2>1. IsFiniteSet(Accounted) /\ IsFiniteSet(Accounted') /\ Cardinality(Accounted) \in Nat
        /\ Cardinality(Accounted') \in Nat
    BY <1>0, CounterSets, CounterSetsNext
  <2>2. Cardinality(Accounted \ {k}) <= Cardinality(Accounted')
    BY <1>4, <2>1, FS_Subset
  <2>3. CASE k \in Accounted
    <3>1. Cardinality(Accounted \ {k}) = Cardinality(Accounted) - 1
      BY <2>1, <2>3, FS_RemoveElement
    <3> QED BY <2>2, <3>1
  <2>4. CASE k \notin Accounted
    <3>1. Accounted \ {k} = Accounted
      BY <2>4
    <3> QED BY <2>1, <2>2, <3>1
  <2> QED BY <2>3, <2>4
<1>6. Cardinality(Done') = Cardinality(Done) + 1
  BY <1>3, CounterSets, FS_AddElement
<1>7. Cardinality(InCount') = Cardinality(InCount)
  BY <1>0, <1>1, CountMoves
<1>8. /\ Cardinality(InCount') = Cardinality(InCount) + 0 - 0
      /\ Cardinality(Accounted) + Cardinality(Done) + 0 - 0 <= Cardinality(Accounted') + Cardinality(Done')
  <2>1. /\ Cardinality(Accounted) \in Nat /\ Cardinality(Accounted') \in Nat /\ Cardinality(InCount) \in Nat
        /\ Cardinality(Done) \in Nat
    BY <1>0, CounterSets, CounterSetsNext
  <2> QED BY <1>5, <1>6, <1>7, <2>1
<1>9. inFlight' = inFlight + 0 /\ leaked' = leaked + 0
  BY Basics DEF OkFire
<1> QED BY <1>0, <1>8, <1>9, CounterStep

LEMMA TickCounter ==
  ASSUME TypeInv, CounterInv, NEW f \in Flows, TickStep(f)
  PROVE  CounterInv'
<1>0. Acts(f)
  BY FlowActs
<1>1. Running = {k \in DOMAIN fires : fires[k].status = "running"}
  BY DEF Running
<1>2. fires' = fires => Running' = Running
  BY DEF Running
<1>3. CASE OkFire(f)
  BY <1>3, OkFireCounter
<1>4. CASE CompletionThrows(f)
  <2>1. /\ Moved(f, "errFire") /\ flow[f].pc \in {"okFire", "okSched"} /\ fires' = fires
        /\ inFlight' = inFlight /\ leaked' = leaked
    BY <1>4, CompletionThrowsDoes DEF CompletionThrows, tables
  <2>2. /\ flow[f].pc \in CountedPcs /\ flow'[f].pc \in CountedPcs /\ flow'[f].fire = flow[f].fire
        /\ flow[f].pc # "advance" /\ flow'[f].pc # "advance"
    BY <2>1 DEF CountedPcs, Moved
  <2>3. Cardinality(InCount') = Cardinality(InCount)
    BY <1>0, <2>2, CountMoves
  <2>4. Done' = Done
    <3>1. f \in Done' <=> f \in Done
      BY <2>1, <2>2 DEF Done, InCount
    <3>2. \A h \in Done : h \in Flows
      BY DEF Done, InCount
    <3>3. \A h \in Done' : h \in Flows
      BY DEF Done, InCount
    <3> QED BY <1>0, <3>1, <3>2, <3>3, OthersCount
  <2>5. Accounted' = Accounted
    <3>1. Running' = Running
      BY <1>2, <2>1
    <3>2. Unsent' = Unsent
      <4>1. \A k \in Unsent : k \in DOMAIN fires
        BY DEF Unsent
      <4>2. \A k \in Unsent' : k \in DOMAIN fires
        BY <2>1 DEF Unsent
      <4> QED BY <1>0, <2>2, <4>1, <4>2, OthersCount
    <3> QED BY <3>1, <3>2 DEF Accounted
  <2>6. /\ inFlight' = inFlight + 0 /\ leaked' = leaked + 0
        /\ Cardinality(InCount') = Cardinality(InCount) + 0 - 0
        /\ Cardinality(Accounted) + Cardinality(Done) + 0 - 0 <= Cardinality(Accounted') + Cardinality(Done')
    BY <2>1, <2>3, <2>4, <2>5, Basics, CounterSets
  <2> QED BY <1>0, <2>6, CounterStep
<1>5. CASE OkSched(f) \/ ErrFire(f)
  <2>1. flow[f].pc \in CountedPcs /\ flow[f].pc \in HoldPcs /\ leaked' = leaked /\ leaked \in Nat /\ inFlight \in Nat
    BY <1>5, CountedHold, Basics DEF OkSched, ErrFire, CountedPcs
  <2>2. inFlight' = inFlight + (-1)
    <3>1. Cardinality(InCount) # 0
      <4>1. f \in InCount
        BY <2>1 DEF InCount
      <4> QED BY <4>1, CounterSets, FS_EmptySet
    <3>2. inFlight > 0
      BY <2>1, <3>1, CounterSets DEF CounterInv
    <3>3. inFlight' = inFlight - 1
      BY <1>5, <3>2, OkSchedDoes, ErrFireDoes
    <3> QED BY <2>1, <3>3
  <2>3. CASE OkSched(f)
    <3>1. flow'[f].pc \notin HoldPcs /\ fires' = fires /\ flow[f].pc = "okSched"
      BY <2>3, OkSchedDoes DEF OkSched
    <3>2. f \in Done
      <4>1. fires[flow[f].fire].status = "ok"
        BY <2>1, <3>1, Basics, Statuses DEF Fits
      <4> QED BY <2>1, <4>1 DEF Done, InCount
    <3>3. flow'[f].pc \notin CountedPcs \cup {"advance"}
      BY <3>1, CountedHold
    <3>4. leaked' = leaked + (1 + -1)
      BY <2>1
    <3> QED BY <1>0, <2>1, <2>2, <3>1, <3>2, <3>3, <3>4, LeavesCounter
  <2>4. CASE ErrFire(f)
    <3>1. Moved(f, ErrPc(f)) /\ Marks(flow[f].fire, "error")
      BY <2>4, ErrFireDoes
    <3>2. flow'[f].pc \notin CountedPcs \cup {"advance"}
      BY <3>1 DEF Moved, ErrPc, CountedPcs
    <3>3. leaked' = leaked + (1 + -1)
      BY <2>1
    <3> QED BY <1>0, <2>1, <2>2, <3>1, <3>2, <3>3, LeavesCounter
  <2> QED BY <1>5, <2>3, <2>4
<1>6. CASE RetryInsert(f)
  <2>1. /\ Adds(Retry(f)) /\ Dispatched(f, Len(fires) + 1, flow[f]) /\ inFlight' = inFlight + 1
        /\ Retry(f).status = "running" /\ leaked' = leaked
        /\ flow[f].pc \notin CountedPcs /\ flow[f].pc # "advance"
    BY <1>6, RetryInsertDoes DEF RetryInsert, CountedPcs
  <2> QED BY <1>0, <2>1, DispatchCounter
<1>7. CASE TickAdvances(f)
  <2>1. /\ Sends(flow[f].fire) /\ inFlight' = inFlight + 1 /\ leaked' = leaked
        /\ Dispatched(f, flow[f].fire, [flow[f] EXCEPT !.count = @ + 1])
        /\ flow[f].pc \notin CountedPcs /\ flow[f].pc = "advance"
    BY <1>7, TickAdvancesDoes DEF TickAdvances, CountedPcs
  <2> PICK k : k = flow[f].fire
    OBVIOUS
  <2> QED BY <1>0, <2>1, DispatchCounter
<1>8. CASE NowInserts(f)
  <2>1. /\ \E e : Adds(e) /\ e.status = "running"
        /\ Dispatched(f, Len(fires) + 1, flow[f]) /\ inFlight' = inFlight + 1 /\ leaked' = leaked
        /\ flow[f].pc \notin CountedPcs /\ flow[f].pc # "advance"
    BY <1>8, NowInsertsDoes DEF NowInserts, CountedPcs
  <2> QED BY <1>0, <2>1, DispatchCounter
<1>9. CASE TickInserts(f)
  <2>1. /\ flow[f].pc \notin CountedPcs /\ flow'[f].pc \notin CountedPcs /\ flow'[f].fire = Len(fires) + 1
        /\ inFlight' = inFlight /\ leaked' = leaked
    BY <1>9, TickInsertsDoes DEF TickInserts, CountedPcs, Claims
  <2>2. PICK e : Adds(e)
    BY <1>9, TickInsertsDoes
  <2>3. Running \subseteq Running'
    <3>1. DOMAIN fires \subseteq DOMAIN fires'
      BY <2>2, Basics DEF Adds
    <3> QED BY <2>2, <3>1 DEF Adds, Running
  <2>4. flow'[f].fire > Len(fires)
    BY <2>1, Basics
  <2> QED BY <1>0, <2>1, <2>3, <2>4, QuietCounter
<1>10. CASE DispatchThrows(f)
  <2>1. /\ fires' = fires /\ inFlight' = inFlight /\ flow'[f].pc \notin HoldPcs
        /\ leaked' = IF Counted(f) THEN leaked + 1 ELSE leaked
    BY <1>10, DispatchThrowsDoes DEF DispatchThrows, tables
  <2>2. Counted(f) <=> flow[f].pc \in CountedPcs
    BY DEF Counted, CountedPcs
  <2>3. flow'[f].pc \notin CountedPcs \cup {"advance"}
    BY <2>1, CountedHold
  <2>4. CASE Counted(f)
    <3>1. inFlight' = inFlight + 0 /\ leaked' = leaked + (1 + 0)
      BY <2>1, <2>4, Basics
    <3> QED BY <1>0, <2>1, <2>2, <2>3, <2>4, <3>1, LeavesCounter
  <2>5. CASE ~Counted(f)
    <3>1. leaked' = leaked
      BY <2>1, <2>5
    <3> QED BY <1>0, <1>2, <2>1, <2>2, <2>3, <2>5, <3>1, QuietCounter
  <2> QED BY <2>4, <2>5
<1>11. CASE \/ ErrSched(f) \/ TickQuota(f) \/ TickSkipsSlot(f) \/ NowQuota(f) \/ WakeTick(f) \/ FlowThrows(f)
            \/ \E s \in Schedules : FireNow(f, s)
  <2>1. fires' = fires /\ inFlight' = inFlight /\ leaked' = leaked
    BY <1>11 DEF ErrSched, TickQuota, TickSkipsSlot, NowQuota, WakeTick, FlowThrows, FireNow, tables
  <2>2. flow[f].pc \notin CountedPcs
    <3>1. CASE FlowThrows(f)
      BY <3>1, FlowThrowsDoes DEF CountedPcs, DispatchPcs
    <3>2. CASE WakeTick(f) \/ \E s \in Schedules : FireNow(f, s)
      BY <3>2, WakeTickDoes, FireNowDoes DEF CountedPcs
    <3> QED BY <1>11, <3>1, <3>2 DEF ErrSched, TickQuota, TickSkipsSlot, NowQuota, CountedPcs
  <2>3. flow'[f].pc \notin CountedPcs \cup {"advance"}
    <3>1. CASE ErrSched(f) \/ FlowThrows(f)
      BY <3>1, ErrSchedDoes, FlowThrowsDoes, CountedHold
    <3>2. CASE TickQuota(f) \/ NowQuota(f)
      BY <3>2, TickQuotaDoes, NowQuotaDoes DEF Checked, QuotaPc, Emptied, CountedPcs
    <3>3. CASE TickSkipsSlot(f)
      BY <3>3, TickSkipsSlotDoes DEF Leaves, Takes, Emptied, CountedPcs
    <3>4. CASE WakeTick(f)
      BY <3>4, WakeTickDoes DEF Wakes, Emptied, CountedPcs
    <3>5. CASE \E s \in Schedules : FireNow(f, s)
      BY <3>5, FireNowDoes DEF NowStarts, CountedPcs
    <3> QED BY <1>11, <3>1, <3>2, <3>3, <3>4, <3>5
  <2> QED BY <1>0, <1>2, <2>1, <2>2, <2>3, QuietCounter
<1> QED BY <1>3, <1>4, <1>5, <1>6, <1>7, <1>8, <1>9, <1>10, <1>11 DEF TickStep, FlowStep, Throws

LEMMA CatchUpCounter ==
  ASSUME TypeInv, CounterInv, CatchUpStep
  PROVE  CounterInv'
<1>0. Acts(StartF) /\ flow[StartF].pc # "idle" /\ StartF \in Flows /\ daemon = "starting"
  BY CatchUpActs, FlowTypes, StartRuns
<1>1. CASE OnceInserts \/ AllInserts
  <2>1. /\ \E e : Adds(e) /\ e.status = "running"
        /\ \E g : Dispatched(StartF, Len(fires) + 1, g)
        /\ inFlight' = inFlight + 1 /\ leaked' = leaked
        /\ flow[StartF].pc \notin CountedPcs /\ flow[StartF].pc # "advance"
    BY <1>1, OnceInsertsDoes, AllInsertsDoes DEF OnceInserts, AllInserts, CountedPcs, Catch
  <2> QED BY <1>0, <2>1, DispatchCounter
<1>2. CASE \/ ReapSelects \/ ReapFire \/ ReapSched \/ MissedSelects \/ MissedSkips
           \/ \E policy \in Policies : MissedRow(policy)
           \/ MissedAdvances \/ MissedCounts \/ AllAdvances
  <2>1. inFlight' = inFlight /\ leaked' = leaked
    BY <1>2 DEF ReapSelects, ReapFire, ReapSched, MissedSelects, MissedSkips, MissedRow, MissedAdvances,
                MissedCounts, AllAdvances
  <2>2. flow[StartF].pc \notin CountedPcs
    BY <1>2 DEF ReapSelects, ReapFire, ReapSched, MissedSelects, MissedSkips, MissedRow, MissedAdvances,
                MissedCounts, AllAdvances, CountedPcs
  <2>3. flow'[StartF].pc \notin CountedPcs
    <3>1. CASE ReapSelects \/ ReapFire \/ ReapSched
      BY <3>1, ReapSelectsDoes, ReapFireDoes, ReapSchedDoes DEF Reaps, Moved, CountedPcs
    <3>2. CASE MissedSelects \/ \E policy \in Policies : MissedRow(policy)
      BY <3>2, MissedSelectsDoes, MissedRowDoes DEF Emptied, Takes, CountedPcs, Policies
    <3>3. CASE MissedSkips \/ MissedAdvances \/ AllAdvances \/ MissedCounts
      BY <3>3, MissedSkipsDoes, MissedAdvancesDoes, AllAdvancesDoes, MissedCountsDoes DEF Moved, Counts, CountedPcs
    <3> QED BY <1>2, <3>1, <3>2, <3>3
  <2> QED BY <1>0, <2>1, <2>2, <2>3, QuietCounter
<1> QED BY <1>1, <1>2 DEF CatchUpStep

\* A fire of no one is counted while all flows are between fires.
LEMMA NoneCounted ==
  ASSUME \A f \in Flows : flow[f].pc \notin CountedPcs
  PROVE  InCount = {} /\ Done = {} /\ Cardinality(InCount) = 0 /\ Cardinality(Done) = 0
BY FS_EmptySet DEF InCount, Done

LEMMA ProcessCounter ==
  ASSUME TypeInv, CounterInv, ProcessStep
  PROVE  CounterInv'
<1>0. /\ Cardinality(InCount) \in Nat /\ Cardinality(Done) \in Nat /\ Cardinality(Accounted) \in Nat
      /\ Cardinality(Running) \in Nat /\ inFlight \in Nat /\ leaked \in Nat
      /\ fires' = fires /\ Running' = Running
  <2>1. fires' = fires
    BY DEF ProcessStep, Start, StartRefused, Seeds, SeedThrows, Stop, Exit, TimePasses, tables
  <2> QED BY <2>1, CounterSets, Basics, FlowTypes DEF Running
<1>1. CASE Start \/ StartRefused
  <2>1. daemon = "off" /\ inFlight = 0 /\ inFlight' = 0 /\ leaked = 0 /\ leaked' = 0
    BY <1>1 DEF Start, StartRefused, TypeInv, Phases
  <2>2. \A f \in Flows : flow[f].pc \notin CountedPcs /\ flow'[f].pc \notin CountedPcs
    <3>1. \A f \in Flows : flow[f].pc = "idle"
      BY <2>1, FlowTypes DEF TypeInv, Phases
    <3>2. \A f \in Flows : flow'[f] = flow[f] \/ flow'[f].pc = "reapSelect"
      BY <1>1, Basics, FlowTypes DEF Start, StartRefused, FlowRec
    <3> QED BY <3>1, <3>2 DEF CountedPcs
  <2>3. InCount' = {} /\ Done' = {} /\ Cardinality(InCount') = 0 /\ Cardinality(Done') = 0
    BY <2>2, FS_EmptySet DEF InCount, Done
  <2>4. Cardinality(Accounted') \in Nat
    <3>1. Accounted' \subseteq Running
      BY <1>0 DEF Accounted
    <3>2. IsFiniteSet(Accounted')
      BY <3>1, CounterSets, FS_Subset
    <3> QED BY <3>2, FS_CardinalityType
  <2>5. /\ Cardinality(InCount') <= inFlight' /\ inFlight' <= leaked' + Cardinality(InCount')
        /\ inFlight' <= leaked' + (Cardinality(Accounted') + Cardinality(Done'))
    BY <2>1, <2>3, <2>4
  <2> QED BY <2>5 DEF CounterInv
<1>2. CASE Stop \/ TimePasses
  <2>1. /\ inFlight' = inFlight /\ leaked' = leaked /\ flow' = flow
        /\ daemon' = "starting" <=> daemon = "starting"
    BY <1>2 DEF Stop, TimePasses
  <2>2. InCount' = InCount /\ Done' = Done /\ Accounted' = Accounted
    BY <1>0, <2>1 DEF InCount, Done, Accounted, Unsent
  <2> QED BY <2>1, <2>2 DEF CounterInv
<1>3. CASE Exit
  <2>1. daemon' = "off" /\ inFlight' = 0 /\ leaked' = 0 /\ flow' = [f \in Flows |-> Idle]
    BY <1>3 DEF Exit
  <2>2. \A f \in Flows : flow'[f].pc = "idle"
    BY <2>1 DEF Idle
  <2>3. InCount' = {} /\ Done' = {} /\ Cardinality(InCount') = 0 /\ Cardinality(Done') = 0
    BY <2>2, CountedHold, FS_EmptySet DEF InCount, Done
  <2>4. Cardinality(Accounted') \in Nat
    <3>1. Accounted' \subseteq Running
      BY <1>0 DEF Accounted
    <3>2. IsFiniteSet(Accounted')
      BY <3>1, CounterSets, FS_Subset
    <3> QED BY <3>2, FS_CardinalityType
  <2>5. /\ Cardinality(InCount') <= inFlight'
        /\ inFlight' <= leaked' + (Cardinality(Accounted') + Cardinality(Done'))
    BY <2>1, <2>3, <2>4
  <2> QED BY <2>1, <2>5 DEF CounterInv
<1>4. CASE Seeds \/ SeedThrows
  <2>1. /\ Emptied(StartF, "idle", << >>) /\ flow[StartF].pc \in {"seed", "missedRow"} /\ daemon = "starting"
        /\ daemon' = "up" /\ leaked' = leaked
        /\ \E n \in 0 .. Cardinality(Running) : inFlight' = inFlight + n
    BY <1>4, SeedsDoes
  <2>2. \A f \in Flows : flow[f].pc \notin CountedPcs /\ flow'[f].pc = "idle"
    <3>1. \A f \in Ticks : flow[f].pc = "idle" /\ flow'[f].pc = "idle"
      BY <2>1, StartRuns, FlowTypes DEF Emptied, Only
    <3> QED BY <2>1, <3>1, FlowTypes DEF Emptied, CountedPcs
  <2>3. Cardinality(InCount) = 0
    BY <2>2, NoneCounted
  <2>4. InCount' = {} /\ Done' = {} /\ Cardinality(InCount') = 0 /\ Cardinality(Done') = 0
    BY <2>2, CountedHold, FS_EmptySet DEF InCount, Done
  <2>5. Accounted' = Running
    BY <1>0, <2>2 DEF Accounted, Unsent
  <2>6. PICK n \in 0 .. Cardinality(Running) : inFlight' = inFlight + n
    BY <2>1
  <2>7. inFlight <= leaked + 0
    BY <2>1, <2>3 DEF CounterInv
  <2>8. /\ Cardinality(InCount') <= inFlight'
        /\ inFlight' <= leaked' + (Cardinality(Accounted') + Cardinality(Done'))
    BY <1>0, <2>1, <2>4, <2>5, <2>6, <2>7
  <2> QED BY <2>1, <2>8 DEF CounterInv
<1> QED BY <1>1, <1>2, <1>3, <1>4 DEF ProcessStep

LEMMA CounterInit == Init => CounterInv
<1> SUFFICES ASSUME Init PROVE CounterInv
  OBVIOUS
<1>1. inFlight = 0 /\ leaked = 0 /\ daemon = "off" /\ fires = << >> /\ \A f \in Flows : flow[f].pc = "idle"
  BY DEF Init, Idle
<1>2. Cardinality(InCount) = 0 /\ Cardinality(Done) = 0
  BY <1>1, CountedHold, NoneCounted
<1>3. Cardinality(Accounted) \in Nat
  BY TypeInit, CounterSets
<1> QED BY <1>1, <1>2, <1>3 DEF CounterInv

LEMMA CounterNext == TypeInv /\ CounterInv /\ [Next]_vars => CounterInv'
<1> SUFFICES ASSUME TypeInv, CounterInv, [Next]_vars PROVE CounterInv'
  OBVIOUS
<1>1. CASE ReconcileStep
  <2>1. UNCHANGED <<fires, daemon, inFlight, flow, leaked>>
    BY <1>1, ReconcileDoes DEF ReconcileStep
  <2> QED BY <2>1 DEF CounterInv, InCount, Done, Accounted, Running, Unsent
<1>2. CASE UNCHANGED vars
  BY <1>2 DEF vars, CounterInv, InCount, Done, Accounted, Running, Unsent
<1> QED BY <1>1, <1>2, NextIs, ProcessCounter, CatchUpCounter, TickCounter

\* While the daemon starts, its one fire is still running or done.
LEMMA CounterFollows == TypeInv /\ CounterInv => CounterCovers
<1> SUFFICES ASSUME TypeInv, CounterInv PROVE CounterCovers
  OBVIOUS
<1>1. InCount = {f \in Flows : Counted(f)} /\ Done = {f \in InCount : fires[flow[f].fire].status # "running"}
  BY DEF InCount, Counted, CountedPcs, Done
<1>2. /\ Cardinality(InCount) \in Nat /\ Cardinality(Done) \in Nat /\ Cardinality(Accounted) \in Nat
      /\ Cardinality(Running) \in Nat /\ inFlight \in Nat /\ leaked \in Nat
      /\ IsFiniteSet(Running) /\ IsFiniteSet(Done)
  BY CounterSets, Basics, FlowTypes
<1>3. CASE daemon # "starting"
  <2>1. Cardinality(Accounted) <= Cardinality(Running)
    BY <1>2, FS_Subset DEF Accounted
  <2>2. inFlight <= leaked + (Cardinality(Accounted) + Cardinality(Done))
    BY <1>3 DEF CounterInv
  <2>3. inFlight <= Cardinality(Running) + leaked + Cardinality(Done)
    BY <1>2, <2>1, <2>2
  <2> QED BY <1>1, <2>3 DEF CounterInv, CounterCovers
<1>4. CASE daemon = "starting"
  <2>1. \A f \in InCount : f = StartF
    <3>1. \A f \in Ticks : flow[f].pc = "idle"
      BY <1>4 DEF TypeInv, Phases
    <3> QED BY <3>1, FlowTypes, CountedHold DEF InCount
  <2>2. inFlight <= leaked + Cardinality(InCount)
    BY <1>4 DEF CounterInv
  <2>3. Cardinality(InCount) <= Cardinality(Running) + Cardinality(Done)
    <3>1. CASE InCount = {}
      <4>1. Cardinality(InCount) = 0
        BY <3>1, FS_EmptySet
      <4> QED BY <1>2, <4>1
    <3>2. CASE InCount # {}
      <4>1. InCount = {StartF} /\ flow[StartF].pc \in CountedPcs
        BY <2>1, <3>2 DEF InCount
      <4>2. Cardinality(InCount) = 1
        BY <4>1, FS_Singleton
      <4>3. CASE fires[flow[StartF].fire].status = "running"
        <5>1. flow[StartF].fire \in Running
          BY <4>1, <4>3, CountedHold, Basics, FlowTypes DEF Running
        <5>2. Cardinality(Running) # 0
          BY <1>2, <5>1, FS_EmptySet
        <5> QED BY <1>2, <4>2, <5>2
      <4>4. CASE fires[flow[StartF].fire].status # "running"
        <5>1. StartF \in Done
          BY <4>1, <4>4 DEF Done
        <5>2. Cardinality(Done) # 0
          BY <1>2, <5>1, FS_EmptySet
        <5> QED BY <1>2, <4>2, <5>2
      <4> QED BY <4>3, <4>4
    <3> QED BY <3>1, <3>2
  <2>4. inFlight <= Cardinality(Running) + leaked + Cardinality(Done)
    BY <1>2, <2>2, <2>3
  <2> QED BY <1>1, <2>4 DEF CounterInv, CounterCovers
<1> QED BY <1>3, <1>4

\* The in-memory counter that enforces maxConcurrentPerExt is never below the fires in progress, and
\* each place it holds beyond them is a row still running or a fire that a rejected statement gave up.
THEOREM CounterAlwaysCovers == Spec => []CounterCovers
BY TypeInit, TypeNext, CounterInit, CounterNext, CounterFollows, PTL DEF Spec

(***************************************************************************)
(* The quota of a day.                                                      *)
(***************************************************************************)
Bound == MaxRunsPerDay + MaxTicks - 1

\* No row of a day is added.
KeepsDays == \A d \in Nat : OfDay(fires', d) = OfDay(fires, d)

LEMMA QuotaSets ==
  ASSUME TypeInv, NEW d
  PROVE  /\ IsFiniteSet(OfDay(fires, d)) /\ Cardinality(OfDay(fires, d)) \in Nat
         /\ IsFiniteSet(Passed(d)) /\ Cardinality(Passed(d)) \in Nat
         /\ IsFiniteSet(Passed(d)') /\ Cardinality(Passed(d)') \in Nat /\ Cardinality(Passed(d)') <= MaxTicks
         /\ MaxRunsPerDay \in Nat /\ MaxTicks \in Nat /\ MaxTicks > 0
<1>1. OfDay(fires, d) \subseteq DOMAIN fires
  BY DEF OfDay
<1>2. Passed(d) \subseteq Ticks /\ Passed(d)' \subseteq Ticks
  BY DEF Passed
<1>3. IsFiniteSet(Passed(d)) /\ IsFiniteSet(Passed(d)') /\ Cardinality(Passed(d)') <= MaxTicks
  BY <1>2, FlowTypes, FS_Subset
<1>4. MaxRunsPerDay \in Nat /\ MaxTicks \in Nat /\ MaxTicks > 0
  BY ScheduleAssumption
<1> QED BY <1>1, <1>3, <1>4, Countable, FS_CardinalityType

LEMMA KeepsDaysWhen ==
  ASSUME TypeInv
  PROVE  /\ fires' = fires => KeepsDays
         /\ \A e : Adds(e) /\ e.day = Never => KeepsDays
         /\ \A k : Sends(k) => KeepsDays
         /\ \A k, st : Marks(k, st) => KeepsDays
<1>0. Len(fires) \in Nat /\ DOMAIN fires = 1 .. Len(fires)
  BY Basics, FlowTypes
<1>1. ASSUME fires' = fires PROVE KeepsDays
  BY <1>1 DEF KeepsDays
<1>2. ASSUME NEW e, Adds(e), e.day = Never PROVE KeepsDays
  <2>1. /\ DOMAIN fires' = 1 .. Len(fires) + 1 /\ fires'[Len(fires) + 1].day = Never
        /\ \A i \in DOMAIN fires : fires'[i] = fires[i]
    BY <1>2 DEF Adds, Like
  <2>2. ASSUME NEW d \in Nat PROVE OfDay(fires', d) = OfDay(fires, d)
    <3>1. \A k \in DOMAIN fires' : k \in DOMAIN fires \/ k = Len(fires) + 1
      BY <1>0, <2>1
    <3>2. \A k \in DOMAIN fires : k \in DOMAIN fires'
      BY <1>0, <2>1
    <3>3. Never # d
      BY DEF Never
    <3> QED BY <2>1, <3>1, <3>2, <3>3 DEF OfDay
  <2> QED BY <2>2 DEF KeepsDays
<1>3. ASSUME NEW k, Sends(k) PROVE KeepsDays
  <2>1. DOMAIN fires' = DOMAIN fires /\ \A i \in DOMAIN fires : fires'[i].day = fires[i].day /\ fires'[i].at = fires[i].at
    BY <1>0, <1>3 DEF Sends, Like
  <2> QED BY <2>1 DEF KeepsDays, OfDay
<1>4. ASSUME NEW k, NEW st, Marks(k, st) PROVE KeepsDays
  <2>1. DOMAIN fires' = DOMAIN fires /\ \A i \in DOMAIN fires : fires'[i].day = fires[i].day /\ fires'[i].at = fires[i].at
    BY <1>0, <1>4 DEF Marks
  <2> QED BY <2>1 DEF KeepsDays, OfDay
<1> QED BY <1>1, <1>2, <1>3, <1>4

\* A row of one day is added.
LEMMA AddsDay ==
  ASSUME TypeInv, NEW e, Adds(e), NEW d
  PROVE  /\ Cardinality(OfDay(fires', d)) <= Cardinality(OfDay(fires, d)) + 1
         /\ Cardinality(OfDay(fires', d)) \in Nat
         /\ e.day # d => Cardinality(OfDay(fires', d)) = Cardinality(OfDay(fires, d))
<1> DEFINE n == Len(fires) + 1
<1>1. /\ n \in Nat /\ DOMAIN fires = 1 .. Len(fires) /\ DOMAIN fires' = 1 .. n /\ fires'[n].day = e.day
      /\ n \notin DOMAIN fires
      /\ \A i \in DOMAIN fires : fires'[i] = fires[i]
  BY Basics, FlowTypes DEF Adds, Like
<1>2. DOMAIN fires' = DOMAIN fires \cup {n}
  BY <1>1, Basics, FlowTypes
<1> HIDE DEF n
<1>3. OfDay(fires', d) \subseteq OfDay(fires, d) \cup {n} /\ (e.day # d => OfDay(fires', d) = OfDay(fires, d))
  BY <1>1, <1>2 DEF OfDay
<1>4. IsFiniteSet(OfDay(fires, d)) /\ Cardinality(OfDay(fires, d)) \in Nat /\ n \notin OfDay(fires, d)
  BY <1>1, QuotaSets DEF OfDay
<1>5. IsFiniteSet(OfDay(fires, d) \cup {n}) /\ Cardinality(OfDay(fires, d) \cup {n}) = Cardinality(OfDay(fires, d)) + 1
  BY <1>4, FS_AddElement
<1>6. /\ Cardinality(OfDay(fires', d)) <= Cardinality(OfDay(fires, d) \cup {n})
      /\ IsFiniteSet(OfDay(fires', d))
  BY <1>3, <1>5, FS_Subset
<1> QED BY <1>3, <1>5, <1>6, FS_CardinalityType

\* The flow is not, or no longer, one that has passed the check.
LEMMA PassedLess ==
  ASSUME TypeInv, NEW f \in Flows, Only(f), flow'[f].pc \notin {"insert", "nowInsert"}, NEW d
  PROVE  /\ Cardinality(Passed(d)') <= Cardinality(Passed(d))
         /\ f \in Passed(d) => Cardinality(Passed(d)') <= Cardinality(Passed(d)) - 1
<1>1. Passed(d)' \subseteq Passed(d) \ {f}
  BY FlowTypes DEF Only, Passed
<1>2. IsFiniteSet(Passed(d)) /\ IsFiniteSet(Passed(d) \ {f})
  BY QuotaSets, FS_Subset
<1>3. Cardinality(Passed(d)') <= Cardinality(Passed(d) \ {f})
  BY <1>1, <1>2, FS_Subset
<1>4. ASSUME f \in Passed(d) PROVE Cardinality(Passed(d) \ {f}) = Cardinality(Passed(d)) - 1
  BY <1>2, <1>4, FS_RemoveElement
<1>5. Cardinality(Passed(d)') <= Cardinality(Passed(d))
  BY <1>1, <1>2, FS_Subset
<1> QED BY <1>3, <1>4, <1>5

\* A tick never runs while the start catches up.
LEMMA QuotaStep ==
  ASSUME TypeInv, QuotaInv, NEW f \in Flows, Acts(f),
         \A d \in Nat : Cardinality(OfDay(fires', d)) + Cardinality(Passed(d)') <= Bound,
         f = StartF => (CatchesUp(flow'[StartF], fires') =>
                          Cardinality(OfDay(fires', flow'[StartF].day)) <= flow'[StartF].count)
  PROVE  QuotaInv'
<1>1. CASE f = StartF
  BY <1>1 DEF QuotaInv, Bound
<1>2. CASE f \in Ticks
  <2>1. flow[StartF].pc = "idle" /\ flow'[StartF].pc = "idle"
    <3>1. flow[f].pc # "idle" \/ daemon = "up"
      BY DEF Acts
    <3>2. flow[StartF].pc = "idle"
      BY <1>2, <3>1, StartRuns
    <3> QED BY <1>2, <3>2, FlowTypes DEF Acts, Only
  <2>2. ~CatchesUp(flow'[StartF], fires')
    BY <2>1 DEF CatchesUp, DispatchPcs
  <2> QED BY <2>2 DEF QuotaInv, Bound
<1> QED BY <1>1, <1>2, FlowTypes

\* A step that adds no row of a day, of a flow that has not just passed the check; if the start catches
\* up then, it did before.
LEMMA QuietQuota ==
  ASSUME TypeInv, QuotaInv, NEW f \in Flows, Acts(f), KeepsDays, flow'[f].pc \notin {"insert", "nowInsert"},
         f = StartF => (CatchesUp(flow'[StartF], fires') =>
                          /\ CatchesUp(flow[StartF], fires)
                          /\ flow'[StartF].day = flow[StartF].day /\ flow'[StartF].count = flow[StartF].count)
  PROVE  QuotaInv'
<1>1. ASSUME NEW d \in Nat PROVE Cardinality(OfDay(fires', d)) + Cardinality(Passed(d)') <= Bound
  <2>1. Cardinality(OfDay(fires', d)) = Cardinality(OfDay(fires, d))
    BY DEF KeepsDays
  <2>2. Cardinality(Passed(d)') <= Cardinality(Passed(d))
    BY PassedLess DEF Acts
  <2>3. Cardinality(OfDay(fires, d)) + Cardinality(Passed(d)) <= Bound /\ Bound \in Int
    BY QuotaSets DEF QuotaInv, Bound
  <2> QED BY <2>1, <2>2, <2>3, QuotaSets
<1>2. ASSUME f = StartF, CatchesUp(flow'[StartF], fires')
      PROVE  Cardinality(OfDay(fires', flow'[StartF].day)) <= flow'[StartF].count
  <2>1. Cardinality(OfDay(fires, flow[StartF].day)) <= flow[StartF].count
    BY <1>2 DEF QuotaInv
  <2>2. flow[StartF].day \in Nat
    BY Basics, FlowTypes DEF FlowRec
  <2>3. OfDay(fires', flow[StartF].day) = OfDay(fires, flow[StartF].day)
    BY <2>2 DEF KeepsDays
  <2> QED BY <1>2, <2>1, <2>3
<1> QED BY <1>1, <1>2, QuotaStep

\* The rows of today are counted by todaysFireCount.
LEMMA TodayCounts ==
  ASSUME TypeInv
  PROVE  /\ Cardinality(OfDay(fires, day(now))) <= todaysFireCount /\ todaysFireCount \in Nat
         /\ day(now) \in Nat
<1> DEFINE S == {k \in DOMAIN fires : day(fires[k].at) >= day(now)}
<1>1. OfDay(fires, day(now)) \subseteq S /\ S \subseteq DOMAIN fires
  BY DEF OfDay
<1>2. IsFiniteSet(S) /\ Cardinality(S) \in Nat
  BY <1>1, Countable
<1>3. day(now) \in Nat
  BY Basics, FlowTypes, DayType
<1> QED BY <1>1, <1>2, <1>3, FS_Subset DEF todaysFireCount

\* A tick or fireNow passes the check: fewer rows of the day than the quota, and at most MaxTicks
\* flows past the check.
LEMMA PassesQuota ==
  ASSUME TypeInv, QuotaInv, NEW f \in Ticks, Acts(f), fires' = fires, Only(f), flow'[f].day = day(now),
         todaysFireCount < MaxRunsPerDay
  PROVE  QuotaInv'
<1>1. ASSUME NEW d \in Nat PROVE Cardinality(OfDay(fires', d)) + Cardinality(Passed(d)') <= Bound
  <2>1. CASE d = day(now)
    <3>1. Cardinality(OfDay(fires, d)) <= todaysFireCount /\ todaysFireCount \in Nat
      BY <2>1, TodayCounts
    <3>2. /\ Cardinality(OfDay(fires, d)) \in Nat /\ Cardinality(Passed(d)') \in Nat
          /\ Cardinality(Passed(d)') <= MaxTicks /\ MaxRunsPerDay \in Nat /\ MaxTicks \in Nat
      BY QuotaSets
    <3> QED BY <3>1, <3>2 DEF Bound
  <2>2. CASE d # day(now)
    <3>1. Passed(d)' \subseteq Passed(d)
      BY <2>2, FlowTypes DEF Passed, Only
    <3>2. Cardinality(Passed(d)') <= Cardinality(Passed(d))
      BY <3>1, QuotaSets, FS_Subset
    <3>3. Cardinality(OfDay(fires, d)) + Cardinality(Passed(d)) <= Bound /\ Bound \in Int
      BY QuotaSets DEF QuotaInv, Bound
    <3> QED BY <3>2, <3>3, QuotaSets
  <2> QED BY <2>1, <2>2
<1>2. f \in Flows /\ f # StartF
  BY FlowTypes
<1> QED BY <1>1, <1>2, QuotaStep

\* The claim of a flow that had passed the check: one less past the check, one row more.
LEMMA ClaimsQuota ==
  ASSUME TypeInv, QuotaInv, NEW f \in Ticks, Acts(f), NEW e, Adds(e), e.day = flow[f].day,
         flow[f].pc \in {"insert", "nowInsert"}, flow'[f].pc \notin {"insert", "nowInsert"}
  PROVE  QuotaInv'
<1>0. f \in Flows /\ f # StartF /\ Only(f)
  BY FlowTypes DEF Acts
<1>1. ASSUME NEW d \in Nat PROVE Cardinality(OfDay(fires', d)) + Cardinality(Passed(d)') <= Bound
  <2>1. Cardinality(OfDay(fires, d)) + Cardinality(Passed(d)) <= Bound /\ Bound \in Int
    BY QuotaSets DEF QuotaInv, Bound
  <2>2. CASE d = flow[f].day
    <3>1. f \in Passed(d)
      BY <2>2 DEF Passed
    <3>2. Cardinality(Passed(d)') <= Cardinality(Passed(d)) - 1
      BY <1>0, <3>1, PassedLess
    <3>3. Cardinality(OfDay(fires', d)) <= Cardinality(OfDay(fires, d)) + 1 /\ Cardinality(OfDay(fires', d)) \in Nat
      BY AddsDay
    <3> QED BY <2>1, <3>2, <3>3, QuotaSets
  <2>3. CASE d # flow[f].day
    <3>1. Cardinality(OfDay(fires', d)) = Cardinality(OfDay(fires, d))
      BY <2>3, AddsDay
    <3>2. Cardinality(Passed(d)') <= Cardinality(Passed(d))
      BY <1>0, PassedLess
    <3> QED BY <2>1, <3>1, <3>2, QuotaSets
  <2> QED BY <2>2, <2>3
<1> QED BY <1>0, <1>1, QuotaStep

\* The steps of a dispatch keep what the fire is for.
LEMMA DispatchQuota ==
  ASSUME TypeInv, QuotaInv, NEW f \in Flows,
         \/ OkFire(f) \/ OkSched(f) \/ ErrFire(f) \/ RetryInsert(f) \/ ErrSched(f) \/ CompletionThrows(f)
  PROVE  QuotaInv'
<1>0. /\ Acts(f) /\ flow[f].pc \in DispatchPcs /\ flow[f].pc \in HoldPcs
      /\ flow[f].fire \in DOMAIN fires
  <2>1. Acts(f)
    BY FlowActs DEF TickStep, FlowStep, Throws
  <2>2. flow[f].pc \in DispatchPcs
    BY DEF OkFire, OkSched, ErrFire, RetryInsert, ErrSched, CompletionThrows, DispatchPcs
  <2>3. flow[f].pc \in HoldPcs
    BY <2>2 DEF HoldPcs
  <2> QED BY <2>1, <2>2, <2>3, Basics
<1>1. CASE OkFire(f) \/ ErrFire(f) \/ CompletionThrows(f)
  <2>1. \E pc \in DispatchPcs : Moved(f, pc)
    BY <1>1, OkFireDoes, ErrFireDoes, CompletionThrowsDoes DEF ErrPc, DispatchPcs
  <2>2. KeepsDays /\ fires'[flow[f].fire].via = fires[flow[f].fire].via
    <3>1. CASE OkFire(f)
      BY <3>1, OkFireDoes, KeepsDaysWhen DEF Marks
    <3>2. CASE ErrFire(f)
      BY <3>2, ErrFireDoes, KeepsDaysWhen DEF Marks
    <3>3. CASE CompletionThrows(f)
      BY <3>3, KeepsDaysWhen DEF CompletionThrows, tables
    <3> QED BY <1>1, <3>1, <3>2, <3>3
  <2>3. flow'[f].pc \in DispatchPcs /\ flow'[f].fire = flow[f].fire /\ flow'[f].day = flow[f].day
        /\ flow'[f].count = flow[f].count
    BY <2>1 DEF Moved
  <2>4. flow'[f].pc \notin {"insert", "nowInsert", "missedLoop"} /\ flow[f].pc # "missedLoop"
    BY <1>0, <2>3 DEF DispatchPcs
  <2>5. CatchesUp(flow'[f], fires') => CatchesUp(flow[f], fires)
    BY <1>0, <2>2, <2>3, <2>4 DEF CatchesUp
  <2> QED BY <1>0, <2>2, <2>3, <2>4, <2>5, QuietQuota
<1>2. CASE RetryInsert(f)
  <2>1. /\ Adds(Retry(f)) /\ Dispatched(f, Len(fires) + 1, flow[f]) /\ Retry(f).day = Never
        /\ Retry(f).via = fires[flow[f].fire].via
    BY <1>2, RetryInsertDoes
  <2>2. KeepsDays /\ fires'[Len(fires) + 1].via = fires[flow[f].fire].via
    BY <2>1, KeepsDaysWhen DEF Adds, Like
  <2>3. /\ flow'[f].pc \notin {"insert", "nowInsert", "missedLoop"} /\ flow'[f].fire = Len(fires) + 1
        /\ flow'[f].day = flow[f].day /\ flow'[f].count = flow[f].count
    BY <2>1 DEF Dispatched
  <2>4. CatchesUp(flow'[f], fires') => CatchesUp(flow[f], fires)
    BY <1>0, <2>2, <2>3 DEF CatchesUp
  <2> QED BY <1>0, <2>2, <2>3, <2>4, QuietQuota
<1>3. CASE OkSched(f) \/ ErrSched(f)
  <2>1. (f \in Ticks => Leaves(f)) /\ (f = StartF => Moved(f, AfterPc(f))) /\ fires' = fires
    BY <1>3, OkSchedDoes, ErrSchedDoes DEF OkSched, ErrSched
  <2>2. KeepsDays
    BY <2>1, KeepsDaysWhen
  <2>3. CASE f \in Ticks
    <3>1. flow'[f].pc \notin {"insert", "nowInsert"} /\ f # StartF
      BY <2>1, <2>3, FlowTypes DEF Leaves, Takes, Emptied
    <3> QED BY <1>0, <2>2, <3>1, QuietQuota
  <2>4. CASE f = StartF
    <3>1. /\ flow'[f].pc = AfterPc(f) /\ flow'[f].day = flow[f].day /\ flow'[f].count = flow[f].count
      BY <2>1, <2>4 DEF Moved
    <3>2. flow'[f].pc \notin {"insert", "nowInsert"} \cup DispatchPcs
      BY <3>1 DEF AfterPc, DispatchPcs
    <3>3. CatchesUp(flow'[f], fires') => CatchesUp(flow[f], fires)
      BY <1>0, <3>1, <3>2 DEF CatchesUp, AfterPc
    <3> QED BY <1>0, <2>2, <2>4, <3>1, <3>2, <3>3, QuietQuota
  <2> QED BY <2>3, <2>4, FlowTypes
<1> QED BY <1>1, <1>2, <1>3

LEMMA TickQuotaHeld ==
  ASSUME TypeInv, QuotaInv, NEW f \in Flows, TickStep(f)
  PROVE  QuotaInv'
<1>0. Acts(f) /\ Only(f)
  BY FlowActs DEF Acts
<1>1. CASE \/ OkFire(f) \/ OkSched(f) \/ ErrFire(f) \/ RetryInsert(f) \/ ErrSched(f) \/ CompletionThrows(f)
  BY <1>1, DispatchQuota
<1>2. CASE TickQuota(f)
  <2>1. Checked(f, QuotaPc) /\ f \in Ticks /\ fires' = fires
    BY <1>2, TickQuotaDoes DEF TickQuota, tables
  <2>2. CASE todaysFireCount >= MaxRunsPerDay
    <3>1. flow'[f].pc = "skipSlot" /\ f # StartF
      BY <2>1, <2>2, FlowTypes DEF Checked, QuotaPc
    <3> QED BY <1>0, <2>1, <3>1, KeepsDaysWhen, QuietQuota
  <2>3. CASE ~(todaysFireCount >= MaxRunsPerDay)
    <3>1. todaysFireCount < MaxRunsPerDay
      BY <2>3, TodayCounts, ScheduleAssumption
    <3> QED BY <1>0, <2>1, <3>1, PassesQuota DEF Checked
  <2> QED BY <2>2, <2>3
<1>3. CASE NowQuota(f)
  <2>1. f \in Ticks /\ f # StartF /\ fires' = fires
    BY <1>3, NowQuotaDoes, FlowTypes DEF NowQuota, tables
  <2>2. CASE todaysFireCount >= MaxRunsPerDay
    <3>1. flow'[f].pc = "idle"
      BY <1>3, <2>2, NowQuotaDoes DEF Emptied
    <3> QED BY <1>0, <2>1, <3>1, KeepsDaysWhen, QuietQuota
  <2>3. CASE ~(todaysFireCount >= MaxRunsPerDay)
    <3>1. todaysFireCount < MaxRunsPerDay
      BY <2>3, TodayCounts, ScheduleAssumption
    <3>2. flow'[f].day = day(now)
      BY <1>3, <2>3, NowQuotaDoes DEF Checked
    <3> QED BY <1>0, <2>1, <3>1, <3>2, PassesQuota
  <2> QED BY <2>2, <2>3
<1>4. CASE TickInserts(f)
  <2>1. PICK e : Adds(e) /\ Claim(f, e)
    BY <1>4, TickInsertsDoes
  <2>2. e.day = flow[f].day /\ flow[f].pc = "insert" /\ flow'[f].pc = "advance" /\ f \in Ticks
    BY <1>4, <2>1, TickInsertsDoes DEF Claim, Claims
  <2> QED BY <1>0, <2>1, <2>2, ClaimsQuota
<1>5. CASE NowInserts(f)
  <2>1. PICK e : Adds(e) /\ e.day = flow[f].day
    BY <1>5, NowInsertsDoes
  <2>2. flow[f].pc = "nowInsert" /\ flow'[f].pc \notin {"insert", "nowInsert"} /\ f \in Ticks
    BY <1>5, NowInsertsDoes DEF Dispatched
  <2> QED BY <1>0, <2>1, <2>2, ClaimsQuota
<1>6. CASE TickAdvances(f)
  <2>1. Sends(flow[f].fire) /\ f \in Ticks /\ flow'[f].pc \notin {"insert", "nowInsert"}
    BY <1>6, TickAdvancesDoes DEF Dispatched
  <2> QED BY <1>0, <2>1, KeepsDaysWhen, QuietQuota, FlowTypes
<1>7. CASE DispatchThrows(f) \/ FlowThrows(f)
  <2>1. Thrown(f) /\ fires' = fires
    BY <1>7, DispatchThrowsDoes, FlowThrowsDoes DEF DispatchThrows, FlowThrows, tables
  <2>2. CASE f \in Ticks
    <3>1. flow'[f].pc \notin {"insert", "nowInsert"} /\ f # StartF
      BY <2>1, <2>2, FlowTypes DEF Thrown, Leaves, Takes, Emptied
    <3> QED BY <1>0, <2>1, <3>1, KeepsDaysWhen, QuietQuota
  <2>3. CASE f = StartF
    <3>1. flow'[f].pc \in PlainPcs
      BY <2>1, <2>3 DEF Thrown, Moved
    <3>2. flow'[f].pc \notin {"insert", "nowInsert"} /\ ~CatchesUp(flow'[f], fires')
      BY <3>1 DEF PlainPcs, CatchesUp, DispatchPcs
    <3> QED BY <1>0, <2>1, <2>3, <3>2, KeepsDaysWhen, QuietQuota
  <2> QED BY <2>2, <2>3, FlowTypes
<1>8. CASE TickSkipsSlot(f) \/ WakeTick(f) \/ \E s \in Schedules : FireNow(f, s)
  <2>1. fires' = fires /\ f \in Ticks
    BY <1>8, TickSkipsSlotDoes, WakeTickDoes, FireNowDoes DEF TickSkipsSlot, WakeTick, FireNow, tables
  <2>2. flow'[f].pc \notin {"insert", "nowInsert"}
    BY <1>8, TickSkipsSlotDoes, WakeTickDoes, FireNowDoes DEF Leaves, Takes, Emptied, Wakes, NowStarts
  <2> QED BY <1>0, <2>1, <2>2, KeepsDaysWhen, QuietQuota, FlowTypes
<1> QED BY <1>1, <1>2, <1>3, <1>4, <1>5, <1>6, <1>7, <1>8 DEF TickStep, FlowStep, Throws

LEMMA CatchUpQuota ==
  ASSUME TypeInv, QuotaInv, CatchUpStep
  PROVE  QuotaInv'
<1>0. Acts(StartF) /\ Only(StartF) /\ StartF \in Flows /\ flow[StartF].pc # "idle"
  BY CatchUpActs, FlowTypes DEF Acts
<1>1. CASE AllInserts
  <2>1. PICK e : Adds(e) /\ Catch(e, flow[StartF].cursor, "all", flow[StartF].day)
    BY <1>1, AllInsertsDoes
  <2>2. /\ flow'[StartF].count = flow[StartF].count + 1 /\ flow'[StartF].day = flow[StartF].day
        /\ flow[StartF].count < MaxRunsPerDay /\ flow[StartF].pc = "missedLoop"
        /\ flow'[StartF].pc \notin {"insert", "nowInsert"}
    BY <1>1, AllInsertsDoes DEF Dispatched
  <2> PICK c \in Nat, t \in Nat : c = flow[StartF].count /\ t = flow[StartF].day
    BY <2>2, StartRowIs
  <2>3. Cardinality(OfDay(fires, t)) <= c
    BY <2>2 DEF QuotaInv, CatchesUp
  <2>4. e.day = t
    BY <2>1 DEF Catch
  <2>5. Cardinality(OfDay(fires', t)) <= c + 1 /\ Cardinality(OfDay(fires', t)) \in Nat
    BY <2>1, <2>3, AddsDay, QuotaSets
  <2>6. ASSUME NEW d \in Nat PROVE Cardinality(OfDay(fires', d)) + Cardinality(Passed(d)') <= Bound
    <3>1. Cardinality(Passed(d)') = 0
      <4>1. Passed(d)' = {}
        BY <1>0, StartRuns, FlowTypes DEF Passed, Only
      <4> QED BY <4>1, FS_EmptySet
    <3>2. CASE d = t
      BY <2>2, <2>5, <3>1, <3>2, QuotaSets DEF Bound
    <3>3. CASE d # t
      <4>1. Cardinality(OfDay(fires', d)) = Cardinality(OfDay(fires, d))
        BY <2>1, <2>4, <3>3, AddsDay
      <4>2. Cardinality(OfDay(fires, d)) + Cardinality(Passed(d)) <= Bound /\ Bound \in Int
        BY QuotaSets DEF QuotaInv, Bound
      <4> QED BY <3>1, <4>1, <4>2, QuotaSets
    <3> QED BY <3>2, <3>3
  <2>7. Cardinality(OfDay(fires', flow'[StartF].day)) <= flow'[StartF].count
    BY <2>2, <2>5
  <2> QED BY <1>0, <2>6, <2>7, QuotaStep
<1>2. CASE MissedCounts
  <2>1. Counts(flow[StartF].row.id) /\ fires' = fires
    BY <1>2, MissedCountsDoes DEF MissedCounts, tables
  <2>2. ASSUME NEW d \in Nat PROVE Cardinality(OfDay(fires', d)) + Cardinality(Passed(d)') <= Bound
    <3>1. flow'[StartF].pc \notin {"insert", "nowInsert"}
      BY <2>1 DEF Counts
    <3>2. Cardinality(Passed(d)') <= Cardinality(Passed(d))
      BY <1>0, <3>1, PassedLess
    <3>3. Cardinality(OfDay(fires, d)) + Cardinality(Passed(d)) <= Bound /\ Bound \in Int
      BY QuotaSets DEF QuotaInv, Bound
    <3> QED BY <2>1, <3>2, <3>3, QuotaSets
  <2>3. Cardinality(OfDay(fires', flow'[StartF].day)) <= flow'[StartF].count
    BY <2>1, TodayCounts DEF Counts
  <2> QED BY <1>0, <2>2, <2>3, QuotaStep
<1>3. CASE OnceInserts
  <2>1. PICK e : Adds(e) /\ Catch(e, flow[StartF].row.next, "once", Never)
    BY <1>3, OnceInsertsDoes
  <2>2. KeepsDays /\ fires'[Len(fires) + 1].via = "once"
    BY <2>1, KeepsDaysWhen DEF Catch, Adds, Like
  <2>3. flow'[StartF].pc \in {"okFire", "errFire"} /\ flow'[StartF].fire = Len(fires) + 1
    BY <1>3, OnceInsertsDoes DEF Dispatched
  <2>4. ~CatchesUp(flow'[StartF], fires') /\ flow'[StartF].pc \notin {"insert", "nowInsert"}
    BY <2>2, <2>3 DEF CatchesUp
  <2> QED BY <1>0, <2>2, <2>4, QuietQuota
<1>4. CASE \/ ReapSelects \/ ReapFire \/ ReapSched \/ MissedSelects \/ MissedSkips
           \/ \E policy \in Policies : MissedRow(policy)
           \/ MissedAdvances \/ AllAdvances
  <2>1. KeepsDays
    <3>1. CASE ReapFire
      BY <3>1, ReapFireDoes, KeepsDaysWhen DEF Reaps
    <3>2. CASE ~ReapFire
      <4>1. fires' = fires
        BY <1>4, <3>2 DEF ReapSelects, ReapSched, MissedSelects, MissedSkips, MissedRow, MissedAdvances,
                          AllAdvances, tables
      <4> QED BY <4>1, KeepsDaysWhen
    <3> QED BY <3>1, <3>2
  <2>2. flow'[StartF].pc \in {"reapFire", "reapSched", "missedRow"} \cup Policies
    <3>1. CASE ReapSelects \/ ReapFire \/ ReapSched
      BY <3>1, ReapSelectsDoes, ReapFireDoes, ReapSchedDoes DEF Reaps, Moved
    <3>2. CASE MissedSelects \/ \E policy \in Policies : MissedRow(policy)
      BY <3>2, MissedSelectsDoes, MissedRowDoes DEF Emptied, Takes
    <3>3. CASE MissedSkips \/ MissedAdvances \/ AllAdvances
      BY <3>3, MissedSkipsDoes, MissedAdvancesDoes, AllAdvancesDoes DEF Moved
    <3> QED BY <1>4, <3>1, <3>2, <3>3
  <2>3. ~CatchesUp(flow'[StartF], fires') /\ flow'[StartF].pc \notin {"insert", "nowInsert"}
    BY <2>2 DEF CatchesUp, DispatchPcs, Policies
  <2> QED BY <1>0, <2>1, <2>3, QuietQuota
<1> QED BY <1>1, <1>2, <1>3, <1>4 DEF CatchUpStep

LEMMA ProcessQuota ==
  ASSUME TypeInv, QuotaInv, ProcessStep
  PROVE  QuotaInv'
<1>1. fires' = fires
  BY DEF ProcessStep, Start, StartRefused, Seeds, SeedThrows, Stop, Exit, TimePasses, tables
<1>2. CASE StartRefused \/ Stop \/ TimePasses
  BY <1>1, <1>2 DEF StartRefused, Stop, TimePasses, QuotaInv, Passed
<1>3. CASE Start \/ Seeds \/ SeedThrows \/ Exit
  <2>1. /\ \A f \in Ticks : flow'[f] = flow[f] \/ flow'[f].pc = "idle"
        /\ flow'[StartF].pc \in {"idle", "reapSelect"}
    <3>1. CASE Start
      BY <3>1, Basics, FlowTypes DEF Start, FlowRec
    <3>2. CASE Seeds \/ SeedThrows
      BY <3>2, SeedsDoes, FlowTypes DEF Emptied, Only
    <3>3. CASE Exit
      BY <3>3, FlowTypes DEF Exit, Idle
    <3> QED BY <1>3, <3>1, <3>2, <3>3
  <2>2. ASSUME NEW d \in Nat PROVE Cardinality(OfDay(fires', d)) + Cardinality(Passed(d)') <= Bound
    <3>1. Passed(d)' \subseteq Passed(d)
      BY <2>1 DEF Passed
    <3>2. Cardinality(Passed(d)') <= Cardinality(Passed(d))
      BY <3>1, QuotaSets, FS_Subset
    <3>3. Cardinality(OfDay(fires, d)) + Cardinality(Passed(d)) <= Bound /\ Bound \in Int
      BY QuotaSets DEF QuotaInv, Bound
    <3> QED BY <1>1, <3>2, <3>3, QuotaSets
  <2>3. ~CatchesUp(flow'[StartF], fires')
    BY <2>1 DEF CatchesUp, DispatchPcs
  <2> QED BY <2>2, <2>3 DEF QuotaInv, Bound
<1> QED BY <1>2, <1>3 DEF ProcessStep

LEMMA QuotaInit == Init => QuotaInv
<1> SUFFICES ASSUME Init PROVE QuotaInv
  OBVIOUS
<1>1. fires = << >> /\ \A f \in Flows : flow[f].pc = "idle"
  BY DEF Init, Idle
<1>2. \A d \in Nat : OfDay(fires, d) = {} /\ Passed(d) = {}
  BY <1>1, FlowTypes DEF OfDay, Passed
<1>3. ~CatchesUp(flow[StartF], fires)
  BY <1>1, FlowTypes DEF CatchesUp, DispatchPcs
<1>4. 0 + 0 <= MaxRunsPerDay + MaxTicks - 1
  BY ScheduleAssumption
<1> QED BY <1>2, <1>3, <1>4, FS_EmptySet DEF QuotaInv

LEMMA QuotaNext == TypeInv /\ QuotaInv /\ [Next]_vars => QuotaInv'
<1> SUFFICES ASSUME TypeInv, QuotaInv, [Next]_vars PROVE QuotaInv'
  OBVIOUS
<1>1. CASE ReconcileStep
  <2>1. UNCHANGED <<fires, flow>>
    BY <1>1, ReconcileDoes DEF ReconcileStep
  <2> QED BY <2>1 DEF QuotaInv, Passed
<1>2. CASE UNCHANGED vars
  BY <1>2 DEF vars, QuotaInv, Passed
<1> QED BY <1>1, <1>2, NextIs, ProcessQuota, CatchUpQuota, TickQuotaHeld

LEMMA QuotaFollows == TypeInv /\ QuotaInv => QuotaHeld
<1> SUFFICES ASSUME TypeInv, QuotaInv, NEW d \in 0 .. day(MaxTime)
             PROVE  Cardinality(OfDay(fires, d)) <= MaxRunsPerDay + MaxTicks - 1
  BY DEF QuotaHeld, OfDay
<1>1. d \in Nat
  BY DayType, ScheduleAssumption
<1>2. Cardinality(OfDay(fires, d)) + Cardinality(Passed(d)) <= MaxRunsPerDay + MaxTicks - 1
  BY <1>1 DEF QuotaInv
<1> QED BY <1>2, QuotaSets

\* The claims of a day that look at maxRunsPerDay exceed it by no more than the flows that can have
\* looked at the same time, across ticks, fireNow, the fire-all catch-up and restarts.
THEOREM QuotaAlwaysHeld == Spec => []QuotaHeld
BY TypeInit, TypeNext, QuotaInit, QuotaNext, QuotaFollows, PTL DEF Spec

(***************************************************************************)
(* The slots: rows, snapshots and fires keep to the grid of their schedule. *)
(***************************************************************************)
SamePresent == \A s \in Schedules : sched'[s].present = sched[s].present

\* The rows stay as they are, except for the status, and for the fire that flow f dispatches.
FiresGrow(f) ==
  /\ DOMAIN fires \subseteq DOMAIN fires'
  /\ \A k \in DOMAIN fires :
       /\ fires'[k].sched = fires[k].sched /\ fires'[k].slot = fires[k].slot
       /\ fires'[k].at = fires[k].at /\ fires'[k].via = fires[k].via
       /\ fires'[k].sent # fires[k].sent => flow[f].pc = "advance" /\ k = flow[f].fire

LEMMA GrowWhen ==
  ASSUME TypeInv, NEW f \in Flows
  PROVE  /\ fires' = fires => FiresGrow(f)
         /\ \A e : Adds(e) => FiresGrow(f)
         /\ \A k, st : Marks(k, st) => FiresGrow(f)
         /\ flow[f].pc = "advance" /\ Sends(flow[f].fire) => FiresGrow(f)
<1>0. Len(fires) \in Nat /\ DOMAIN fires = 1 .. Len(fires)
  BY Basics
<1>1. ASSUME fires' = fires PROVE FiresGrow(f)
  BY <1>1 DEF FiresGrow
<1>2. ASSUME NEW e, Adds(e) PROVE FiresGrow(f)
  <2>1. DOMAIN fires \subseteq DOMAIN fires' /\ \A i \in DOMAIN fires : fires'[i] = fires[i]
    BY <1>0, <1>2 DEF Adds
  <2> QED BY <2>1 DEF FiresGrow
<1>3. ASSUME NEW k, NEW st, Marks(k, st) PROVE FiresGrow(f)
  <2>1. DOMAIN fires \subseteq DOMAIN fires'
    BY <1>0, <1>3 DEF Marks
  <2> QED BY <1>3, <2>1 DEF Marks, FiresGrow
<1>4. ASSUME flow[f].pc = "advance", Sends(flow[f].fire) PROVE FiresGrow(f)
  <2>1. DOMAIN fires \subseteq DOMAIN fires'
    BY <1>0, <1>4 DEF Sends
  <2> PICK k : k = flow[f].fire
    OBVIOUS
  <2>2. Sends(k)
    BY <1>4
  <2> QED BY <1>4, <2>1, <2>2 DEF Sends, Like, FiresGrow
<1> QED BY <1>1, <1>2, <1>3, <1>4

\* The schedule row of a flow, and the rows it has left.
LEMMA FlowIds ==
  ASSUME TypeInv, NEW f \in Flows
  PROVE  /\ flow[f].pc \in RowPcs => flow[f].row.id \in Schedules
         /\ \A i \in DOMAIN flow[f].due : flow[f].due[i] \in DueRec /\ flow[f].due[i].id \in Schedules
         /\ flow[f].at \in Nat /\ flow[f].row.next \in Nat /\ flow[f].firedAt \in Nat /\ flow[f].cursor \in Nat
<1>1. flow[f] \in FlowRec /\ Fits(f, flow[f], fires, maxRetries)
  BY Basics
<1>2. flow[f].due \in Seq(DueRec)
  BY <1>1 DEF FlowRec
<1>3. \A i \in DOMAIN flow[f].due : flow[f].due[i] \in DueRec
  BY <1>2
<1> QED BY <1>1, <1>3 DEF Fits, FlowRec, DueRec, Snapshot

LEMMA PcFacts ==
  /\ PendPcs \subseteq RowPcs /\ DispatchPcs \subseteq RowPcs /\ StartRow \subseteq RowPcs /\ "advance" \in PendPcs
  /\ RestPcs \cap (PendPcs \cup DispatchPcs \cup StartRow) = {}
  /\ CatchPcs \subseteq StartRow /\ DispatchPcs \subseteq CatchPcs /\ Policies \subseteq StartRow
  /\ PlainPcs \cap (RowPcs \cup RestPcs \cup PendPcs \cup StartRow) = {}
  /\ "idle" \notin RowPcs /\ TickPcs \subseteq PendPcs \cup RestPcs
  /\ PendPcs \subseteq TickPcs /\ PendPcs \cap DispatchPcs = {}
BY DEF PendPcs, RowPcs, DispatchPcs, StartRow, RestPcs, CatchPcs, PlainPcs, Policies, TickPcs

\* What a flow does with its rows.
SameRow(f) == flow'[f].at = flow[f].at /\ flow'[f].due = flow[f].due /\ flow'[f].row = flow[f].row

LEMMA KeptKnown ==
  ASSUME TypeInv, NEW f \in Flows, FlowKnown(f), SamePresent, SameRow(f),
         flow'[f].pc \in RestPcs => flow[f].pc \in RestPcs,
         flow'[f].pc \in RowPcs => flow[f].pc \in RowPcs,
         flow'[f].pc \in PendPcs => flow[f].pc \in PendPcs,
         flow'[f].pc \in DispatchPcs /\ f \in Ticks => flow[f].pc \in PendPcs \cup DispatchPcs \cup RestPcs,
         flow'[f].pc = "advance" => Unclaimed(fires'[flow'[f].fire], flow'[f])
  PROVE  FlowKnown(f)'
<1>1. ASSUME NEW i \in DOMAIN flow[f].due PROVE Known(flow[f].due[i], flow[f].at)'
  BY FlowIds DEF FlowKnown, Known, SamePresent, SameRow
<1>2. flow'[f].pc \in RestPcs => flow'[f].due = << >>
  BY DEF FlowKnown, SameRow
<1>3. flow'[f].pc \in RowPcs => sched'[flow'[f].row.id].present
  BY FlowIds DEF FlowKnown, SamePresent, SameRow
<1>4. flow'[f].pc \in PendPcs \cup DispatchPcs /\ f \in Ticks => Others(flow'[f])
  BY DEF FlowKnown, Others, SameRow
<1>5. flow'[f].pc \in PendPcs => Known(flow[f].row, flow[f].at)'
  BY FlowIds, PcFacts DEF FlowKnown, Known, SamePresent, SameRow
<1> QED BY <1>1, <1>2, <1>3, <1>4, <1>5 DEF FlowKnown, SameRow

LEMMA EmptiedKnown ==
  ASSUME NEW f, Emptied(f, "idle", << >>)
  PROVE  FlowKnown(f)'
<1>1. flow'[f].due = << >> /\ flow'[f].pc = "idle"
  BY DEF Emptied
<1> QED BY <1>1, PcFacts DEF FlowKnown, RestPcs, PendPcs, DispatchPcs

\* A tick leaves its row.
LEMMA LeavesKnown ==
  ASSUME TypeInv, NEW f \in Ticks, FlowKnown(f), SamePresent, Leaves(f), flow[f].pc # "idle"
  PROVE  FlowKnown(f)'
<1>0. f \in Flows
  BY FlowTypes
<1>1. CASE Emptied(f, "idle", << >>)
  BY <1>1, EmptiedKnown
<1>2. CASE Takes(f, "quota")
  <2> DEFINE q == flow[f].due
  <2>1. /\ flow'[f].pc = "quota" /\ flow'[f].due = Tail(q) /\ flow'[f].row = Head(q) /\ flow'[f].at = flow[f].at
        /\ q # << >>
    BY <1>2 DEF Takes, Emptied
  <2>2. /\ Head(q) = q[1] /\ 1 \in DOMAIN q
        /\ \A i \in DOMAIN Tail(q) : Tail(q)[i] = q[i + 1] /\ i + 1 \in DOMAIN q /\ i + 1 # 1
    BY <1>0, <2>1, TakenRow
  <2>3. \A i \in DOMAIN q : Known(q[i], flow[f].at) /\ q[i].id \in Schedules
    BY <1>0, FlowIds DEF FlowKnown
  <2>4. ASSUME NEW i \in DOMAIN q
        PROVE  sched'[q[i].id].present /\ Slotted(q[i].id, q[i].next) /\ q[i].next <= flow[f].at
    BY <2>3 DEF Known, SamePresent
  <2>5. Others(flow[f])
    <3>1. flow[f].pc \in DispatchPcs \cup TickPcs
      BY <1>0, Basics DEF Fits
    <3>2. flow[f].pc \notin RestPcs
      BY <2>1 DEF FlowKnown
    <3> QED BY <3>1, <3>2, PcFacts DEF FlowKnown
  <2>6. \A i \in DOMAIN Tail(q), j \in DOMAIN Tail(q) : i # j => i + 1 # j + 1
    <3>1. q \in Seq(DueRec)
      BY <1>0, Basics DEF FlowRec
    <3>2. Tail(q) \in Seq(DueRec)
      BY <2>1, <3>1
    <3>3. DOMAIN Tail(q) \subseteq Nat
      BY <3>2
    <3> QED BY <3>3
  <2> HIDE DEF q
  <2>7. Others(flow'[f])
    <3> SUFFICES ASSUME NEW i \in DOMAIN Tail(q)
                 PROVE  /\ Tail(q)[i].id # Head(q).id
                        /\ \A j \in DOMAIN Tail(q) : i # j => Tail(q)[i].id # Tail(q)[j].id
      BY <2>1 DEF Others
    <3>1. \A m, n \in DOMAIN q : m # n => q[m].id # q[n].id
      BY <2>5 DEF Others, q
    <3> QED BY <2>2, <2>6, <3>1
  <2>8. \A i \in DOMAIN flow'[f].due : Known(flow[f].due[i], flow[f].at)'
    <3> SUFFICES ASSUME NEW i \in DOMAIN Tail(q)
                 PROVE  /\ sched'[Tail(q)[i].id].present /\ Slotted(Tail(q)[i].id, Tail(q)[i].next)
                        /\ Tail(q)[i].next <= flow[f].at
      BY <2>1 DEF Known
    <3> QED BY <2>2, <2>4
  <2>9. Known(flow[f].row, flow[f].at)'
    BY <2>1, <2>2, <2>4 DEF Known
  <2>10. "quota" \notin RestPcs /\ "quota" # "advance" /\ sched'[flow'[f].row.id].present
    BY <2>9 DEF RestPcs, Known
  <2> QED BY <2>1, <2>7, <2>8, <2>9, <2>10 DEF FlowKnown
<1> QED BY <1>1, <1>2 DEF Leaves

\* The rows as they are selected.
LEMMA SelectedKnown ==
  ASSUME TypeInv, SlotsKnown, NEW i \in DOMAIN DueRows
  PROVE  Known(DueRows[i], now) /\ Current(DueRows[i]) /\ DueRows[i].id \in Schedules
<1>1. /\ DueRows[i] \in DueRec /\ sched[DueRows[i].id].present /\ sched[DueRows[i].id].next <= now
      /\ DueRows[i].next = sched[DueRows[i].id].next /\ DueRows[i].last = sched[DueRows[i].id].last
  BY DueRowsAre
<1>2. DueRows[i].id \in Schedules
  BY <1>1 DEF DueRec
<1> QED BY <1>1, <1>2 DEF Known, Current, SlotsKnown

LEMMA WakesKnown ==
  ASSUME TypeInv, SlotsKnown, NEW f \in Ticks, Wakes(f), sched' = sched
  PROVE  FlowKnown(f)'
<1>1. CASE Emptied(f, "idle", << >>)
  BY <1>1, EmptiedKnown
<1>2. CASE /\ DueRows # << >> /\ Emptied(f, "quota", Tail(DueRows))
           /\ flow'[f].row = Head(DueRows) /\ flow'[f].at = now
  <2> PICK q \in Seq(DueRec) : q = DueRows
    BY DueRowsAre
  <2>1. flow'[f].pc = "quota" /\ flow'[f].due = Tail(q) /\ flow'[f].row = Head(q) /\ flow'[f].at = now /\ q # << >>
    BY <1>2 DEF Emptied
  <2>2. /\ Head(q) = q[1] /\ 1 \in DOMAIN q /\ Tail(q) \in Seq(DueRec)
        /\ \A i \in DOMAIN Tail(q) : Tail(q)[i] = q[i + 1] /\ i + 1 \in DOMAIN q /\ i + 1 # 1
    BY <2>1, SeqFacts
  <2>3. \A i, j \in DOMAIN q : i # j => q[i].id # q[j].id
    BY DueRowsAre
  <2>4. ASSUME NEW i \in DOMAIN q
        PROVE  sched'[q[i].id].present /\ Slotted(q[i].id, q[i].next) /\ q[i].next <= now
    BY SelectedKnown DEF Known
  <2>5. \A i \in DOMAIN Tail(q), j \in DOMAIN Tail(q) : i # j => i + 1 # j + 1
    <3>1. DOMAIN Tail(q) \subseteq Nat
      BY <2>2
    <3> QED BY <3>1
  <2>6. Others(flow'[f])
    <3> SUFFICES ASSUME NEW i \in DOMAIN Tail(q)
                 PROVE  /\ Tail(q)[i].id # Head(q).id
                        /\ \A j \in DOMAIN Tail(q) : i # j => Tail(q)[i].id # Tail(q)[j].id
      BY <2>1 DEF Others
    <3> QED BY <2>2, <2>3, <2>5
  <2>7. \A i \in DOMAIN flow'[f].due : Known(flow[f].due[i], flow[f].at)'
    <3> SUFFICES ASSUME NEW i \in DOMAIN Tail(q)
                 PROVE  /\ sched'[Tail(q)[i].id].present /\ Slotted(Tail(q)[i].id, Tail(q)[i].next)
                        /\ Tail(q)[i].next <= now
      BY <2>1 DEF Known
    <3> QED BY <2>2, <2>4
  <2>8. Known(flow[f].row, flow[f].at)'
    BY <2>1, <2>2, <2>4 DEF Known
  <2>9. "quota" \notin RestPcs /\ "quota" # "advance" /\ sched'[flow'[f].row.id].present
    BY <2>8 DEF RestPcs, Known
  <2> QED BY <2>1, <2>6, <2>7, <2>8, <2>9 DEF FlowKnown
<1> QED BY <1>1, <1>2 DEF Wakes

\* A step of flow f, whose own rows, and the fire it adds, are known.
LEMMA RowsStep ==
  ASSUME TypeInv, RowsKnown, NEW f \in Flows, Acts(f), FiresGrow(f), SamePresent, SlotsKnown', FlowKnown(f)',
         \A k \in DOMAIN fires' : k \notin DOMAIN fires => FireKnown(k)'
  PROVE  RowsKnown'
<1>1. ReconKnown'
  <2>1. recon' = recon /\ (recon.pc = "visit" => recon.todo \subseteq Schedules)
    <3>1. recon' = recon /\ recon \in {NoRecon} \cup ReconRec
      BY DEF Acts, host, TypeInv, Shape
    <3>2. NoRecon.pc = "idle"
      BY DEF NoRecon
    <3> QED BY <3>1, <3>2 DEF ReconRec
  <2> QED BY <2>1 DEF ReconKnown, RowsKnown, SamePresent
<1>2. ASSUME NEW k \in DOMAIN fires' PROVE FireKnown(k)'
  <2>1. CASE k \in DOMAIN fires
    <3>1. fires[k].sched \in Schedules
      <4>1. fires[k] \in FireRec(maxRetries)
        BY <2>1, Basics
      <4> QED BY <4>1 DEF FireRec
    <3>2. fires'[k].sched = fires[k].sched /\ fires'[k].slot = fires[k].slot /\ fires'[k].via = fires[k].via
      BY <2>1 DEF FiresGrow
    <3>3. FireKnown(k)
      BY <2>1 DEF RowsKnown
    <3> QED BY <3>1, <3>2, <3>3 DEF FireKnown, SamePresent
  <2> QED BY <2>1
<1>3. ASSUME NEW h \in Flows PROVE FlowKnown(h)'
  <2>1. CASE h = f
    BY <2>1
  <2>2. CASE h # f
    <3>1. flow'[h] = flow[h] /\ FlowKnown(h)
      BY <2>2 DEF Acts, Only, RowsKnown
    <3>2. flow'[h].pc = "advance" => Unclaimed(fires'[flow'[h].fire], flow'[h])
      <4> SUFFICES ASSUME flow[h].pc = "advance" PROVE Unclaimed(fires'[flow[h].fire], flow[h])
        BY <3>1
      <4> PICK k \in DOMAIN fires : k = flow[h].fire
        BY Basics, CountedHold
      <4>1. Unclaimed(fires[k], flow[h])
        BY <3>1 DEF FlowKnown
      <4>2. flow[f].pc = "advance" => k # flow[f].fire
        BY <2>2, Basics, CountedHold
      <4>3. /\ fires'[k].slot = fires[k].slot /\ fires'[k].at = fires[k].at /\ fires'[k].via = fires[k].via
            /\ fires'[k].sent = fires[k].sent
        BY <4>2 DEF FiresGrow
      <4> QED BY <4>1, <4>3 DEF Unclaimed
    <3>3. SameRow(h)
      BY <3>1 DEF SameRow
    <3> QED BY <3>1, <3>2, <3>3, KeptKnown
  <2> QED BY <2>1, <2>2
<1> QED BY <1>1, <1>2, <1>3 DEF RowsKnown

LEMMA SchedSlots ==
  ASSUME SlotsKnown, NEW s \in Schedules, NEW n, NEW l, NEW e, SchedIs(s, n, l, e), Slotted(s, n)
  PROVE  SlotsKnown' /\ SamePresent
<1>1. ASSUME NEW t \in Schedules PROVE Slotted(t, sched'[t].next) /\ sched'[t].present = sched[t].present
  BY DEF SchedIs, SlotsKnown
<1> QED BY <1>1 DEF SlotsKnown, SamePresent

LEMMA SchedSame ==
  ASSUME SlotsKnown, sched' = sched
  PROVE  SlotsKnown' /\ SamePresent
BY DEF SlotsKnown, SamePresent

\* No fire is added.
LEMMA NoneAdded ==
  ASSUME TypeInv, fires' = fires \/ (\E k, st : Marks(k, st)) \/ \E k : Sends(k)
  PROVE  \A k \in DOMAIN fires' : k \in DOMAIN fires
<1>1. DOMAIN fires = 1 .. Len(fires)
  BY Basics, FlowTypes
<1>2. ASSUME NEW k, NEW st, Marks(k, st) PROVE DOMAIN fires' = DOMAIN fires
  BY <1>1, <1>2 DEF Marks
<1>3. ASSUME NEW k, Sends(k) PROVE DOMAIN fires' = DOMAIN fires
  BY <1>1, <1>3 DEF Sends
<1> QED BY <1>2, <1>3

LEMMA OneAdded ==
  ASSUME TypeInv, NEW e, Adds(e)
  PROVE  /\ \A k \in DOMAIN fires' : k \notin DOMAIN fires => k = Len(fires) + 1
         /\ Len(fires) + 1 \in DOMAIN fires' /\ Len(fires) + 1 \notin DOMAIN fires /\ Len(fires) + 1 # 0
         /\ Like(fires'[Len(fires) + 1], e)
         /\ \A k \in DOMAIN fires : fires'[k] = fires[k] /\ k \in DOMAIN fires'
BY Basics, FlowTypes DEF Adds

\* The steps of a dispatch, when there are no retries.
LEMMA DispatchRows ==
  ASSUME TypeInv, RowsKnown, maxRetries = 0, NEW f \in Flows,
         \/ OkFire(f) \/ OkSched(f) \/ ErrFire(f) \/ RetryInsert(f) \/ ErrSched(f) \/ CompletionThrows(f)
  PROVE  RowsKnown' /\ FiresGrow(f) /\ SamePresent
<1>0. /\ Acts(f) /\ flow[f].pc \in DispatchPcs /\ flow[f].pc \in RowPcs /\ flow[f].row.id \in Schedules
      /\ FlowKnown(f) /\ SlotsKnown /\ sched \in [Schedules -> SchedRec] /\ flow[f].pc # "idle"
  <2>1. Acts(f)
    BY FlowActs DEF TickStep, FlowStep, Throws
  <2>2. flow[f].pc \in DispatchPcs
    BY DEF OkFire, OkSched, ErrFire, RetryInsert, ErrSched, CompletionThrows, DispatchPcs
  <2>3. flow[f].pc \in RowPcs /\ flow[f].pc # "idle"
    BY <2>2, PcFacts DEF DispatchPcs
  <2> QED BY <2>1, <2>2, <2>3, FlowIds, Basics DEF RowsKnown
<1>1. ~RetryInsert(f)
  BY RetryInsertDoes
<1>2. CASE OkFire(f) \/ ErrFire(f) \/ CompletionThrows(f)
  <2>1. sched' = sched
    BY <1>2 DEF OkFire, ErrFire, CompletionThrows, tables
  <2>2. fires' = fires \/ \E k, st : Marks(k, st)
    BY <1>2, OkFireDoes, ErrFireDoes DEF CompletionThrows, tables
  <2>3. \E pc \in DispatchPcs : Moved(f, pc)
    BY <1>2, OkFireDoes, ErrFireDoes, CompletionThrowsDoes DEF ErrPc, DispatchPcs
  <2>4. flow'[f].pc \in DispatchPcs /\ SameRow(f)
    BY <2>3 DEF Moved, SameRow
  <2>5. flow'[f].pc \notin RestPcs \cup PendPcs /\ flow'[f].pc # "advance"
    BY <2>4, PcFacts
  <2>6. SlotsKnown' /\ SamePresent /\ FiresGrow(f)
    BY <1>0, <2>1, <2>2, SchedSame, GrowWhen
  <2>7. FlowKnown(f)'
    BY <1>0, <2>4, <2>5, <2>6, KeptKnown
  <2>8. \A k \in DOMAIN fires' : k \in DOMAIN fires
    BY <2>2, NoneAdded
  <2> QED BY <1>0, <2>6, <2>7, <2>8, RowsStep
<1>3. CASE OkSched(f) \/ ErrSched(f)
  <2>1. (f \in Ticks => Leaves(f)) /\ (f = StartF => Moved(f, AfterPc(f))) /\ fires' = fires
    BY <1>3, OkSchedDoes, ErrSchedDoes DEF OkSched, ErrSched
  <2> PICK s \in Schedules : s = flow[f].row.id
    BY <1>0
  <2>2. \E e : SchedIs(s, sched[s].next, sched[s].last, e)
    BY <1>3, OkSchedDoes, ErrSchedDoes
  <2>3. SlotsKnown' /\ SamePresent /\ FiresGrow(f)
    <3>1. Slotted(s, sched[s].next)
      BY <1>0 DEF SlotsKnown
    <3> QED BY <1>0, <2>1, <2>2, <3>1, SchedSlots, GrowWhen
  <2>4. FlowKnown(f)'
    <3>1. CASE f \in Ticks
      BY <1>0, <2>1, <2>3, <3>1, LeavesKnown
    <3>2. CASE f = StartF
      <4>1. flow'[f].pc \in {"missedLoop", "missedAdvance"} /\ SameRow(f) /\ f \notin Ticks
        BY <2>1, <3>2, FlowTypes DEF Moved, AfterPc, SameRow
      <4>2. flow'[f].pc \notin RestPcs \cup PendPcs /\ flow'[f].pc # "advance"
        BY <4>1 DEF RestPcs, PendPcs
      <4> QED BY <1>0, <2>3, <4>1, <4>2, KeptKnown
    <3> QED BY <3>1, <3>2, FlowTypes
  <2> QED BY <1>0, <2>1, <2>3, <2>4, RowsStep
<1> QED BY <1>1, <1>2, <1>3

LEMMA TickRows ==
  ASSUME TypeInv, RowsKnown, maxRetries = 0, NEW f \in Flows, TickStep(f)
  PROVE  RowsKnown' /\ FiresGrow(f) /\ SamePresent
<1>0. Acts(f) /\ FlowKnown(f) /\ SlotsKnown
  BY FlowActs DEF RowsKnown
<1>1. CASE \/ OkFire(f) \/ OkSched(f) \/ ErrFire(f) \/ RetryInsert(f) \/ ErrSched(f) \/ CompletionThrows(f)
  BY <1>1, DispatchRows
<1>2. CASE TickQuota(f) \/ NowQuota(f)
  <2>1. fires' = fires /\ sched' = sched /\ f \in Ticks
    BY <1>2, TickQuotaDoes, NowQuotaDoes DEF TickQuota, NowQuota, tables
  <2>2. SlotsKnown' /\ SamePresent /\ FiresGrow(f)
    BY <1>0, <2>1, SchedSame, GrowWhen
  <2>3. FlowKnown(f)'
    <3>1. CASE Emptied(f, "idle", << >>)
      BY <3>1, EmptiedKnown
    <3>2. CASE TickQuota(f)
      <4>1. flow[f].pc = "quota" /\ flow'[f].pc \in {"skipSlot", "insert"} /\ SameRow(f)
        BY <3>2, TickQuotaDoes DEF Checked, QuotaPc, SameRow
      <4>2. flow[f].pc \in PendPcs /\ flow[f].pc \in RowPcs /\ flow'[f].pc \notin RestPcs /\ flow'[f].pc # "advance"
        BY <4>1, PcFacts DEF PendPcs, RestPcs
      <4> QED BY <1>0, <2>2, <4>1, <4>2, KeptKnown
    <3>3. CASE NowQuota(f) /\ Checked(f, "nowInsert")
      <4>1. flow[f].pc = "nowQuota" /\ flow'[f].pc = "nowInsert" /\ SameRow(f)
        BY <3>3, NowQuotaDoes DEF Checked, SameRow
      <4>2. /\ flow[f].pc \in RestPcs /\ flow[f].pc \in RowPcs /\ flow'[f].pc # "advance"
            /\ flow'[f].pc \notin PendPcs \cup DispatchPcs
        BY <4>1 DEF PendPcs, RestPcs, RowPcs, TickPcs, DispatchPcs
      <4> QED BY <1>0, <2>2, <4>1, <4>2, KeptKnown
    <3> QED BY <1>2, <3>1, <3>2, <3>3, NowQuotaDoes
  <2> QED BY <1>0, <2>1, <2>2, <2>3, RowsStep
<1>3. CASE TickSkipsSlot(f)
  <2>1. fires' = fires /\ f \in Ticks /\ Leaves(f) /\ flow[f].pc = "skipSlot"
    BY <1>3, TickSkipsSlotDoes DEF TickSkipsSlot
  <2>2. flow[f].row.id \in Schedules /\ flow[f].at \in Nat
    BY <2>1, TickRow DEF TickPcs
  <2> PICK s \in Schedules, t \in Nat : s = flow[f].row.id /\ t = flow[f].at
    BY <2>2
  <2>3. SchedIs(s, next(s, t), sched[s].last, sched[s].errors) /\ Slotted(s, next(s, t))
    BY <1>3, TickSkipsSlotDoes, NextSlot
  <2>4. SlotsKnown' /\ SamePresent /\ FiresGrow(f)
    BY <1>0, <2>1, <2>3, SchedSlots, GrowWhen
  <2>5. FlowKnown(f)'
    BY <1>0, <2>1, <2>4, LeavesKnown
  <2> QED BY <1>0, <2>1, <2>4, <2>5, RowsStep
<1>4. CASE TickInserts(f)
  <2>1. PICK e : Adds(e) /\ Claim(f, e)
    BY <1>4, TickInsertsDoes
  <2>2. Claims(f) /\ f \in Ticks /\ flow[f].pc = "insert" /\ ~fires'[Len(fires) + 1].sent /\ sched' = sched
    BY <1>4, TickInsertsDoes DEF TickInserts
  <2>3. SlotsKnown' /\ SamePresent /\ FiresGrow(f)
    BY <1>0, <2>1, <2>2, SchedSame, GrowWhen
  <2>4. /\ SameRow(f) /\ flow'[f].pc = "advance" /\ flow'[f].fire = Len(fires) + 1
        /\ flow[f].pc \in PendPcs /\ flow[f].pc \in RowPcs /\ flow'[f].pc \notin RestPcs \cup DispatchPcs
    BY <2>2, PcFacts DEF Claims, SameRow, PendPcs, RestPcs, DispatchPcs
  <2>5. Like(fires'[Len(fires) + 1], e) /\ \A k \in DOMAIN fires' : k \notin DOMAIN fires => k = Len(fires) + 1
    BY <2>1, OneAdded
  <2>6. Unclaimed(fires'[flow'[f].fire], flow'[f])
    BY <2>1, <2>2, <2>4, <2>5 DEF Unclaimed, Claim, Like, SameRow
  <2>7. FlowKnown(f)'
    BY <1>0, <2>3, <2>4, <2>6, KeptKnown
  <2> PICK n : n = Len(fires) + 1
    OBVIOUS
  <2>8. FireKnown(n)'
    <3>1. Known(flow[f].row, flow[f].at)
      BY <1>0, <2>4 DEF FlowKnown
    <3>2. fires'[n].sched = flow[f].row.id /\ fires'[n].slot = flow[f].row.next
      BY <2>1, <2>5 DEF Claim, Like
    <3>3. sched'[flow[f].row.id].present /\ Slotted(flow[f].row.id, flow[f].row.next)
      BY <2>2, <3>1 DEF Known
    <3> QED BY <3>2, <3>3 DEF FireKnown
  <2>9. \A k \in DOMAIN fires' : k \notin DOMAIN fires => FireKnown(k)'
    BY <2>5, <2>8
  <2> QED BY <1>0, <2>3, <2>7, <2>9, RowsStep
<1>5. CASE TickAdvances(f)
  <2>1. /\ Sends(flow[f].fire) /\ f \in Ticks /\ flow[f].pc = "advance"
        /\ Dispatched(f, flow[f].fire, [flow[f] EXCEPT !.count = @ + 1])
    BY <1>5, TickAdvancesDoes DEF TickAdvances
  <2>2. flow[f].row.id \in Schedules /\ flow[f].at \in Nat /\ flow[f] \in FlowRec
    BY <2>1, TickRow, Basics DEF TickPcs
  <2> PICK s \in Schedules, t \in Nat : s = flow[f].row.id /\ t = flow[f].at
    BY <2>2
  <2>3. SchedIs(s, next(s, t), fires[flow[f].fire].at, sched[s].errors) /\ Slotted(s, next(s, t))
    BY <1>5, TickAdvancesDoes, NextSlot
  <2>4. SlotsKnown' /\ SamePresent /\ FiresGrow(f)
    BY <1>0, <2>1, <2>3, SchedSlots, GrowWhen
  <2>5. SameRow(f) /\ flow'[f].pc \in {"okFire", "errFire"}
    BY <2>1, <2>2 DEF Dispatched, SameRow, FlowRec
  <2>6. /\ flow'[f].pc \notin RestPcs \cup PendPcs /\ flow'[f].pc # "advance"
        /\ flow[f].pc \in RowPcs /\ flow[f].pc \in PendPcs
    BY <2>1, <2>5, PcFacts DEF RestPcs, PendPcs
  <2>7. FlowKnown(f)'
    BY <1>0, <2>4, <2>5, <2>6, KeptKnown
  <2>8. \A k \in DOMAIN fires' : k \in DOMAIN fires
    BY <2>1, NoneAdded
  <2> QED BY <1>0, <2>4, <2>7, <2>8, RowsStep
<1>6. CASE NowInserts(f)
  <2>1. PICK e : Adds(e) /\ e.via = "now" /\ e.sched = flow[f].row.id
    BY <1>6, NowInsertsDoes
  <2>2. f \in Ticks /\ flow[f].pc = "nowInsert" /\ Dispatched(f, Len(fires) + 1, flow[f]) /\ sched' = sched
    BY <1>6, NowInsertsDoes DEF NowInserts
  <2>3. SlotsKnown' /\ SamePresent /\ FiresGrow(f)
    BY <1>0, <2>1, <2>2, SchedSame, GrowWhen
  <2>4. /\ SameRow(f) /\ flow'[f].pc \in {"okFire", "errFire"}
        /\ flow[f].pc \in RestPcs /\ flow[f].pc \in RowPcs
    BY <2>2 DEF Dispatched, SameRow, RestPcs, RowPcs, TickPcs
  <2>5. flow'[f].pc \notin RestPcs \cup PendPcs /\ flow'[f].pc # "advance"
    BY <2>4 DEF RestPcs, PendPcs
  <2>6. FlowKnown(f)'
    BY <1>0, <2>3, <2>4, <2>5, KeptKnown
  <2> PICK n : n = Len(fires) + 1
    OBVIOUS
  <2>7. FireKnown(n)'
    <3>1. fires'[n].sched = flow[f].row.id /\ fires'[n].via = "now"
      BY <2>1, OneAdded DEF Like
    <3>2. sched'[flow[f].row.id].present
      BY <1>0, <2>2, <2>4 DEF FlowKnown
    <3> QED BY <3>1, <3>2 DEF FireKnown
  <2>8. \A k \in DOMAIN fires' : k \notin DOMAIN fires => FireKnown(k)'
    BY <2>1, <2>7, OneAdded
  <2> QED BY <1>0, <2>3, <2>6, <2>8, RowsStep
<1>7. CASE WakeTick(f)
  <2>1. fires' = fires /\ sched' = sched /\ f \in Ticks /\ Wakes(f)
    BY <1>7, WakeTickDoes DEF WakeTick, tables
  <2>2. SlotsKnown' /\ SamePresent /\ FiresGrow(f)
    BY <1>0, <2>1, SchedSame, GrowWhen
  <2>3. FlowKnown(f)'
    BY <1>0, <2>1, WakesKnown
  <2> QED BY <1>0, <2>1, <2>2, <2>3, RowsStep
<1>8. CASE DispatchThrows(f) \/ FlowThrows(f)
  <2>1. Thrown(f) /\ fires' = fires /\ sched' = sched
    BY <1>8, DispatchThrowsDoes, FlowThrowsDoes DEF DispatchThrows, FlowThrows, tables
  <2>2. SlotsKnown' /\ SamePresent /\ FiresGrow(f)
    BY <1>0, <2>1, SchedSame, GrowWhen
  <2>3. FlowKnown(f)'
    <3>1. CASE f \in Ticks
      <4>1. flow[f].pc # "idle"
        BY <1>8, CatcherIs DEF DispatchThrows, FlowThrows, DispatchPcs
      <4> QED BY <1>0, <2>1, <2>2, <3>1, <4>1, LeavesKnown DEF Thrown
    <3>2. CASE f = StartF
      <4>1. flow'[f].pc \in PlainPcs /\ SameRow(f)
        BY <2>1, <3>2 DEF Thrown, Moved, SameRow
      <4>2. flow'[f].pc \notin RestPcs \cup PendPcs \cup RowPcs \cup DispatchPcs /\ flow'[f].pc # "advance"
        BY <4>1, PcFacts DEF PlainPcs
      <4> QED BY <1>0, <2>2, <4>1, <4>2, KeptKnown
    <3> QED BY <3>1, <3>2, FlowTypes
  <2> QED BY <1>0, <2>1, <2>2, <2>3, RowsStep
<1>9. CASE \E s \in Schedules : FireNow(f, s)
  <2> PICK s \in Schedules : FireNow(f, s)
    BY <1>9
  <2>1. /\ fires' = fires /\ sched' = sched /\ f \in Ticks /\ NowStarts(f, s)
        /\ flow[f].pc = "idle" /\ sched[s].present
    BY FireNowDoes DEF FireNow, tables
  <2>2. SlotsKnown' /\ SamePresent /\ FiresGrow(f)
    BY <1>0, <2>1, SchedSame, GrowWhen
  <2>3. flow'[f].due = << >> /\ flow'[f].pc = "nowQuota" /\ flow'[f].row.id = s
    BY <1>0, <2>1 DEF FlowKnown, RestPcs, NowStarts
  <2>4. "nowQuota" \notin PendPcs \cup DispatchPcs
    BY DEF PendPcs, DispatchPcs
  <2>5. FlowKnown(f)'
    BY <2>1, <2>3, <2>4 DEF FlowKnown
  <2> QED BY <1>0, <2>1, <2>2, <2>5, RowsStep
<1> QED BY <1>1, <1>2, <1>3, <1>4, <1>5, <1>6, <1>7, <1>8, <1>9 DEF TickStep, FlowStep, Throws

(***************************************************************************)
(* The slots: while ticks run.                                              *)
(***************************************************************************)
\* The start has nothing in hand.
LEMMA RestKnown ==
  ASSUME flow[StartF].pc \in RestPcs, flow[StartF].due = << >>
  PROVE  StartKnown /\ \A k : ~Catching(k)
<1>1. flow[StartF].pc \notin DispatchPcs \cup StartRow \cup CatchPcs
      /\ flow[StartF].pc \notin {"missedRow", "missedAdvance", "missedLoop", "reapSched"}
  BY DEF RestPcs, StartRow, DispatchPcs, CatchPcs, Policies
<1>2. ~CatchesUp(flow[StartF], fires)
  BY <1>1 DEF CatchesUp
<1> QED BY <1>1, <1>2 DEF StartKnown, Catching

LEMMA RestKnownNext ==
  ASSUME flow'[StartF].pc \in RestPcs, flow'[StartF].due = << >>
  PROVE  StartKnown' /\ \A k : ~Catching(k)'
<1>1. flow'[StartF].pc \notin DispatchPcs \cup StartRow \cup CatchPcs
      /\ flow'[StartF].pc \notin {"missedRow", "missedAdvance", "missedLoop", "reapSched"}
  BY DEF RestPcs, StartRow, DispatchPcs, CatchPcs, Policies
<1>2. ~CatchesUp(flow'[StartF], fires')
  BY <1>1 DEF CatchesUp
<1> QED BY <1>1, <1>2 DEF StartKnown, Catching

LEMMA StartQuiet ==
  ASSUME TypeInv, RowsKnown, NEW f \in Ticks, Acts(f)
  PROVE  StartKnown' /\ (\A k : ~Catching(k)) /\ \A k : ~Catching(k)'
<1>1. flow[f].pc # "idle" \/ daemon = "up"
  BY DEF Acts
<1>2. flow[StartF].pc = "idle"
  BY <1>1, StartRuns
<1>3. flow'[StartF] = flow[StartF]
  BY FlowTypes DEF Acts, Only
<1>4. flow[StartF].due = << >> /\ flow[StartF].pc \in RestPcs
  BY <1>2, FlowTypes DEF RowsKnown, FlowKnown, RestPcs
<1> QED BY <1>3, <1>4, RestKnown, RestKnownNext

LEMMA PendingOthers ==
  ASSUME NEW f, NEW h \in Flows, Only(f), h # f
  PROVE  Pending(h)' = Pending(h)
BY DEF Only, Pending

LEMMA PendingLess ==
  ASSUME TypeInv, NEW f \in Flows,
         \/ SameRow(f) /\ (flow'[f].pc \in PendPcs => flow[f].pc \in PendPcs)
         \/ Leaves(f)
         \/ flow'[f].due = << >> /\ flow'[f].pc \notin PendPcs
  PROVE  Pending(f)' \subseteq Pending(f)
<1>1. CASE SameRow(f) /\ (flow'[f].pc \in PendPcs => flow[f].pc \in PendPcs)
  BY <1>1 DEF Pending, SameRow, PendPcs
<1>2. CASE flow'[f].due = << >> /\ flow'[f].pc \notin PendPcs
  BY <1>2 DEF Pending, PendPcs
<1>3. CASE Emptied(f, "idle", << >>)
  BY <1>3 DEF Pending, Emptied
<1>4. CASE Takes(f, "quota")
  <2>1. flow'[f].pc = "quota" /\ flow'[f].due = Tail(flow[f].due) /\ flow'[f].row = Head(flow[f].due)
        /\ flow[f].due # << >>
    BY <1>4 DEF Takes, Emptied
  <2> PICK q : q = flow[f].due
    OBVIOUS
  <2>2. /\ Head(q) = q[1] /\ 1 \in DOMAIN q
        /\ \A i \in DOMAIN Tail(q) : Tail(q)[i] = q[i + 1] /\ i + 1 \in DOMAIN q
    BY <2>1, TakenRow
  <2>3. \A i \in DOMAIN q : <<q[i].id, q[i].next>> \in Pending(f)
    BY DEF Pending
  <2>4. Pending(f)' = {<<Tail(q)[i].id, Tail(q)[i].next>> : i \in DOMAIN Tail(q)} \cup {<<Head(q).id, Head(q).next>>}
    BY <2>1 DEF Pending
  <2>5. \A i \in DOMAIN Tail(q) : <<Tail(q)[i].id, Tail(q)[i].next>> \in Pending(f)
    BY <2>2, <2>3
  <2>6. <<Head(q).id, Head(q).next>> \in Pending(f)
    BY <2>2, <2>3
  <2> QED BY <2>4, <2>5, <2>6
<1> QED BY <1>1, <1>2, <1>3, <1>4 DEF Leaves

\* A fire that is live after a step was live before it, unless the step has sent it.
LEMMA LiveStays ==
  ASSUME TypeInv, NEW f \in Flows, FiresGrow(f), excused \subseteq excused', NEW k \in DOMAIN fires
  PROVE  /\ SlotOf(k)' = SlotOf(k)
         /\ Live(k)' /\ ~(flow[f].pc = "advance" /\ k = flow[f].fire) => Live(k)
BY DEF FiresGrow, SlotOf, Live

\* The schedules as they were, or behind their slots.
KeepsSettled == \A k \in DOMAIN fires : Live(k)' /\ Settled(k) => Settled(k)'

LEMMA SettledStays ==
  ASSUME TypeInv, NEW f \in Flows, FiresGrow(f),
         \A s \in Schedules : sched'[s].next = sched[s].next /\ sched'[s].last = sched[s].last
  PROVE  KeepsSettled
<1> SUFFICES ASSUME NEW k \in DOMAIN fires, Settled(k) PROVE Settled(k)'
  BY DEF KeepsSettled
<1>1. fires[k].sched \in Schedules
  <2>1. fires[k] \in FireRec(maxRetries)
    BY Basics
  <2> QED BY <2>1 DEF FireRec
<1>2. fires'[k].sched = fires[k].sched /\ fires'[k].slot = fires[k].slot
  BY DEF FiresGrow
<1> QED BY <1>1, <1>2 DEF Settled

\* A step of a tick that sends nothing and selects nothing.
LEMMA QuietServed ==
  ASSUME TypeInv, Slots, NEW f \in Ticks, Acts(f), FiresGrow(f), excused \subseteq excused',
         Pending(f)' \subseteq Pending(f), KeepsSettled,
         \A k \in DOMAIN fires' : Live(k)' => k \in DOMAIN fires /\ Live(k)
  PROVE  Served'
<1>0. f \in Flows /\ Only(f) /\ Served /\ RowsKnown
  BY FlowTypes DEF Acts, Slots
<1>1. \A h \in Ticks : Pending(h)' \subseteq Pending(h)
  BY <1>0, PendingOthers, FlowTypes
<1>2. \A k \in DOMAIN fires' : Live(k)' => k \in DOMAIN fires /\ Live(k) /\ SlotOf(k)' = SlotOf(k)
  BY <1>0, LiveStays
<1>3. ASSUME NEW k \in DOMAIN fires', Live(k)' PROVE Settled(k)'
  <2>1. Settled(k)
    BY <1>0, <1>2, <1>3, StartQuiet DEF Served
  <2> QED BY <1>2, <1>3, <2>1 DEF KeepsSettled
<1>4. ASSUME NEW k \in DOMAIN fires', NEW h \in Ticks, Live(k)' PROVE SlotOf(k)' \notin Pending(h)'
  BY <1>0, <1>1, <1>2, <1>4 DEF Served
<1>5. ASSUME NEW h \in Ticks, NEW g \in Ticks, h # g PROVE Pending(h)' \cap Pending(g)' \subseteq excused'
  BY <1>0, <1>1, <1>5 DEF Served
<1>6. ASSUME NEW i \in DOMAIN fires', NEW j \in DOMAIN fires', Live(i)', Live(j)', SlotOf(i)' = SlotOf(j)'
      PROVE  i = j
  BY <1>0, <1>2, <1>6 DEF Served
<1> QED BY <1>3, <1>4, <1>5, <1>6 DEF Served

\* A tick advances its schedule, or skips the slot: what was sent stays behind, but for the slots that
\* are due again.
LEMMA AdvanceSettles ==
  ASSUME TypeInv, RowsKnown, NEW f \in Flows, FiresGrow(f), NEW s \in Schedules, NEW t \in Nat, NEW l, NEW e,
         SchedIs(s, next(s, t), l, e), excused' = excused \cup Rewound(s, t),
         l = sched[s].last \/ (l \in Nat /\ l >= t),
         NEW k \in DOMAIN fires, Live(k), Live(k)', Settled(k)
  PROVE  Settled(k)'
<1>0. /\ fires'[k].sched = fires[k].sched /\ fires'[k].slot = fires[k].slot
      /\ fires[k].sched \in Schedules /\ fires[k].slot \in Nat /\ sched[s].next \in Nat
  <2>1. fires[k] \in FireRec(maxRetries) /\ sched[s] \in SchedRec
    BY Basics, FlowTypes
  <2> QED BY <2>1 DEF FiresGrow, FireRec, SchedRec
<1>1. CASE fires[k].sched # s
  BY <1>0, <1>1 DEF Settled, SchedIs
<1>2. CASE fires[k].sched = s
  <2>1. next(s, t) \in Nat /\ next(s, t) > t /\ \A v \in Nat : Slotted(s, v) /\ v < next(s, t) => v <= t
    BY NextSlot
  <2>2. Slotted(s, fires[k].slot)
    BY <1>2 DEF RowsKnown, FireKnown, Live
  <2>3. fires[k].slot < sched[s].next
    BY <1>2 DEF Settled
  <2>4. fires[k].slot < next(s, t)
    <3>1. <<s, fires[k].slot>> \notin Rewound(s, t)
      BY <1>0, <1>2 DEF Live, SlotOf
    <3>2. fires[k].slot \notin next(s, t) .. sched[s].next - 1
      BY <3>1 DEF Rewound
    <3> QED BY <1>0, <2>1, <2>3, <3>2
  <2>5. fires[k].slot <= t
    BY <1>0, <2>1, <2>2, <2>4
  <2>6. l # Never /\ fires[k].slot <= l
    <3>1. CASE l = sched[s].last
      BY <1>2, <3>1 DEF Settled
    <3>2. CASE l \in Nat /\ l >= t
      BY <1>0, <2>5, <3>2 DEF Never
    <3> QED BY <3>1, <3>2
  <2>7. sched'[s].next = next(s, t) /\ sched'[s].last = l
    BY DEF SchedIs
  <2> QED BY <1>0, <1>2, <2>4, <2>6, <2>7 DEF Settled
<1> QED BY <1>1, <1>2

\* The claim of a tick is sent: its slot was pending, so that nothing sent it before, and is behind now.
LEMMA AdvancesServed ==
  ASSUME TypeInv, Slots, maxRetries = 0, NEW f \in Ticks, TickAdvances(f)
  PROVE  Served'
<1>0. f \in Flows /\ Served /\ RowsKnown /\ Acts(f) /\ Only(f) /\ TickStep(f)
  BY FlowTypes, TickAdvancesDoes DEF Slots, Acts, TickStep, FlowStep
<1>1. FiresGrow(f)
  BY <1>0, TickRows
<1>2. /\ flow[f].pc = "advance" /\ flow[f].pc \in PendPcs /\ flow[f].row.id \in Schedules /\ flow[f].at \in Nat
      /\ flow[f].fire \in DOMAIN fires /\ fires[flow[f].fire].sched = flow[f].row.id
      /\ flow[f].row.next \in Nat /\ flow[f].row.next <= flow[f].at /\ Others(flow[f])
      /\ Unclaimed(fires[flow[f].fire], flow[f]) /\ fires[flow[f].fire] \in FireRec(maxRetries)
  <2>1. flow[f].pc = "advance"
    BY DEF TickAdvances
  <2> QED BY <1>0, <2>1, PcFacts, CountedHold, FlowIds, Basics DEF RowsKnown, FlowKnown, Known, Fits
<1> PICK s \in Schedules, t \in Nat, v \in Nat, n \in DOMAIN fires :
           s = flow[f].row.id /\ t = flow[f].at /\ v = flow[f].row.next /\ n = flow[f].fire
  BY <1>2
<1>3. fires[n].sched = s /\ fires[n].slot = v /\ fires[n].at \in Nat /\ fires[n].at >= t /\ ~fires[n].sent /\ v <= t
  BY <1>2 DEF Unclaimed, FireRec
<1>4. SchedIs(s, next(s, t), fires[n].at, sched[s].errors)
  BY TickAdvancesDoes, FlowTypes
<1>5. excused' = excused \cup Rewound(s, t) /\ excused \subseteq excused'
  BY DEF TickAdvances
<1>6. \A k \in DOMAIN fires' : k \in DOMAIN fires
  BY <1>0, TickAdvancesDoes, NoneAdded
<1>7. \A k \in DOMAIN fires : SlotOf(k)' = SlotOf(k) /\ (Live(k)' /\ k # n => Live(k))
  BY <1>0, <1>1, <1>5, LiveStays
<1>8. SlotOf(n) = <<s, v>> /\ <<s, v>> \in Pending(f)
  BY <1>2, <1>3 DEF SlotOf, Pending
<1>9. /\ \A h \in Ticks : h # f => Pending(h)' = Pending(h)
      /\ Pending(f)' \subseteq Pending(f) /\ <<s, v>> \notin Pending(f)'
  <2>1. \A h \in Ticks : h # f => Pending(h)' = Pending(h)
    BY <1>0, PendingOthers, FlowTypes
  <2>2. flow'[f].pc \in {"okFire", "errFire"} /\ SameRow(f)
    <3>1. Dispatched(f, flow[f].fire, [flow[f] EXCEPT !.count = @ + 1]) /\ flow[f] \in FlowRec
      BY <1>0, TickAdvancesDoes, Basics
    <3> QED BY <3>1 DEF Dispatched, SameRow, FlowRec
  <2>3. Pending(f)' \subseteq Pending(f)
    BY <1>0, <1>2, <2>2, PendingLess
  <2>4. Pending(f)' = {<<flow[f].due[i].id, flow[f].due[i].next>> : i \in DOMAIN flow[f].due}
    BY <2>2 DEF Pending, SameRow
  <2>5. \A i \in DOMAIN flow[f].due : flow[f].due[i].id # s
    BY <1>2 DEF Others
  <2> QED BY <2>1, <2>3, <2>4, <2>5
<1>10. ASSUME NEW k \in DOMAIN fires, Live(k)' PROVE Settled(k)'
  <2>1. CASE k = n
    <3>1. next(s, t) \in Nat /\ next(s, t) > t
      BY NextSlot
    <3>2. sched'[s].next = next(s, t) /\ sched'[s].last = fires[n].at /\ fires'[n].sched = s /\ fires'[n].slot = v
      BY <1>1, <1>3, <1>4 DEF SchedIs, FiresGrow
    <3>3. v < next(s, t) /\ fires[n].at # Never /\ v <= fires[n].at
      BY <1>3, <3>1 DEF Never
    <3> QED BY <2>1, <3>2, <3>3 DEF Settled
  <2>2. CASE k # n
    <3>1. Live(k) /\ Settled(k)
      BY <1>0, <1>7, <1>10, <2>2, StartQuiet DEF Served
    <3> QED BY <1>0, <1>1, <1>3, <1>4, <1>5, <1>10, <3>1, AdvanceSettles
  <2> QED BY <2>1, <2>2
<1>11. ASSUME NEW k \in DOMAIN fires, NEW h \in Ticks, Live(k)' PROVE SlotOf(k)' \notin Pending(h)'
  <2>1. CASE k = n
    <3>1. <<s, v>> \notin excused
      BY <1>5, <1>7, <1>8, <1>11, <2>1 DEF Live
    <3>2. h # f => <<s, v>> \notin Pending(h)
      BY <1>0, <1>8, <3>1 DEF Served
    <3> QED BY <1>7, <1>8, <1>9, <2>1, <3>2
  <2>2. CASE k # n
    <3>1. Live(k) /\ SlotOf(k) \notin Pending(h)
      BY <1>0, <1>7, <1>11, <2>2 DEF Served
    <3> QED BY <1>7, <1>9, <3>1
  <2> QED BY <2>1, <2>2
<1>12. ASSUME NEW h \in Ticks, NEW g \in Ticks, h # g PROVE Pending(h)' \cap Pending(g)' \subseteq excused'
  <2>1. Pending(h)' \subseteq Pending(h) /\ Pending(g)' \subseteq Pending(g)
    BY <1>9
  <2> QED BY <1>0, <1>5, <1>12, <2>1 DEF Served
<1>13. ASSUME NEW i \in DOMAIN fires, NEW j \in DOMAIN fires, Live(i)', Live(j)', SlotOf(i)' = SlotOf(j)'
       PROVE  i = j
  <2>1. ASSUME NEW k \in DOMAIN fires, k # n, Live(k)' PROVE SlotOf(k) # <<s, v>>
    BY <1>0, <1>7, <1>8, <2>1 DEF Served
  <2>2. CASE i # n /\ j # n
    BY <1>0, <1>7, <1>13, <2>2 DEF Served
  <2> QED BY <1>7, <1>8, <1>13, <2>1, <2>2
<1> QED BY <1>6, <1>10, <1>11, <1>12, <1>13 DEF Served

\* A tick selects: slots that were sent are behind their schedules, and those that another tick has
\* selected too are excused.
LEMMA WakesServed ==
  ASSUME TypeInv, Slots, NEW f \in Ticks, WakeTick(f)
  PROVE  Served'
<1>0. f \in Flows /\ Served /\ RowsKnown /\ Acts(f) /\ Only(f) /\ Wakes(f) /\ flow[f].pc = "idle"
  BY FlowTypes, WakeTickDoes DEF Slots, Acts
<1>1. fires' = fires /\ sched' = sched
  BY DEF WakeTick, tables
<1> DEFINE D == {<<DueRows[i].id, DueRows[i].next>> : i \in DOMAIN DueRows}
<1>2. excused' = excused \cup (D \cap UNION {Pending(g) : g \in Ticks})
  BY DEF WakeTick
<1>3. Pending(f)' \subseteq D
  <2>1. CASE Emptied(f, "idle", << >>)
    BY <2>1 DEF Emptied, Pending
  <2>2. CASE /\ DueRows # << >> /\ Emptied(f, "quota", Tail(DueRows)) /\ flow'[f].row = Head(DueRows)
    <3> PICK q \in Seq(DueRec) : q = DueRows
      BY DueRowsAre
    <3>1. flow'[f].pc = "quota" /\ flow'[f].due = Tail(q) /\ flow'[f].row = Head(q) /\ q # << >>
      BY <2>2 DEF Emptied
    <3>2. /\ Head(q) = q[1] /\ 1 \in DOMAIN q
          /\ \A i \in DOMAIN Tail(q) : Tail(q)[i] = q[i + 1] /\ i + 1 \in DOMAIN q
      BY <3>1, SeqFacts
    <3>3. Pending(f)' = {<<Tail(q)[i].id, Tail(q)[i].next>> : i \in DOMAIN Tail(q)} \cup {<<Head(q).id, Head(q).next>>}
      BY <3>1 DEF Pending
    <3>4. \A i \in DOMAIN q : <<q[i].id, q[i].next>> \in D
      OBVIOUS
    <3> HIDE DEF D
    <3>5. \A i \in DOMAIN Tail(q) : <<Tail(q)[i].id, Tail(q)[i].next>> \in D
      BY <3>2, <3>4
    <3>6. <<Head(q).id, Head(q).next>> \in D
      BY <3>2, <3>4
    <3> QED BY <3>3, <3>5, <3>6
  <2> QED BY <1>0, <2>1, <2>2 DEF Wakes
<1>4. \A h \in Ticks : h # f => Pending(h)' = Pending(h)
  BY <1>0, PendingOthers, FlowTypes
<1>5. \A k \in DOMAIN fires : SlotOf(k)' = SlotOf(k) /\ (Live(k)' => Live(k))
  BY <1>1, <1>2 DEF SlotOf, Live
<1>6. ASSUME NEW k \in DOMAIN fires, Live(k) PROVE Settled(k) /\ Settled(k)' /\ SlotOf(k) \notin D
  <2>1. Settled(k)
    BY <1>0, <1>6, StartQuiet DEF Served
  <2>2. Settled(k)'
    BY <1>1, <2>1 DEF Settled
  <2>3. \A i \in DOMAIN DueRows : SlotOf(k) # <<DueRows[i].id, DueRows[i].next>>
    <3> SUFFICES ASSUME NEW i \in DOMAIN DueRows, fires[k].sched = DueRows[i].id, fires[k].slot = DueRows[i].next
                 PROVE  FALSE
      BY DEF SlotOf
    <3>1. DueRows[i].next = sched[DueRows[i].id].next /\ DueRows[i] \in DueRec
      BY DueRowsAre
    <3>2. fires[k].slot < sched[fires[k].sched].next
      BY <2>1 DEF Settled
    <3>3. DueRows[i].next \in Nat
      BY <3>1 DEF DueRec
    <3> QED BY <3>1, <3>2, <3>3
  <2> QED BY <2>1, <2>2, <2>3
<1> HIDE DEF D
<1>7. ASSUME NEW k \in DOMAIN fires', NEW h \in Ticks, Live(k)' PROVE SlotOf(k)' \notin Pending(h)'
  <2>1. k \in DOMAIN fires /\ Live(k) /\ SlotOf(k)' = SlotOf(k)
    BY <1>1, <1>5, <1>7
  <2>2. CASE h = f
    BY <1>3, <1>6, <2>1, <2>2
  <2>3. CASE h # f
    BY <1>0, <1>4, <2>1, <2>3 DEF Served
  <2> QED BY <2>2, <2>3
<1>8. ASSUME NEW h \in Ticks, NEW g \in Ticks, h # g PROVE Pending(h)' \cap Pending(g)' \subseteq excused'
  <2>1. ASSUME NEW r \in Ticks, r # f PROVE Pending(f)' \cap Pending(r)' \subseteq excused'
    BY <1>2, <1>3, <1>4, <2>1
  <2>2. CASE h = f \/ g = f
    BY <1>8, <2>1, <2>2
  <2>3. CASE h # f /\ g # f
    BY <1>0, <1>2, <1>4, <1>8, <2>3 DEF Served
  <2> QED BY <2>2, <2>3
<1>9. ASSUME NEW i \in DOMAIN fires', NEW j \in DOMAIN fires', Live(i)', Live(j)', SlotOf(i)' = SlotOf(j)'
      PROVE  i = j
  BY <1>0, <1>1, <1>5, <1>9 DEF Served
<1>10. ASSUME NEW k \in DOMAIN fires', Live(k)' PROVE Settled(k)'
  BY <1>1, <1>5, <1>6, <1>10
<1> QED BY <1>7, <1>8, <1>9, <1>10 DEF Served

\* Fires that were live before, when no fire is added.
LEMMA NoneSent ==
  ASSUME TypeInv, NEW f \in Flows, FiresGrow(f), excused \subseteq excused',
         fires' = fires \/ ((\E k, st : Marks(k, st)) /\ flow[f].pc # "advance")
  PROVE  \A k \in DOMAIN fires' : Live(k)' => k \in DOMAIN fires /\ Live(k)
<1>1. \A k \in DOMAIN fires' : k \in DOMAIN fires
  BY NoneAdded
<1>2. CASE fires' = fires
  BY <1>2 DEF Live, SlotOf
<1>3. CASE flow[f].pc # "advance"
  BY <1>1, <1>3, LiveStays
<1> QED BY <1>2, <1>3

\* The steps of a tick.
LEMMA TickServed ==
  ASSUME TypeInv, Slots, maxRetries = 0, NEW f \in Ticks, TickStep(f)
  PROVE  Served'
<1>0. f \in Flows /\ f # StartF /\ RowsKnown /\ Acts(f) /\ FlowKnown(f) /\ Served
  BY FlowTypes, FlowActs DEF Slots, RowsKnown
<1>1. FiresGrow(f)
  BY <1>0, TickRows
<1>2. CASE OkFire(f) \/ ErrFire(f) \/ CompletionThrows(f)
  <2>1. sched' = sched /\ excused' = excused
    BY <1>2 DEF OkFire, ErrFire, CompletionThrows, tables
  <2>2. fires' = fires \/ \E k, st : Marks(k, st)
    BY <1>0, <1>2, OkFireDoes, ErrFireDoes DEF CompletionThrows, tables
  <2>3. \E pc \in DispatchPcs : Moved(f, pc)
    BY <1>0, <1>2, OkFireDoes, ErrFireDoes, CompletionThrowsDoes DEF ErrPc, DispatchPcs
  <2>4. SameRow(f) /\ flow'[f].pc \notin PendPcs
    BY <2>3, PcFacts DEF Moved, SameRow
  <2>5. flow[f].pc # "advance"
    BY <1>2 DEF OkFire, ErrFire, CompletionThrows
  <2>6. Pending(f)' \subseteq Pending(f) /\ KeepsSettled
    BY <1>0, <1>1, <2>1, <2>4, PendingLess, SettledStays
  <2>7. \A k \in DOMAIN fires' : Live(k)' => k \in DOMAIN fires /\ Live(k)
    BY <1>0, <1>1, <2>1, <2>2, <2>5, NoneSent
  <2> QED BY <1>0, <1>1, <2>1, <2>6, <2>7, QuietServed
<1>3. CASE OkSched(f) \/ ErrSched(f)
  <2>1. Leaves(f) /\ fires' = fires /\ excused' = excused
    BY <1>0, <1>3, OkSchedDoes, ErrSchedDoes DEF OkSched, ErrSched
  <2>2. flow[f].pc \in RowPcs
    BY <1>3 DEF OkSched, ErrSched, RowPcs, DispatchPcs
  <2> PICK s \in Schedules : s = flow[f].row.id
    BY <1>0, <2>2, FlowIds
  <2>3. \E e : SchedIs(s, sched[s].next, sched[s].last, e)
    BY <1>0, <1>3, OkSchedDoes, ErrSchedDoes
  <2>4. \A t \in Schedules : sched'[t].next = sched[t].next /\ sched'[t].last = sched[t].last
    BY <2>3 DEF SchedIs
  <2>5. Pending(f)' \subseteq Pending(f) /\ KeepsSettled
    BY <1>0, <1>1, <2>1, <2>4, PendingLess, SettledStays
  <2>6. \A k \in DOMAIN fires' : Live(k)' => k \in DOMAIN fires /\ Live(k)
    BY <1>0, <1>1, <2>1, NoneSent
  <2> QED BY <1>0, <1>1, <2>1, <2>5, <2>6, QuietServed
<1>4. CASE DispatchThrows(f) \/ FlowThrows(f)
  <2>1. Leaves(f) /\ fires' = fires /\ sched' = sched /\ excused' = excused
    BY <1>0, <1>4, DispatchThrowsDoes, FlowThrowsDoes DEF Thrown, DispatchThrows, FlowThrows, tables
  <2>2. Pending(f)' \subseteq Pending(f) /\ KeepsSettled
    BY <1>0, <1>1, <2>1, PendingLess, SettledStays
  <2>3. \A k \in DOMAIN fires' : Live(k)' => k \in DOMAIN fires /\ Live(k)
    BY <1>0, <1>1, <2>1, NoneSent
  <2> QED BY <1>0, <1>1, <2>1, <2>2, <2>3, QuietServed
<1>5. CASE TickQuota(f) \/ NowQuota(f) \/ \E s \in Schedules : FireNow(f, s)
  <2>1. fires' = fires /\ sched' = sched /\ excused' = excused
    BY <1>5 DEF TickQuota, NowQuota, FireNow, tables
  <2>2. Pending(f)' \subseteq Pending(f)
    <3>1. CASE TickQuota(f)
      <4>1. SameRow(f) /\ flow[f].pc \in PendPcs
        BY <1>0, <3>1, TickQuotaDoes DEF Checked, SameRow, PendPcs
      <4> QED BY <1>0, <4>1, PendingLess
    <3>2. CASE NowQuota(f)
      <4>1. Leaves(f) \/ (SameRow(f) /\ flow'[f].pc \notin PendPcs)
        BY <1>0, <3>2, NowQuotaDoes DEF Checked, SameRow, PendPcs, Leaves
      <4> QED BY <1>0, <4>1, PendingLess
    <3>3. ASSUME NEW s \in Schedules, FireNow(f, s) PROVE Pending(f)' \subseteq Pending(f)
      <4>1. NowStarts(f, s) /\ flow[f].pc = "idle"
        BY <1>0, <3>3, FireNowDoes
      <4>2. flow'[f].due = << >> /\ flow'[f].pc \notin PendPcs
        BY <1>0, <4>1 DEF NowStarts, FlowKnown, RestPcs, PendPcs
      <4> QED BY <1>0, <4>2, PendingLess
    <3> QED BY <1>5, <3>1, <3>2, <3>3
  <2>3. KeepsSettled
    BY <1>0, <1>1, <2>1, SettledStays
  <2>4. \A k \in DOMAIN fires' : Live(k)' => k \in DOMAIN fires /\ Live(k)
    BY <1>0, <1>1, <2>1, NoneSent
  <2> QED BY <1>0, <1>1, <2>1, <2>2, <2>3, <2>4, QuietServed
<1>6. CASE TickInserts(f) \/ NowInserts(f)
  <2>1. sched' = sched /\ excused' = excused
    BY <1>6 DEF TickInserts, NowInserts
  <2>2. SameRow(f) /\ (flow'[f].pc \in PendPcs => flow[f].pc \in PendPcs) /\ flow[f].pc # "advance"
    <3>1. CASE TickInserts(f)
      BY <1>0, <3>1, TickInsertsDoes DEF Claims, SameRow, PendPcs
    <3>2. CASE NowInserts(f)
      BY <1>0, <3>2, NowInsertsDoes DEF Dispatched, SameRow, PendPcs
    <3> QED BY <1>6, <3>1, <3>2
  <2> PICK n : n = Len(fires) + 1
    OBVIOUS
  <2>3. (\A k \in DOMAIN fires' : k \notin DOMAIN fires => k = n) /\ ~Live(n)'
    <3>1. CASE TickInserts(f)
      <4>1. ~fires'[n].sent /\ \E e : Adds(e)
        BY <1>0, <3>1, TickInsertsDoes
      <4> QED BY <4>1, OneAdded DEF Live
    <3>2. CASE NowInserts(f)
      <4>1. PICK e : Adds(e) /\ e.via = "now"
        BY <1>0, <3>2, NowInsertsDoes
      <4>2. fires'[n].via = "now"
        BY <4>1, OneAdded DEF Like
      <4> QED BY <4>1, <4>2, OneAdded DEF Live
    <3> QED BY <1>6, <3>1, <3>2
  <2>4. Pending(f)' \subseteq Pending(f) /\ KeepsSettled
    BY <1>0, <1>1, <2>1, <2>2, PendingLess, SettledStays
  <2>5. \A k \in DOMAIN fires' : Live(k)' => k \in DOMAIN fires /\ Live(k)
    BY <1>0, <1>1, <2>1, <2>2, <2>3, LiveStays
  <2> QED BY <1>0, <1>1, <2>1, <2>4, <2>5, QuietServed
<1>7. CASE TickSkipsSlot(f)
  <2>1. Leaves(f) /\ fires' = fires /\ flow[f].pc \in RowPcs
    BY <1>0, <1>7, TickSkipsSlotDoes DEF TickSkipsSlot, RowPcs, TickPcs
  <2> PICK s \in Schedules, t \in Nat : s = flow[f].row.id /\ t = flow[f].at
    BY <1>0, <2>1, FlowIds
  <2>2. SchedIs(s, next(s, t), sched[s].last, sched[s].errors)
    BY <1>0, <1>7, TickSkipsSlotDoes
  <2>3. excused' = excused \cup Rewound(s, t) /\ excused \subseteq excused'
    BY <1>7 DEF TickSkipsSlot
  <2>4. \A k \in DOMAIN fires' : Live(k)' => k \in DOMAIN fires /\ Live(k)
    BY <1>0, <1>1, <2>1, <2>3, NoneSent
  <2>5. KeepsSettled
    <3> SUFFICES ASSUME NEW k \in DOMAIN fires, Live(k)', Settled(k) PROVE Settled(k)'
      BY DEF KeepsSettled
    <3>1. Live(k)
      BY <2>1, <2>4
    <3> QED BY <1>0, <1>1, <2>2, <2>3, <3>1, AdvanceSettles
  <2>6. Pending(f)' \subseteq Pending(f)
    BY <1>0, <2>1, PendingLess
  <2> QED BY <1>0, <1>1, <2>3, <2>4, <2>5, <2>6, QuietServed
<1>8. ~RetryInsert(f)
  BY <1>0, RetryInsertDoes
<1> QED BY <1>2, <1>3, <1>4, <1>5, <1>6, <1>7, <1>8, AdvancesServed, WakesServed DEF TickStep, FlowStep, Throws

(***************************************************************************)
(* The slots while the daemon starts: no tick has a row in hand.            *)
(***************************************************************************)
LEMMA TicksRest ==
  ASSUME TypeInv, RowsKnown, Acts(StartF)
  PROVE  /\ \A h \in Ticks : Pending(h)' = {}
         /\ flow[StartF].pc # "idle" /\ flow[StartF].pc # "advance" /\ StartF \in Flows /\ StartF \notin Ticks
<1>1. flow[StartF].pc # "idle" /\ StartF \in Flows /\ StartF \notin Ticks
  BY FlowTypes DEF Acts
<1>2. flow[StartF].pc # "advance"
  BY <1>1, Basics DEF Fits, DispatchPcs, StartPcs, Policies
<1>3. ASSUME NEW h \in Ticks PROVE Pending(h)' = {}
  <2>1. h \in Flows /\ h # StartF
    BY FlowTypes
  <2>2. flow[h].pc = "idle" /\ flow'[h] = flow[h]
    BY <1>1, <2>1, StartRuns DEF Acts, Only
  <2>3. flow[h].due = << >>
    BY <2>1, <2>2 DEF RowsKnown, FlowKnown, RestPcs
  <2> QED BY <2>2, <2>3 DEF Pending
<1> QED BY <1>1, <1>2, <1>3

LEMMA StartServes ==
  ASSUME TypeInv, RowsKnown, Acts(StartF),
         \A k \in DOMAIN fires' : Live(k)' => Settled(k)' \/ Catching(k)',
         \A i, j \in DOMAIN fires' : Live(i)' /\ Live(j)' /\ SlotOf(i)' = SlotOf(j)' => i = j
  PROVE  Served'
<1>1. \A h \in Ticks : Pending(h)' = {}
  BY TicksRest
<1>2. \A k \in DOMAIN fires', f \in Ticks : Live(k)' => SlotOf(k)' \notin Pending(f)'
  BY <1>1
<1>3. \A f, g \in Ticks : f # g => Pending(f)' \cap Pending(g)' \subseteq excused'
  BY <1>1
<1> QED BY <1>2, <1>3 DEF Served

\* A step that sends nothing.
LEMMA StartQuietServes ==
  ASSUME TypeInv, Slots, Acts(StartF), FiresGrow(StartF), excused \subseteq excused',
         fires' = fires \/ \E k, st : Marks(k, st),
         \A k \in DOMAIN fires : Live(k) /\ Live(k)' => Settled(k)' \/ Catching(k)'
  PROVE  Served'
<1>0. RowsKnown /\ Served /\ StartF \in Flows /\ flow[StartF].pc # "advance"
  BY TicksRest DEF Slots
<1>1. \A k \in DOMAIN fires' : Live(k)' => k \in DOMAIN fires /\ Live(k)
  BY <1>0, NoneSent
<1>2. \A k \in DOMAIN fires : SlotOf(k)' = SlotOf(k)
  BY <1>0, LiveStays
<1>3. \A k \in DOMAIN fires' : Live(k)' => Settled(k)' \/ Catching(k)'
  BY <1>1
<1>4. \A i, j \in DOMAIN fires' : Live(i)' /\ Live(j)' /\ SlotOf(i)' = SlotOf(j)' => i = j
  BY <1>0, <1>1, <1>2 DEF Served
<1> QED BY <1>0, <1>3, <1>4, StartServes

LEMMA CatchingStays ==
  ASSUME FiresGrow(StartF), SameRow(StartF), flow'[StartF].pc \in CatchPcs,
         flow'[StartF].fire = flow[StartF].fire, NEW k \in DOMAIN fires, Catching(k)
  PROVE  Catching(k)'
BY DEF Catching, SameRow, FiresGrow

\* The steps of a dispatch by the start.
LEMMA DispatchSlots ==
  ASSUME TypeInv, Slots, maxRetries = 0,
         \/ OkFire(StartF) \/ OkSched(StartF) \/ ErrFire(StartF) \/ ErrSched(StartF) \/ CompletionThrows(StartF)
  PROVE  Slots'
<1> DEFINE g == flow[StartF]
<1>0. /\ TickStep(StartF) /\ Acts(StartF) /\ StartF \in Flows /\ StartF \notin Ticks /\ RowsKnown /\ StartKnown /\ Served
      /\ excused' = excused
  <2>1. TickStep(StartF) /\ excused' = excused
    BY DEF TickStep, FlowStep, Throws, OkFire, OkSched, ErrFire, ErrSched, CompletionThrows
  <2> QED BY <2>1, FlowTypes, FlowActs DEF Slots
<1>1. RowsKnown' /\ FiresGrow(StartF) /\ SamePresent
  BY <1>0, TickRows
<1>2. /\ g.pc \in DispatchPcs /\ g.pc \in CatchPcs /\ g.pc \in StartRow /\ g.row.id \in Schedules
      /\ g.fire \in DOMAIN fires
  <2>1. g.pc \in DispatchPcs
    BY DEF OkFire, OkSched, ErrFire, ErrSched, CompletionThrows, DispatchPcs
  <2>2. g.pc \in CatchPcs /\ g.pc \in StartRow /\ g.pc \in RowPcs /\ g.pc \in HoldPcs
    BY <2>1, PcFacts DEF HoldPcs
  <2> QED BY <1>0, <2>1, <2>2, FlowIds, Basics
<1>3. \E pc \in DispatchPcs \cup {AfterPc(StartF)} : Moved(StartF, pc)
  BY <1>0, OkFireDoes, ErrFireDoes, CompletionThrowsDoes, OkSchedDoes, ErrSchedDoes DEF ErrPc, DispatchPcs
<1>4. /\ SameRow(StartF) /\ flow'[StartF].fire = g.fire /\ flow'[StartF].cursor = g.cursor
      /\ flow'[StartF].firedAt = g.firedAt /\ flow'[StartF].pc \in DispatchPcs \cup {AfterPc(StartF)}
  BY <1>3 DEF Moved, SameRow
<1>5. /\ flow'[StartF].pc \in CatchPcs /\ flow'[StartF].pc \notin {"missedRow", "reapSched"}
      /\ flow'[StartF].pc = "missedAdvance" => fires[g.fire].via # "all"
      /\ flow'[StartF].pc = "missedLoop" => fires[g.fire].via = "all"
  BY <1>4 DEF AfterPc, CatchPcs, DispatchPcs
<1>6. \A t \in Schedules : sched'[t].next = sched[t].next /\ sched'[t].last = sched[t].last
  <2>1. CASE OkFire(StartF) \/ ErrFire(StartF) \/ CompletionThrows(StartF)
    BY <2>1 DEF OkFire, ErrFire, CompletionThrows, tables
  <2>2. CASE OkSched(StartF) \/ ErrSched(StartF)
    <3> PICK s \in Schedules : s = flow[StartF].row.id
      BY <1>2
    <3>1. \E e : SchedIs(s, sched[s].next, sched[s].last, e)
      BY <1>0, <2>2, OkSchedDoes, ErrSchedDoes
    <3> QED BY <3>1 DEF SchedIs
  <2> QED BY <2>1, <2>2
<1>7. fires' = fires \/ \E k, st : Marks(k, st)
  BY <1>0, OkFireDoes, ErrFireDoes DEF CompletionThrows, OkSched, ErrSched, tables
<1>8. StartKnown'
  <2>1. ASSUME NEW i \in DOMAIN g.due PROVE Current(flow[StartF].due[i])'
    <3>1. g.due[i].id \in Schedules /\ Current(g.due[i])
      BY <1>0, <2>1, FlowIds DEF StartKnown
    <3> QED BY <1>4, <1>6, <3>1 DEF Current, SameRow
  <2>2. Known(flow[StartF].row, flow[StartF].at)' /\ Others(flow'[StartF]) /\ Current(flow[StartF].row)'
    <3>1. Known(g.row, g.at) /\ Others(g) /\ Current(g.row)
      BY <1>0, <1>2 DEF StartKnown
    <3> QED BY <1>1, <1>2, <1>4, <1>6, <3>1 DEF Known, Others, Current, SameRow, SamePresent
  <2>3. /\ fires[g.fire].via \in {"once", "all"} /\ (fires[g.fire].via = "once" => g.firedAt >= g.at)
        /\ fires'[g.fire].via = fires[g.fire].via
    BY <1>0, <1>1, <1>2 DEF StartKnown, FiresGrow
  <2>4. ASSUME CatchesUp(flow'[StartF], fires')
        PROVE  /\ Slotted(flow'[StartF].row.id, flow'[StartF].cursor)
               /\ \A k \in DOMAIN fires' :
                    Live(k)' /\ fires'[k].sched = flow'[StartF].row.id => fires'[k].slot < flow'[StartF].cursor
    <3>1. CatchesUp(g, fires)
      BY <1>2, <1>4, <1>5, <2>3, <2>4 DEF CatchesUp
    <3>2. /\ Slotted(g.row.id, g.cursor)
          /\ \A k \in DOMAIN fires : Live(k) /\ fires[k].sched = g.row.id => fires[k].slot < g.cursor
      BY <1>0, <3>1 DEF StartKnown
    <3>3. \A k \in DOMAIN fires' : Live(k)' => k \in DOMAIN fires /\ Live(k)
      BY <1>0, <1>1, <1>2, <1>7, NoneSent, TicksRest
    <3>4. \A k \in DOMAIN fires : fires'[k].sched = fires[k].sched /\ fires'[k].slot = fires[k].slot
      BY <1>1 DEF FiresGrow
    <3> QED BY <1>4, <3>2, <3>3, <3>4 DEF SameRow
  <2>5. flow'[StartF].pc = "missedAdvance" => flow'[StartF].firedAt >= flow'[StartF].at
    BY <1>4, <1>5, <2>3 DEF SameRow
  <2>6. /\ fires'[flow'[StartF].fire].via \in {"once", "all"}
        /\ fires'[flow'[StartF].fire].via = "once" => flow'[StartF].firedAt >= flow'[StartF].at
    BY <1>4, <2>3 DEF SameRow
  <2>7. \A i \in DOMAIN flow'[StartF].due : Current(flow[StartF].due[i])'
    BY <1>4, <2>1 DEF SameRow
  <2> QED BY <1>5, <2>2, <2>4, <2>5, <2>6, <2>7 DEF StartKnown
<1>9. KeepsSettled
  BY <1>0, <1>1, <1>6, SettledStays
<1>10. ASSUME NEW k \in DOMAIN fires, Live(k), Live(k)' PROVE Settled(k)' \/ Catching(k)'
  <2>1. Settled(k) \/ Catching(k)
    BY <1>0, <1>10 DEF Served
  <2>2. Catching(k) => Catching(k)'
    BY <1>1, <1>4, <1>5, CatchingStays
  <2> QED BY <1>9, <1>10, <2>1, <2>2 DEF KeepsSettled
<1>11. Served'
  BY <1>0, <1>1, <1>7, <1>10, StartQuietServes
<1> QED BY <1>1, <1>8, <1>11 DEF Slots

\* A statement of the start throws: what the catch-up of the row in hand has sent is excused.
LEMMA ThrowSlots ==
  ASSUME TypeInv, Slots, maxRetries = 0, DispatchThrows(StartF) \/ FlowThrows(StartF)
  PROVE  Slots'
<1> DEFINE g == flow[StartF]
<1>0. /\ TickStep(StartF) /\ Acts(StartF) /\ StartF \in Flows /\ StartF \notin Ticks /\ RowsKnown /\ StartKnown /\ Served
      /\ excused' = excused \cup CutShort /\ fires' = fires /\ sched' = sched
  <2>1. TickStep(StartF)
    BY DEF TickStep, Throws
  <2>2. excused' = excused \cup CutShort /\ fires' = fires /\ sched' = sched
    BY DEF DispatchThrows, FlowThrows, tables
  <2> QED BY <2>1, <2>2, FlowTypes, FlowActs DEF Slots
<1>1. RowsKnown' /\ FiresGrow(StartF)
  BY <1>0, TickRows
<1>2. \E pc \in PlainPcs : Moved(StartF, pc)
  BY <1>0, DispatchThrowsDoes, FlowThrowsDoes DEF Thrown
<1>3. flow'[StartF].pc \in PlainPcs /\ SameRow(StartF)
  BY <1>2 DEF Moved, SameRow
<1>4. ASSUME flow'[StartF].pc = "missedRow" PROVE g.pc \in StartRow
  <2>1. CASE DispatchThrows(StartF)
    BY <2>1, PcFacts DEF DispatchThrows
  <2>2. CASE FlowThrows(StartF)
    <3> PICK pc \in CatcherPcs : pc = flow[StartF].pc
      BY <2>2 DEF FlowThrows
    <3>1. pc \in StartPcs /\ Catcher(pc) \in {"missedSelect", "seed", "missedRow"}
      <4>1. pc \in DispatchPcs \cup {"idle"} \cup StartPcs
        BY <1>0, Basics DEF Fits
      <4> QED BY <4>1, CatcherIs
    <3>2. Goto(StartF, Catcher(pc)) /\ Catcher(pc) \in Pcs \ {"idle"} /\ Catcher(pc) # "row"
      BY <2>2, <3>1, PcsAre DEF FlowThrows, StartPcs
    <3>3. flow'[StartF].pc = Catcher(pc)
      BY <1>0, <3>2, Basics, GotoMoves DEF Moved
    <3>4. pc \in {"missedLoop", "missedAdvance"} \cup Policies
      BY <1>4, <3>1, <3>3 DEF Catcher, CatcherPcs, StartPcs
    <3> QED BY <3>4 DEF StartRow, CatchPcs
  <2> QED BY <2>1, <2>2
<1>5. flow'[StartF].pc \notin StartRow \cup DispatchPcs \cup CatchPcs \cup {"missedAdvance", "missedLoop", "reapSched"}
  BY <1>3 DEF PlainPcs, StartRow, CatchPcs, DispatchPcs, Policies
<1>6. StartKnown'
  <2>1. \A i \in DOMAIN flow'[StartF].due : Current(flow[StartF].due[i])'
    BY <1>0, <1>3 DEF StartKnown, Current, SameRow
  <2>2. flow'[StartF].pc = "missedRow" =>
          \A i, j \in DOMAIN flow'[StartF].due : i # j => flow'[StartF].due[i].id # flow'[StartF].due[j].id
    BY <1>0, <1>3, <1>4 DEF StartKnown, Others, SameRow
  <2>3. ~CatchesUp(flow'[StartF], fires')
    BY <1>5 DEF CatchesUp
  <2> QED BY <1>5, <2>1, <2>2, <2>3 DEF StartKnown
<1>7. ASSUME NEW k \in DOMAIN fires, Live(k), Live(k)' PROVE Settled(k)'
  <2>1. ~Catching(k)
    <3> SUFFICES ASSUME Catching(k) PROVE FALSE
      OBVIOUS
    <3>1. /\ g.pc \in DispatchPcs \cup {"missedAdvance", "missedLoop"} /\ fires[k].sched = g.row.id
          /\ fires[k].at >= g.at /\ fires[k].via \in {"once", "all"}
      BY DEF Catching, CatchPcs
    <3>2. <<g.row.id, fires[k].slot>> \in CutShort
      BY <3>1 DEF CutShort
    <3> QED BY <1>0, <1>7, <3>1, <3>2 DEF Live, SlotOf
  <2>2. Settled(k)
    BY <1>0, <1>7, <2>1 DEF Served
  <2> QED BY <1>0, <2>2 DEF Settled
<1>8. Served'
  BY <1>0, <1>1, <1>7, StartQuietServes
<1> QED BY <1>1, <1>6, <1>8 DEF Slots

LEMMA StartFlowSlots ==
  ASSUME TypeInv, Slots, maxRetries = 0, TickStep(StartF)
  PROVE  Slots'
<1>1. StartF \in Flows /\ StartF \notin Ticks
  BY FlowTypes
<1>2. ~RetryInsert(StartF)
  BY <1>1, RetryInsertDoes
<1>3. ~WakeTick(StartF) /\ \A s \in Schedules : ~FireNow(StartF, s)
  BY <1>1, WakeTickDoes, FireNowDoes
<1>4. ~TickQuota(StartF) /\ ~TickSkipsSlot(StartF) /\ ~TickInserts(StartF) /\ ~TickAdvances(StartF)
  BY <1>1, TickQuotaDoes, TickSkipsSlotDoes, TickInsertsDoes, TickAdvancesDoes
<1>5. ~NowQuota(StartF) /\ ~NowInserts(StartF)
  BY <1>1, NowQuotaDoes, NowInsertsDoes
<1> QED BY <1>2, <1>3, <1>4, <1>5, DispatchSlots, ThrowSlots DEF TickStep, FlowStep, Throws

\* A step of the start that changes nothing but its own record, while nothing is being caught up with.
LEMMA PlainSlots ==
  ASSUME TypeInv, Slots, Acts(StartF), fires' = fires, sched' = sched, excused' = excused,
         flow[StartF].pc \notin CatchPcs, FlowKnown(StartF)', StartKnown'
  PROVE  Slots'
<1>0. RowsKnown /\ Served /\ SlotsKnown /\ StartF \in Flows
  BY FlowTypes DEF Slots, RowsKnown
<1>1. FiresGrow(StartF) /\ SamePresent /\ SlotsKnown'
  BY <1>0, GrowWhen, SchedSame
<1>2. RowsKnown'
  BY <1>0, <1>1, RowsStep
<1>3. ASSUME NEW k \in DOMAIN fires, Live(k) PROVE Settled(k)'
  BY <1>0, <1>3 DEF Served, Catching, Settled
<1>4. Served'
  BY <1>1, <1>3, StartQuietServes
<1> QED BY <1>2, <1>4 DEF Slots

\* Without retries reapCrashedFires changes no row.
LEMMA ReapSlots ==
  ASSUME TypeInv, Slots, maxRetries = 0, ReapSelects \/ ReapFire
  PROVE  Slots'
<1> DEFINE g == flow[StartF]
<1>0. RowsKnown /\ StartKnown /\ StartF \in Flows /\ FlowKnown(StartF)
  BY FlowTypes DEF Slots, RowsKnown
<1>1. /\ Acts(StartF) /\ g.pc \in {"reapSelect", "reapFire"} /\ flow'[StartF].pc = "reapFire"
      /\ flow'[StartF].due = g.due /\ (g.due = << >> \/ flow'[StartF].at = g.at) /\ fires' = fires
  <2>1. CASE ReapSelects
    <3>1. g.due = << >>
      BY <1>0, <2>1, ReapSelectsDoes DEF FlowKnown, RestPcs
    <3> QED BY <2>1, <3>1, ReapSelectsDoes DEF ReapSelects, tables
  <2>2. CASE ReapFire
    BY <2>2, ReapFireDoes DEF Reaps
  <2> QED BY <2>1, <2>2
<1>2. sched' = sched /\ excused' = excused
  BY DEF ReapSelects, ReapFire, tables
<1>3. g.pc \notin CatchPcs
  BY <1>1 DEF CatchPcs, DispatchPcs
<1>4. "reapFire" \notin RestPcs \cup RowPcs \cup PendPcs \cup DispatchPcs \cup StartRow
  BY PcFacts DEF PlainPcs
<1>5. \A i \in DOMAIN g.due : flow'[StartF].at = g.at
  BY <1>1
<1>6. FlowKnown(StartF)'
  <2>1. \A i \in DOMAIN flow'[StartF].due : Known(flow[StartF].due[i], flow[StartF].at)'
    BY <1>0, <1>1, <1>2, <1>5 DEF FlowKnown, Known
  <2>2. flow'[StartF].pc # "advance"
    BY <1>1
  <2> QED BY <1>1, <1>4, <2>1, <2>2 DEF FlowKnown
<1>7. StartKnown'
  <2>1. \A i \in DOMAIN flow'[StartF].due : Current(flow[StartF].due[i])'
    BY <1>0, <1>1, <1>2 DEF StartKnown, Current
  <2>2. ~CatchesUp(flow'[StartF], fires')
    BY <1>1, <1>4 DEF CatchesUp
  <2> QED BY <1>1, <1>4, <2>1, <2>2 DEF StartKnown
<1> QED BY <1>1, <1>2, <1>3, <1>6, <1>7, PlainSlots

LEMMA SelectSlots ==
  ASSUME TypeInv, Slots, MissedSelects
  PROVE  Slots'
<1>0. RowsKnown /\ SlotsKnown /\ StartF \in Flows
  BY FlowTypes DEF Slots, RowsKnown
<1>1. /\ Acts(StartF) /\ flow[StartF].pc \in {"missedSelect", "reapFire"} /\ flow'[StartF].pc = "missedRow"
      /\ flow'[StartF].due = DueRows /\ flow'[StartF].at = now
  BY MissedSelectsDoes DEF Emptied
<1>2. sched' = sched /\ excused' = excused /\ fires' = fires
  BY DEF MissedSelects, tables
<1>3. flow[StartF].pc \notin CatchPcs
  BY <1>1 DEF CatchPcs, DispatchPcs
<1>4. "missedRow" \notin RestPcs \cup RowPcs \cup PendPcs \cup DispatchPcs \cup StartRow
  BY PcFacts DEF PlainPcs
<1> PICK q : q = DueRows
  OBVIOUS
<1>5. ASSUME NEW i \in DOMAIN q PROVE Known(q[i], now) /\ Current(q[i])
  BY <1>0, <1>5, SelectedKnown
<1>6. FlowKnown(StartF)'
  <2>1. \A i \in DOMAIN flow'[StartF].due : Known(flow[StartF].due[i], flow[StartF].at)'
    BY <1>1, <1>2, <1>5 DEF Known
  <2>2. flow'[StartF].pc # "advance"
    BY <1>1
  <2> QED BY <1>1, <1>4, <2>1, <2>2 DEF FlowKnown
<1>7. StartKnown'
  <2>1. \A i \in DOMAIN flow'[StartF].due : Current(flow[StartF].due[i])'
    BY <1>1, <1>2, <1>5 DEF Current
  <2>2. ~CatchesUp(flow'[StartF], fires')
    BY <1>1, <1>4 DEF CatchesUp
  <2>3. \A i, j \in DOMAIN flow'[StartF].due : i # j => flow'[StartF].due[i].id # flow'[StartF].due[j].id
    BY <1>1, DueRowsAre
  <2> QED BY <1>1, <1>4, <2>1, <2>2, <2>3 DEF StartKnown
<1> QED BY <1>1, <1>2, <1>3, <1>6, <1>7, PlainSlots

LEMMA RowSlots ==
  ASSUME TypeInv, Slots, NEW policy \in Policies, MissedRow(policy)
  PROVE  Slots'
<1>0. RowsKnown /\ StartKnown /\ StartF \in Flows /\ FlowKnown(StartF)
  BY FlowTypes DEF Slots, RowsKnown
<1> PICK q : q = flow[StartF].due
  OBVIOUS
<1>1. /\ Acts(StartF) /\ flow[StartF].pc = "missedRow" /\ flow'[StartF].pc = policy /\ q # << >>
      /\ flow'[StartF].due = Tail(q) /\ flow'[StartF].row = Head(q) /\ flow'[StartF].at = flow[StartF].at
  BY MissedRowDoes DEF Takes, Emptied
<1>2. sched' = sched /\ excused' = excused /\ fires' = fires
  BY DEF MissedRow, tables
<1>3. flow[StartF].pc \notin CatchPcs
  BY <1>1 DEF CatchPcs, DispatchPcs
<1>4. /\ policy \notin RestPcs \cup PendPcs \cup DispatchPcs \cup CatchPcs /\ policy # "advance"
      /\ policy \notin {"missedRow", "missedAdvance", "missedLoop", "reapSched"}
  BY DEF Policies, RestPcs, PendPcs, DispatchPcs, CatchPcs
<1>5. /\ Head(q) = q[1] /\ 1 \in DOMAIN q
      /\ \A i \in DOMAIN Tail(q) : Tail(q)[i] = q[i + 1] /\ i + 1 \in DOMAIN q /\ i + 1 # 1
  BY <1>0, <1>1, TakenRow
<1>6. \A i \in DOMAIN Tail(q), j \in DOMAIN Tail(q) : i # j => i + 1 # j + 1
  <2>1. q \in Seq(DueRec)
    BY <1>0, Basics DEF FlowRec
  <2>2. Tail(q) \in Seq(DueRec)
    BY <1>1, <2>1
  <2>3. DOMAIN Tail(q) \subseteq Nat
    BY <2>2
  <2> QED BY <2>3
<1>7. ASSUME NEW i \in DOMAIN q
      PROVE  /\ sched'[q[i].id].present /\ Slotted(q[i].id, q[i].next) /\ q[i].next <= flow'[StartF].at
             /\ q[i].next = sched'[q[i].id].next /\ q[i].last = sched'[q[i].id].last
  BY <1>0, <1>1, <1>2 DEF FlowKnown, Known, StartKnown, Current
<1>8. \A i, j \in DOMAIN q : i # j => q[i].id # q[j].id
  BY <1>0, <1>1 DEF StartKnown
<1>9. Known(flow[StartF].row, flow[StartF].at)' /\ Current(flow[StartF].row)'
  BY <1>1, <1>5, <1>7 DEF Known, Current
<1>10. Others(flow'[StartF])
  BY <1>1, <1>5, <1>6, <1>8 DEF Others
<1>11. \A i \in DOMAIN flow'[StartF].due :
          Known(flow[StartF].due[i], flow[StartF].at)' /\ Current(flow[StartF].due[i])'
  BY <1>1, <1>5, <1>7 DEF Known, Current
<1>12. FlowKnown(StartF)'
  <2>1. sched'[flow'[StartF].row.id].present /\ StartF \notin Ticks
    BY <1>9, FlowTypes DEF Known
  <2> QED BY <1>1, <1>4, <1>11, <2>1 DEF FlowKnown
<1>13. StartKnown'
  <2>1. ~CatchesUp(flow'[StartF], fires')
    BY <1>1, <1>4 DEF CatchesUp
  <2> QED BY <1>1, <1>4, <1>9, <1>10, <1>11, <2>1 DEF StartKnown
<1> QED BY <1>1, <1>2, <1>3, <1>12, <1>13, PlainSlots

\* fire-all starts after the last fire, so after every slot that was sent.
LEMMA CountSlots ==
  ASSUME TypeInv, Slots, MissedCounts
  PROVE  Slots'
<1> DEFINE g == flow[StartF]
<1>0. RowsKnown /\ StartKnown /\ Served /\ StartF \in Flows /\ FlowKnown(StartF) /\ g.pc = "fire-all"
  BY FlowTypes, MissedCountsDoes DEF Slots, RowsKnown
<1>1. /\ g.row.id \in Schedules /\ g.row.next \in Nat /\ g.row.last \in Nat \cup {Never}
      /\ g.pc \in StartRow /\ g.pc \in RowPcs
  BY <1>0, StartRowIs, PcFacts DEF Policies
<1> PICK s \in Schedules : s = g.row.id
  BY <1>1
<1> DEFINE from == IF g.row.last = Never THEN g.row.next ELSE g.row.last
<1>2. Acts(StartF) /\ flow'[StartF].pc = "missedLoop" /\ SameRow(StartF) /\ flow'[StartF].cursor = next(s, from)
  BY MissedCountsDoes DEF Counts, SameRow
<1>3. sched' = sched /\ excused' = excused /\ fires' = fires
  BY DEF MissedCounts, tables
<1>4. g.pc \notin CatchPcs
  BY <1>0 DEF CatchPcs, DispatchPcs
<1>5. /\ "missedLoop" \notin RestPcs \cup PendPcs \cup DispatchPcs /\ "missedLoop" \in RowPcs
      /\ "missedLoop" \notin {"advance", "missedRow", "missedAdvance", "reapSched"}
  BY DEF RestPcs, PendPcs, DispatchPcs, RowPcs
<1>6. FlowKnown(StartF)'
  <2>1. SamePresent
    BY <1>3 DEF SamePresent
  <2> QED BY <1>0, <1>1, <1>2, <1>5, <2>1, KeptKnown
<1>7. Known(flow[StartF].row, flow[StartF].at)' /\ Others(flow'[StartF]) /\ Current(flow[StartF].row)'
  BY <1>0, <1>1, <1>2, <1>3 DEF StartKnown, Known, Others, Current, SameRow
<1>8. \A i \in DOMAIN flow'[StartF].due : Current(flow[StartF].due[i])'
  BY <1>0, <1>2, <1>3 DEF StartKnown, Current, SameRow
<1>9. from \in Nat
  BY <1>1
<1>10. Slotted(s, next(s, from)) /\ next(s, from) > from /\ next(s, from) \in Nat
  BY <1>9, NextSlot
<1>11. ASSUME NEW k \in DOMAIN fires, Live(k), fires[k].sched = s PROVE fires[k].slot < next(s, from)
  <2>1. Settled(k)
    BY <1>0, <1>4, <1>11 DEF Served, Catching
  <2>2. sched[s].last # Never /\ fires[k].slot <= sched[s].last
    BY <1>11, <2>1 DEF Settled
  <2>3. g.row.last = sched[s].last
    BY <1>0, <1>1 DEF StartKnown, Current
  <2>4. from = sched[s].last
    BY <2>2, <2>3
  <2>5. fires[k].slot \in Nat
    <3>1. fires[k] \in FireRec(maxRetries)
      BY <1>0, Basics
    <3> QED BY <3>1 DEF FireRec
  <2> HIDE DEF from
  <2> QED BY <1>9, <1>10, <2>2, <2>4, <2>5
<1>12. StartKnown'
  <2> HIDE DEF from
  <2>1. /\ Slotted(flow'[StartF].row.id, flow'[StartF].cursor)
        /\ \A k \in DOMAIN fires' :
             Live(k)' /\ fires'[k].sched = flow'[StartF].row.id => fires'[k].slot < flow'[StartF].cursor
    <3>1. flow'[StartF].row.id = s
      BY <1>2 DEF SameRow
    <3>2. \A k : Live(k)' <=> Live(k)
      BY <1>3 DEF Live, SlotOf
    <3> QED BY <1>2, <1>3, <1>10, <1>11, <3>1, <3>2
  <2> QED BY <1>2, <1>5, <1>7, <1>8, <2>1 DEF StartKnown
<1> QED BY <1>2, <1>3, <1>4, <1>6, <1>12, PlainSlots

\* The start advances the schedule of the row in hand: what it has sent for it is behind now.
LEMMA BehindSlots ==
  ASSUME TypeInv, Slots, Acts(StartF), fires' = fires, excused' = excused, Moved(StartF, "missedRow"),
         flow[StartF].pc \in StartRow, NEW s \in Schedules, s = flow[StartF].row.id, NEW l, NEW e,
         SchedIs(s, next(s, flow[StartF].at), l, e),
         \/ l = sched[s].last /\ ~(flow[StartF].pc \in CatchPcs /\ flow[StartF].fire # 0)
         \/ l \in Nat /\ l >= flow[StartF].at
  PROVE  Slots'
<1> DEFINE g == flow[StartF]
<1>0. RowsKnown /\ StartKnown /\ Served /\ StartF \in Flows /\ StartF \notin Ticks /\ FlowKnown(StartF) /\ SlotsKnown
  BY FlowTypes DEF Slots, RowsKnown
<1>1. Known(g.row, g.at) /\ Others(g) /\ Current(g.row) /\ g.at \in Nat /\ g.row.next \in Nat
  BY <1>0, FlowIds DEF StartKnown
<1> PICK t \in Nat : t = g.at
  BY <1>1
<1>2. next(s, t) \in Nat /\ next(s, t) > t /\ Slotted(s, next(s, t))
  BY NextSlot
<1>3. FiresGrow(StartF) /\ SlotsKnown' /\ SamePresent
  BY <1>0, <1>2, GrowWhen, SchedSlots
<1>4. SameRow(StartF) /\ flow'[StartF].pc = "missedRow"
  BY DEF Moved, SameRow
<1>5. "missedRow" \notin RestPcs \cup RowPcs \cup PendPcs \cup DispatchPcs \cup StartRow
  BY PcFacts DEF PlainPcs
<1>6. RowsKnown'
  <2>1. FlowKnown(StartF)'
    BY <1>0, <1>3, <1>4, <1>5, KeptKnown
  <2> QED BY <1>0, <1>3, <2>1, RowsStep
<1>7. StartKnown'
  <2>1. \A i \in DOMAIN g.due : g.due[i].id \in Schedules /\ g.due[i].id # s /\ Current(g.due[i])
    BY <1>0, <1>1, FlowIds DEF StartKnown, Others
  <2>2. \A i \in DOMAIN g.due : sched'[g.due[i].id] = sched[g.due[i].id]
    BY <2>1 DEF SchedIs
  <2>3. \A i \in DOMAIN flow'[StartF].due : Current(flow[StartF].due[i])'
    BY <1>4, <2>1, <2>2 DEF Current, SameRow
  <2>4. \A i, j \in DOMAIN flow'[StartF].due : i # j => flow'[StartF].due[i].id # flow'[StartF].due[j].id
    BY <1>1, <1>4 DEF Others, SameRow
  <2>5. ~CatchesUp(flow'[StartF], fires')
    BY <1>4, <1>5 DEF CatchesUp
  <2> QED BY <1>4, <1>5, <2>3, <2>4, <2>5 DEF StartKnown
<1>8. ASSUME NEW k \in DOMAIN fires, Live(k) PROVE Settled(k)'
  <2>0. fires[k].sched \in Schedules /\ fires[k].slot \in Nat
    <3>1. fires[k] \in FireRec(maxRetries)
      BY <1>0, Basics
    <3> QED BY <3>1 DEF FireRec
  <2>1. Settled(k) \/ Catching(k)
    BY <1>0, <1>8 DEF Served
  <2>2. CASE fires[k].sched # s
    <3>1. Settled(k)
      BY <2>1, <2>2 DEF Catching
    <3> QED BY <2>0, <2>2, <3>1 DEF Settled, SchedIs
  <2>3. CASE fires[k].sched = s
    <3>1. fires[k].slot <= t
      <4>1. CASE Settled(k)
        <5>1. fires[k].slot < sched[s].next /\ sched[s].next = g.row.next /\ g.row.next <= t
          BY <1>1, <2>3, <4>1 DEF Settled, Current, Known
        <5> QED BY <1>1, <2>0, <5>1
      <4>2. CASE Catching(k)
        BY <4>2 DEF Catching
      <4> QED BY <2>1, <4>1, <4>2
    <3>2. l # Never /\ fires[k].slot <= l
      <4>1. CASE l \in Nat /\ l >= t
        BY <2>0, <3>1, <4>1 DEF Never
      <4>2. CASE l = sched[s].last /\ ~(flow[StartF].pc \in CatchPcs /\ flow[StartF].fire # 0)
        BY <2>1, <2>3, <4>2 DEF Settled, Catching
      <4> QED BY <4>1, <4>2
    <3>3. sched'[s].next = next(s, t) /\ sched'[s].last = l
      BY DEF SchedIs
    <3>4. fires[k].slot < next(s, t)
      BY <1>2, <2>0, <3>1
    <3> QED BY <2>3, <3>2, <3>3, <3>4 DEF Settled
  <2> QED BY <2>2, <2>3
<1>9. Served'
  BY <1>3, <1>8, StartQuietServes
<1> QED BY <1>6, <1>7, <1>9 DEF Slots

LEMMA AdvanceSlots ==
  ASSUME TypeInv, Slots, MissedSkips \/ MissedAdvances \/ AllAdvances
  PROVE  Slots'
<1> DEFINE g == flow[StartF]
<1>0. /\ Acts(StartF) /\ Moved(StartF, "missedRow") /\ g.pc \in {"skip", "missedAdvance", "missedLoop"}
      /\ fires' = fires /\ excused' = excused
  BY MissedSkipsDoes, MissedAdvancesDoes, AllAdvancesDoes DEF MissedSkips, MissedAdvances, AllAdvances
<1>1. g.pc \in Policies \cup {"missedLoop", "missedAdvance"} /\ g.pc \in StartRow
  BY <1>0 DEF Policies, StartRow, CatchPcs
<1> PICK s \in Schedules : s = g.row.id
  BY <1>1, StartRowIs
<1>2. g.at \in Nat /\ g.firedAt \in Nat
  BY <1>1, StartRowIs
<1>3. CASE MissedSkips
  <2>1. SchedIs(s, next(s, g.at), sched[s].last, sched[s].errors) /\ g.pc = "skip"
    BY <1>3, MissedSkipsDoes
  <2>2. g.pc \notin CatchPcs
    BY <2>1 DEF CatchPcs, DispatchPcs
  <2> QED BY <1>0, <1>1, <2>1, <2>2, BehindSlots
<1>4. CASE MissedAdvances
  <2>1. SchedIs(s, next(s, g.at), g.firedAt, sched[s].errors) /\ g.pc = "missedAdvance"
    BY <1>4, MissedAdvancesDoes
  <2>2. g.firedAt >= g.at
    BY <2>1 DEF Slots, StartKnown
  <2> QED BY <1>0, <1>1, <1>2, <2>1, <2>2, BehindSlots
<1>5. CASE AllAdvances
  <2>1. SchedIs(s, next(s, g.at), IF g.fire # 0 THEN g.at ELSE sched[s].last, sched[s].errors)
    BY <1>5, AllAdvancesDoes
  <2>2. CASE g.fire # 0
    <3>1. SchedIs(s, next(s, g.at), g.at, sched[s].errors)
      BY <2>1, <2>2
    <3> QED BY <1>0, <1>1, <1>2, <3>1, BehindSlots
  <2>3. CASE g.fire = 0
    <3>1. SchedIs(s, next(s, g.at), sched[s].last, sched[s].errors)
      BY <2>1, <2>3
    <3> QED BY <1>0, <1>1, <2>3, <3>1, BehindSlots
  <2> QED BY <2>2, <2>3
<1> QED BY <1>3, <1>4, <1>5

\* The start sends slot v of the row in hand, which nothing has sent before.
LEMMA CatchSlots ==
  ASSUME TypeInv, Slots, Acts(StartF), sched' = sched, excused' = excused, flow[StartF].pc \in StartRow,
         NEW v \in Nat, NEW via \in {"once", "all"}, NEW d, NEW e, Adds(e), Catch(e, v, via, d),
         NEW c, Dispatched(StartF, Len(fires) + 1, c),
         c.at = flow[StartF].at, c.due = flow[StartF].due, c.row = flow[StartF].row,
         Slotted(flow[StartF].row.id, v), v <= flow[StartF].at,
         \A k \in DOMAIN fires : Live(k) /\ fires[k].sched = flow[StartF].row.id => fires[k].slot # v,
         via = "once" => c.firedAt >= flow[StartF].at,
         via = "all" => /\ Slotted(flow[StartF].row.id, c.cursor) /\ v < c.cursor
                        /\ \A k \in DOMAIN fires :
                             Live(k) /\ fires[k].sched = flow[StartF].row.id => fires[k].slot < c.cursor
  PROVE  Slots'
<1> DEFINE g == flow[StartF]
<1>0. RowsKnown /\ StartKnown /\ Served /\ StartF \in Flows /\ StartF \notin Ticks /\ FlowKnown(StartF) /\ SlotsKnown
  BY FlowTypes DEF Slots, RowsKnown
<1>1. Known(g.row, g.at) /\ Others(g) /\ Current(g.row) /\ g.pc \in RowPcs
  BY <1>0, PcFacts DEF StartKnown
<1> PICK s \in Schedules : s = g.row.id
  BY <1>0, <1>1, FlowIds
<1> PICK n : n = Len(fires) + 1
  OBVIOUS
<1>2. /\ \A k \in DOMAIN fires' : k \notin DOMAIN fires => k = n
      /\ n \in DOMAIN fires' /\ n \notin DOMAIN fires /\ n # 0 /\ Like(fires'[n], e)
      /\ \A k \in DOMAIN fires : fires'[k] = fires[k] /\ k \in DOMAIN fires'
  BY OneAdded
<1>3. fires'[n].sched = s /\ fires'[n].slot = v /\ fires'[n].at >= g.at /\ fires'[n].via = via
  BY <1>2 DEF Catch, Like
<1>4. /\ SameRow(StartF) /\ flow'[StartF].pc \in {"okFire", "errFire"} /\ flow'[StartF].fire = n
      /\ flow'[StartF].cursor = c.cursor /\ flow'[StartF].firedAt = c.firedAt
  BY DEF Dispatched, SameRow
<1>5. /\ flow'[StartF].pc \in DispatchPcs /\ flow'[StartF].pc \in CatchPcs
      /\ flow'[StartF].pc \notin RestPcs \cup PendPcs
      /\ flow'[StartF].pc \notin {"advance", "missedRow", "missedAdvance", "missedLoop", "reapSched"}
  BY <1>4 DEF DispatchPcs, CatchPcs, RestPcs, PendPcs
<1>6. FiresGrow(StartF) /\ SlotsKnown' /\ SamePresent
  BY <1>0, GrowWhen, SchedSame
<1>7. RowsKnown'
  <2>1. FlowKnown(StartF)'
    BY <1>0, <1>1, <1>4, <1>5, <1>6, KeptKnown
  <2>2. FireKnown(n)'
    BY <1>1, <1>3 DEF FireKnown, Known
  <2> QED BY <1>0, <1>2, <1>6, <2>1, <2>2, RowsStep
<1>8. \A k \in DOMAIN fires : (Live(k)' <=> Live(k)) /\ SlotOf(k)' = SlotOf(k)
  BY <1>2 DEF Live, SlotOf
<1>9. StartKnown'
  <2>1. \A i \in DOMAIN flow'[StartF].due : Current(flow[StartF].due[i])'
    BY <1>0, <1>4 DEF StartKnown, Current, SameRow
  <2>2. Known(flow[StartF].row, flow[StartF].at)' /\ Others(flow'[StartF]) /\ Current(flow[StartF].row)'
    BY <1>1, <1>4 DEF Known, Others, Current, SameRow
  <2>3. /\ fires'[flow'[StartF].fire].via \in {"once", "all"}
        /\ fires'[flow'[StartF].fire].via = "once" => flow'[StartF].firedAt >= flow'[StartF].at
    BY <1>3, <1>4 DEF SameRow
  <2>4. ASSUME CatchesUp(flow'[StartF], fires')
        PROVE  /\ Slotted(flow'[StartF].row.id, flow'[StartF].cursor)
               /\ \A k \in DOMAIN fires' :
                    Live(k)' /\ fires'[k].sched = flow'[StartF].row.id => fires'[k].slot < flow'[StartF].cursor
    <3>1. via = "all"
      BY <1>3, <1>4, <1>5, <2>4 DEF CatchesUp
    <3>2. flow'[StartF].row.id = s /\ flow'[StartF].cursor = c.cursor
      BY <1>4 DEF SameRow
    <3>3. ASSUME NEW k \in DOMAIN fires', Live(k)', fires'[k].sched = s PROVE fires'[k].slot < c.cursor
      <4>1. CASE k = n
        BY <1>3, <3>1, <4>1
      <4>2. CASE k \in DOMAIN fires
        BY <1>2, <1>8, <3>1, <3>3, <4>2
      <4> QED BY <1>2, <4>1, <4>2
    <3> QED BY <3>1, <3>2, <3>3
  <2> QED BY <1>5, <2>1, <2>2, <2>3, <2>4 DEF StartKnown
<1>10. ASSUME NEW k \in DOMAIN fires', Live(k)' PROVE Settled(k)' \/ Catching(k)'
  <2>1. CASE k = n
    BY <1>2, <1>3, <1>4, <1>5, <2>1 DEF Catching, SameRow
  <2>2. CASE k \in DOMAIN fires
    <3>1. Settled(k) \/ Catching(k)
      BY <1>0, <1>8, <1>10, <2>2 DEF Served
    <3>2. Settled(k) => Settled(k)'
      BY <1>2, <2>2 DEF Settled
    <3>3. Catching(k) => Catching(k)'
      BY <1>2, <1>4, <1>5, <2>2 DEF Catching, SameRow
    <3> QED BY <3>1, <3>2, <3>3
  <2> QED BY <1>2, <2>1, <2>2
<1>11. ASSUME NEW i \in DOMAIN fires', NEW j \in DOMAIN fires', Live(i)', Live(j)', SlotOf(i)' = SlotOf(j)'
       PROVE  i = j
  <2>1. ASSUME NEW k \in DOMAIN fires, Live(k)', SlotOf(k)' = SlotOf(n)' PROVE FALSE
    <3>1. Live(k) /\ SlotOf(k) = <<s, v>>
      BY <1>3, <1>8, <2>1 DEF SlotOf
    <3> QED BY <3>1 DEF SlotOf
  <2>2. CASE i \in DOMAIN fires /\ j \in DOMAIN fires
    BY <1>0, <1>8, <1>11, <2>2 DEF Served
  <2>3. CASE i = n /\ j \in DOMAIN fires
    BY <1>11, <2>1, <2>3
  <2>4. CASE j = n /\ i \in DOMAIN fires
    BY <1>11, <2>1, <2>4
  <2> QED BY <1>2, <2>2, <2>3, <2>4
<1>12. Served'
  BY <1>0, <1>10, <1>11, StartServes
<1> QED BY <1>7, <1>9, <1>12 DEF Slots

LEMMA OnceSlots ==
  ASSUME TypeInv, Slots, OnceInserts
  PROVE  Slots'
<1> DEFINE g == flow[StartF]
<1>0. RowsKnown /\ StartKnown /\ Served /\ StartF \in Flows /\ Acts(StartF) /\ g.pc = "fire-once"
  BY FlowTypes, OnceInsertsDoes DEF Slots
<1>1. g.pc \in StartRow /\ g.pc \notin CatchPcs /\ g.row.next \in Nat /\ g.row.id \in Schedules
  BY <1>0, StartRowIs, PcFacts DEF Policies, CatchPcs, DispatchPcs
<1>2. Known(g.row, g.at) /\ Current(g.row)
  BY <1>0, <1>1 DEF StartKnown
<1> PICK v \in Nat, s \in Schedules : v = g.row.next /\ s = g.row.id
  BY <1>1
<1>3. PICK e : Adds(e) /\ Catch(e, v, "once", Never)
  BY OnceInsertsDoes
<1>4. PICK c : /\ Dispatched(StartF, Len(fires) + 1, c) /\ c.firedAt >= g.at
               /\ c.at = g.at /\ c.due = g.due /\ c.row = g.row
  BY OnceInsertsDoes
<1>5. sched' = sched /\ excused' = excused
  BY DEF OnceInserts
<1>6. Slotted(s, v) /\ v <= g.at /\ v = sched[s].next
  BY <1>2 DEF Known, Current
<1>7. ASSUME NEW k \in DOMAIN fires, Live(k), fires[k].sched = s PROVE fires[k].slot # v
  <2>1. Settled(k)
    BY <1>0, <1>1, <1>7 DEF Served, Catching
  <2>2. fires[k].slot < v
    BY <1>6, <1>7, <2>1 DEF Settled
  <2> QED BY <2>2
<1> QED BY <1>0, <1>1, <1>3, <1>4, <1>5, <1>6, <1>7, CatchSlots

LEMMA AllSlots ==
  ASSUME TypeInv, Slots, AllInserts
  PROVE  Slots'
<1> DEFINE g == flow[StartF]
<1>0. /\ RowsKnown /\ StartKnown /\ StartF \in Flows /\ Acts(StartF) /\ g.pc = "missedLoop"
      /\ g.cursor <= g.at
  BY FlowTypes, AllInsertsDoes DEF Slots
<1>1. g.pc \in StartRow /\ g.cursor \in Nat /\ g.row.id \in Schedules
  BY <1>0, StartRowIs DEF StartRow, CatchPcs
<1> PICK v \in Nat, s \in Schedules : v = g.cursor /\ s = g.row.id
  BY <1>1
<1>2. Slotted(s, v) /\ \A k \in DOMAIN fires : Live(k) /\ fires[k].sched = s => fires[k].slot < v
  BY <1>0 DEF StartKnown, CatchesUp
<1> PICK d : d = g.day
  OBVIOUS
<1>3. PICK e : Adds(e) /\ Catch(e, v, "all", d)
  BY AllInsertsDoes
<1>4. PICK c : /\ Dispatched(StartF, Len(fires) + 1, c) /\ c.cursor = next(s, v)
               /\ c.at = g.at /\ c.due = g.due /\ c.row = g.row
  BY AllInsertsDoes
<1>5. sched' = sched /\ excused' = excused
  BY DEF AllInserts
<1>6. Slotted(s, c.cursor) /\ v < c.cursor /\ c.cursor \in Nat
  BY <1>4, NextSlot
<1>7. ASSUME NEW k \in DOMAIN fires, Live(k), fires[k].sched = s
      PROVE  fires[k].slot # v /\ fires[k].slot < c.cursor
  <2>1. fires[k].slot < v
    BY <1>2, <1>7
  <2>2. fires[k].slot \in Nat
    <3>1. fires[k] \in FireRec(maxRetries)
      BY <1>0, Basics
    <3> QED BY <3>1 DEF FireRec
  <2> QED BY <1>6, <2>1, <2>2
<1> QED BY <1>0, <1>1, <1>2, <1>3, <1>4, <1>5, <1>6, <1>7, CatchSlots

LEMMA CatchUpSlots ==
  ASSUME TypeInv, Slots, maxRetries = 0, CatchUpStep
  PROVE  Slots'
<1>1. ~ReapSched
  BY DEF Slots, StartKnown, ReapSched
<1> QED BY <1>1, ReapSlots, SelectSlots, RowSlots, CountSlots, AdvanceSlots, OnceSlots, AllSlots DEF CatchUpStep

(***************************************************************************)
(* The slots when the process starts, ends, or waits.                       *)
(***************************************************************************)
LEMMA ProcessSlotsWhen ==
  ASSUME TypeInv, Slots, sched' = sched, fires' = fires, recon' = recon \/ recon' = NoRecon,
         excused \subseteq excused',
         \A f \in Flows : \/ flow'[f] = flow[f]
                          \/ flow'[f].pc \in {"idle", "reapSelect"} /\ flow'[f].due = << >>,
         \A k \in DOMAIN fires : Catching(k) /\ Live(k)' => flow'[StartF] = flow[StartF]
  PROVE  Slots'
<1>0. RowsKnown /\ StartKnown /\ Served /\ StartF \in Flows
  BY FlowTypes DEF Slots
<1>1. \A k : (Live(k)' => Live(k)) /\ SlotOf(k)' = SlotOf(k) /\ (Settled(k) => Settled(k)')
  BY DEF Live, SlotOf, Settled
<1>2. RowsKnown'
  <2>1. SlotsKnown' /\ \A k \in DOMAIN fires' : FireKnown(k)'
    BY <1>0 DEF RowsKnown, SlotsKnown, FireKnown
  <2>2. ReconKnown'
    BY <1>0 DEF RowsKnown, ReconKnown, NoRecon
  <2>3. ASSUME NEW f \in Flows PROVE FlowKnown(f)'
    <3>1. CASE flow'[f] = flow[f]
      BY <1>0, <3>1 DEF RowsKnown, FlowKnown, Known
    <3>2. CASE flow'[f].pc \in {"idle", "reapSelect"} /\ flow'[f].due = << >>
      <4>1. flow'[f].pc \notin RowPcs \cup PendPcs \cup DispatchPcs /\ flow'[f].pc # "advance"
        BY <3>2 DEF RowPcs, PendPcs, DispatchPcs, TickPcs, Policies
      <4> QED BY <3>2, <4>1 DEF FlowKnown
    <3> QED BY <3>1, <3>2
  <2> QED BY <2>1, <2>2, <2>3 DEF RowsKnown
<1>3. StartKnown' /\ \A k \in DOMAIN fires : Live(k)' /\ Catching(k) => Catching(k)'
  <2>1. CASE flow'[StartF] = flow[StartF]
    <3>1. StartKnown'
      BY <1>0, <1>1, <2>1 DEF StartKnown, Current, Known
    <3>2. \A k \in DOMAIN fires : Catching(k) => Catching(k)'
      BY <2>1 DEF Catching
    <3> QED BY <3>1, <3>2
  <2>2. CASE flow'[StartF] # flow[StartF]
    <3>1. flow'[StartF].pc \in RestPcs /\ flow'[StartF].due = << >>
      BY <1>0, <2>2 DEF RestPcs
    <3> QED BY <2>2, <3>1, RestKnownNext
  <2> QED BY <2>1, <2>2
<1>4. \A h \in Ticks : Pending(h)' \subseteq Pending(h)
  <2> SUFFICES ASSUME NEW h \in Ticks PROVE Pending(h)' \subseteq Pending(h)
    OBVIOUS
  <2>1. CASE flow'[h] = flow[h]
    BY <2>1 DEF Pending
  <2>2. CASE flow'[h].pc \in {"idle", "reapSelect"} /\ flow'[h].due = << >>
    BY <2>2 DEF Pending
  <2> QED BY <2>1, <2>2, FlowTypes
<1>5. Served'
  <2>1. \A k \in DOMAIN fires' : Live(k)' => Settled(k)' \/ Catching(k)'
    BY <1>0, <1>1, <1>3 DEF Served
  <2>2. \A k \in DOMAIN fires', f \in Ticks : Live(k)' => SlotOf(k)' \notin Pending(f)'
    BY <1>0, <1>1, <1>4 DEF Served
  <2>3. ASSUME NEW f \in Ticks, NEW h \in Ticks, f # h PROVE Pending(f)' \cap Pending(h)' \subseteq excused'
    BY <1>0, <1>4, <2>3 DEF Served
  <2>4. \A i, j \in DOMAIN fires' : Live(i)' /\ Live(j)' /\ SlotOf(i)' = SlotOf(j)' => i = j
    BY <1>0, <1>1 DEF Served
  <2> QED BY <2>1, <2>2, <2>3, <2>4 DEF Served
<1> QED BY <1>2, <1>3, <1>5 DEF Slots

LEMMA ProcessSlots ==
  ASSUME TypeInv, Slots, ProcessStep
  PROVE  Slots'
<1>0. RowsKnown /\ StartF \in Flows /\ FlowKnown(StartF) /\ flow \in [Flows -> FlowRec] /\ flow[StartF] \in FlowRec
  BY FlowTypes, Basics DEF Slots, RowsKnown
<1>1. CASE Start
  <2>1. flow[StartF].pc = "idle"
    BY <1>1 DEF Start, TypeInv, Phases
  <2>2. flow[StartF].due = << >>
    BY <1>0, <2>1 DEF FlowKnown, RestPcs
  <2>3. /\ flow'[StartF].pc = "reapSelect" /\ flow'[StartF].due = << >>
        /\ \A f \in Flows : f # StartF => flow'[f] = flow[f]
    BY <1>0, <1>1, <2>2 DEF Start, FlowRec
  <2>4. \A k : ~Catching(k)
    BY <2>1 DEF Catching, CatchPcs, DispatchPcs
  <2>5. sched' = sched /\ fires' = fires /\ recon' = recon /\ excused' = excused
    BY <1>1 DEF Start, tables
  <2> QED BY <2>3, <2>4, <2>5, ProcessSlotsWhen
<1>2. CASE Seeds \/ SeedThrows
  <2>1. Emptied(StartF, "idle", << >>) /\ flow[StartF].pc \in {"seed", "missedRow"}
    BY <1>2, SeedsDoes
  <2>2. /\ flow'[StartF].pc = "idle" /\ flow'[StartF].due = << >>
        /\ \A f \in Flows : f # StartF => flow'[f] = flow[f]
    BY <2>1 DEF Emptied, Only
  <2>3. \A k : ~Catching(k)
    BY <2>1 DEF Catching, CatchPcs, DispatchPcs
  <2>4. sched' = sched /\ fires' = fires /\ recon' = recon /\ excused' = excused
    BY <1>2 DEF Seeds, SeedThrows, tables
  <2> QED BY <2>2, <2>3, <2>4, ProcessSlotsWhen
<1>3. CASE StartRefused \/ Stop \/ TimePasses
  <2>1. sched' = sched /\ fires' = fires /\ recon' = recon /\ excused' = excused /\ flow' = flow
    BY <1>3 DEF StartRefused, Stop, TimePasses, tables
  <2> QED BY <2>1, ProcessSlotsWhen
<1>4. CASE Exit
  <2>1. sched' = sched /\ fires' = fires /\ recon' = NoRecon /\ excused' = excused \cup CutShort
    BY <1>4 DEF Exit, tables
  <2>2. \A f \in Flows : flow'[f].pc = "idle" /\ flow'[f].due = << >>
    BY <1>4 DEF Exit, Idle
  <2>3. ASSUME NEW k \in DOMAIN fires, Catching(k) PROVE ~Live(k)'
    <3>1. /\ flow[StartF].pc \in DispatchPcs \cup {"missedAdvance", "missedLoop"}
          /\ fires[k].sched = flow[StartF].row.id
          /\ fires[k].at >= flow[StartF].at /\ fires[k].via \in {"once", "all"}
      BY <2>3 DEF Catching, CatchPcs
    <3>2. <<flow[StartF].row.id, fires[k].slot>> \in CutShort
      BY <3>1 DEF CutShort
    <3> QED BY <2>1, <3>1, <3>2 DEF Live, SlotOf
  <2> QED BY <2>1, <2>2, <2>3, ProcessSlotsWhen
<1> QED BY <1>1, <1>2, <1>3, <1>4 DEF ProcessStep

(***************************************************************************)
(* The slots and the reconciler: a row that is there keeps its next slot.   *)
(***************************************************************************)
LEMMA ReconcileRows ==
  ASSUME TypeInv, RowsKnown, ReconcileStep
  PROVE  /\ SlotsKnown' /\ ReconKnown'
         /\ \A t \in Schedules : sched[t].present => sched'[t].present /\ sched'[t].next = sched[t].next
<1>0. /\ sched \in [Schedules -> SchedRec] /\ recon \in {NoRecon} \cup ReconRec /\ now \in Nat
      /\ SlotsKnown /\ ReconKnown
  BY DEF TypeInv, Shape, RowsKnown
<1>1. ASSUME NEW s \in Schedules, ReconcileVisits(s)
      PROVE  /\ SlotsKnown' /\ ReconKnown'
             /\ \A t \in Schedules : sched[t].present => sched'[t].present /\ sched'[t].next = sched[t].next
  <2>1. recon \in ReconRec /\ s \in recon.todo /\ recon.pc = "visit"
    <3>1. NoRecon.pc = "idle"
      BY DEF NoRecon
    <3> QED BY <1>0, <1>1, <3>1 DEF ReconcileVisits
  <2>2. recon.seen[s].present = sched[s].present /\ recon.seen[s].enabled \in BOOLEAN /\ sched[s].present \in BOOLEAN
    BY <1>0, <2>1 DEF ReconKnown, ReconRec, SchedRec
  <2> DEFINE r == CASE recon.seen[s].present /\ recon.seen[s].enabled -> sched[s]
         [] recon.seen[s].present /\ ~recon.seen[s].enabled -> [sched[s] EXCEPT !.enabled = TRUE]
         [] ~recon.seen[s].present -> [sched[s] EXCEPT !.present = TRUE, !.enabled = TRUE, !.next = next(s, now)]
  <2>3. sched' = [sched EXCEPT ![s] = r]
    BY <1>1 DEF ReconcileVisits
  <2>4. sched[s] \in SchedRec /\ Slotted(s, sched[s].next)
    BY <1>0 DEF SlotsKnown
  <2>5. (sched[s].present => r.present /\ r.next = sched[s].next) /\ Slotted(s, r.next)
    <3>1. CASE recon.seen[s].present /\ recon.seen[s].enabled
      BY <2>4, <3>1
    <3>2. CASE recon.seen[s].present /\ ~recon.seen[s].enabled
      <4>1. r = [sched[s] EXCEPT !.enabled = TRUE]
        BY <3>2
      <4> HIDE DEF r
      <4> QED BY <2>4, <4>1 DEF SchedRec
    <3>3. CASE ~recon.seen[s].present
      <4>1. r = [sched[s] EXCEPT !.present = TRUE, !.enabled = TRUE, !.next = next(s, now)]
        BY <3>3
      <4>2. Slotted(s, next(s, now))
        BY <1>0, NextSlot
      <4> HIDE DEF r
      <4>3. r.next = next(s, now)
        BY <2>4, <4>1 DEF SchedRec
      <4> QED BY <2>2, <3>3, <4>2, <4>3
    <3> QED BY <2>2, <3>1, <3>2, <3>3
  <2> HIDE DEF r
  <2>6. sched'[s] = r /\ \A t \in Schedules : t # s => sched'[t] = sched[t]
    BY <1>0, <2>3
  <2>7. SlotsKnown'
    BY <1>0, <2>5, <2>6 DEF SlotsKnown
  <2>8. recon'.todo = recon.todo \ {s} /\ recon'.seen = recon.seen /\ recon.todo \subseteq Schedules
    BY <1>1, <2>1 DEF ReconcileVisits, ReconRec
  <2>9. \A t \in recon'.todo : recon'.seen[t].present = sched'[t].present
    BY <1>0, <2>1, <2>6, <2>8 DEF ReconKnown
  <2>10. ReconKnown'
    BY <2>9 DEF ReconKnown
  <2> QED BY <2>5, <2>6, <2>7, <2>10
<1>2. ASSUME NEW valid \in SUBSET Schedules, ReconcileReads(valid)
      PROVE  /\ SlotsKnown' /\ ReconKnown'
             /\ \A t \in Schedules : sched[t].present => sched'[t].present /\ sched'[t].next = sched[t].next
  <2>1. sched' = sched
    BY <1>2 DEF ReconcileReads, tables
  <2>2. /\ recon'.todo = valid
        /\ recon'.seen = [s \in Schedules |-> [present |-> sched[s].present, enabled |-> sched[s].enabled]]
    BY <1>2 DEF ReconcileReads
  <2>3. \A t \in recon'.todo : recon'.seen[t].present = sched'[t].present
    BY <2>1, <2>2
  <2> QED BY <1>0, <2>1, <2>3 DEF SlotsKnown, ReconKnown
<1>3. ASSUME ReconcileDisables
      PROVE  /\ SlotsKnown' /\ ReconKnown'
             /\ \A t \in Schedules : sched[t].present => sched'[t].present /\ sched'[t].next = sched[t].next
  <2>1. \A s \in Schedules : sched[s] \in SchedRec
    BY <1>0
  <2>2. \A s \in Schedules : sched'[s].present = sched[s].present /\ sched'[s].next = sched[s].next
    BY <1>3, <2>1 DEF ReconcileDisables, SchedRec
  <2>3. ReconKnown'
    BY <1>3 DEF ReconcileDisables, ReconKnown, NoRecon
  <2> QED BY <1>0, <2>2, <2>3 DEF SlotsKnown
<1> QED BY <1>1, <1>2, <1>3 DEF ReconcileStep

LEMMA ReconcileSlots ==
  ASSUME TypeInv, Slots, ReconcileStep
  PROVE  Slots'
<1>0. RowsKnown /\ StartKnown /\ Served /\ StartF \in Flows
  BY FlowTypes DEF Slots
<1>1. fires' = fires /\ flow' = flow /\ excused' = excused /\ \A t \in Schedules : sched'[t].last = sched[t].last
  BY ReconcileDoes DEF ReconcileStep
<1>2. /\ SlotsKnown' /\ ReconKnown'
      /\ \A t \in Schedules : sched[t].present => sched'[t].present /\ sched'[t].next = sched[t].next
  BY <1>0, ReconcileRows
<1>3. ASSUME NEW k \in DOMAIN fires PROVE fires[k].sched \in Schedules /\ sched[fires[k].sched].present /\ FireKnown(k)'
  <2>1. fires[k].sched \in Schedules
    <3>1. fires[k] \in FireRec(maxRetries)
      BY <1>0, Basics
    <3> QED BY <3>1 DEF FireRec
  <2>2. FireKnown(k)
    BY <1>0 DEF RowsKnown
  <2> QED BY <1>1, <1>2, <2>1, <2>2 DEF FireKnown
<1>4. ASSUME NEW row, NEW at, row.id \in Schedules, Known(row, at)
      PROVE  Known(row, at)' /\ (Current(row) => Current(row)')
  BY <1>1, <1>2, <1>4 DEF Known, Current
<1>5. ASSUME NEW f \in Flows PROVE FlowKnown(f)'
  <2>1. FlowKnown(f)
    BY <1>0 DEF RowsKnown
  <2> PICK g : g = flow[f]
    OBVIOUS
  <2>2. /\ g.pc \in RowPcs => g.row.id \in Schedules
        /\ \A i \in DOMAIN g.due : g.due[i].id \in Schedules
    BY FlowIds
  <2>3. \A i \in DOMAIN g.due : Known(g.due[i], g.at)'
    BY <1>4, <2>1, <2>2 DEF FlowKnown
  <2>4. g.pc \in RowPcs => sched'[g.row.id].present
    BY <1>2, <2>1, <2>2 DEF FlowKnown
  <2>5. g.pc \in PendPcs => Known(g.row, g.at)'
    BY <1>4, <2>1, <2>2, PcFacts DEF FlowKnown
  <2>6. flow'[f] = g
    BY <1>1
  <2> QED BY <1>1, <2>1, <2>3, <2>4, <2>5, <2>6 DEF FlowKnown, Known
<1>6. RowsKnown'
  BY <1>1, <1>2, <1>3, <1>5 DEF RowsKnown
<1>7. StartKnown'
  <2> PICK g : g = flow[StartF]
    OBVIOUS
  <2>1. /\ g.pc \in RowPcs => g.row.id \in Schedules
        /\ \A i \in DOMAIN g.due : g.due[i].id \in Schedules
    BY <1>0, FlowIds
  <2>2. \A i \in DOMAIN g.due : Current(g.due[i])'
    <3>1. \A i \in DOMAIN g.due : Known(g.due[i], g.at) /\ Current(g.due[i])
      BY <1>0 DEF RowsKnown, FlowKnown, StartKnown
    <3> QED BY <1>4, <2>1, <3>1
  <2>3. g.pc \in StartRow => Known(g.row, g.at)' /\ Others(g) /\ Current(g.row)'
    BY <1>0, <1>4, <2>1, PcFacts DEF StartKnown
  <2>4. \A k : Live(k)' <=> Live(k)
    BY <1>1 DEF Live, SlotOf
  <2>5. flow'[StartF] = g
    BY <1>1
  <2> QED BY <1>0, <1>1, <2>2, <2>3, <2>4, <2>5 DEF StartKnown, Known, Current
<1>8. Served'
  <2>1. \A k : (Live(k)' <=> Live(k)) /\ SlotOf(k)' = SlotOf(k) /\ (Catching(k) => Catching(k)')
    BY <1>1 DEF Live, SlotOf, Catching
  <2>2. \A k \in DOMAIN fires : Settled(k) => Settled(k)'
    BY <1>1, <1>2, <1>3 DEF Settled
  <2>3. \A h \in Ticks : Pending(h)' = Pending(h)
    BY <1>1 DEF Pending
  <2>4. \A k \in DOMAIN fires' : Live(k)' => Settled(k)' \/ Catching(k)'
    BY <1>0, <1>1, <2>1, <2>2 DEF Served
  <2>5. \A k \in DOMAIN fires', f \in Ticks : Live(k)' => SlotOf(k)' \notin Pending(f)'
    BY <1>0, <1>1, <2>1, <2>3 DEF Served
  <2>6. \A f, g \in Ticks : f # g => Pending(f)' \cap Pending(g)' \subseteq excused'
    BY <1>0, <1>1, <2>3 DEF Served
  <2>7. \A i, j \in DOMAIN fires' : Live(i)' /\ Live(j)' /\ SlotOf(i)' = SlotOf(j)' => i = j
    BY <1>0, <1>1, <2>1 DEF Served
  <2> QED BY <2>4, <2>5, <2>6, <2>7 DEF Served
<1> QED BY <1>6, <1>7, <1>8 DEF Slots

LEMMA SlotInit == Init => SlotInv
<1> SUFFICES ASSUME Init PROVE Slots
  BY DEF SlotInv
<1>1. fires = << >> /\ recon.pc = "idle" /\ \A f \in Flows : flow[f].pc = "idle" /\ flow[f].due = << >>
  BY DEF Init, NoRecon, Idle
<1>2. \A s \in Schedules : Slotted(s, sched[s].next)
  <2>1. \A s \in Schedules : sched[s].next = next(s, 0) /\ 0 \in Nat
    BY DEF Init
  <2> QED BY <2>1, NextSlot
<1>3. "idle" \notin RowPcs \cup PendPcs \cup DispatchPcs \cup StartRow /\ "idle" \in RestPcs
  BY DEF RowPcs, PendPcs, DispatchPcs, StartRow, CatchPcs, TickPcs, Policies, RestPcs
<1>4. RowsKnown
  BY <1>1, <1>2, <1>3 DEF RowsKnown, SlotsKnown, ReconKnown, FlowKnown
<1>5. StartKnown
  BY <1>1, <1>3, FlowTypes, RestKnown
<1>6. Served
  <2>1. DOMAIN fires = {}
    BY <1>1
  <2>2. \A f \in Ticks : Pending(f) = {}
    BY <1>1, FlowTypes DEF Pending
  <2> QED BY <2>1, <2>2 DEF Served
<1> QED BY <1>4, <1>5, <1>6 DEF Slots

LEMMA TickSlots ==
  ASSUME TypeInv, Slots, maxRetries = 0, NEW f \in Flows, TickStep(f)
  PROVE  Slots'
<1>1. CASE f = StartF
  BY <1>1, StartFlowSlots
<1>2. CASE f \in Ticks
  <2>1. RowsKnown' /\ Acts(f)
    BY TickRows, FlowActs DEF Slots
  <2>2. StartKnown'
    BY <1>2, <2>1, StartQuiet DEF Slots
  <2> QED BY <1>2, <2>1, <2>2, TickServed DEF Slots
<1> QED BY <1>1, <1>2, FlowTypes

LEMMA SlotNext == TypeInv /\ SlotInv /\ [Next]_vars => SlotInv'
<1> SUFFICES ASSUME TypeInv, SlotInv, [Next]_vars, maxRetries' = 0 PROVE Slots'
  BY DEF SlotInv
<1>0. ProcessStep \/ ReconcileStep \/ CatchUpStep \/ (\E f \in Flows : TickStep(f)) \/ UNCHANGED vars
  BY NextIs
<1>1. maxRetries' = maxRetries
  <2>1. CASE ProcessStep
    BY <2>1 DEF ProcessStep, Start, StartRefused, Seeds, SeedThrows, Stop, Exit, TimePasses
  <2>2. CASE ReconcileStep
    BY <2>2, ReconcileDoes DEF ReconcileStep
  <2>3. CASE CatchUpStep
    BY <2>3, CatchUpActs DEF Acts, host
  <2>4. CASE \E f \in Flows : TickStep(f)
    BY <2>4, FlowActs DEF Acts, host
  <2>5. CASE UNCHANGED vars
    BY <2>5 DEF vars
  <2> QED BY <1>0, <2>1, <2>2, <2>3, <2>4, <2>5
<1>2. maxRetries = 0 /\ Slots
  BY <1>1 DEF SlotInv
<1>3. CASE UNCHANGED vars
  <2>1. sched' = sched /\ fires' = fires /\ recon' = recon /\ excused' = excused /\ flow' = flow
    BY <1>3 DEF vars
  <2> QED BY <1>2, <2>1, ProcessSlotsWhen
<1> QED BY <1>0, <1>2, <1>3, ProcessSlots, ReconcileSlots, CatchUpSlots, TickSlots

LEMMA SlotFollows == SlotInv => SlotSentOnce
<1> SUFFICES ASSUME SlotInv, maxRetries = 0, NEW i \in DOMAIN fires, NEW j \in DOMAIN fires,
                    i # j, fires[i].sched = fires[j].sched, fires[i].slot = fires[j].slot,
                    fires[i].sent, fires[j].sent, "now" \notin {fires[i].via, fires[j].via},
                    <<fires[i].sched, fires[i].slot>> \notin excused
             PROVE  FALSE
  BY DEF SlotSentOnce
<1>1. Live(i) /\ Live(j) /\ SlotOf(i) = SlotOf(j)
  BY DEF Live, SlotOf
<1> QED BY <1>1 DEF SlotInv, Slots, Served

\* Without retries, the daemon sends a slot once, across ticks that overlap,
\* catch-ups at start, crashes and restarts, rejected statements and the
\* reconciler, except for the slots that ticks had both selected, that a tick
\* which started long ago made due again, or whose catch-up was cut short.
THEOREM SlotsSentOnce == Spec => []SlotSentOnce
<1>1. Init => TypeInv /\ SlotInv
  BY TypeInit, SlotInit
<1>2. TypeInv /\ SlotInv /\ [Next]_vars => (TypeInv /\ SlotInv)'
  BY TypeNext, SlotNext
<1>3. TypeInv /\ SlotInv => SlotSentOnce
  BY SlotFollows
<1> QED BY <1>1, <1>2, <1>3, PTL DEF Spec
=============================================================================
