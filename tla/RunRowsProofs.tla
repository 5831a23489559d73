---------------------------- MODULE RunRowsProofs ----------------------------
(***************************************************************************)
(* Proofs about the two rows of a run, `runs` and `active_runs`: what they  *)
(* hold while the run executes, when its call has returned, and after a     *)
(* crash, for any number of runs, cancels, failures, crashes and hangs, and *)
(* for the statements of all of them in any order the database allows.      *)
(***************************************************************************)
EXTENDS RunLifecycleProofs

(***************************************************************************)
(* The inductive invariant.  LifeInv of RunLifecycleProofs relates a call,  *)
(* its status and its error slot; here are the statements under way and the *)
(* rows they are about to change.                                           *)
(***************************************************************************)
\* A call has left the await of insertRun.
Begun == PC \ {"idle", "inserting", "dead"}

\* The call has written its `runs` row and is about to release the active row.
Written == {"releasing", "markingSetup"}

\* s is the statement that the call of r waits for.
Matches(s, r) ==
  /\ s.on = {r} /\ awaits[r] = "pending"
  /\ \/ pc[r] = "inserting" /\ s.op = "insertRun" /\ s.as = "running"
     \/ pc[r] \in {"updating", "updatingSetup"} /\ s.op = "updateRun" /\ s.as = status[r]
     \/ pc[r] \in Written /\ s.op \in {"deleteActiveRun", "markInterrupted"}

\* A statement under way.  Only an awaited one inserts, updates or deletes; the
\* others record no success, and finalizeRunRow follows a terminal status.
Fits(s) ==
  /\ s.awaited => \E r \in Runs : Matches(s, r)
  /\ ~s.awaited =>
       /\ s.op \notin {"insertRun", "updateRun", "deleteActiveRun"}
       /\ s.as # "success"
       /\ s.op = "finalizeRunRow" => \A r \in s.on : status[r] \in Terminal

\* A call waits for one statement at a time.
OneAwait(d) ==
  \A i, j \in DOMAIN d :
    d[i].awaited /\ d[j].awaited /\ d[i].on = d[j].on => i = j

\* The unawaited statements that an awaited one must not overtake: the boot
\* sweep of the `runs` table and the creation of the active row.
Early == {"terminalizeOrphanedRuns", "createActiveRun"}

\* They are ahead of it in the queue ...
EarlyFirst(d) ==
  \A i, j \in DOMAIN d :
    d[i].op \in Early /\ d[j].awaited /\ d[j].on \subseteq d[i].on => i < j

\* ... so a database that keeps the order has executed them when the call
\* learns what became of its statement.
Ahead(s) ==
  /\ \A r \in s.on : s.op \in Early => awaits[r] \notin {"ok", "failed"}
  /\ s.op = "terminalizeOrphanedRuns" =>
       s.on = Runs /\ \A r \in Runs : pc[r] \notin Begun
  /\ s.op = "createActiveRun" =>
       \A r \in s.on : pc[r] \notin Written \cup {"returned"}

Queue ==
  /\ \A i \in DOMAIN db : Fits(db[i])
  /\ OneAwait(db)
  /\ OrderedDB => EarlyFirst(db)
  /\ OrderedDB => \A i \in DOMAIN db : Ahead(db[i])

\* No statement was rejected so far.
Unfailed == budget.failures = MaxFailures

\* Where a call stands: it waits only at an await, has no controller once it is
\* closing, is not under way while the process is down, and learns of a failure
\* only after one.
Stands(r) ==
  /\ awaits[r] # "none" => pc[r] \in Closing \cup {"inserting"}
  /\ pc[r] \in Closing \cup {"returned"} => ctrl[r] = "none"
  /\ ~up => pc[r] \in {"idle", "dead"}
  /\ Unfailed => awaits[r] # "failed"

\* The call knows that its `runs` row is there ...
KnowsInserted(r) ==
  \/ pc[r] \in Begun \ {"rejected"}
  \/ pc[r] = "inserting" /\ awaits[r] = "ok"

\* ... that it holds the final status ...
KnowsUpdated(r) ==
  \/ pc[r] \in {"updating", "updatingSetup"} /\ awaits[r] = "ok"
  \/ pc[r] \in Written
  \/ pc[r] = "returned" /\ Unfailed

\* ... and that the active row was released.
KnowsReleased(r) ==
  \/ pc[r] \in Written /\ awaits[r] = "ok"
  \/ pc[r] = "returned" /\ Unfailed

\* The run executes.
Lives(r) ==
  /\ status[r] = "running"
  /\ \/ pc[r] \in {"setup", "armed", "streaming"}
     \/ pc[r] = "inserting" /\ awaits[r] = "ok"

\* What the `runs` row holds.
RunsRowFits(r) ==
  /\ KnowsInserted(r) => runsRow[r] # "absent"
  /\ KnowsUpdated(r) => runsRow[r] = status[r]
  /\ runsRow[r] = "success" =>
       \/ pc[r] = "dead"
       \/ pc[r] \in Closing \cup {"returned"} /\ status[r] = "success"
  /\ OrderedDB /\ Lives(r) => runsRow[r] = "running"

\* What the active row holds.
ActiveRowFits(r) == OrderedDB /\ KnowsReleased(r) => activeRow[r] # "running"

\* Whoever ended the run has said so, before its call can return.
Reported(r) ==
  \/ pc[r] \in Closing \cup {"returned"}
  \/ pc[r] \in {"inserting", "setup", "armed", "streaming"} /\ status[r] \in Terminal
  => events[r] # {}

RunFits(r) == Stands(r) /\ RunsRowFits(r) /\ ActiveRowFits(r) /\ Reported(r)

RowsInv ==
  /\ Queue
  /\ budget.failures <= MaxFailures
  /\ \A r \in Runs : RunFits(r)

-----------------------------------------------------------------------------
(***************************************************************************)
(* The queue of statements.                                                *)
(***************************************************************************)
\* What is left of a sequence without its i-th element, and in which order.
LEMMA RemoveAtElements ==
  ASSUME NEW S, NEW s \in Seq(S), NEW i \in DOMAIN s
  PROVE  \A k \in DOMAIN RemoveAt(s, i) :
           LET j == IF k < i THEN k ELSE k + 1
           IN  /\ k \in Nat \ {0} /\ j \in DOMAIN s /\ j # i
               /\ RemoveAt(s, i)[k] = s[j]
<1>1. i \in 1 .. Len(s) /\ Len(s) \in Nat
  OBVIOUS
<1> DEFINE a == SubSeq(s, 1, i - 1)
           b == SubSeq(s, i + 1, Len(s))
<1>2. /\ a \in Seq(S) /\ Len(a) = i - 1
      /\ \A k \in 1 .. (i - 1) : a[k] = s[k]
  BY <1>1
<1>3. /\ b \in Seq(S) /\ Len(b) = Len(s) - i
      /\ \A k \in 1 .. (Len(s) - i) : b[k] = s[k + i]
  BY <1>1
<1>4. RemoveAt(s, i) = a \o b
  BY DEF RemoveAt
<1> HIDE DEF a, b
<1>5. /\ DOMAIN (a \o b) = 1 .. (Len(a) + Len(b))
      /\ \A k \in 1 .. (Len(a) + Len(b)) :
           (a \o b)[k] = IF k <= Len(a) THEN a[k] ELSE b[k - Len(a)]
  BY <1>2, <1>3
<1> SUFFICES ASSUME NEW k \in DOMAIN RemoveAt(s, i)
             PROVE  /\ k \in Nat \ {0}
                    /\ (IF k < i THEN k ELSE k + 1) \in DOMAIN s
                    /\ (IF k < i THEN k ELSE k + 1) # i
                    /\ RemoveAt(s, i)[k] = s[IF k < i THEN k ELSE k + 1]
  OBVIOUS
<1>6. k \in 1 .. (Len(s) - 1)
  BY <1>1, <1>2, <1>3, <1>4, <1>5
<1>7. CASE k < i
  <2>1. k \in 1 .. (i - 1) /\ k <= Len(a)
    BY <1>1, <1>2, <1>6, <1>7
  <2> QED
    BY <1>1, <1>2, <1>3, <1>4, <1>5, <1>6, <1>7, <2>1
<1>8. CASE ~(k < i)
  <2>1. /\ k - (i - 1) \in 1 .. (Len(s) - i) /\ ~(k <= Len(a))
        /\ k - (i - 1) + i = k + 1 /\ k \in 1 .. (Len(a) + Len(b))
    BY <1>1, <1>2, <1>3, <1>6, <1>8
  <2>2. (a \o b)[k] = b[k - (i - 1)]
    BY <1>2, <1>5, <2>1
  <2>3. b[k - (i - 1)] = s[k + 1]
    BY <1>3, <2>1
  <2> QED
    BY <1>1, <1>4, <1>6, <1>8, <2>2, <2>3
<1> QED
  BY <1>7, <1>8

\* What a sequence holds after one element was appended.
LEMMA AppendElements ==
  ASSUME NEW S, NEW s \in Seq(S), NEW e \in S
  PROVE  \A k \in DOMAIN Append(s, e) :
           \/ k \in DOMAIN s /\ Append(s, e)[k] = s[k]
           \/ k = Len(s) + 1 /\ Append(s, e)[k] = e
<1>1. /\ Len(s) \in Nat /\ DOMAIN s = 1 .. Len(s)
      /\ DOMAIN Append(s, e) = 1 .. (Len(s) + 1)
      /\ Append(s, e)[Len(s) + 1] = e
      /\ \A k \in 1 .. Len(s) : Append(s, e)[k] = s[k]
  OBVIOUS
<1> SUFFICES ASSUME NEW k \in 1 .. (Len(s) + 1)
             PROVE  \/ k \in DOMAIN s /\ Append(s, e)[k] = s[k]
                    \/ k = Len(s) + 1 /\ Append(s, e)[k] = e
  BY <1>1
<1>2. k \in 1 .. Len(s) \/ k = Len(s) + 1
  BY <1>1
<1> QED
  BY <1>1, <1>2

\* Two statements issued together are issued one after the other.
LEMMA AppendTwice ==
  ASSUME NEW S, NEW s \in Seq(S), NEW e \in S, NEW f \in S
  PROVE  s \o <<e, f>> = Append(Append(s, e), f)
<1>1. <<e, f>> \in Seq(S) /\ s \o <<e, f>> \in Seq(S) /\ Append(Append(s, e), f) \in Seq(S)
  OBVIOUS
<1>2. Len(s \o <<e, f>>) = Len(s) + 2 /\ Len(Append(Append(s, e), f)) = Len(s) + 2
  OBVIOUS
<1>3. ASSUME NEW k \in 1 .. (Len(s) + 2)
      PROVE  (s \o <<e, f>>)[k] = Append(Append(s, e), f)[k]
  <2>1. k \in 1 .. Len(s) \/ k = Len(s) + 1 \/ k = Len(s) + 2
    OBVIOUS
  <2> QED
    BY <2>1
<1> QED
  BY <1>1, <1>2, <1>3

\* Taking a statement out of the queue disturbs nobody's order.
LEMMA RemoveKeepsOrder ==
  ASSUME NEW d \in Seq(Statement), NEW i \in DOMAIN d
  PROVE  /\ OneAwait(d) => OneAwait(RemoveAt(d, i))
         /\ EarlyFirst(d) => EarlyFirst(RemoveAt(d, i))
<1>0. i \in Nat
  OBVIOUS
<1>1. \A k \in DOMAIN RemoveAt(d, i) :
        /\ k \in Nat \ {0} /\ (IF k < i THEN k ELSE k + 1) \in DOMAIN d
        /\ RemoveAt(d, i)[k] = d[IF k < i THEN k ELSE k + 1]
  BY RemoveAtElements
<1>2. \A k, l \in Nat :
        /\ (IF k < i THEN k ELSE k + 1) = (IF l < i THEN l ELSE l + 1) => k = l
        /\ (IF k < i THEN k ELSE k + 1) < (IF l < i THEN l ELSE l + 1) => k < l
  BY <1>0
<1>3. ASSUME OneAwait(d) PROVE OneAwait(RemoveAt(d, i))
  BY <1>1, <1>2, <1>3 DEF OneAwait
<1>4. ASSUME EarlyFirst(d) PROVE EarlyFirst(RemoveAt(d, i))
  BY <1>1, <1>2, <1>4 DEF EarlyFirst
<1> QED
  BY <1>3, <1>4

\* Neither does an unawaited statement at its end, unless it is an early one and
\* its call already waits.
LEMMA AppendUnawaited ==
  ASSUME NEW d \in Seq(Statement), NEW e \in Statement, ~e.awaited,
         e.op \in Early =>
           \A j \in DOMAIN d : d[j].awaited => ~(d[j].on \subseteq e.on)
  PROVE  /\ OneAwait(d) => OneAwait(Append(d, e))
         /\ EarlyFirst(d) => EarlyFirst(Append(d, e))
<1>1. \A k \in DOMAIN Append(d, e) :
        \/ k \in DOMAIN d /\ Append(d, e)[k] = d[k]
        \/ k = Len(d) + 1 /\ Append(d, e)[k] = e
  BY AppendElements
<1>2. ASSUME OneAwait(d) PROVE OneAwait(Append(d, e))
  BY <1>1, <1>2 DEF OneAwait
<1>3. ASSUME EarlyFirst(d) PROVE EarlyFirst(Append(d, e))
  BY <1>1, <1>3 DEF EarlyFirst
<1> QED
  BY <1>2, <1>3

\* Nor an awaited one, when its call waited for nothing before.
LEMMA AppendAwaited ==
  ASSUME NEW d \in Seq(Statement), NEW e \in Statement, e.awaited, e.op \notin Early,
         \A j \in DOMAIN d : d[j].awaited => d[j].on # e.on
  PROVE  /\ OneAwait(d) => OneAwait(Append(d, e))
         /\ EarlyFirst(d) => EarlyFirst(Append(d, e))
<1>0. Len(d) \in Nat /\ DOMAIN d = 1 .. Len(d)
  OBVIOUS
<1>1. \A k \in DOMAIN Append(d, e) :
        \/ k \in DOMAIN d /\ Append(d, e)[k] = d[k]
        \/ k = Len(d) + 1 /\ Append(d, e)[k] = e
  BY AppendElements
<1>2. ASSUME OneAwait(d) PROVE OneAwait(Append(d, e))
  BY <1>1, <1>2 DEF OneAwait
<1>3. ASSUME EarlyFirst(d) PROVE EarlyFirst(Append(d, e))
  BY <1>0, <1>1, <1>3 DEF EarlyFirst
<1> QED
  BY <1>2, <1>3

-----------------------------------------------------------------------------
(***************************************************************************)
(* What a step does to the statements under way, and to the other runs.     *)
(***************************************************************************)
\* How a step of the process, as opposed to one of the database, moves the
\* calls: a terminal status stays one, a call stays where it waits, and it gets
\* past an await only once the database has answered.
Moves ==
  \A r \in Runs :
    /\ status[r] \in Terminal => status'[r] \in Terminal
    /\ awaits[r] = "pending" =>
         /\ awaits'[r] = "pending" /\ pc'[r] = pc[r]
         /\ pc[r] \in Closing => status'[r] = status[r]
    /\ awaits'[r] \in {"ok", "failed"} => awaits[r] \in {"ok", "failed"}
    /\ pc'[r] \in Begun => pc[r] \in Begun \/ awaits[r] \in {"ok", "failed"}
    /\ pc'[r] \in Written \cup {"returned"} =>
         pc[r] \in Written \cup {"returned"} \/ awaits[r] \in {"ok", "failed"}

\* Such a step suits the statements under way.
LEMMA MovesKeep ==
  ASSUME Moves
  PROVE  \A s \in Statement : (Fits(s) => Fits(s)') /\ (Ahead(s) => Ahead(s)')
<1>1. ASSUME NEW s \in Statement, NEW r \in Runs, Matches(s, r) PROVE Matches(s, r)'
  BY <1>1 DEF Matches, Moves, Written, Closing
<1>2. ASSUME NEW s \in Statement, Fits(s) PROVE Fits(s)'
  <2>1. s.on \subseteq Runs
    BY DEF Statement
  <2> QED
    BY <1>1, <1>2, <2>1 DEF Fits, Moves
<1>3. ASSUME NEW s \in Statement, Ahead(s) PROVE Ahead(s)'
  <2>1. s.on \subseteq Runs
    BY DEF Statement
  <2> QED
    BY <1>3, <2>1 DEF Ahead, Moves, Early
<1> QED
  BY <1>2, <1>3

\* Nobody else awaits a statement of a call that is not waiting.
LEMMA NoAwait ==
  ASSUME Queue, db \in Seq(Statement), NEW r \in Runs, awaits[r] # "pending"
  PROVE  \A j \in DOMAIN db : db[j].awaited => ~(db[j].on \subseteq {r}) /\ db[j].on # {r}
<1> SUFFICES ASSUME NEW j \in DOMAIN db, db[j].awaited, db[j].on \subseteq {r}
             PROVE  FALSE
  OBVIOUS
<1>1. PICK q \in Runs : Matches(db[j], q)
  BY DEF Queue, Fits
<1>2. q = r
  BY <1>1 DEF Matches
<1> QED
  BY <1>1, <1>2 DEF Matches

\* The queue, after a step that issues no statement ...
LEMMA QueueSame ==
  ASSUME TypeOK, Queue, Moves, db' = db
  PROVE  Queue'
<1>1. \A i \in DOMAIN db : db[i] \in Statement
  BY DEF TypeOK
<1>2. (\A i \in DOMAIN db : Fits(db[i]))'
  BY <1>1, MovesKeep DEF Queue
<1>3. (OrderedDB => \A i \in DOMAIN db : Ahead(db[i]))'
  BY <1>1, MovesKeep DEF Queue
<1>4. OneAwait(db)' /\ (OrderedDB => EarlyFirst(db))'
  BY DEF Queue, OneAwait, EarlyFirst
<1> QED
  BY <1>2, <1>3, <1>4 DEF Queue

\* ... one that issues a statement nobody waits for ...
LEMMA QueueUnawaited ==
  ASSUME TypeOK, Queue, Moves, NEW e \in Statement, db' = Append(db, e), ~e.awaited,
         Fits(e)', OrderedDB => Ahead(e)',
         e.op \in Early => \E r \in Runs : e.on = {r} /\ awaits[r] # "pending"
  PROVE  Queue'
<1>0. db \in Seq(Statement) /\ \A i \in DOMAIN db : db[i] \in Statement
  BY DEF TypeOK
<1>1. \A k \in DOMAIN db' : \/ k \in DOMAIN db /\ db'[k] = db[k]
                            \/ db'[k] = e
  BY <1>0, AppendElements
<1>2. (\A i \in DOMAIN db : Fits(db[i]))'
  BY <1>0, <1>1, MovesKeep DEF Queue
<1>3. (OrderedDB => \A i \in DOMAIN db : Ahead(db[i]))'
  BY <1>0, <1>1, MovesKeep DEF Queue
<1>4. e.op \in Early => \A j \in DOMAIN db : db[j].awaited => ~(db[j].on \subseteq e.on)
  BY <1>0, NoAwait
<1>5. OneAwait(db') /\ (OrderedDB => EarlyFirst(db'))
  BY <1>0, <1>4, AppendUnawaited DEF Queue
<1> QED
  BY <1>2, <1>3, <1>5 DEF Queue, OneAwait, EarlyFirst

\* ... and one at whose end the call of r waits.
LEMMA QueueAwaited ==
  ASSUME TypeOK, Queue, Moves, NEW r \in Runs, NEW e \in Statement,
         db' = Append(db, e), e.awaited, e.on = {r}, awaits[r] # "pending",
         e.op \notin Early, Matches(e, r)'
  PROVE  Queue'
<1>0. db \in Seq(Statement) /\ \A i \in DOMAIN db : db[i] \in Statement
  BY DEF TypeOK
<1>1. \A k \in DOMAIN db' : \/ k \in DOMAIN db /\ db'[k] = db[k]
                            \/ db'[k] = e
  BY <1>0, AppendElements
<1>2. Fits(e)' /\ Ahead(e)'
  BY DEF Fits, Ahead, Early
<1>3. (\A i \in DOMAIN db : Fits(db[i]))'
  BY <1>0, <1>1, <1>2, MovesKeep DEF Queue
<1>4. (OrderedDB => \A i \in DOMAIN db : Ahead(db[i]))'
  BY <1>0, <1>1, <1>2, MovesKeep DEF Queue
<1>5. OneAwait(db') /\ (OrderedDB => EarlyFirst(db'))
  <2>1. \A j \in DOMAIN db : db[j].awaited => db[j].on # e.on
    BY <1>0, NoAwait
  <2> QED
    BY <1>0, <2>1, AppendAwaited DEF Queue
<1> QED
  BY <1>3, <1>4, <1>5 DEF Queue, OneAwait, EarlyFirst

\* A run that a step leaves alone, but for an abort or an event.
LEMMA RunUnmoved ==
  ASSUME NEW r \in Runs, RunFits(r), up => up', Unfailed' => Unfailed,
         pc'[r] = pc[r], status'[r] = status[r], awaits'[r] = awaits[r],
         runsRow'[r] = runsRow[r], activeRow'[r] = activeRow[r],
         ctrl[r] = "none" => ctrl'[r] = "none", events[r] \subseteq events'[r]
  PROVE  RunFits(r)'
  BY DEF RunFits, Stands, RunsRowFits, ActiveRowFits, Reported, KnowsInserted,
     KnowsUpdated, KnowsReleased, Lives

\* A step of the process that changes nothing of the runs but r.
Others(r) ==
  /\ up' = up /\ budget'.failures = budget.failures
  /\ runsRow' = runsRow /\ activeRow' = activeRow
  /\ \A q \in Runs : q # r =>
       /\ pc'[q] = pc[q] /\ status'[q] = status[q] /\ awaits'[q] = awaits[q]
       /\ ctrl'[q] = ctrl[q] /\ events'[q] = events[q]

\* It is enough to look at the queue and at r.
LEMMA RunStep ==
  ASSUME RowsInv, NEW r \in Runs, Others(r), Queue', RunFits(r)'
  PROVE  RowsInv'
<1>1. ASSUME NEW q \in Runs, q # r PROVE RunFits(q)'
  BY <1>1, RunUnmoved DEF RowsInv, Others, Unfailed
<1>2. (\A q \in Runs : RunFits(q))'
  BY <1>1
<1> QED
  BY <1>2 DEF RowsInv, Others

-----------------------------------------------------------------------------
(***************************************************************************)
(* The steps of the process, one lemma per kind of step.                    *)
(***************************************************************************)
\* What the steps below start from.
Known == TypeOK /\ LifeInv /\ RowsInv

\* Known facts about one run.
LEMMA KnownRun ==
  ASSUME Known, NEW r \in Runs
  PROVE  /\ pc[r] \in PC /\ status[r] \in Terminal \cup {"none", "running"}
         /\ ctrl[r] \in {"none", "live", "aborted"}
         /\ awaits[r] \in {"none", "pending", "ok", "failed"}
         /\ events[r] \subseteq {"complete", "error", "cancel"}
         /\ RunFits(r)
         /\ status[r] = "none" => pc[r] \in {"idle", "dead"}
         /\ pc[r] = "idle" => status[r] = "none" /\ ctrl[r] = "none"
         /\ status[r] = "running" =>
              pc[r] \in {"inserting", "setup", "armed", "streaming", "rejected"}
  BY DEF Known, TypeOK, LifeInv, RowsInv, Started, NotBegun, NotFinalized

\* A step of the call of r, from where it stood to p, with the status s and the
\* await a; it may emit events.
Goes(r, p, s, a) ==
  /\ pc' = [pc EXCEPT ![r] = p] /\ status' = [status EXCEPT ![r] = s]
  /\ awaits' = [awaits EXCEPT ![r] = a]
  /\ \A q \in Runs : q # r => ctrl'[q] = ctrl[q] /\ events'[q] = events[q]
  /\ ctrl[r] = "none" => ctrl'[r] = "none"
  /\ events[r] \subseteq events'[r]
  /\ UNCHANGED <<up, runsRow, activeRow, budget>>

\* It moves nobody else.
LEMMA GoesOthers ==
  ASSUME Known, NEW r \in Runs, NEW p, NEW s, NEW a, Goes(r, p, s, a)
  PROVE  /\ Others(r) /\ pc'[r] = p /\ status'[r] = s /\ awaits'[r] = a
         /\ (Unfailed' <=> Unfailed)
  BY DEF Known, TypeOK, Goes, Others, Unfailed

\* A call that waits for nothing goes on within its setup or its prompt.
LEMMA GoesOn ==
  ASSUME Known, NEW r \in Runs, NEW p, NEW s, Goes(r, p, s, "none"), db' = db,
         awaits[r] = "none", pc[r] \in {"setup", "armed", "streaming"},
         p \in {"armed", "streaming", "postingSetupError", "saving", "savingPartial",
                "postingError"},
         s = status[r] \/ (s \in Terminal /\ p \notin {"armed", "streaming"})
  PROVE  RowsInv'
<1>1. /\ Others(r) /\ pc'[r] = p /\ status'[r] = s /\ awaits'[r] = "none"
      /\ (Unfailed' <=> Unfailed)
  BY GoesOthers
<1>2. Moves
  BY <1>1, KnownRun DEF Others, Moves, Begun, Written, PC, Setup, Saving, Closing
<1>3. Queue'
  BY <1>2, QueueSame DEF Known, RowsInv
<1>4. RunFits(r) /\ runsRow'[r] = runsRow[r] /\ activeRow'[r] = activeRow[r] /\ up' = up
      /\ (events[r] # {} => events'[r] # {})
  BY <1>1, KnownRun DEF Others, Goes
<1>5. Stands(r)' /\ ActiveRowFits(r)'
  BY <1>1, <1>4 DEF RunFits, Stands, ActiveRowFits, KnowsReleased, Closing, Written
<1>6. RunsRowFits(r)'
  BY <1>1, <1>4 DEF RunFits, RunsRowFits, KnowsInserted, KnowsUpdated, Lives, Begun, PC,
     Setup, Saving, Closing, Written, Terminal
<1>7. Reported(r)'
  BY <1>1, <1>4 DEF RunFits, Reported, Closing
<1> QED
  BY <1>1, <1>3, <1>5, <1>6, <1>7, RunStep DEF Known, RunFits

\* A call that waits for nothing comes to the updateRun of one of its finalizers,
\* its controller gone and its end reported.
LEMMA GoesToUpdate ==
  ASSUME Known, NEW r \in Runs, NEW p \in {"updating", "updatingSetup"},
         NEW s \in Terminal, Goes(r, p, s, "pending"),
         db' = Append(db, Awaited("updateRun", r, s)),
         awaits[r] # "pending", pc[r] \in Begun \ {"rejected", "returned"},
         ctrl'[r] = "none", events'[r] # {},
         runsRow[r] = "success" => status[r] = s
  PROVE  RowsInv'
<1>1. /\ Others(r) /\ pc'[r] = p /\ status'[r] = s /\ awaits'[r] = "pending"
      /\ (Unfailed' <=> Unfailed)
  BY GoesOthers
<1>2. Moves
  BY <1>1 DEF Others, Moves, Begun, Written, Closing
<1>3. Queue'
  <2> DEFINE e == Awaited("updateRun", r, s)
  <2>1. /\ e \in Statement /\ e.awaited /\ e.on = {r} /\ e.op = "updateRun"
        /\ e.as = s
    BY StatementTypes DEF Awaited, Ops
  <2>2. db' = Append(db, e)
    OBVIOUS
  <2> HIDE DEF e
  <2>3. Matches(e, r)' /\ e.op \notin Early
    BY <1>1, <2>1 DEF Matches, Early
  <2> QED
    BY <1>2, <2>1, <2>2, <2>3, QueueAwaited DEF Known, RowsInv
<1>4. RunFits(r) /\ runsRow'[r] = runsRow[r] /\ activeRow'[r] = activeRow[r] /\ up' = up
  BY <1>1, KnownRun DEF Others
<1>5. Stands(r)' /\ ActiveRowFits(r)' /\ Reported(r)'
  BY <1>1, <1>4 DEF RunFits, Stands, ActiveRowFits, KnowsReleased, Reported, Begun,
     Closing, Written
<1>6. RunsRowFits(r)'
  BY <1>1, <1>4 DEF RunFits, RunsRowFits, KnowsInserted, KnowsUpdated, Lives, Begun, PC,
     Setup, Saving, Closing, Written, Terminal
<1> QED
  BY <1>1, <1>3, <1>5, <1>6, RunStep DEF Known, RunFits

\* The call of r begins, and waits for insertRun.
LEMMA RowsBegin ==
  ASSUME Known, NEW r \in Runs, StreamChat(r)
  PROVE  RowsInv'
<1>0. /\ pc' = [pc EXCEPT ![r] = "inserting"]
      /\ status' = [status EXCEPT ![r] = "running"]
      /\ ctrl' = [ctrl EXCEPT ![r] = "live"] /\ awaits' = [awaits EXCEPT ![r] = "pending"]
      /\ db' = Append(db, Awaited("insertRun", r, "running"))
      /\ UNCHANGED <<up, events, runsRow, activeRow, budget>> /\ pc[r] = "idle" /\ up
  BY DEF StreamChat, rowVars
<1>1. /\ Others(r) /\ pc'[r] = "inserting" /\ status'[r] = "running"
      /\ awaits'[r] = "pending" /\ (Unfailed' <=> Unfailed)
  BY <1>0 DEF Known, TypeOK, Others, Unfailed
<1>2. status[r] = "none" /\ awaits[r] = "none" /\ RunFits(r)
  BY <1>0, KnownRun DEF RunFits, Stands, Closing
<1>3. Moves
  BY <1>0, <1>1, <1>2 DEF Others, Moves, Begun, Written, Closing, Terminal
<1>4. Queue'
  <2> DEFINE e == Awaited("insertRun", r, "running")
  <2>1. /\ e \in Statement /\ e.awaited /\ e.on = {r} /\ e.op = "insertRun"
        /\ e.as = "running"
    BY StatementTypes DEF Awaited, Ops
  <2>2. db' = Append(db, e)
    BY <1>0
  <2> HIDE DEF e
  <2>3. Matches(e, r)' /\ e.op \notin Early
    BY <1>1, <2>1 DEF Matches, Early
  <2> QED
    BY <1>2, <1>3, <2>1, <2>2, <2>3, QueueAwaited DEF Known, RowsInv
<1>5. runsRow'[r] = runsRow[r] /\ activeRow'[r] = activeRow[r] /\ up' = up
  BY <1>0
<1>6. Stands(r)' /\ ActiveRowFits(r)' /\ Reported(r)'
  BY <1>0, <1>1, <1>2, <1>5 DEF RunFits, Stands, ActiveRowFits, KnowsReleased, Reported,
     Closing, Written, Terminal
<1>7. RunsRowFits(r)'
  BY <1>0, <1>1, <1>2, <1>5 DEF RunFits, RunsRowFits, KnowsInserted, KnowsUpdated, Lives,
     Begun, Written
<1> QED
  BY <1>1, <1>4, <1>6, <1>7, RunStep DEF Known, RunFits

\* Setup and prompt go on, or throw while the run is running.
LEMMA RowsOn ==
  ASSUME Known, NEW r \in Runs,
         StartWatchdog(r) \/ Prompt(r) \/ SetupThrows(r) \/ PromptResolves(r) \/
         PromptThrowsAbort(r) \/ PromptThrowsError(r)
  PROVE  RowsInv'
<1>0. /\ awaits[r] = "none" /\ awaits = [awaits EXCEPT ![r] = "none"]
      /\ status = [status EXCEPT ![r] = status[r]]
      /\ pc[r] \in {"setup", "armed", "streaming"}
  <2>1. pc[r] \in {"setup", "armed", "streaming"}
    BY DEF StartWatchdog, Prompt, SetupThrows, PromptResolves, PromptThrowsAbort,
       PromptThrowsError, CanSettle
  <2>2. awaits[r] = "none"
    BY <2>1, KnownRun DEF RunFits, Stands, Closing
  <2> QED
    BY <2>1, <2>2 DEF Known, TypeOK
<1>1. CASE StartWatchdog(r)
  <2>1. PICK s : s = status[r]
    OBVIOUS
  <2>2. Goes(r, "armed", s, "none") /\ db' = db
    BY <1>0, <1>1, <2>1 DEF StartWatchdog, Goes, rowVars
  <2> QED
    BY <1>0, <2>1, <2>2, GoesOn
<1>2. CASE Prompt(r)
  <2>1. PICK s : s = status[r]
    OBVIOUS
  <2>2. Goes(r, "streaming", s, "none") /\ db' = db
    BY <1>0, <1>2, <2>1 DEF Prompt, Goes, rowVars
  <2> QED
    BY <1>0, <2>1, <2>2, GoesOn
<1>3. CASE SetupThrows(r)
  <2>1. Goes(r, "postingSetupError", "error", "none") /\ db' = db
    BY <1>0, <1>3 DEF SetupThrows, Goes, rowVars
  <2> QED
    BY <1>0, <2>1, GoesOn DEF Terminal
<1>4. CASE PromptResolves(r)
  <2>1. Goes(r, "saving", "success", "none") /\ db' = db
    BY <1>0, <1>4 DEF PromptResolves, Goes, rowVars
  <2> QED
    BY <1>0, <2>1, GoesOn DEF Terminal
<1>5. CASE PromptThrowsAbort(r)
  <2>1. Goes(r, "savingPartial", "cancelled", "none") /\ db' = db
    BY <1>0, <1>5 DEF PromptThrowsAbort, Goes, rowVars
  <2> QED
    BY <1>0, <2>1, GoesOn DEF Terminal
<1>6. CASE PromptThrowsError(r)
  <2>1. Goes(r, "postingError", "error", "none") /\ db' = db
    BY <1>0, <1>6 DEF PromptThrowsError, Goes, rowVars
  <2> QED
    BY <1>0, <2>1, GoesOn DEF Terminal
<1> QED
  BY <1>1, <1>2, <1>3, <1>4, <1>5, <1>6

\* The finalizers come to updateRun, each having emitted or relying on whoever
\* ended the run before.
LEMMA RowsFinalize ==
  ASSUME Known, NEW r \in Runs,
         SetupThrowsTerminal(r) \/ SetupErrorPosted(r) \/ PromptThrowsCancelled(r) \/
         PromptThrowsErrorAgain(r) \/ Saved(r) \/ UpdateRunRejects(r)
  PROVE  RowsInv'
<1>0. /\ status = [status EXCEPT ![r] = status[r]] /\ RunFits(r)
      /\ pc \in [Runs -> PC] /\ ctrl \in [Runs -> {"none", "live", "aborted"}]
      /\ events \in [Runs -> SUBSET {"complete", "error", "cancel"}]
  BY KnownRun DEF Known, TypeOK
<1>1. /\ pc[r] \in Begun \ {"rejected", "returned"} /\ awaits[r] # "pending"
      /\ PromptThrowsErrorAgain(r) \/ status[r] \in Terminal
      /\ runsRow[r] = "success" => pc[r] = "updating" /\ status[r] = "success"
  <2>1. /\ pc[r] \in {"setup", "armed", "streaming", "postingSetupError", "updating"} \cup Saving
        /\ pc[r] = "updating" => awaits[r] = "failed"
        /\ \/ PromptThrowsErrorAgain(r)
           \/ pc[r] \notin {"setup", "armed", "streaming"}
           \/ status[r] # "running"
    <3>1. CASE PromptThrowsErrorAgain(r)
      BY <3>1 DEF PromptThrowsErrorAgain, CanSettle
    <3>2. CASE Saved(r)
      BY <3>2 DEF Saved, Saving
    <3>3. CASE SetupThrowsTerminal(r) \/ SetupErrorPosted(r) \/ PromptThrowsCancelled(r)
                 \/ UpdateRunRejects(r)
      BY <3>3 DEF SetupThrowsTerminal, SetupErrorPosted, PromptThrowsCancelled,
         UpdateRunRejects, CanSettle
    <3> QED
      BY <3>1, <3>2, <3>3
  <2>2. awaits[r] # "pending"
    BY <1>0, <2>1 DEF RunFits, Stands, Saving, Closing
  <2>3. PromptThrowsErrorAgain(r) \/ status[r] \in Terminal
    BY <2>1, KnownRun DEF Saving
  <2>4. runsRow[r] = "success" => pc[r] = "updating" /\ status[r] = "success"
    BY <1>0, <2>1 DEF RunFits, RunsRowFits, Saving, Closing
  <2> QED
    BY <2>1, <2>2, <2>3, <2>4 DEF Begun, PC, Setup, Saving, Closing
<1>2. pc[r] = "updating" => ~PromptThrowsErrorAgain(r)
  BY DEF PromptThrowsErrorAgain, CanSettle
<1>3. CASE SetupThrowsTerminal(r)
  <2>1. /\ Goes(r, "updatingSetup", status[r], "pending") /\ ctrl'[r] = "none"
        /\ db' = Append(db, Awaited("updateRun", r, status[r])) /\ events' = events
    BY <1>0, <1>3 DEF SetupThrowsTerminal, FinalizeSetupTail, Goes, rowVars
  <2>2. pc[r] \in {"setup", "armed"} /\ status[r] \in Terminal
    BY <1>1, <1>3 DEF SetupThrowsTerminal, PromptThrowsErrorAgain, CanSettle
  <2>3. events'[r] # {}
    BY <1>0, <2>1, <2>2 DEF RunFits, Reported
  <2> QED
    BY <1>1, <2>1, <2>2, <2>3, GoesToUpdate
<1>4. CASE SetupErrorPosted(r)
  <2>1. /\ Goes(r, "updatingSetup", status[r], "pending") /\ ctrl'[r] = "none"
        /\ db' = Append(db, Awaited("updateRun", r, status[r])) /\ events'[r] # {}
    BY <1>0, <1>4 DEF SetupErrorPosted, FinalizeSetupTail, Emit, Goes, rowVars
  <2>2. status[r] \in Terminal
    BY <1>1, <1>4 DEF SetupErrorPosted, PromptThrowsErrorAgain, CanSettle
  <2> QED
    BY <1>1, <2>1, <2>2, GoesToUpdate
<1>5. CASE PromptThrowsCancelled(r)
  <2>1. /\ Goes(r, "updating", status[r], "pending") /\ ctrl'[r] = "none"
        /\ db' = Append(db, Awaited("updateRun", r, status[r])) /\ events' = events
        /\ status[r] = "cancelled" /\ pc[r] = "streaming"
    BY <1>0, <1>5 DEF PromptThrowsCancelled, FinalizeCleanup, Goes, rowVars, CanSettle
  <2>2. events'[r] # {} /\ status[r] \in Terminal
    BY <1>0, <2>1 DEF RunFits, Reported, Terminal
  <2> QED
    BY <1>1, <2>1, <2>2, GoesToUpdate
<1>6. CASE PromptThrowsErrorAgain(r)
  <2>1. /\ Goes(r, "updating", "error", "pending") /\ ctrl'[r] = "none"
        /\ db' = Append(db, Awaited("updateRun", r, "error")) /\ events'[r] # {}
    BY <1>0, <1>6 DEF PromptThrowsErrorAgain, FinalizeCleanup, Emit, Goes, rowVars
  <2>2. runsRow[r] # "success" /\ "error" \in Terminal
    BY <1>1, <1>2, <1>6 DEF Terminal
  <2> QED
    BY <1>1, <2>1, <2>2, GoesToUpdate
<1>7. CASE Saved(r)
  <2>1. /\ Goes(r, "updating", status[r], "pending") /\ ctrl'[r] = "none"
        /\ db' = Append(db, Awaited("updateRun", r, status[r])) /\ events'[r] # {}
    BY <1>0, <1>7 DEF Saved, FinalizeCleanup, Emit, Goes, rowVars
  <2>2. status[r] \in Terminal
    BY <1>1, <1>7 DEF Saved, Saving, PromptThrowsErrorAgain, CanSettle
  <2> QED
    BY <1>1, <2>1, <2>2, GoesToUpdate
<1>8. CASE UpdateRunRejects(r)
  <2>1. /\ Goes(r, "updatingSetup", status[r], "pending") /\ ctrl'[r] = "none"
        /\ db' = Append(db, Awaited("updateRun", r, status[r])) /\ events' = events
        /\ pc[r] = "updating"
    BY <1>0, <1>8 DEF UpdateRunRejects, FinalizeSetupTail, Goes, rowVars
  <2>2. events'[r] # {} /\ status[r] \in Terminal
    BY <1>0, <1>1, <1>2, <2>1 DEF RunFits, Reported, Closing
  <2> QED
    BY <1>1, <2>1, <2>2, GoesToUpdate
<1> QED
  BY <1>3, <1>4, <1>5, <1>6, <1>7, <1>8

\* insertRun is done: createActiveRun goes behind the boot sweep and before
\* whatever the call will wait for.
LEMMA RowsInserted ==
  ASSUME Known, NEW r \in Runs, RunInserted(r)
  PROVE  RowsInv'
<1> DEFINE e == Stmt("createActiveRun", {r}, "running")
<1>0. /\ pc[r] = "inserting" /\ awaits[r] = "ok" /\ db' = Append(db, e)
      /\ status = [status EXCEPT ![r] = status[r]]
  BY DEF RunInserted, Known, TypeOK
<1>1. PICK s : s = status[r]
  OBVIOUS
<1>2. Goes(r, "setup", s, "none")
  BY <1>0, <1>1 DEF RunInserted, Goes, rowVars
<1>3. /\ Others(r) /\ pc'[r] = "setup" /\ status'[r] = status[r] /\ awaits'[r] = "none"
      /\ (Unfailed' <=> Unfailed)
  BY <1>1, <1>2, GoesOthers
<1>4. Moves
  BY <1>0, <1>3 DEF Others, Moves, Begun, Written, Closing
<1>5. /\ e \in Statement /\ ~e.awaited /\ e.on = {r} /\ e.op = "createActiveRun"
      /\ e.as = "running"
  BY StatementTypes DEF Stmt, Ops
<1> HIDE DEF e
<1>6. Fits(e)' /\ Ahead(e)'
  BY <1>3, <1>5 DEF Fits, Ahead, Early, Written
<1>7. Queue'
  BY <1>0, <1>4, <1>5, <1>6, QueueUnawaited DEF Known, RowsInv
<1>8. RunFits(r) /\ runsRow'[r] = runsRow[r] /\ activeRow'[r] = activeRow[r] /\ up' = up
      /\ events[r] \subseteq events'[r]
  BY <1>2, <1>3, KnownRun DEF Others, Goes
<1>9. Stands(r)' /\ ActiveRowFits(r)' /\ Reported(r)'
  BY <1>0, <1>3, <1>8 DEF RunFits, Stands, ActiveRowFits, KnowsReleased, Reported,
     Closing, Written
<1>10. RunsRowFits(r)'
  BY <1>0, <1>3, <1>8 DEF RunFits, RunsRowFits, KnowsInserted, KnowsUpdated, Lives,
     Begun, PC, Setup, Closing, Written
<1> QED
  BY <1>3, <1>7, <1>9, <1>10, RunStep DEF Known, RunFits

\* updateRun is done: the call waits for the statement on its active row.
LEMMA RowsUpdated ==
  ASSUME Known, NEW r \in Runs, RunUpdated(r) \/ SetupRunUpdated(r)
  PROVE  RowsInv'
<1>1. PICK op \in {"deleteActiveRun", "markInterrupted"} :
        db' = Append(db, Awaited(op, r, "error"))
  BY DEF RunUpdated, SetupRunUpdated
<1> DEFINE e == Awaited(op, r, "error")
<1>0. PICK s : s = status[r]
  OBVIOUS
<1>2. PICK p \in Written : Goes(r, p, s, "pending")
  <2>1. status = [status EXCEPT ![r] = status[r]]
    BY DEF Known, TypeOK
  <2> QED
    BY <1>0, <2>1 DEF RunUpdated, SetupRunUpdated, Goes, rowVars, Written
<1>3. pc[r] \in {"updating", "updatingSetup"} /\ awaits[r] = "ok"
  BY DEF RunUpdated, SetupRunUpdated
<1>4. /\ Others(r) /\ pc'[r] = p /\ status'[r] = status[r] /\ awaits'[r] = "pending"
      /\ (Unfailed' <=> Unfailed)
  BY <1>0, <1>2, GoesOthers
<1>5. Moves
  BY <1>3, <1>4 DEF Others, Moves, Begun, PC, Written, Closing
<1>6. /\ e \in Statement /\ e.awaited /\ e.on = {r} /\ e.op = op
      /\ db' = Append(db, e)
  BY <1>1, StatementTypes DEF Awaited, Ops, Terminal
<1> HIDE DEF e
<1>7. Matches(e, r)' /\ e.op \notin Early
  BY <1>4, <1>6 DEF Matches, Early
<1>8. Queue'
  BY <1>3, <1>5, <1>6, <1>7, QueueAwaited DEF Known, RowsInv
<1>9. RunFits(r) /\ runsRow'[r] = runsRow[r] /\ activeRow'[r] = activeRow[r] /\ up' = up
      /\ events[r] \subseteq events'[r] /\ (ctrl[r] = "none" => ctrl'[r] = "none")
  BY <1>2, <1>4, KnownRun DEF Others, Goes
<1>10. Stands(r)' /\ ActiveRowFits(r)' /\ Reported(r)'
  BY <1>3, <1>4, <1>9 DEF RunFits, Stands, ActiveRowFits, KnowsReleased, Reported,
     Closing, Written
<1>11. RunsRowFits(r)'
  BY <1>3, <1>4, <1>9 DEF RunFits, RunsRowFits, KnowsInserted, KnowsUpdated, Lives,
     Begun, PC, Closing, Written
<1> QED
  BY <1>4, <1>8, <1>10, <1>11, RunStep DEF Known, RunFits

\* The call returns, or leaves streamChat by the rejection of insertRun.
LEMMA RowsReturn ==
  ASSUME Known, NEW r \in Runs, Return(r) \/ InsertRunRejects(r)
  PROVE  RowsInv'
<1>0. PICK s : s = status[r]
  OBVIOUS
<1>1. PICK p \in {"returned", "rejected"} :
        /\ Goes(r, p, s, "none") /\ db' = db
        /\ p = "returned" =>
             \/ pc[r] \in Written /\ awaits[r] \in {"ok", "failed"}
             \/ pc[r] = "updatingSetup" /\ awaits[r] = "failed"
        /\ p = "rejected" => pc[r] = "inserting" /\ awaits[r] = "failed"
  <2>1. status = [status EXCEPT ![r] = status[r]]
    BY DEF Known, TypeOK
  <2>2. CASE Return(r)
    <3>1. Goes(r, "returned", s, "none") /\ db' = db
      BY <1>0, <2>1, <2>2 DEF Return, Goes, rowVars
    <3> QED
      BY <2>2, <3>1 DEF Return, Written
  <2>3. CASE InsertRunRejects(r)
    <3>1. Goes(r, "rejected", s, "none") /\ db' = db
      BY <1>0, <2>1, <2>3 DEF InsertRunRejects, Goes, rowVars
    <3> QED
      BY <2>3, <3>1 DEF InsertRunRejects
  <2> QED
    BY <2>2, <2>3
<1>2. /\ Others(r) /\ pc'[r] = p /\ status'[r] = status[r] /\ awaits'[r] = "none"
      /\ (Unfailed' <=> Unfailed)
  BY <1>0, <1>1, GoesOthers
<1>3. Moves
  BY <1>1, <1>2 DEF Others, Moves, Begun, Written, Closing
<1>4. Queue'
  BY <1>1, <1>3, QueueSame DEF Known, RowsInv
<1>5. RunFits(r) /\ runsRow'[r] = runsRow[r] /\ activeRow'[r] = activeRow[r] /\ up' = up
      /\ events[r] \subseteq events'[r] /\ (ctrl[r] = "none" => ctrl'[r] = "none")
  BY <1>1, <1>2, KnownRun DEF Others, Goes
<1>6. Stands(r)' /\ ActiveRowFits(r)' /\ Reported(r)'
  BY <1>1, <1>2, <1>5 DEF RunFits, Stands, ActiveRowFits, KnowsReleased, Reported,
     Closing, Written
<1>7. RunsRowFits(r)'
  BY <1>1, <1>2, <1>5 DEF RunFits, Stands, RunsRowFits, KnowsInserted,
     KnowsUpdated, Lives, Begun, PC, Closing, Written
<1> QED
  BY <1>2, <1>4, <1>6, <1>7, RunStep DEF Known, RunFits

\* What a step that touches neither a run nor its rows has in common with
\* stuttering; it may abort, emit or charge a failure.
Idles ==
  /\ UNCHANGED <<pc, status, awaits, runsRow, activeRow>> /\ (up => up')
  /\ budget'.failures <= budget.failures
  /\ \A r \in Runs : (ctrl[r] = "none" => ctrl'[r] = "none") /\ events[r] \subseteq events'[r]

\* Such a step leaves the runs alone.
LEMMA IdlesRuns ==
  ASSUME Known, Idles, budget' \in Budget
  PROVE  /\ Moves /\ budget'.failures <= MaxFailures
         /\ \A r \in Runs : RunFits(r)'
<1>0. budget.failures \in Nat /\ budget'.failures \in Nat /\ budget.failures <= MaxFailures
      /\ MaxFailures \in Nat
  BY RunLifecycleAssumption DEF Known, TypeOK, RowsInv, Budget
<1>1. Moves
  BY DEF Idles, Moves
<1>2. (Unfailed' => Unfailed) /\ budget'.failures <= MaxFailures
  BY <1>0 DEF Idles, Unfailed
<1>3. ASSUME NEW r \in Runs PROVE RunFits(r)'
  BY <1>2, KnownRun, RunUnmoved DEF Idles
<1> QED
  BY <1>1, <1>2, <1>3

\* Hangs, gates, tools, error messages, heartbeats and the end of a scan.
LEMMA RowsIdle ==
  ASSUME Known, Idles, budget' \in Budget, db' = db
  PROVE  RowsInv'
<1>1. Queue'
  BY IdlesRuns, QueueSame DEF Known, RowsInv
<1>2. (\A r \in Runs : RunFits(r))'
  BY IdlesRuns
<1> QED
  BY <1>1, <1>2, IdlesRuns DEF RowsInv

\* The sweep and the force-cancel route issue a statement.
LEMMA RowsIssue ==
  ASSUME Known, NEW op \in {"cleanupOrphanedRuns", "scan", "forceCancel"},
         NEW rows \in SUBSET Runs, db' = Append(db, Stmt(op, rows, "error")),
         Idles, budget' \in Budget
  PROVE  RowsInv'
<1> DEFINE e == Stmt(op, rows, "error")
<1>1. /\ e \in Statement /\ ~e.awaited /\ e.on = rows /\ e.op = op /\ e.as = "error"
      /\ db' = Append(db, e)
  BY StatementTypes DEF Stmt, Ops, Terminal
<1> HIDE DEF e
<1>2. Fits(e)' /\ Ahead(e)' /\ e.op \notin Early
  BY <1>1 DEF Fits, Ahead, Early
<1>3. Queue'
  BY <1>1, <1>2, IdlesRuns, QueueUnawaited DEF Known, RowsInv
<1>4. (\A r \in Runs : RunFits(r))'
  BY IdlesRuns
<1> QED
  BY <1>3, <1>4, IdlesRuns DEF RowsInv

\* cancelRun or the watchdog ends a run that has a controller or is running: its
\* call is not closing yet, so finalizeRunRow cannot undo what the call records.
LEMMA RowsEnd ==
  ASSUME Known, NEW r \in Runs, NEW s \in Terminal, Queue',
         Others(r), UNCHANGED <<pc, awaits>>, status'[r] = s, events'[r] # {},
         ctrl[r] # "none" \/ status[r] = "running"
  PROVE  RowsInv'
<1>0. pc[r] \notin Closing \cup {"returned"} /\ RunFits(r) /\ pc[r] # "idle"
  BY KnownRun DEF RunFits, Stands, Closing
<1>1. /\ runsRow'[r] = runsRow[r] /\ activeRow'[r] = activeRow[r] /\ up' = up
      /\ (Unfailed' <=> Unfailed) /\ pc'[r] = pc[r] /\ awaits'[r] = awaits[r]
  BY DEF Others, Unfailed
<1>2. Stands(r)' /\ ActiveRowFits(r)' /\ Reported(r)'
  BY <1>0, <1>1 DEF RunFits, Stands, ActiveRowFits, KnowsReleased, Reported,
     Closing, Written
<1>3. RunsRowFits(r)'
  BY <1>0, <1>1 DEF RunFits, RunsRowFits, KnowsInserted, KnowsUpdated, Lives, Closing,
     Written, Terminal
<1> QED
  BY <1>2, <1>3, RunStep DEF Known, RunFits

\* Nor does it disturb the statement that the call waits for.
LEMMA EndMoves ==
  ASSUME Known, NEW r \in Runs, NEW s \in Terminal,
         Others(r), UNCHANGED <<pc, awaits>>, status'[r] = s,
         ctrl[r] # "none" \/ status[r] = "running"
  PROVE  Moves
<1>0. pc[r] \notin Closing \cup {"returned"}
  BY KnownRun DEF RunFits, Stands, Closing
<1> QED
  BY <1>0 DEF Moves, Others

\* cancelRun.
LEMMA RowsCancel ==
  ASSUME Known, NEW r \in Runs, CancelRun(r)
  PROVE  RowsInv'
<1> DEFINE e == Stmt("finalizeRunRow", {r}, "cancelled")
<1>1. /\ db' = Append(db, e) /\ UNCHANGED <<pc, awaits>> /\ ctrl[r] # "none"
      /\ status'[r] = "cancelled" /\ events'[r] # {} /\ "cancelled" \in Terminal
      /\ Others(r)
  BY DEF CancelRun, Known, TypeOK, Emit, Others, Terminal, rowVars
<1>2. Moves
  BY <1>1, EndMoves
<1>3. /\ e \in Statement /\ ~e.awaited /\ e.on = {r} /\ e.op = "finalizeRunRow"
      /\ e.as = "cancelled"
  BY StatementTypes DEF Stmt, Ops, Terminal
<1> HIDE DEF e
<1>4. Fits(e)' /\ Ahead(e)' /\ e.op \notin Early
  BY <1>1, <1>3 DEF Fits, Ahead, Early
<1>5. Queue'
  BY <1>1, <1>2, <1>3, <1>4, QueueUnawaited DEF Known, RowsInv
<1> QED
  BY <1>1, <1>5, RowsEnd

\* The watchdog ends an idle run.
LEMMA RowsTrip ==
  ASSUME Known, NEW r \in Runs, WatchdogTrip(r)
  PROVE  RowsInv'
<1> DEFINE e == Stmt("markInterrupted", {r}, "error")
           f == Stmt("finalizeRunRow", {r}, "error")
           d == Append(db, e)
<1>1. /\ UNCHANGED <<pc, awaits>> /\ status[r] = "running"
      /\ status'[r] = "error" /\ events'[r] # {} /\ "error" \in Terminal
      /\ db' = db \o <<e, f>> /\ db \in Seq(Statement)
      /\ Others(r)
  BY DEF WatchdogTrip, Watched, Known, TypeOK, Emit, Others, Terminal, rowVars
<1>2. Moves
  BY <1>1, EndMoves
<1>3. /\ e \in Statement /\ ~e.awaited /\ e.on = {r} /\ e.op = "markInterrupted"
      /\ e.as = "error"
  BY StatementTypes DEF Stmt, Ops, Terminal
<1>4. /\ f \in Statement /\ ~f.awaited /\ f.on = {r} /\ f.op = "finalizeRunRow"
      /\ f.as = "error"
  BY StatementTypes DEF Stmt, Ops, Terminal
<1> HIDE DEF e, f
<1>5. db' = Append(d, f)
  BY <1>1, <1>3, <1>4, AppendTwice
<1>6. /\ Fits(e)' /\ Ahead(e)' /\ e.op \notin Early
      /\ Fits(f)' /\ Ahead(f)' /\ f.op \notin Early
  BY <1>1, <1>3, <1>4 DEF Fits, Ahead, Early
<1>7. d \in Seq(Statement) /\ \A k \in DOMAIN d : (k \in DOMAIN db /\ d[k] = db[k]) \/ d[k] = e
  BY <1>1, <1>3, AppendElements
<1>8. OneAwait(d) /\ (OrderedDB => EarlyFirst(d))
  BY <1>1, <1>3, <1>6, AppendUnawaited DEF Known, RowsInv, Queue
<1> HIDE DEF d
<1>9. \A k \in DOMAIN db' : (k \in DOMAIN d /\ db'[k] = d[k]) \/ db'[k] = f
  BY <1>4, <1>5, <1>7, AppendElements
<1>10. OneAwait(db') /\ (OrderedDB => EarlyFirst(db'))
  BY <1>4, <1>5, <1>6, <1>7, <1>8, AppendUnawaited
<1>11. Queue'
  <2>1. \A k \in DOMAIN db' : (k \in DOMAIN db /\ db'[k] = db[k]) \/ db'[k] = e \/ db'[k] = f
    BY <1>7, <1>9
  <2>2. \A k \in DOMAIN db : db[k] \in Statement /\ Fits(db[k]) /\ (OrderedDB => Ahead(db[k]))
    BY <1>1 DEF Known, RowsInv, Queue
  <2>3. \A k \in DOMAIN db : Fits(db[k])
    BY <2>2
  <2>4. (\A k \in DOMAIN db : Fits(db[k]))'
    BY <1>2, <1>6, <2>1, <2>2, MovesKeep
  <2>5. (OrderedDB => \A k \in DOMAIN db : Ahead(db[k]))'
    BY <1>2, <1>6, <2>1, <2>2, MovesKeep
  <2> QED
    BY <1>10, <2>4, <2>5 DEF Queue, OneAwait, EarlyFirst
<1> QED
  BY <1>1, <1>11, RowsEnd

-----------------------------------------------------------------------------
(***************************************************************************)
(* The steps of the database.                                              *)
(***************************************************************************)
\* What a statement does to a `runs` row.
LEMMA RunsRowMoves ==
  ASSUME NEW s \in Statement, NEW r \in Runs
  PROVE  /\ RunsRowAfter(s, r) \in {runsRow[r], s.as}
         /\ r \notin s.on => RunsRowAfter(s, r) = runsRow[r]
         /\ r \in s.on /\ s.op = "insertRun" => RunsRowAfter(s, r) = s.as
         /\ r \in s.on /\ s.op = "updateRun" /\ runsRow[r] # "absent" =>
              RunsRowAfter(s, r) = s.as
         /\ s.op \notin {"insertRun", "updateRun"} /\ runsRow[r] # "running" =>
              RunsRowAfter(s, r) = runsRow[r]
         /\ s.op \notin {"insertRun", "updateRun", "finalizeRunRow", "terminalizeOrphanedRuns"} =>
              RunsRowAfter(s, r) = runsRow[r]
  BY DEF RunsRowAfter

\* What a statement does to an active row: only createActiveRun makes it run.
LEMMA ActiveRowMoves ==
  ASSUME NEW s \in Statement, NEW r \in Runs
  PROVE  /\ ActiveRowAfter(s, r) = "running" =>
              activeRow[r] = "running" \/ (r \in s.on /\ s.op = "createActiveRun")
         /\ r \in s.on /\ s.op \in {"deleteActiveRun", "markInterrupted"} =>
              ActiveRowAfter(s, r) # "running"
  BY DEF ActiveRowAfter

\* The statement i is done, and its call learns so (a).
Answers(i, a) ==
  /\ i \in Ready /\ a \in {"ok", "failed"} /\ UNCHANGED <<pc, status>>
  /\ awaits' = [r \in Runs |-> IF db[i].awaited /\ r \in db[i].on THEN a ELSE awaits[r]]

\* The other statements still fit: no other one is awaited by that call, and with
\* an ordered database the early ones are done.
LEMMA AnswersOthers ==
  ASSUME Known, NEW i \in DOMAIN db, NEW a, Answers(i, a), NEW j \in DOMAIN db, j # i,
         NEW t \in Statement, t = db[j]
  PROVE  Fits(t)' /\ (OrderedDB => Ahead(t)')
<1>0. db \in Seq(Statement) /\ Queue
  BY DEF Known, TypeOK, RowsInv
<1>1. PICK s \in Statement : s = db[i]
  BY <1>0
<1>2. Fits(s) /\ Fits(t) /\ (OrderedDB => Ahead(t)) /\ t.on \subseteq Runs
  BY <1>0, <1>1 DEF Queue, Statement
<1>3. UNCHANGED <<pc, status>>
      /\ \A r \in Runs : ~(s.awaited /\ r \in s.on) => awaits'[r] = awaits[r]
  BY <1>1 DEF Answers
<1>4. ASSUME s.awaited, t.awaited PROVE s.on # t.on
  BY <1>0, <1>1, <1>4 DEF Queue, OneAwait
<1>5. Fits(t)'
  <2>1. ASSUME t.awaited PROVE \E q \in Runs : Matches(t, q)'
    <3>1. PICK q \in Runs : Matches(t, q)
      BY <1>2, <2>1 DEF Fits
    <3>2. ~(s.awaited /\ q \in s.on)
      BY <1>2, <1>4, <2>1, <3>1 DEF Fits, Matches
    <3> QED
      BY <1>3, <3>1, <3>2 DEF Matches
  <2> QED
    BY <1>2, <1>3, <2>1 DEF Fits
<1>6. ASSUME OrderedDB PROVE Ahead(t)'
  <2>1. i = 1 /\ j \in Nat \ {0}
    BY <1>0, <1>6 DEF Answers, Ready
  <2>2. ASSUME NEW r \in t.on, t.op \in Early PROVE ~(s.awaited /\ r \in s.on)
    <3> SUFFICES ASSUME s.awaited, r \in s.on PROVE FALSE
      OBVIOUS
    <3>1. s.on \subseteq t.on
      BY <1>2, <2>2 DEF Fits, Matches
    <3>2. j < i
      BY <1>0, <1>1, <1>6, <2>2, <3>1 DEF Queue, EarlyFirst
    <3> QED
      BY <2>1, <3>2
  <2>3. \A r \in t.on : t.op \in Early => awaits'[r] = awaits[r]
    BY <1>2, <1>3, <2>2
  <2> QED
    BY <1>2, <1>3, <1>6, <2>3 DEF Ahead
<1> QED
  BY <1>5, <1>6

\* The queue without it.
LEMMA AnswersQueue ==
  ASSUME Known, NEW i \in DOMAIN db, NEW a, Answers(i, a), db' = RemoveAt(db, i)
  PROVE  Queue'
<1>0. db \in Seq(Statement) /\ Queue /\ i \in Nat
  BY DEF Known, TypeOK, RowsInv
<1>1. ASSUME NEW k \in DOMAIN db'
      PROVE  Fits(db[k])' /\ (OrderedDB => Ahead(db[k])')
  <2>1. PICK j \in DOMAIN db : j # i /\ db'[k] = db[j]
    BY <1>0, <1>1, RemoveAtElements
  <2>2. PICK t \in Statement : t = db[j]
    BY <1>0
  <2>3. Fits(t)' /\ (OrderedDB => Ahead(t)')
    BY <2>1, <2>2, AnswersOthers
  <2> QED
    BY <2>1, <2>2, <2>3
<1>2. OneAwait(db') /\ (OrderedDB => EarlyFirst(db'))
  BY <1>0, RemoveKeepsOrder DEF Queue
<1>3. (\A k \in DOMAIN db : Fits(db[k]))' /\ (OrderedDB => \A k \in DOMAIN db : Ahead(db[k]))'
  BY <1>1
<1> QED
  BY <1>2, <1>3 DEF Queue, OneAwait, EarlyFirst

\* The run whose call waited for the statement that was executed.
LEMMA RunAnswered ==
  ASSUME Known, NEW s \in Statement, NEW r \in Runs, Matches(s, r),
         pc'[r] = pc[r], status'[r] = status[r], awaits'[r] = "ok", up' = up,
         ctrl[r] = "none" => ctrl'[r] = "none", events[r] \subseteq events'[r],
         budget' = budget, runsRow'[r] = RunsRowAfter(s, r),
         activeRow'[r] = ActiveRowAfter(s, r)
  PROVE  RunFits(r)'
<1>0. RunFits(r) /\ r \in s.on /\ (Unfailed' <=> Unfailed)
  BY KnownRun DEF Matches, Unfailed
<1>1. Stands(r)' /\ Reported(r)'
  BY <1>0 DEF RunFits, Stands, Reported, Matches, Closing, Written
<1>2. ActiveRowFits(r)'
  BY <1>0, ActiveRowMoves DEF ActiveRowFits, KnowsReleased, Matches, Written
<1>3. RunsRowFits(r)'
  <2>1. CASE pc[r] = "inserting"
    <3>1. runsRow'[r] = "running"
      BY <1>0, <2>1, RunsRowMoves DEF Matches, Written
    <3> QED
      BY <2>1, <3>1 DEF RunsRowFits, KnowsInserted, KnowsUpdated, Lives, Begun, Written
  <2>2. CASE pc[r] \in {"updating", "updatingSetup"}
    <3>1. runsRow[r] # "absent"
      BY <1>0, <2>2 DEF RunFits, RunsRowFits, KnowsInserted, Begun, PC, Closing
    <3>2. runsRow'[r] = status[r] /\ status[r] \in Terminal
      BY <1>0, <2>2, <3>1, RunsRowMoves, KnownRun DEF Matches, Written
    <3> QED
      BY <2>2, <3>2 DEF RunsRowFits, KnowsInserted, KnowsUpdated, Lives, Begun, Written,
         Closing, Terminal
  <2>3. CASE pc[r] \in Written
    <3>1. runsRow'[r] = runsRow[r]
      BY <1>0, <2>3, RunsRowMoves DEF Matches, Written
    <3> QED
      BY <1>0, <2>3, <3>1 DEF RunFits, RunsRowFits, KnowsInserted, KnowsUpdated, Lives,
         Begun, Written
  <2> QED
    BY <2>1, <2>2, <2>3 DEF Matches
<1> QED
  BY <1>1, <1>2, <1>3 DEF RunFits

\* Any other run: what nobody waits for changes a row only while it is running,
\* and not under a run that executes.
LEMMA RunUnanswered ==
  ASSUME Known, NEW s \in Statement, NEW r \in Runs, Fits(s), OrderedDB => Ahead(s),
         s.awaited => r \notin s.on,
         pc'[r] = pc[r], status'[r] = status[r], awaits'[r] = awaits[r], up' = up,
         ctrl[r] = "none" => ctrl'[r] = "none", events[r] \subseteq events'[r],
         budget' = budget, runsRow'[r] = RunsRowAfter(s, r),
         activeRow'[r] = ActiveRowAfter(s, r)
  PROVE  RunFits(r)'
<1>0. /\ RunFits(r) /\ (Unfailed' <=> Unfailed) /\ s.as \in Terminal \cup {"running"}
      /\ status[r] \in Terminal \cup {"none", "running"}
  BY KnownRun DEF Unfailed, Statement
<1>1. Stands(r)' /\ Reported(r)'
  BY <1>0 DEF RunFits, Stands, Reported
<1>2. ActiveRowFits(r)'
  <2> SUFFICES ASSUME OrderedDB, KnowsReleased(r)' PROVE activeRow'[r] # "running"
    BY DEF ActiveRowFits
  <2>1. KnowsReleased(r) /\ activeRow[r] # "running"
    BY <1>0 DEF RunFits, ActiveRowFits, KnowsReleased
  <2>2. ~(r \in s.on /\ s.op = "createActiveRun")
    BY <2>1 DEF Ahead, KnowsReleased
  <2> QED
    BY <2>1, <2>2, ActiveRowMoves
<1>3. CASE runsRow'[r] = runsRow[r]
  <2>1. RunsRowFits(r)'
    BY <1>0, <1>3 DEF RunFits, RunsRowFits, KnowsInserted, KnowsUpdated, Lives
  <2> QED
    BY <1>1, <1>2, <2>1 DEF RunFits
<1>4. CASE runsRow'[r] # runsRow[r]
  <2>1. /\ r \in s.on /\ ~s.awaited /\ runsRow[r] = "running" /\ runsRow'[r] = s.as
        /\ s.op \in {"finalizeRunRow", "terminalizeOrphanedRuns"}
    BY <1>4, RunsRowMoves DEF Fits
  <2>2. s.as # "success" /\ s.as # "absent"
    BY <1>0, <2>1 DEF Fits, Terminal
  <2>3. ~KnowsUpdated(r)
    <3> SUFFICES ASSUME KnowsUpdated(r) PROVE FALSE
      OBVIOUS
    <3>1. status[r] = "running" /\ pc[r] \in Closing \cup {"returned"}
      BY <1>0, <2>1 DEF RunFits, RunsRowFits, KnowsUpdated, Written, Closing
    <3> QED
      BY <3>1, KnownRun DEF Closing
  <2>4. ~(OrderedDB /\ Lives(r))
    <3> SUFFICES ASSUME OrderedDB, Lives(r) PROVE FALSE
      OBVIOUS
    <3>1. CASE s.op = "finalizeRunRow"
      BY <2>1, <3>1 DEF Fits, Lives, Terminal
    <3>2. CASE s.op = "terminalizeOrphanedRuns"
      BY <2>1, <3>2 DEF Ahead, Lives, Early, Begun, PC, Setup
    <3> QED
      BY <2>1, <3>1, <3>2
  <2>5. RunsRowFits(r)'
    BY <1>0, <2>1, <2>2, <2>3, <2>4 DEF RunFits, RunsRowFits, KnowsInserted, KnowsUpdated,
       Lives, Unfailed
  <2> QED
    BY <1>1, <1>2, <2>5 DEF RunFits
<1> QED
  BY <1>3, <1>4

\* The database executes a statement.
LEMMA RowsExecute ==
  ASSUME Known, NEW i \in DOMAIN db, Execute(i)
  PROVE  RowsInv'
<1>0. /\ db \in Seq(Statement) /\ Queue /\ budget' = budget /\ up' = up
      /\ budget.failures <= MaxFailures
  BY DEF Known, TypeOK, RowsInv, Execute
<1>1. Answers(i, "ok") /\ db' = RemoveAt(db, i)
  BY DEF Execute, Answers
<1>2. PICK s \in Statement : s = db[i]
  BY <1>0
<1>3. Fits(s) /\ (OrderedDB => Ahead(s))
  BY <1>0, <1>2 DEF Queue
<1>4. ASSUME NEW r \in Runs
      PROVE  /\ pc'[r] = pc[r] /\ status'[r] = status[r]
             /\ awaits'[r] = IF s.awaited /\ r \in s.on THEN "ok" ELSE awaits[r]
             /\ ctrl[r] = "none" => ctrl'[r] = "none"
             /\ events[r] \subseteq events'[r]
             /\ runsRow'[r] = RunsRowAfter(s, r)
             /\ activeRow'[r] = ActiveRowAfter(s, r)
  BY <1>2 DEF Execute
<1>5. ASSUME NEW r \in Runs PROVE RunFits(r)'
  <2>1. CASE s.awaited /\ r \in s.on
    <3>1. Matches(s, r)
      BY <1>3, <2>1 DEF Fits, Matches
    <3> QED
      BY <1>0, <1>4, <2>1, <3>1, RunAnswered
  <2>2. CASE ~(s.awaited /\ r \in s.on)
    BY <1>0, <1>3, <1>4, <2>2, RunUnanswered
  <2> QED
    BY <2>1, <2>2
<1>6. Queue'
  BY <1>1, AnswersQueue
<1>7. (\A r \in Runs : RunFits(r))' /\ budget'.failures <= MaxFailures
  BY <1>0, <1>5
<1> QED
  BY <1>6, <1>7 DEF RowsInv

\* The database rejects a statement: from here on a failure is on the books.
LEMMA RowsReject ==
  ASSUME Known, NEW i \in DOMAIN db, Reject(i)
  PROVE  RowsInv'
<1>0. /\ db \in Seq(Statement) /\ Queue /\ up' = up
      /\ budget.failures \in Nat /\ MaxFailures \in Nat /\ budget.failures <= MaxFailures
      /\ budget'.failures = budget.failures - 1
  BY RunLifecycleAssumption DEF Known, TypeOK, RowsInv, Reject
<1>1. Answers(i, "failed") /\ db' = RemoveAt(db, i)
  BY DEF Reject, Answers, memVars
<1>2. budget'.failures < MaxFailures /\ ~Unfailed'
  BY <1>0 DEF Unfailed
<1>3. PICK s \in Statement : s = db[i]
  BY <1>0
<1>4. Fits(s)
  BY <1>0, <1>3 DEF Queue
<1>5. ASSUME NEW r \in Runs
      PROVE  /\ pc'[r] = pc[r] /\ status'[r] = status[r] /\ ctrl'[r] = ctrl[r]
             /\ awaits'[r] = IF s.awaited /\ r \in s.on THEN "failed" ELSE awaits[r]
             /\ events'[r] = events[r] /\ runsRow'[r] = runsRow[r]
             /\ activeRow'[r] = activeRow[r]
  BY <1>3 DEF Reject, memVars, rowVars
<1>6. ASSUME NEW r \in Runs PROVE RunFits(r)'
  <2>1. CASE s.awaited /\ r \in s.on
    <3>1. Matches(s, r) /\ RunFits(r)
      BY <1>4, <2>1, KnownRun DEF Fits, Matches
    <3>2. Stands(r)' /\ ActiveRowFits(r)' /\ Reported(r)'
      BY <1>0, <1>2, <1>5, <2>1, <3>1 DEF RunFits, Stands, ActiveRowFits, KnowsReleased,
         Reported, Matches, Closing, Written
    <3>3. RunsRowFits(r)'
      BY <1>2, <1>5, <2>1, <3>1 DEF RunFits, RunsRowFits, KnowsInserted, KnowsUpdated,
         Lives
    <3> QED
      BY <3>2, <3>3 DEF RunFits
  <2>2. CASE ~(s.awaited /\ r \in s.on)
    BY <1>0, <1>2, <1>5, <2>2, KnownRun, RunUnmoved
  <2> QED
    BY <2>1, <2>2
<1>7. Queue'
  BY <1>1, AnswersQueue
<1>8. (\A r \in Runs : RunFits(r))' /\ budget'.failures <= MaxFailures
  BY <1>0, <1>2, <1>6
<1> QED
  BY <1>7, <1>8 DEF RowsInv

\* The read of the force-cancel route, which may issue the write that follows.
LEMMA RowsForceCancel ==
  ASSUME Known, NEW i \in DOMAIN db, ExecuteForceCancel(i)
  PROVE  RowsInv'
<1>0. /\ db \in Seq(Statement) /\ Queue /\ i \in Nat /\ budget' \in Budget
      /\ \A j \in DOMAIN db : db[j] \in Statement /\ Fits(db[j]) /\ (OrderedDB => Ahead(db[j]))
  BY DEF Known, TypeOK, RowsInv, Queue, ExecuteForceCancel, Budget
<1>1. Idles
  BY <1>0 DEF ExecuteForceCancel, Idles, memVars, rowVars, Known, TypeOK
<1>2. PICK d \in Seq(Statement) : d = RemoveAt(db, i)
  BY <1>0, RemoveAtTypes
<1>3. \A k \in DOMAIN d : \E j \in DOMAIN db : d[k] = db[j]
  BY <1>0, <1>2, RemoveAtElements
<1>4. OneAwait(d) /\ (OrderedDB => EarlyFirst(d))
  BY <1>0, <1>2, RemoveKeepsOrder DEF Queue
<1>5. \A k \in DOMAIN d : Fits(d[k])' /\ (OrderedDB => Ahead(d[k])')
  <2> SUFFICES ASSUME NEW k \in DOMAIN d PROVE Fits(d[k])' /\ (OrderedDB => Ahead(d[k])')
    OBVIOUS
  <2>1. d[k] \in Statement /\ Fits(d[k]) /\ (OrderedDB => Ahead(d[k]))
    BY <1>0, <1>3
  <2> QED
    BY <1>1, <2>1, IdlesRuns, <1>0, MovesKeep
<1>6. ASSUME db' = d PROVE Queue'
  <2>1. (\A k \in DOMAIN db : Fits(db[k]))' /\ (OrderedDB => \A k \in DOMAIN db : Ahead(db[k]))'
    BY <1>5, <1>6
  <2> QED
    BY <1>4, <1>6, <2>1 DEF Queue, OneAwait, EarlyFirst
<1>7. ASSUME NEW r \in Runs, db' = Append(d, Stmt("forceInterrupt", {r}, "error"))
      PROVE  Queue'
  <2> DEFINE e == Stmt("forceInterrupt", {r}, "error")
  <2>1. /\ e \in Statement /\ ~e.awaited /\ e.on = {r} /\ e.op = "forceInterrupt"
        /\ e.as = "error" /\ db' = Append(d, e)
    BY <1>7, StatementTypes DEF Stmt, Ops, Terminal
  <2> HIDE DEF e
  <2>2. Fits(e)' /\ Ahead(e)' /\ e.op \notin Early
    BY <2>1 DEF Fits, Ahead, Early
  <2>3. \A k \in DOMAIN db' : (k \in DOMAIN d /\ db'[k] = d[k]) \/ db'[k] = e
    BY <2>1, AppendElements
  <2>4. (\A k \in DOMAIN db : Fits(db[k]))' /\ (OrderedDB => \A k \in DOMAIN db : Ahead(db[k]))'
    BY <1>5, <2>2, <2>3
  <2>5. OneAwait(db') /\ (OrderedDB => EarlyFirst(db'))
    BY <1>4, <2>1, <2>2, AppendUnawaited
  <2> QED
    BY <2>4, <2>5 DEF Queue, OneAwait, EarlyFirst
<1>8. Queue'
  <2>1. db[i].on \subseteq Runs
    BY <1>0 DEF Statement
  <2> QED
    BY <1>2, <1>6, <1>7, <2>1 DEF ExecuteForceCancel
<1>9. (\A r \in Runs : RunFits(r))' /\ budget'.failures <= MaxFailures
  BY <1>0, <1>1, IdlesRuns
<1> QED
  BY <1>8, <1>9 DEF RowsInv

\* A crash: no statement and no call is left, and the rows are as they were.
LEMMA RowsCrash ==
  ASSUME Known, Crash
  PROVE  RowsInv'
<1>1. DOMAIN db' = {} /\ budget'.failures = budget.failures
  BY DEF Crash, Known, TypeOK
<1>2. Queue'
  BY <1>1 DEF Queue, OneAwait, EarlyFirst
<1>3. ASSUME NEW r \in Runs
      PROVE  /\ pc'[r] = IF pc[r] = "idle" THEN "idle" ELSE "dead"
             /\ status'[r] = "none" /\ awaits'[r] = "none" /\ ctrl'[r] = "none"
             /\ runsRow'[r] = runsRow[r] /\ ~up'
  BY DEF Crash, rowVars
<1>4. ASSUME NEW r \in Runs PROVE RunFits(r)'
  <2>1. runsRow'[r] = "success" => pc'[r] = "dead"
    BY <1>3, KnownRun DEF RunFits, RunsRowFits, Closing
  <2>2. RunsRowFits(r)'
    BY <1>3, <2>1 DEF RunsRowFits, KnowsInserted, KnowsUpdated, Lives, Begun, Written
  <2>3. Stands(r)' /\ ActiveRowFits(r)' /\ Reported(r)'
    BY <1>3 DEF Stands, ActiveRowFits, KnowsReleased, Reported, Closing, Written
  <2> QED
    BY <2>2, <2>3 DEF RunFits
<1>5. (\A r \in Runs : RunFits(r))' /\ budget'.failures <= MaxFailures
  BY <1>1, <1>4 DEF Known, RowsInv
<1> QED
  BY <1>2, <1>5 DEF RowsInv

\* The boot: its sweep is ahead of anything a call will wait for.
LEMMA RowsBoot ==
  ASSUME Known, StartOrphanCleanup
  PROVE  RowsInv'
<1> DEFINE a == Stmt("interruptAllRuns", Runs, "error")
           b == Stmt("terminalizeOrphanedRuns", Runs, "error")
           c == Stmt("cleanupOrphanedRuns", Runs, "error")
<1>0. /\ Idles /\ budget' \in Budget /\ db' = <<a, b, c>>
      /\ UNCHANGED <<pc, status, awaits>> /\ ~up
  BY DEF StartOrphanCleanup, Idles, Known, TypeOK, Budget, memVars, rowVars
<1>1. /\ ~a.awaited /\ a.on = Runs /\ a.op = "interruptAllRuns" /\ a.as = "error"
      /\ ~b.awaited /\ b.on = Runs /\ b.op = "terminalizeOrphanedRuns" /\ b.as = "error"
      /\ ~c.awaited /\ c.on = Runs /\ c.op = "cleanupOrphanedRuns" /\ c.as = "error"
  BY DEF Stmt
<1> HIDE DEF a, b, c
<1>2. ASSUME NEW r \in Runs PROVE pc'[r] \notin Begun /\ awaits'[r] = "none"
  BY <1>0, KnownRun DEF RunFits, Stands, Begun, Closing
<1>3. Fits(a)' /\ Fits(b)' /\ Fits(c)' /\ Ahead(a)' /\ Ahead(b)' /\ Ahead(c)'
  BY <1>1, <1>2 DEF Fits, Ahead, Early
<1>4. \A k \in DOMAIN db' : db'[k] = a \/ db'[k] = b \/ db'[k] = c
  BY <1>0
<1>5. (\A k \in DOMAIN db : Fits(db[k]))' /\ (OrderedDB => \A k \in DOMAIN db : Ahead(db[k]))'
  BY <1>3, <1>4
<1>6. \A k \in DOMAIN db' : ~db'[k].awaited
  BY <1>1, <1>4
<1>7. Queue'
  BY <1>5, <1>6 DEF Queue, OneAwait, EarlyFirst
<1>8. (\A r \in Runs : RunFits(r))' /\ budget'.failures <= MaxFailures
  BY <1>0, IdlesRuns
<1> QED
  BY <1>7, <1>8 DEF RowsInv

-----------------------------------------------------------------------------
(***************************************************************************)
(* The theorems.                                                           *)
(***************************************************************************)
\* Only the database writes rows.
LEMMA RowsWritten ==
  ASSUME [Next]_vars
  PROVE  runsRow' = runsRow \/ \E i \in DOMAIN db : Execute(i)
<1>1. ASSUME NEW r \in Runs, StreamChat(r) \/ Proceed(r) \/ PersistErrorMessage(r)
      PROVE  runsRow' = runsRow
  BY <1>1 DEF Proceed, StreamChat, RunInserted, InsertRunRejects, StartWatchdog, Prompt,
     SetupThrows, SetupThrowsTerminal, SetupErrorPosted, PromptResolves,
     PromptThrowsCancelled, PromptThrowsAbort, PromptThrowsError, PromptThrowsErrorAgain,
     Saved, RunUpdated, UpdateRunRejects, SetupRunUpdated, Return, PersistErrorMessage,
     rowVars
<1>2. ASSUME NEW r \in Runs,
             Environment(r) \/ CancelRun(r) \/ ForceCancel(r) \/ WatchdogTrip(r) \/
             UpdateHeartbeat(r) \/ RowGoesStale(r) \/ ScanController(r)
      PROVE  runsRow' = runsRow
  BY <1>2 DEF Environment, Wedge, AbortUnblocks, OpenGate, CloseGate, ToolTimeout,
     CancelRun, ForceCancel, WatchdogTrip, UpdateHeartbeat, RowGoesStale, ScanController,
     rowVars
<1>3. CASE CleanupOrphans \/ ScanDone \/ Crash \/ StartOrphanCleanup \/ UNCHANGED vars
  BY <1>3 DEF CleanupOrphans, ScanDone, Crash, StartOrphanCleanup, vars, rowVars
<1>4. ASSUME NEW i \in DOMAIN db, ExecuteForceCancel(i) \/ Reject(i)
      PROVE  runsRow' = runsRow
  BY <1>4 DEF ExecuteForceCancel, Reject, rowVars
<1> QED
  BY <1>1, <1>2, <1>3, <1>4 DEF Next, Database

\* The invariant of the rows holds of every reachable state.
THEOREM RowsInvariance == Spec => []RowsInv
<1>1. Init => RowsInv
  <2> SUFFICES ASSUME Init PROVE RowsInv
    OBVIOUS
  <2>1. DOMAIN db = {} /\ budget.failures = MaxFailures /\ MaxFailures \in Nat
    BY RunLifecycleAssumption DEF Init
  <2>2. Queue
    BY <2>1 DEF Queue, OneAwait, EarlyFirst
  <2>3. ASSUME NEW r \in Runs PROVE RunFits(r)
    BY DEF Init, RunFits, Stands, RunsRowFits, ActiveRowFits, Reported, KnowsInserted,
       KnowsUpdated, KnowsReleased, Lives, Begun, Written, Closing
  <2> QED
    BY <2>1, <2>2, <2>3 DEF RowsInv
<1>2. TypeOK /\ LifeInv /\ RowsInv /\ TypeOK' /\ [Next]_vars => RowsInv'
  <2> SUFFICES ASSUME Known, TypeOK', [Next]_vars PROVE RowsInv'
    BY DEF Known
  <2>0. budget' \in Budget /\ budget \in Budget
    BY DEF Known, TypeOK, Budget
  <2>1. ASSUME NEW r \in Runs, StreamChat(r) \/ Proceed(r) PROVE RowsInv'
    BY <2>1, RowsBegin, RowsOn, RowsFinalize, RowsInserted, RowsUpdated, RowsReturn
       DEF Proceed
  <2>2. ASSUME NEW r \in Runs, CancelRun(r) \/ WatchdogTrip(r) PROVE RowsInv'
    BY <2>2, RowsCancel, RowsTrip
  <2>3. ASSUME NEW r \in Runs, PersistErrorMessage(r) PROVE RowsInv'
    <3>1. Idles /\ db' = db
      BY <2>0, <2>3 DEF PersistErrorMessage, Idles, memVars, rowVars, Budget
    <3> QED
      BY <2>0, <3>1, RowsIdle
  <2>4. ASSUME NEW r \in Runs, Environment(r) PROVE RowsInv'
    <3>1. Idles /\ db' = db
      BY <2>0, <2>4 DEF Environment, Wedge, AbortUnblocks, OpenGate, CloseGate, ToolTimeout,
         Idles, rowVars, Budget
    <3> QED
      BY <2>0, <3>1, RowsIdle
  <2>5. ASSUME NEW r \in Runs, UpdateHeartbeat(r) \/ RowGoesStale(r) PROVE RowsInv'
    <3>1. Idles /\ db' = db
      BY <2>0, <2>5 DEF UpdateHeartbeat, RowGoesStale, Idles, memVars, Budget
    <3> QED
      BY <2>0, <3>1, RowsIdle
  <2>6. ASSUME NEW r \in Runs, ForceCancel(r) \/ ScanController(r) PROVE RowsInv'
    <3>1. Idles
      BY <2>0, <2>6 DEF ForceCancel, ScanController, Idles, memVars, rowVars, Budget
    <3>2. SameConv(r) \in SUBSET Runs /\ {r} \in SUBSET Runs
      BY DEF SameConv
    <3>3. \/ db' = Append(db, Stmt("forceCancel", SameConv(r), "error"))
          \/ db' = Append(db, Stmt("scan", {r}, "error"))
      BY <2>6 DEF ForceCancel, ScanController
    <3> QED
      BY <2>0, <3>1, <3>2, <3>3, RowsIssue
  <2>7. CASE CleanupOrphans
    <3>1. Idles /\ db' = Append(db, Stmt("cleanupOrphanedRuns", Runs, "error"))
      BY <2>0, <2>7 DEF CleanupOrphans, Idles, memVars, rowVars, Budget
    <3> QED
      BY <2>0, <3>1, RowsIssue
  <2>8. CASE ScanDone \/ UNCHANGED vars
    <3>1. Idles /\ db' = db
      BY <2>0, <2>8 DEF ScanDone, Idles, vars, memVars, rowVars, Budget
    <3> QED
      BY <2>0, <3>1, RowsIdle
  <2>9. CASE Crash \/ StartOrphanCleanup
    BY <2>9, RowsCrash, RowsBoot
  <2>10. ASSUME NEW i \in DOMAIN db, Execute(i) \/ ExecuteForceCancel(i) \/ Reject(i)
         PROVE  RowsInv'
    BY <2>10, RowsExecute, RowsForceCancel, RowsReject
  <2> QED
    BY <2>1, <2>2, <2>3, <2>4, <2>5, <2>6, <2>7, <2>8, <2>9, <2>10 DEF Next, Database
<1> QED
  BY <1>1, <1>2, Invariance, PTL DEF Spec

\* No call returns without a terminal event: whenever finalizeError or
\* finalizeSetupError returns early, cancelRun or the watchdog has emitted one.
THEOREM EveryReturnIsReported == Spec => []ReturnReported
<1>1. RowsInv => ReturnReported
  BY DEF RowsInv, RunFits, Reported, ReturnReported
<1> QED
  BY <1>1, RowsInvariance, PTL

\* When a call has returned and no statement was rejected, its `runs` row holds
\* the status of the AgentRun, whatever order the statements were executed in.
THEOREM RunRowsAgree == Spec => []RunRowAgrees
<1>1. RowsInv => RunRowAgrees
  BY DEF RowsInv, RunFits, RunsRowFits, KnowsUpdated, Unfailed, RunRowAgrees
<1> QED
  BY <1>1, RowsInvariance, PTL

\* With a database that keeps the order, its active row is then gone or marked:
\* the createActiveRun that nobody awaited was executed before.
THEOREM ActiveRowsReleased == Spec => []ActiveRowReleased
<1>1. RowsInv => ActiveRowReleased
  BY DEF RowsInv, RunFits, ActiveRowFits, KnowsReleased, Unfailed, ActiveRowReleased
<1> QED
  BY <1>1, RowsInvariance, PTL

\* With such a database the row of a run that executes says running: neither
\* the boot sweep nor a statement of an earlier process reaches it.
THEOREM LiveRunsHaveRows == Spec => []LiveRunRow
<1>1. RowsInv => LiveRunRow
  BY DEF RowsInv, RunFits, RunsRowFits, Lives, LiveRunRow
<1> QED
  BY <1>1, RowsInvariance, PTL

\* A recorded success is final, with any database: the statement that would
\* overwrite it is the call's own, and carries the same status.
THEOREM SuccessIsFinal == Spec => SuccessSticks
<1>1. TypeOK /\ LifeInv /\ RowsInv /\ [Next]_vars =>
        [\A r \in Runs : runsRow[r] = "success" => runsRow'[r] = "success"]_vars
  <2> SUFFICES ASSUME Known, [Next]_vars, NEW r \in Runs, runsRow[r] = "success"
               PROVE  runsRow'[r] = "success"
    BY DEF Known
  <2>1. CASE runsRow' = runsRow
    BY <2>1
  <2>2. ASSUME NEW i \in DOMAIN db, Execute(i) PROVE runsRow'[r] = "success"
    <3>0. db \in Seq(Statement) /\ Queue
      BY DEF Known, TypeOK, RowsInv
    <3>1. PICK s \in Statement : s = db[i]
      BY <3>0
    <3>2. Fits(s) /\ runsRow'[r] = RunsRowAfter(s, r)
      BY <2>2, <3>0, <3>1 DEF Queue, Execute
    <3>3. CASE s.awaited /\ r \in s.on
      <4>1. Matches(s, r)
        BY <3>2, <3>3 DEF Fits, Matches
      <4>2. /\ pc[r] # "inserting"
            /\ pc[r] \in {"updating", "updatingSetup"} => status[r] = "success"
        BY <4>1, KnownRun DEF RunFits, RunsRowFits, Closing
      <4> QED
        BY <3>2, <4>1, <4>2, RunsRowMoves DEF Matches
    <3>4. CASE ~(s.awaited /\ r \in s.on)
      BY <3>2, <3>4, RunsRowMoves DEF Fits
    <3> QED
      BY <3>3, <3>4
  <2> QED
    BY <2>1, <2>2, RowsWritten
<1> QED
  BY <1>1, Invariance, RowsInvariance, PTL DEF Spec, SuccessSticks
=============================================================================
