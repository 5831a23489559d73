--------------------------- MODULE GoalHostProofs ---------------------------
(***************************************************************************)
(* Proofs about GoalHost, for any number of POSTs, runs, goals, restarts     *)
(* and rejected statements, any turn cap and any evaluator threshold.        *)
(***************************************************************************)
EXTENDS GoalHost, FiniteSetTheorems, TLAPS

-----------------------------------------------------------------------------
(***************************************************************************)
(* The shape of the state.                                                 *)
(***************************************************************************)
Rec == [status : {"active", "paused"}, turns : Nat, failures : 0 .. THRESHOLD,
        starts : 0 .. MAX_TURNS]
RunRec  == [pc : RunPcs, goal : 0 .. MaxGoals, rec : Nat, achieved : BOOLEAN]
PostRec == [pc : PostPcs, kind : Kinds, goal : 0 .. MaxGoals]

\* Between the count of a turn and the start of the next one.
LoopPcs == {"evaluating", "mirror", "reread", "guard"}
HoldPcs == {"completeCheck", "evaluating", "mirror", "terminalCheck", "pauseWrite"}

Shape ==
  /\ stored \in 0 .. MaxGoals
  /\ recs \in Seq(Rec)
  /\ map \in 0 .. Len(recs)
  /\ run \in [Slots -> RunRec]
  /\ post \in [Posts -> PostRec]
  /\ sweep \in [pc : {"scan", "apply", "done"}, goal : 0 .. MaxGoals]
  /\ pending \in Nat /\ pending <= upsets
  /\ goals \in 0 .. MaxGoals /\ upsets \in 0 .. MaxUpsets
  /\ dropped \in SUBSET (1 .. MaxGoals) /\ held \in SUBSET (1 .. MaxGoals)
  /\ parked \in {"no", "parked", "unstarted", "raced"}

\* A handler names a record that exists, and has one while it evaluates.
Refs ==
  \A s \in Slots :
    run[s].rec \in 0 .. Len(recs) /\ (run[s].pc \in LoopPcs => run[s].rec # 0)

-----------------------------------------------------------------------------
(***************************************************************************)
(* The inductive invariant.                                                *)
(***************************************************************************)
\* Goals are numbered as they are set; one that has ended is stored, or about
\* to be written by a handler, only if it was held when it ended.
Ended ==
  /\ stored <= goals /\ \A g \in dropped : g <= goals
  /\ stored \in dropped => stored \in held
  /\ \A s \in Slots :
       /\ run[s].goal <= goals
       /\ run[s].pc \in HoldPcs /\ run[s].goal \in dropped => run[s].goal \in held

\* The handlers that may still start a continuation from record k.
InFlight(k) == {s \in Slots : run[s].rec = k /\ run[s].pc \in LoopPcs}

\* Each continuation, started or still possible, has its own counted turn below
\* the cap.
Budget ==
  \A k \in DOMAIN recs :
    /\ recs[k].starts + Cardinality(InFlight(k)) <= recs[k].turns
    /\ recs[k].starts + Cardinality(InFlight(k)) < MAX_TURNS

\* As long as no command or end of a goal has overlapped a handler: a handler
\* knows the stored goal, and a goal that is being dropped is not stored.
Knows ==
  /\ \A s \in Slots : run[s].pc \in HoldPcs \cup {"guard"} => run[s].goal = stored
  /\ \A s \in Slots : run[s].pc = "drop" => stored = 0
  /\ \A p \in Posts : post[p].pc = "clearDrop" => stored = 0

\* A stored goal without a record: the record is about to be made, or the
\* process was restarted and nothing has run since.
Recorded ==
  stored # 0 /\ map = 0 =>
    \/ \E p \in Posts : post[p].pc = "setRecord"
    \/ /\ parked = "parked"
       /\ \A s \in Slots : run[s].pc = "free"
       /\ \A p \in Posts : \/ post[p].pc \in {"new", "done"}
                           \/ post[p].pc = "rehydrate" /\ post[p].goal # 0

\* A run or handler, or a POST, that will drive the goal on, end it or pause it.
DrivesRun(s) ==
  \/ run[s].pc \in {"running", "completeRead", "completeCheck", "terminalRead", "terminalCheck",
                    "delete"}
  \/ run[s].pc \in LoopPcs /\ run[s].rec = map
DrivesPost(p) == post[p].pc \in {"rehydrate", "dispatch", "setRecord", "turn", "clearDelete"}

Armed == stored # 0 /\ (map # 0 => recs[map].status = "active")

Driven ==
  parked = "no" /\ Armed =>
    (\E s \in Slots : DrivesRun(s)) \/ (\E p \in Posts : DrivesPost(p))

Unraced == parked # "raced" => Knows /\ Recorded /\ Driven

IInv == Shape /\ Refs /\ Ended /\ Budget /\ Unraced

-----------------------------------------------------------------------------
(***************************************************************************)
(* What the operations change.                                             *)
(***************************************************************************)
\* Slot s becomes another record, the other slots stay as they are.
Slot(s) == /\ run' \in [Slots -> RunRec]
           /\ \A t \in Slots : t # s => run'[t] = run[t]

\* What the assignments to a slot leave in it.
LEMMA RunEffects ==
  ASSUME run \in [Slots -> RunRec], NEW s \in Slots, stored \in 0 .. MaxGoals, map \in Nat
  PROVE  /\ \A x \in RunPcs : To(s, x) =>
              /\ Slot(s) /\ run'[s].pc = x
              /\ run'[s].goal = run[s].goal /\ run'[s].rec = run[s].rec
         /\ Done(s) => Slot(s) /\ run'[s].pc = "free" /\ run'[s].goal = 0 /\ run'[s].rec = 0
         /\ StartRun(s) =>
              Slot(s) /\ run[s].pc = "free" /\ run'[s].pc = "running" /\ run'[s].goal = 0 /\ run'[s].rec = 0
         /\ run' = [run EXCEPT ![s] = [Free EXCEPT !.pc = "running"]] =>
              Slot(s) /\ run'[s].pc = "running" /\ run'[s].goal = 0 /\ run'[s].rec = 0
         /\ \A x \in RunPcs : run' = [run EXCEPT ![s].goal = stored, ![s].pc = x] =>
              Slot(s) /\ run'[s].pc = x /\ run'[s].goal = stored /\ run'[s].rec = run[s].rec
         /\ \A x \in RunPcs : run' = [run EXCEPT ![s].rec = map, ![s].pc = x] =>
              Slot(s) /\ run'[s].pc = x /\ run'[s].goal = run[s].goal /\ run'[s].rec = map
         /\ \A x \in RunPcs, a \in BOOLEAN : run' = [run EXCEPT ![s].pc = x, ![s].achieved = a] =>
              Slot(s) /\ run'[s].pc = x /\ run'[s].goal = run[s].goal /\ run'[s].rec = run[s].rec
         /\ \A x \in RunPcs :
              run' = [run EXCEPT ![s].pc = x, ![s].goal = 0, ![s].achieved = FALSE] =>
                Slot(s) /\ run'[s].pc = x /\ run'[s].goal = 0 /\ run'[s].rec = run[s].rec
<1> USE GoalAssumption
<1>0. run[s] \in RunRec
  OBVIOUS
<1>1. ASSUME NEW r \in RunRec, run' = [run EXCEPT ![s] = r]
      PROVE  Slot(s) /\ run'[s] = r
  BY <1>1 DEF Slot
<1>2. 0 \in 0 .. MaxGoals
  OBVIOUS
<1>4. ASSUME NEW x \in RunPcs, To(s, x)
      PROVE  /\ Slot(s) /\ run'[s].pc = x
             /\ run'[s].goal = run[s].goal /\ run'[s].rec = run[s].rec
  BY <1>0, <1>4 DEF To, Slot, RunRec
<1>5. ASSUME Done(s)
      PROVE  Slot(s) /\ run'[s].pc = "free" /\ run'[s].goal = 0 /\ run'[s].rec = 0
  BY <1>5 DEF Done, Slot, RunRec, Free, RunPcs
<1>6. ASSUME run' = [run EXCEPT ![s] = [Free EXCEPT !.pc = "running"]]
      PROVE  Slot(s) /\ run'[s].pc = "running" /\ run'[s].goal = 0 /\ run'[s].rec = 0
  <2> DEFINE r == [Free EXCEPT !.pc = "running"]
  <2>1. Free \in RunRec /\ Free.goal = 0 /\ Free.rec = 0
    BY <1>2 DEF Free, RunRec, RunPcs
  <2>2. r \in RunRec /\ r.pc = "running" /\ r.goal = Free.goal /\ r.rec = Free.rec
    BY <2>1 DEF RunRec, RunPcs
  <2> HIDE DEF r
  <2>3. run' = [run EXCEPT ![s] = r]
    BY <1>6 DEF r
  <2> QED
    BY <1>1, <2>1, <2>2, <2>3
<1>7. ASSUME NEW x \in RunPcs, run' = [run EXCEPT ![s].goal = stored, ![s].pc = x]
      PROVE  Slot(s) /\ run'[s].pc = x /\ run'[s].goal = stored /\ run'[s].rec = run[s].rec
  BY <1>0, <1>7 DEF Slot, RunRec
<1>8. ASSUME NEW x \in RunPcs, run' = [run EXCEPT ![s].rec = map, ![s].pc = x]
      PROVE  Slot(s) /\ run'[s].pc = x /\ run'[s].goal = run[s].goal /\ run'[s].rec = map
  BY <1>0, <1>8 DEF Slot, RunRec
<1>9. ASSUME NEW x \in RunPcs, NEW a \in BOOLEAN,
             run' = [run EXCEPT ![s].pc = x, ![s].achieved = a]
      PROVE  Slot(s) /\ run'[s].pc = x /\ run'[s].goal = run[s].goal /\ run'[s].rec = run[s].rec
  BY <1>0, <1>9 DEF Slot, RunRec
<1>10. ASSUME NEW x \in RunPcs,
              run' = [run EXCEPT ![s].pc = x, ![s].goal = 0, ![s].achieved = FALSE]
       PROVE  Slot(s) /\ run'[s].pc = x /\ run'[s].goal = 0 /\ run'[s].rec = run[s].rec
  <2> DEFINE r == [run[s] EXCEPT !.pc = x, !.goal = 0, !.achieved = FALSE]
  <2>1. r \in RunRec
    BY <1>0, <1>2 DEF RunRec
  <2>2. r.pc = x /\ r.goal = 0 /\ r.rec = run[s].rec
    BY <1>0 DEF RunRec
  <2>3. run' = [run EXCEPT ![s] = r]
    BY <1>0, <1>10
  <2> HIDE DEF r
  <2> QED
    BY <1>1, <2>1, <2>2, <2>3
<1> QED
  BY <1>4, <1>5, <1>6, <1>7, <1>8, <1>9, <1>10 DEF StartRun

\* The records keep their number; only record k changes.
OneRec(k) == /\ recs' \in Seq(Rec) /\ Len(recs') = Len(recs) /\ DOMAIN recs' = DOMAIN recs
             /\ \A j \in DOMAIN recs : j # k => recs'[j] = recs[j]

\* What the assignments to a record leave in it.
LEMMA RecEffects ==
  ASSUME recs \in Seq(Rec), NEW k \in DOMAIN recs
  PROVE  /\ \A x \in {"active", "paused"} : recs' = [recs EXCEPT ![k].status = x] =>
              /\ OneRec(k) /\ recs'[k].status = x
              /\ recs'[k].turns = recs[k].turns /\ recs'[k].starts = recs[k].starts
         /\ recs' = [recs EXCEPT ![k].turns = @ + 1] =>
              /\ OneRec(k) /\ recs'[k].status = recs[k].status
              /\ recs'[k].turns = recs[k].turns + 1 /\ recs'[k].starts = recs[k].starts
         /\ \A n \in 0 .. THRESHOLD : recs' = [recs EXCEPT ![k].failures = n] =>
              /\ OneRec(k) /\ recs'[k].status = recs[k].status
              /\ recs'[k].turns = recs[k].turns /\ recs'[k].starts = recs[k].starts
         /\ recs' = [recs EXCEPT ![k].failures = THRESHOLD, ![k].status = "paused"] =>
              /\ OneRec(k) /\ recs'[k].status = "paused"
              /\ recs'[k].turns = recs[k].turns /\ recs'[k].starts = recs[k].starts
         /\ recs' = [recs EXCEPT ![k].starts = IF @ < MAX_TURNS THEN @ + 1 ELSE @] =>
              /\ OneRec(k) /\ recs'[k].status = recs[k].status
              /\ recs'[k].turns = recs[k].turns
              /\ recs[k].starts < MAX_TURNS => recs'[k].starts = recs[k].starts + 1
<1> USE GoalAssumption
<1>0. recs[k] \in Rec
  OBVIOUS
<1>1. ASSUME NEW r \in Rec, recs' = [recs EXCEPT ![k] = r]
      PROVE  OneRec(k) /\ recs'[k] = r
  BY <1>1 DEF OneRec
<1>2. ASSUME NEW x \in {"active", "paused"}, recs' = [recs EXCEPT ![k].status = x]
      PROVE  /\ OneRec(k) /\ recs'[k].status = x
             /\ recs'[k].turns = recs[k].turns /\ recs'[k].starts = recs[k].starts
  <2> DEFINE r == [recs[k] EXCEPT !.status = x]
  <2>1. /\ r \in Rec /\ recs' = [recs EXCEPT ![k] = r] /\ r.status = x
        /\ r.turns = recs[k].turns /\ r.starts = recs[k].starts
    BY <1>0, <1>2 DEF Rec
  <2> HIDE DEF r
  <2> QED
    BY <1>1, <2>1
<1>3. ASSUME recs' = [recs EXCEPT ![k].turns = @ + 1]
      PROVE  /\ OneRec(k) /\ recs'[k].status = recs[k].status
             /\ recs'[k].turns = recs[k].turns + 1 /\ recs'[k].starts = recs[k].starts
  <2> DEFINE r == [recs[k] EXCEPT !.turns = @ + 1]
  <2>0. recs[k].turns + 1 \in Nat
    BY <1>0 DEF Rec
  <2>1. /\ r \in Rec /\ recs' = [recs EXCEPT ![k] = r] /\ r.status = recs[k].status
        /\ r.turns = recs[k].turns + 1 /\ r.starts = recs[k].starts
    BY <1>0, <1>3, <2>0 DEF Rec
  <2> HIDE DEF r
  <2> QED
    BY <1>1, <2>1
<1>4. ASSUME NEW n \in 0 .. THRESHOLD, recs' = [recs EXCEPT ![k].failures = n]
      PROVE  /\ OneRec(k) /\ recs'[k].status = recs[k].status
             /\ recs'[k].turns = recs[k].turns /\ recs'[k].starts = recs[k].starts
  <2> DEFINE r == [recs[k] EXCEPT !.failures = n]
  <2>1. /\ r \in Rec /\ recs' = [recs EXCEPT ![k] = r] /\ r.status = recs[k].status
        /\ r.turns = recs[k].turns /\ r.starts = recs[k].starts
    BY <1>0, <1>4 DEF Rec
  <2> HIDE DEF r
  <2> QED
    BY <1>1, <2>1
<1>5. ASSUME recs' = [recs EXCEPT ![k].failures = THRESHOLD, ![k].status = "paused"]
      PROVE  /\ OneRec(k) /\ recs'[k].status = "paused"
             /\ recs'[k].turns = recs[k].turns /\ recs'[k].starts = recs[k].starts
  <2> DEFINE r == [recs[k] EXCEPT !.failures = THRESHOLD, !.status = "paused"]
  <2>0. r \in Rec
    <3>1. THRESHOLD \in 0 .. THRESHOLD
      OBVIOUS
    <3> QED
      BY <1>0, <3>1 DEF Rec
  <2>1. /\ recs' = [recs EXCEPT ![k] = r] /\ r.status = "paused"
        /\ r.turns = recs[k].turns /\ r.starts = recs[k].starts
    BY <1>0, <1>5 DEF Rec
  <2> HIDE DEF r
  <2> QED
    BY <1>1, <2>0, <2>1
<1>6. ASSUME recs' = [recs EXCEPT ![k].starts = IF @ < MAX_TURNS THEN @ + 1 ELSE @]
      PROVE  /\ OneRec(k) /\ recs'[k].status = recs[k].status
             /\ recs'[k].turns = recs[k].turns
             /\ recs[k].starts < MAX_TURNS => recs'[k].starts = recs[k].starts + 1
  <2> DEFINE n == IF recs[k].starts < MAX_TURNS THEN recs[k].starts + 1 ELSE recs[k].starts
             r == [recs[k] EXCEPT !.starts = n]
  <2>0. /\ n \in 0 .. MAX_TURNS
        /\ recs[k].starts < MAX_TURNS => n = recs[k].starts + 1
    BY <1>0 DEF Rec
  <2>2. recs' = [recs EXCEPT ![k] = r]
    BY <1>6
  <2> HIDE DEF n
  <2>1. /\ r \in Rec /\ r.status = recs[k].status
        /\ r.turns = recs[k].turns /\ r.starts = n
    BY <1>0, <2>0 DEF Rec
  <2> HIDE DEF r
  <2> QED
    BY <1>1, <2>0, <2>1, <2>2
<1> QED
  BY <1>2, <1>3, <1>4, <1>5, <1>6

\* A record is made.
LEMMA SetRecordEffect ==
  ASSUME recs \in Seq(Rec), setRecord
  PROVE  /\ recs' \in Seq(Rec) /\ Len(recs') = Len(recs) + 1 /\ map' = Len(recs) + 1
         /\ Len(recs) \in Nat /\ DOMAIN recs = 1 .. Len(recs) /\ DOMAIN recs' = 1 .. Len(recs) + 1
         /\ \A j \in DOMAIN recs : recs'[j] = recs[j]
         /\ recs'[map'].status = "active" /\ recs'[map'].turns = 0 /\ recs'[map'].starts = 0
<1> USE GoalAssumption
<1>1. /\ FreshRecord \in Rec /\ FreshRecord.status = "active"
      /\ FreshRecord.turns = 0 /\ FreshRecord.starts = 0
  BY DEF FreshRecord, Rec
<1> QED
  BY <1>1 DEF setRecord

\* POST p moves on, the others stay as they are.
OnePost(p) == /\ post' \in [Posts -> PostRec]
              /\ \A q \in Posts : q # p => post'[q] = post[q]

\* What the assignments to a POST leave in it.
LEMMA PostEffects ==
  ASSUME post \in [Posts -> PostRec], NEW p \in Posts, stored \in 0 .. MaxGoals
  PROVE  /\ \A x \in PostPcs : post' = [post EXCEPT ![p].pc = x] =>
              OnePost(p) /\ post'[p].pc = x
         /\ post' = [post EXCEPT ![p].pc = "dispatch", ![p].goal = 0] =>
              OnePost(p) /\ post'[p].pc = "dispatch"
         /\ post' = [post EXCEPT ![p] = DonePost] => OnePost(p) /\ post'[p].pc = "done"
         /\ \A kind \in Kinds :
              post' = [post EXCEPT ![p] = [pc |-> "rehydrate", kind |-> kind, goal |-> stored]] =>
                OnePost(p) /\ post'[p].pc = "rehydrate" /\ post'[p].goal = stored
<1> USE GoalAssumption
<1>0. post[p] \in PostRec
  OBVIOUS
<1>1. ASSUME NEW x \in PostPcs, post' = [post EXCEPT ![p].pc = x]
      PROVE  OnePost(p) /\ post'[p].pc = x
  BY <1>0, <1>1 DEF OnePost, PostRec
<1>2. ASSUME post' = [post EXCEPT ![p].pc = "dispatch", ![p].goal = 0]
      PROVE  OnePost(p) /\ post'[p].pc = "dispatch"
  <2> DEFINE r == [post[p] EXCEPT !.pc = "dispatch", !.goal = 0]
  <2>1. r \in PostRec
    <3>1. 0 \in 0 .. MaxGoals
      OBVIOUS
    <3> QED
      BY <1>0, <3>1 DEF PostRec, PostPcs
  <2>2. r.pc = "dispatch" /\ post' = [post EXCEPT ![p] = r]
    BY <1>0, <1>2 DEF PostRec
  <2> HIDE DEF r
  <2> QED
    BY <2>1, <2>2 DEF OnePost
<1>3. ASSUME post' = [post EXCEPT ![p] = DonePost]
      PROVE  OnePost(p) /\ post'[p].pc = "done"
  BY <1>0, <1>3 DEF OnePost, PostRec, DonePost, NewPost, PostPcs, Kinds
<1>4. ASSUME NEW kind \in Kinds,
             post' = [post EXCEPT ![p] = [pc |-> "rehydrate", kind |-> kind, goal |-> stored]]
      PROVE  OnePost(p) /\ post'[p].pc = "rehydrate" /\ post'[p].goal = stored
  BY <1>0, <1>4 DEF OnePost, PostRec, PostPcs
<1> QED
  BY <1>1, <1>2, <1>3, <1>4

-----------------------------------------------------------------------------
(***************************************************************************)
(* What keeps the parts of the invariant.                                  *)
(***************************************************************************)
\* The slots are finitely many.
LEMMA InFlightFinite ==
  ASSUME NEW k
  PROVE  IsFiniteSet(InFlight(k)) /\ Cardinality(InFlight(k)) \in Nat
<1>1. IsFiniteSet(Slots)
  BY GoalAssumption, FS_Interval DEF Slots
<1>2. InFlight(k) \subseteq Slots
  BY DEF InFlight
<1> QED
  BY <1>1, <1>2, FS_Subset, FS_CardinalityType

\* No handler enters the loop, no continuation starts; turns only grow.
LEMMA BudgetKept ==
  ASSUME Shape, Refs, Budget, recs' \in Seq(Rec), DOMAIN recs \subseteq DOMAIN recs',
         \A k \in DOMAIN recs :
           recs'[k].starts = recs[k].starts /\ recs'[k].turns >= recs[k].turns,
         \A k \in DOMAIN recs' : k \notin DOMAIN recs => recs'[k].starts = 0,
         \A s \in Slots : run'[s].pc \in LoopPcs =>
           run[s].pc \in LoopPcs /\ run'[s].rec = run[s].rec
  PROVE  Budget'
<1> USE GoalAssumption
<1> SUFFICES ASSUME NEW k \in DOMAIN recs'
             PROVE  /\ recs'[k].starts + Cardinality(InFlight(k)') <= recs'[k].turns
                    /\ recs'[k].starts + Cardinality(InFlight(k)') < MAX_TURNS
  BY DEF Budget
<1>0. recs'[k] \in Rec
  OBVIOUS
<1>1. recs'[k].turns \in Nat /\ recs'[k].starts \in Nat
  BY <1>0 DEF Rec
<1>2. CASE k \in DOMAIN recs
  <2>1. InFlight(k)' \subseteq InFlight(k)
    BY DEF InFlight
  <2>2. /\ Cardinality(InFlight(k)') <= Cardinality(InFlight(k))
        /\ Cardinality(InFlight(k)') \in Nat /\ Cardinality(InFlight(k)) \in Nat
    <3>1. IsFiniteSet(InFlight(k)) /\ Cardinality(InFlight(k)) \in Nat
      BY InFlightFinite
    <3> QED
      BY <2>1, <3>1, FS_Subset, FS_CardinalityType
  <2>3. recs[k] \in Rec
    BY <1>2 DEF Shape
  <2>4. recs[k].turns \in Nat /\ recs[k].starts \in Nat
    BY <2>3 DEF Rec
  <2>5. /\ recs[k].starts + Cardinality(InFlight(k)) <= recs[k].turns
        /\ recs[k].starts + Cardinality(InFlight(k)) < MAX_TURNS
    BY <1>2 DEF Budget
  <2> QED
    BY <1>1, <1>2, <2>2, <2>4, <2>5
<1>3. CASE k \notin DOMAIN recs
  <2>1. InFlight(k)' = {}
    <3>1. \A s \in Slots : run[s].pc \in LoopPcs => run[s].rec \in DOMAIN recs
      BY DEF Refs, Shape
    <3> QED
      BY <1>3, <3>1 DEF InFlight
  <2>2. Cardinality(InFlight(k)') = 0
    BY <2>1, FS_EmptySet
  <2> QED
    BY <1>1, <1>3, <2>2
<1> QED
  BY <1>2, <1>3

\* No goal ends, and what is written to the store was stored or held before.
LEMMA EndedKept ==
  ASSUME Shape, Ended, dropped' = dropped, held' = held, goals' = goals,
         \/ stored' = stored
         \/ \E s \in Slots : run[s].pc \in HoldPcs /\ stored' = run[s].goal,
         \A s \in Slots :
           \/ run'[s] = run[s]
           \/ run'[s].goal \in {0, stored}
           \/ run'[s].goal = run[s].goal /\ (run'[s].pc \in HoldPcs => run[s].pc \in HoldPcs)
  PROVE  Ended'
<1> USE GoalAssumption
<1>1. 0 \notin dropped /\ goals \in Nat
  BY DEF Shape
<1>2. stored' <= goals' /\ (stored' \in dropped' => stored' \in held')
  BY DEF Ended
<1>3. ASSUME NEW s \in Slots
      PROVE  /\ run'[s].goal <= goals'
             /\ run'[s].pc \in HoldPcs /\ run'[s].goal \in dropped' => run'[s].goal \in held'
  <2>1. CASE run'[s].goal \in {0, stored}
    BY <1>1, <2>1 DEF Ended
  <2>2. CASE \/ run'[s] = run[s]
             \/ run'[s].goal = run[s].goal /\ (run'[s].pc \in HoldPcs => run[s].pc \in HoldPcs)
    BY <2>2 DEF Ended
  <2> QED
    BY <2>1, <2>2
<1> QED
  BY <1>2, <1>3 DEF Ended

\* The handler in slot s takes a step that ends no goal.
HandlerGoes(s) ==
  /\ Slot(s) /\ run[s].pc # "free" /\ UNCHANGED <<map, post, sweep, goals, dropped, held>>
  /\ \/ stored' = stored
     \/ run[s].pc \in HoldPcs /\ stored' = run[s].goal
  /\ pending' \in Nat /\ pending' <= upsets' /\ upsets' \in 0 .. MaxUpsets
  /\ parked' \in {"no", "parked", "unstarted", "raced"} /\ (parked = "raced" => parked' = "raced")
  /\ \/ parked' = parked
     \/ parked' # "no"
     \/ run'[s].pc = "running"
  /\ recs' \in Seq(Rec) /\ Len(recs') = Len(recs) /\ DOMAIN recs' = DOMAIN recs
  /\ \A k \in DOMAIN recs : recs'[k].status = "active" => recs[k].status = "active"
  /\ run'[s].rec \in 0 .. Len(recs) /\ (run'[s].pc \in LoopPcs => run'[s].rec # 0)
  /\ \/ run'[s].goal = stored
     \/ run[s].pc \in HoldPcs /\ run'[s].goal = run[s].goal
     \/ run'[s].pc \notin HoldPcs \cup {"guard"} /\ run'[s].goal \in {0, run[s].goal}
  /\ run'[s].pc # "drop"
  /\ parked' = "no" /\ Armed' /\ DrivesRun(s) /\ Knows /\ Recorded =>
       DrivesRun(s)' \/ \E p \in Posts : DrivesPost(p)

\* Such a step of a handler keeps the invariant, once it keeps the budget.
LEMMA HandlerKeeps ==
  ASSUME IInv, NEW s \in Slots, HandlerGoes(s), Budget'
  PROVE  IInv'
<1> USE GoalAssumption
<1>0. /\ run' \in [Slots -> RunRec] /\ \A t \in Slots : t # s => run'[t] = run[t]
  BY DEF HandlerGoes, Slot
<1>1. Shape'
  <2>1. stored' \in 0 .. MaxGoals
    <3>1. run[s] \in RunRec
      BY DEF IInv, Shape
    <3>2. run[s].goal \in 0 .. MaxGoals
      BY <3>1 DEF RunRec
    <3> QED
      BY <3>2 DEF HandlerGoes, IInv, Shape
  <2> QED
    BY <1>0, <2>1 DEF HandlerGoes, IInv, Shape
<1>2. Refs'
  <2> SUFFICES ASSUME NEW t \in Slots
               PROVE  /\ run'[t].rec \in 0 .. Len(recs')
                      /\ run'[t].pc \in LoopPcs => run'[t].rec # 0
    BY DEF Refs
  <2>1. CASE t = s
    BY <2>1 DEF HandlerGoes
  <2>2. CASE t # s
    BY <1>0, <2>2 DEF HandlerGoes, IInv, Refs
  <2> QED
    BY <2>1, <2>2
<1>3. Ended'
  <2>1. \A t \in Slots :
           \/ run'[t] = run[t]
           \/ run'[t].goal \in {0, stored}
           \/ run'[t].goal = run[t].goal /\ (run'[t].pc \in HoldPcs => run[t].pc \in HoldPcs)
    BY <1>0 DEF HandlerGoes
  <2> QED
    BY <2>1, EndedKept DEF IInv, HandlerGoes
<1>4. Unraced'
  <2> SUFFICES ASSUME parked' # "raced" PROVE Knows' /\ Recorded' /\ Driven'
    BY DEF Unraced
  <2>0. parked # "raced" /\ Knows /\ Recorded /\ Driven
    BY DEF HandlerGoes, IInv, Unraced
  <2>1. stored' = stored
    BY <2>0 DEF HandlerGoes, Knows
  <2>2. Knows'
    <3>1. ASSUME NEW t \in Slots
          PROVE  /\ run'[t].pc \in HoldPcs \cup {"guard"} => run'[t].goal = stored'
                 /\ run'[t].pc = "drop" => stored' = 0
      <4>1. CASE t = s
        BY <2>0, <2>1, <4>1 DEF HandlerGoes, Knows
      <4>2. CASE t # s
        BY <1>0, <2>0, <2>1, <4>2 DEF Knows
      <4> QED
        BY <4>1, <4>2
    <3> QED
      BY <2>0, <2>1, <3>1 DEF Knows, HandlerGoes
  <2>3. Recorded'
    BY <2>0, <2>1 DEF HandlerGoes, Recorded
  <2>4. Driven'
    <3> SUFFICES ASSUME parked' = "no", Armed'
                 PROVE  (\E t \in Slots : DrivesRun(t)') \/ (\E p \in Posts : DrivesPost(p)')
      BY DEF Driven
    <3>1. CASE run'[s].pc = "running"
      BY <3>1 DEF DrivesRun
    <3>2. CASE run'[s].pc # "running"
      <4>1. parked = "no"
        BY <3>2 DEF HandlerGoes
      <4>2. Armed
        <5>1. map # 0 => map \in DOMAIN recs
          BY DEF IInv, Shape
        <5> QED
          BY <2>1, <5>1 DEF HandlerGoes, Armed
      <4>3. CASE \E p \in Posts : DrivesPost(p)
        BY <4>3 DEF HandlerGoes, DrivesPost
      <4>4. CASE \E t \in Slots : t # s /\ DrivesRun(t)
        BY <1>0, <4>4 DEF HandlerGoes, DrivesRun
      <4>5. CASE DrivesRun(s)
        BY <2>0, <4>3, <4>5 DEF HandlerGoes
      <4> QED
        BY <2>0, <4>1, <4>2, <4>3, <4>4, <4>5 DEF Driven
    <3> QED
      BY <3>1, <3>2
  <2> QED
    BY <2>2, <2>3, <2>4
<1> QED
  BY <1>1, <1>2, <1>3, <1>4 DEF IInv

-----------------------------------------------------------------------------
(***************************************************************************)
(* The handlers of run:complete, run:error and run:cancel.                  *)
(***************************************************************************)
\* What is known of a slot, and the states a handler leaves alone.
LEMMA SlotFacts ==
  ASSUME IInv, NEW s \in Slots
  PROVE  /\ run \in [Slots -> RunRec] /\ run[s] \in RunRec /\ run[s].pc \in RunPcs
         /\ recs \in Seq(Rec) /\ Len(recs) \in Nat /\ DOMAIN recs = 1 .. Len(recs)
         /\ map \in 0 .. Len(recs) /\ map \in Nat /\ stored \in 0 .. MaxGoals
         /\ run[s].rec \in 0 .. Len(recs) /\ (run[s].pc \in LoopPcs => run[s].rec \in DOMAIN recs)
         /\ pending \in Nat /\ pending <= upsets /\ upsets \in 0 .. MaxUpsets
         /\ parked \in {"no", "parked", "unstarted", "raced"}
         /\ \A k \in DOMAIN recs : recs[k] \in Rec /\ recs[k].turns \in Nat /\ recs[k].starts \in Nat
<1>1. /\ run \in [Slots -> RunRec] /\ run[s] \in RunRec
      /\ recs \in Seq(Rec) /\ Len(recs) \in Nat /\ DOMAIN recs = 1 .. Len(recs)
      /\ map \in 0 .. Len(recs) /\ map \in Nat /\ stored \in 0 .. MaxGoals
      /\ pending \in Nat /\ pending <= upsets /\ upsets \in 0 .. MaxUpsets
      /\ parked \in {"no", "parked", "unstarted", "raced"}
      /\ \A k \in DOMAIN recs : recs[k] \in Rec
  BY GoalAssumption DEF IInv, Shape
<1>2. run[s].pc \in RunPcs /\ \A k \in DOMAIN recs : recs[k].turns \in Nat /\ recs[k].starts \in Nat
  BY <1>1, GoalAssumption DEF RunRec, Rec
<1>3. run[s].rec \in 0 .. Len(recs) /\ (run[s].pc \in LoopPcs => run[s].rec # 0)
  BY DEF IInv, Refs
<1> QED
  BY <1>1, <1>2, <1>3

\* A handler moves on and leaves the records alone.
LEMMA PlainBudget ==
  ASSUME IInv, NEW s \in Slots, Slot(s), UNCHANGED recs,
         run'[s].pc \in LoopPcs => run[s].pc \in LoopPcs /\ run'[s].rec = run[s].rec
  PROVE  Budget'
<1>1. \A t \in Slots : run'[t].pc \in LoopPcs =>
        run[t].pc \in LoopPcs /\ run'[t].rec = run[t].rec
  BY DEF Slot
<1>2. \A k \in DOMAIN recs :
        recs'[k].starts = recs[k].starts /\ recs'[k].turns >= recs[k].turns
  BY SlotFacts
<1> QED
  BY <1>1, <1>2, BudgetKept DEF IInv, Shape

\* A run ends, and its handler reads the goal.
LEMMA BeginSteps ==
  ASSUME IInv, NEW s \in Slots,
         RunCompletes(s) \/ RunFails(s) \/ ReadGoal(s) \/ Reread(s)
  PROVE  IInv'
<1> USE DEF memory, counters, observers
<1>0. /\ run \in [Slots -> RunRec] /\ run[s].pc \in RunPcs
      /\ recs \in Seq(Rec) /\ map \in Nat /\ stored \in 0 .. MaxGoals
      /\ run[s].rec \in 0 .. Len(recs) /\ (run[s].pc \in LoopPcs => run[s].rec # 0)
      /\ pending \in Nat /\ pending <= upsets /\ upsets \in 0 .. MaxUpsets
      /\ parked \in {"no", "parked", "unstarted", "raced"}
  BY SlotFacts
<1>1. UNCHANGED <<stored, recs, map, sweep, pending, post, goals, upsets, dropped, held, parked>>
  BY DEF RunCompletes, RunFails, ReadGoal, Reread
<1>2. /\ Slot(s) /\ run'[s].rec = run[s].rec
      /\ \/ /\ run[s].pc = "running" /\ run'[s].pc \in {"completeRead", "terminalRead"}
            /\ run'[s].goal = run[s].goal
         \/ /\ run[s].pc = "completeRead" /\ run'[s].pc = "completeCheck"
            /\ run'[s].goal = stored
         \/ /\ run[s].pc = "terminalRead" /\ run'[s].pc = "terminalCheck"
            /\ run'[s].goal = stored
         \/ /\ run[s].pc = "reread" /\ run'[s].pc = "guard"
            /\ run'[s].goal = stored
  <2>1. CASE RunCompletes(s) \/ RunFails(s)
    <3>1. run[s].pc = "running" /\ (To(s, "completeRead") \/ To(s, "terminalRead"))
      BY <2>1 DEF RunCompletes, RunFails
    <3> QED
      BY <1>0, <3>1, RunEffects DEF RunPcs
  <2>2. CASE ReadGoal(s)
    <3>1. \/ /\ run[s].pc = "completeRead"
             /\ run' = [run EXCEPT ![s].goal = stored, ![s].pc = "completeCheck"]
          \/ /\ run[s].pc = "terminalRead"
             /\ run' = [run EXCEPT ![s].goal = stored, ![s].pc = "terminalCheck"]
      BY <2>2 DEF ReadGoal
    <3> QED
      BY <1>0, <3>1, RunEffects DEF RunPcs
  <2>3. CASE Reread(s)
    <3>1. run[s].pc = "reread" /\ run' = [run EXCEPT ![s].goal = stored, ![s].pc = "guard"]
      BY <2>3 DEF Reread
    <3> QED
      BY <1>0, <3>1, RunEffects DEF RunPcs
  <2> QED
    BY <2>1, <2>2, <2>3
<1>3. Budget'
  BY <1>1, <1>2, PlainBudget DEF LoopPcs
<1>4. DrivesRun(s) => DrivesRun(s)'
  BY <1>1, <1>2 DEF DrivesRun, LoopPcs
<1>5. HandlerGoes(s)
  BY <1>0, <1>1, <1>2, <1>4 DEF HandlerGoes, LoopPcs, HoldPcs
<1> QED
  BY <1>3, <1>5, HandlerKeeps

\* A rejected statement ends the handler, or the run before it began; a paused
\* goal is written.
LEMMA GiveUpSteps ==
  ASSUME IInv, NEW s \in Slots, HandlerThrows(s) \/ RunRejects(s) \/ PauseWrites(s)
  PROVE  IInv'
<1> USE DEF memory, counters, observers
<1>0. /\ run \in [Slots -> RunRec] /\ run[s].pc \in RunPcs
      /\ recs \in Seq(Rec) /\ map \in Nat /\ stored \in 0 .. MaxGoals /\ Len(recs) \in Nat
      /\ pending \in Nat /\ pending <= upsets /\ upsets \in 0 .. MaxUpsets
      /\ parked \in {"no", "parked", "unstarted", "raced"}
  BY SlotFacts
<1>1. /\ UNCHANGED <<recs, map, sweep, pending, post, goals, dropped, held>>
      /\ run[s].pc \notin {"free", "completeCheck", "terminalCheck", "evaluating", "guard"}
      /\ Done(s)
      /\ \/ stored' = stored
         \/ run[s].pc \in HoldPcs /\ stored' = run[s].goal
      /\ pending' <= upsets' /\ upsets' \in 0 .. MaxUpsets
      /\ \/ parked' = parked /\ run[s].pc = "pauseWrite"
         \/ parked' # "no"
      /\ parked' \in {"no", "parked", "unstarted", "raced"} /\ (parked = "raced" => parked' = "raced")
  <2>1. CASE HandlerThrows(s)
    BY <1>0, <2>1, GoalAssumption DEF HandlerThrows, Parks
  <2>2. CASE PauseWrites(s)
    BY <1>0, <2>2 DEF PauseWrites, writeGoal, HoldPcs
  <2>3. CASE RunRejects(s)
    BY <1>0, <2>3, GoalAssumption DEF RunRejects
  <2> QED
    BY <2>1, <2>2, <2>3
<1>2. Slot(s) /\ run'[s].pc = "free" /\ run'[s].goal = 0 /\ run'[s].rec = 0
  BY <1>0, <1>1, RunEffects
<1>3. Budget'
  BY <1>1, <1>2, PlainBudget DEF LoopPcs
<1>4. parked' = "no" => ~DrivesRun(s)
  BY <1>1 DEF DrivesRun, LoopPcs
<1>5. HandlerGoes(s)
  BY <1>0, <1>1, <1>2, <1>4 DEF HandlerGoes, LoopPcs, HoldPcs
<1> QED
  BY <1>3, <1>5, HandlerKeeps

\* The reason is mirrored.
LEMMA MirrorStep ==
  ASSUME IInv, NEW s \in Slots, MirrorReason(s)
  PROVE  IInv'
<1> USE DEF memory, counters, observers
<1>0. /\ run \in [Slots -> RunRec] /\ run[s].pc \in RunPcs
      /\ recs \in Seq(Rec) /\ map \in Nat /\ stored \in 0 .. MaxGoals
      /\ run[s].rec \in 0 .. Len(recs) /\ (run[s].pc \in LoopPcs => run[s].rec \in DOMAIN recs)
      /\ pending \in Nat /\ pending <= upsets /\ upsets \in 0 .. MaxUpsets
      /\ parked \in {"no", "parked", "unstarted", "raced"} /\ DOMAIN recs = 1 .. Len(recs)
  BY SlotFacts
<1>1. /\ UNCHANGED <<recs, map, sweep, pending, post, goals, upsets, dropped, held, parked>>
      /\ run[s].pc = "mirror" /\ stored' = run[s].goal
  BY DEF MirrorReason, writeGoal
<1>2. /\ Slot(s) /\ run'[s].pc \in {"delete", "reread"} /\ run'[s].goal = 0
      /\ run'[s].rec = run[s].rec
  <2>1. PICK x \in {"delete", "reread"} :
          run' = [run EXCEPT ![s].pc = x, ![s].goal = 0, ![s].achieved = FALSE]
    BY DEF MirrorReason
  <2> QED
    BY <1>0, <2>1, RunEffects DEF RunPcs
<1>3. Budget'
  BY <1>1, <1>2, PlainBudget DEF LoopPcs
<1>4. DrivesRun(s) => DrivesRun(s)'
  BY <1>1, <1>2 DEF DrivesRun, LoopPcs
<1>5. HandlerGoes(s)
  BY <1>0, <1>1, <1>2, <1>4 DEF HandlerGoes, LoopPcs, HoldPcs
<1> QED
  BY <1>3, <1>5, HandlerKeeps

\* The evaluator answers, or does not; a failed or cancelled run pauses the goal.
LEMMA PauseSteps ==
  ASSUME IInv, NEW s \in Slots,
         CheckTerminal(s) \/ (\E outcome \in Outcomes : Evaluate(s, outcome))
  PROVE  IInv'
<1> USE DEF memory, counters, observers
<1>0. /\ run \in [Slots -> RunRec] /\ run[s].pc \in RunPcs
      /\ recs \in Seq(Rec) /\ map \in Nat /\ stored \in 0 .. MaxGoals /\ map \in 0 .. Len(recs)
      /\ run[s].rec \in 0 .. Len(recs) /\ (run[s].pc \in LoopPcs => run[s].rec \in DOMAIN recs)
      /\ pending \in Nat /\ pending <= upsets /\ upsets \in 0 .. MaxUpsets
      /\ parked \in {"no", "parked", "unstarted", "raced"} /\ DOMAIN recs = 1 .. Len(recs)
      /\ Len(recs) \in Nat
      /\ \A k \in DOMAIN recs : recs[k] \in Rec /\ recs[k].turns \in Nat
  BY SlotFacts
<1>1. UNCHANGED <<stored, map, sweep, pending, post, goals, upsets, dropped, held, parked>>
  BY DEF CheckTerminal, Evaluate
<1>2. ASSUME NEW k \in DOMAIN recs, OneRec(k), recs'[k].turns = recs[k].turns,
             recs'[k].starts = recs[k].starts, Slot(s),
             run'[s].pc \in LoopPcs => run[s].pc \in LoopPcs /\ run'[s].rec = run[s].rec
      PROVE  Budget'
  <2>1. \A j \in DOMAIN recs :
          recs'[j].starts = recs[j].starts /\ recs'[j].turns >= recs[j].turns
    BY <1>0, <1>2 DEF OneRec
  <2>2. \A t \in Slots : run'[t].pc \in LoopPcs =>
          run[t].pc \in LoopPcs /\ run'[t].rec = run[t].rec
    BY <1>2 DEF Slot
  <2> QED
    BY <1>2, <2>1, <2>2, BudgetKept DEF IInv, OneRec
<1>3. CASE CheckTerminal(s) /\ ~isGoalArmed(run[s].goal, map)
  <2>1. run[s].pc = "terminalCheck" /\ Done(s) /\ UNCHANGED recs
    BY <1>3 DEF CheckTerminal
  <2>2. Slot(s) /\ run'[s].pc = "free" /\ run'[s].goal = 0 /\ run'[s].rec = 0
    BY <1>0, <2>1, RunEffects
  <2>3. Budget'
    BY <2>1, <2>2, PlainBudget DEF LoopPcs
  <2>4. Armed' /\ Knows /\ Recorded /\ parked' = "no" => \E p \in Posts : DrivesPost(p)
    BY <1>1, <1>3, <2>1 DEF Armed, Knows, Recorded, HoldPcs, isGoalArmed, DrivesPost
  <2>5. HandlerGoes(s)
    BY <1>0, <1>1, <2>1, <2>2, <2>4 DEF HandlerGoes, LoopPcs, HoldPcs
  <2> QED
    BY <2>3, <2>5, HandlerKeeps
<1>4. CASE CheckTerminal(s) /\ isGoalArmed(run[s].goal, map)
  <2>1. run[s].pc = "terminalCheck" /\ Pause(s, map) /\ map \in DOMAIN recs
    BY <1>0, <1>4 DEF CheckTerminal, isGoalArmed
  <2>2. /\ Slot(s) /\ run'[s].pc = "pauseWrite" /\ run'[s].goal = run[s].goal
        /\ run'[s].rec = run[s].rec
    BY <1>0, <2>1, RunEffects DEF Pause, RunPcs
  <2>3. /\ OneRec(map) /\ recs'[map].status = "paused"
        /\ recs'[map].turns = recs[map].turns /\ recs'[map].starts = recs[map].starts
    BY <1>0, <2>1, RecEffects DEF Pause
  <2>4. Budget'
    BY <1>2, <2>1, <2>2, <2>3 DEF LoopPcs
  <2>5. ~Armed'
    BY <1>0, <1>1, <2>1, <2>3 DEF Armed
  <2>6. HandlerGoes(s)
    BY <1>0, <1>1, <2>1, <2>2, <2>3, <2>5 DEF HandlerGoes, OneRec, LoopPcs, HoldPcs
  <2> QED
    BY <2>4, <2>6, HandlerKeeps
<1>5. ASSUME NEW outcome \in Outcomes, Evaluate(s, outcome) PROVE IInv'
  <2> DEFINE k == run[s].rec
  <2>1. run[s].pc = "evaluating" /\ k \in DOMAIN recs
    BY <1>0, <1>5 DEF Evaluate, LoopPcs
  <2>2. \/ /\ run'[s].pc = "pauseWrite" /\ recs'[k].status = "paused" /\ Slot(s)
           /\ run'[s].goal = run[s].goal /\ run'[s].rec = run[s].rec
           /\ OneRec(k) /\ recs'[k].turns = recs[k].turns /\ recs'[k].starts = recs[k].starts
        \/ /\ run'[s].pc = "mirror" /\ recs'[k].status = recs[k].status /\ Slot(s)
           /\ run'[s].goal = run[s].goal /\ run'[s].rec = run[s].rec
           /\ OneRec(k) /\ recs'[k].turns = recs[k].turns /\ recs'[k].starts = recs[k].starts
    <3>1. CASE outcome = "unavailable" /\ Pause(s, k)
      BY <1>0, <2>1, <3>1, RunEffects, RecEffects DEF Pause, RunPcs
    <3>2. CASE /\ recs' = [recs EXCEPT ![k].failures = THRESHOLD, ![k].status = "paused"]
               /\ To(s, "pauseWrite")
      BY <1>0, <2>1, <3>2, RunEffects, RecEffects DEF RunPcs
    <3>3. CASE /\ recs[k].failures + 1 < THRESHOLD
               /\ recs' = [recs EXCEPT ![k].failures = @ + 1]
               /\ To(s, "mirror")
      <4> DEFINE n == recs[k].failures + 1
      <4>1. n \in 0 .. THRESHOLD
        <5>1. recs[k] \in Rec
          BY <1>0, <2>1
        <5>2. recs[k].failures \in 0 .. THRESHOLD
          BY <5>1 DEF Rec
        <5> QED
          BY <3>3, <5>2, GoalAssumption
      <4>2. recs' = [recs EXCEPT ![k].failures = n]
        BY <3>3
      <4> HIDE DEF n
      <4>3. /\ OneRec(k) /\ recs'[k].status = recs[k].status
            /\ recs'[k].turns = recs[k].turns /\ recs'[k].starts = recs[k].starts
        BY <1>0, <2>1, <4>1, <4>2, RecEffects
      <4> QED
        BY <1>0, <3>3, <4>3, RunEffects DEF RunPcs
    <3>4. CASE /\ recs' = [recs EXCEPT ![k].failures = 0]
               /\ run' = [run EXCEPT ![s].pc = "mirror", ![s].achieved = outcome = "achieved"]
      <4>1. 0 \in 0 .. THRESHOLD /\ (outcome = "achieved") \in BOOLEAN
        BY GoalAssumption
      <4>2. /\ OneRec(k) /\ recs'[k].status = recs[k].status
            /\ recs'[k].turns = recs[k].turns /\ recs'[k].starts = recs[k].starts
        BY <1>0, <2>1, <3>4, <4>1, RecEffects
      <4>3. PICK a \in BOOLEAN : run' = [run EXCEPT ![s].pc = "mirror", ![s].achieved = a]
        BY <3>4, <4>1
      <4>4. /\ Slot(s) /\ run'[s].pc = "mirror" /\ run'[s].goal = run[s].goal
            /\ run'[s].rec = run[s].rec
        BY <1>0, <4>3, RunEffects DEF RunPcs
      <4> QED
        BY <4>2, <4>4
    <3> QED
      BY <1>5, <3>1, <3>2, <3>3, <3>4 DEF Evaluate
  <2>3. Budget'
    BY <1>2, <2>1, <2>2 DEF LoopPcs
  <2>4. /\ recs' \in Seq(Rec) /\ Len(recs') = Len(recs) /\ DOMAIN recs' = DOMAIN recs
        /\ \A j \in DOMAIN recs : recs'[j].status = "active" => recs[j].status = "active"
    BY <2>1, <2>2 DEF OneRec
  <2>5. Armed' /\ DrivesRun(s) => DrivesRun(s)'
    BY <1>0, <1>1, <2>1, <2>2 DEF Armed, DrivesRun, LoopPcs
  <2>6. HandlerGoes(s)
    BY <1>0, <1>1, <2>1, <2>2, <2>4, <2>5 DEF HandlerGoes, LoopPcs, HoldPcs
  <2> QED
    BY <2>3, <2>6, HandlerKeeps
<1> QED
  BY <1>3, <1>4, <1>5

\* The turn is counted; a handler below the cap enters the loop.
LEMMA CheckTurnStep ==
  ASSUME IInv, NEW s \in Slots, CheckTurn(s)
  PROVE  IInv'
<1> USE DEF memory, counters, observers
<1>0. /\ run \in [Slots -> RunRec] /\ run[s].pc = "completeCheck"
      /\ recs \in Seq(Rec) /\ map \in Nat /\ stored \in 0 .. MaxGoals /\ map \in 0 .. Len(recs)
      /\ run[s].rec \in 0 .. Len(recs)
      /\ pending \in Nat /\ pending <= upsets /\ upsets \in 0 .. MaxUpsets
      /\ parked \in {"no", "parked", "unstarted", "raced"} /\ DOMAIN recs = 1 .. Len(recs)
      /\ Len(recs) \in Nat
      /\ \A k \in DOMAIN recs : recs[k] \in Rec /\ recs[k].turns \in Nat /\ recs[k].starts \in Nat
  BY SlotFacts DEF CheckTurn
<1>1. UNCHANGED <<stored, map, sweep, post, goals, upsets, dropped, held>>
  BY DEF CheckTurn
<1>2. CASE ~isGoalArmed(run[s].goal, map)
  <2>1. Done(s) /\ UNCHANGED <<recs, pending, parked>>
    BY <1>2 DEF CheckTurn
  <2>2. Slot(s) /\ run'[s].pc = "free" /\ run'[s].goal = 0 /\ run'[s].rec = 0
    BY <1>0, <2>1, RunEffects
  <2>3. Budget'
    BY <2>1, <2>2, PlainBudget DEF LoopPcs
  <2>4. Armed' /\ Knows /\ Recorded /\ parked' = "no" => \E p \in Posts : DrivesPost(p)
    BY <1>0, <1>1, <1>2, <2>1 DEF Armed, Knows, Recorded, HoldPcs, isGoalArmed, DrivesPost
  <2>5. HandlerGoes(s)
    BY <1>0, <1>1, <2>1, <2>2, <2>4 DEF HandlerGoes, LoopPcs, HoldPcs
  <2> QED
    BY <2>3, <2>5, HandlerKeeps
<1>3. ASSUME isGoalArmed(run[s].goal, map)
      PROVE  /\ map \in DOMAIN recs /\ recs' = [recs EXCEPT ![map].turns = @ + 1]
             /\ OneRec(map) /\ recs'[map].status = recs[map].status
             /\ recs'[map].turns = recs[map].turns + 1 /\ recs'[map].starts = recs[map].starts
  <2>1. map \in DOMAIN recs /\ recs' = [recs EXCEPT ![map].turns = @ + 1]
    BY <1>0, <1>3 DEF CheckTurn, isGoalArmed
  <2> QED
    BY <1>0, <2>1, RecEffects
<1>4. CASE isGoalArmed(run[s].goal, map) /\ pending > 0
  <2>1. pending' = pending - 1 /\ Parks /\ Done(s)
    BY <1>0, <1>4 DEF CheckTurn
  <2>2. Slot(s) /\ run'[s].pc = "free" /\ run'[s].goal = 0 /\ run'[s].rec = 0
    BY <1>0, <2>1, RunEffects
  <2>3. Budget'
    <3>1. \A t \in Slots : run'[t].pc \in LoopPcs =>
            run[t].pc \in LoopPcs /\ run'[t].rec = run[t].rec
      BY <2>2 DEF Slot, LoopPcs
    <3>2. \A j \in DOMAIN recs :
            recs'[j].starts = recs[j].starts /\ recs'[j].turns >= recs[j].turns
      BY <1>0, <1>3, <1>4 DEF OneRec
    <3> QED
      BY <1>3, <1>4, <3>1, <3>2, BudgetKept DEF IInv, OneRec
  <2>4. parked' # "no" /\ parked' \in {"parked", "raced"} /\ (parked = "raced" => parked' = "raced")
    BY <2>1 DEF Parks
  <2>5. pending' \in Nat /\ pending' <= upsets
    BY <1>0, <1>4, <2>1, GoalAssumption
  <2>6. \A j \in DOMAIN recs : recs'[j].status = "active" => recs[j].status = "active"
    BY <1>3, <1>4 DEF OneRec
  <2>7. HandlerGoes(s)
    BY <1>0, <1>1, <1>3, <1>4, <2>2, <2>4, <2>5, <2>6 DEF HandlerGoes, OneRec, LoopPcs, HoldPcs
  <2> QED
    BY <2>3, <2>7, HandlerKeeps
<1>5. CASE isGoalArmed(run[s].goal, map) /\ pending = 0
  <2>1. /\ UNCHANGED <<pending, parked>>
        /\ \/ /\ recs'[map].turns >= MAX_TURNS
              /\ run' = [run EXCEPT ![s].rec = map, ![s].pc = "delete"]
           \/ /\ ~(recs'[map].turns >= MAX_TURNS)
              /\ run' = [run EXCEPT ![s].rec = map, ![s].pc = "evaluating"]
    BY <1>0, <1>5 DEF CheckTurn
  <2>2. /\ Slot(s) /\ run'[s].goal = run[s].goal /\ run'[s].rec = map
        /\ \/ run'[s].pc = "delete"
           \/ run'[s].pc = "evaluating" /\ ~(recs'[map].turns >= MAX_TURNS)
    BY <1>0, <2>1, RunEffects DEF RunPcs
  <2>3. Budget'
    <3> USE GoalAssumption
    <3> SUFFICES ASSUME NEW k \in DOMAIN recs
                 PROVE  /\ recs'[k].starts + Cardinality(InFlight(k)') <= recs'[k].turns
                        /\ recs'[k].starts + Cardinality(InFlight(k)') < MAX_TURNS
      BY <1>3, <1>5 DEF Budget, OneRec
    <3>1. /\ IsFiniteSet(InFlight(k)) /\ Cardinality(InFlight(k)) \in Nat
          /\ recs[k].starts + Cardinality(InFlight(k)) <= recs[k].turns
          /\ recs[k].starts + Cardinality(InFlight(k)) < MAX_TURNS
          /\ recs[k].starts \in Nat /\ recs[k].turns \in Nat
      BY <1>0, InFlightFinite DEF IInv, Budget
    <3>2. CASE k # map \/ run'[s].pc = "delete"
      <4>1. InFlight(k)' = InFlight(k)
        BY <1>0, <2>2, <3>2 DEF InFlight, Slot, LoopPcs
      <4>2. /\ recs'[k].starts = recs[k].starts /\ recs'[k].turns >= recs[k].turns
            /\ recs'[k].turns \in Nat
        <5>1. CASE k = map
          BY <1>3, <1>5, <3>1, <5>1
        <5>2. CASE k # map
          <6>1. recs'[k] = recs[k]
            BY <1>3, <1>5, <5>2 DEF OneRec
          <6> QED
            BY <3>1, <6>1
        <5> QED
          BY <5>1, <5>2
      <4> QED
        BY <3>1, <4>1, <4>2
    <3>3. CASE k = map /\ run'[s].pc = "evaluating" /\ ~(recs'[map].turns >= MAX_TURNS)
      <4>1. InFlight(k)' = InFlight(k) \cup {s} /\ s \notin InFlight(k)
        BY <1>0, <2>2, <3>3 DEF InFlight, Slot, LoopPcs
      <4>2. Cardinality(InFlight(k)') = Cardinality(InFlight(k)) + 1
        BY <3>1, <4>1, FS_AddElement
      <4>3. recs'[k].starts = recs[k].starts /\ recs'[k].turns = recs[k].turns + 1
        BY <1>3, <1>5, <3>3
      <4> QED
        BY <3>1, <3>3, <4>2, <4>3
    <3> QED
      BY <2>2, <3>2, <3>3
  <2>4. \A j \in DOMAIN recs : recs'[j].status = "active" => recs[j].status = "active"
    BY <1>3, <1>5 DEF OneRec
  <2>5. DrivesRun(s)'
    BY <1>1, <2>2 DEF DrivesRun, LoopPcs
  <2>6. HandlerGoes(s)
    BY <1>0, <1>1, <1>3, <1>5, <2>1, <2>2, <2>4, <2>5 DEF HandlerGoes, OneRec, LoopPcs, HoldPcs
  <2> QED
    BY <2>3, <2>6, HandlerKeeps
<1> QED
  BY <1>0, <1>2, <1>4, <1>5

\* The re-entry guard: the handler leaves the loop, with a continuation or not.
LEMMA ReenterStep ==
  ASSUME IInv, NEW s \in Slots, Reenter(s)
  PROVE  IInv'
<1> USE DEF memory, counters, observers
<1>0. /\ run \in [Slots -> RunRec] /\ run[s].pc = "guard"
      /\ recs \in Seq(Rec) /\ map \in Nat /\ stored \in 0 .. MaxGoals /\ map \in 0 .. Len(recs)
      /\ run[s].rec \in DOMAIN recs
      /\ pending \in Nat /\ pending <= upsets /\ upsets \in 0 .. MaxUpsets
      /\ parked \in {"no", "parked", "unstarted", "raced"} /\ DOMAIN recs = 1 .. Len(recs)
      /\ Len(recs) \in Nat
      /\ \A k \in DOMAIN recs : recs[k] \in Rec /\ recs[k].turns \in Nat /\ recs[k].starts \in Nat
  BY SlotFacts DEF Reenter, LoopPcs
<1>1. UNCHANGED <<stored, map, sweep, pending, post, goals, upsets, dropped, held>>
  BY DEF Reenter
<1>2. CASE ~isGoalArmed(run[s].goal, run[s].rec)
  <2>1. Done(s) /\ UNCHANGED <<recs, parked>>
    BY <1>2 DEF Reenter
  <2>2. Slot(s) /\ run'[s].pc = "free" /\ run'[s].goal = 0 /\ run'[s].rec = 0
    BY <1>0, <2>1, RunEffects
  <2>3. Budget'
    BY <2>1, <2>2, PlainBudget DEF LoopPcs
  <2>4. Armed' /\ Knows => ~DrivesRun(s)
    BY <1>0, <1>1, <1>2, <2>1 DEF Armed, Knows, isGoalArmed, DrivesRun
  <2>5. HandlerGoes(s)
    BY <1>0, <1>1, <2>1, <2>2, <2>4 DEF HandlerGoes, LoopPcs, HoldPcs
  <2> QED
    BY <2>3, <2>5, HandlerKeeps
<1>3. CASE isGoalArmed(run[s].goal, run[s].rec)
  <2> DEFINE k == run[s].rec
  <2>1. /\ recs' = [recs EXCEPT ![k].starts = IF @ < MAX_TURNS THEN @ + 1 ELSE @]
        /\ run' = [run EXCEPT ![s] = [Free EXCEPT !.pc = "running"]]
        /\ Unparks
    BY <1>3 DEF Reenter
  <2>2. Slot(s) /\ run'[s].pc = "running" /\ run'[s].goal = 0 /\ run'[s].rec = 0
    BY <1>0, <2>1, RunEffects
  <2>3. /\ OneRec(k) /\ recs'[k].status = recs[k].status
        /\ recs'[k].turns = recs[k].turns
        /\ recs[k].starts < MAX_TURNS => recs'[k].starts = recs[k].starts + 1
    BY <1>0, <2>1, RecEffects
  <2>4. Budget'
    <3> USE GoalAssumption
    <3> SUFFICES ASSUME NEW j \in DOMAIN recs
                 PROVE  /\ recs'[j].starts + Cardinality(InFlight(j)') <= recs'[j].turns
                        /\ recs'[j].starts + Cardinality(InFlight(j)') < MAX_TURNS
      BY <2>3 DEF Budget, OneRec
    <3>1. /\ IsFiniteSet(InFlight(j)) /\ Cardinality(InFlight(j)) \in Nat
          /\ recs[j].starts + Cardinality(InFlight(j)) <= recs[j].turns
          /\ recs[j].starts + Cardinality(InFlight(j)) < MAX_TURNS
          /\ recs[j].starts \in Nat /\ recs[j].turns \in Nat
      BY <1>0, InFlightFinite DEF IInv, Budget
    <3>2. CASE j # k
      <4>1. InFlight(j)' = InFlight(j)
        BY <1>0, <2>2, <3>2 DEF InFlight, Slot, LoopPcs
      <4>2. recs'[j] = recs[j]
        BY <2>3, <3>2 DEF OneRec
      <4> QED
        BY <3>1, <4>1, <4>2
    <3>3. CASE j = k
      <4>1. InFlight(j)' = InFlight(j) \ {s} /\ s \in InFlight(j)
        BY <1>0, <2>2, <3>3 DEF InFlight, Slot, LoopPcs
      <4>2. Cardinality(InFlight(j)') = Cardinality(InFlight(j)) - 1
        BY <3>1, <4>1, FS_RemoveElement
      <4>3. recs[j].starts < MAX_TURNS
        BY <3>1
      <4>4. recs'[j].starts = recs[j].starts + 1 /\ recs'[j].turns = recs[j].turns
        BY <2>3, <3>3, <4>3
      <4> QED
        BY <3>1, <4>2, <4>4
    <3> QED
      BY <3>2, <3>3
  <2>5. parked' \in {"no", "raced"} /\ (parked = "raced" => parked' = "raced")
    BY <2>1 DEF Unparks
  <2>6. \A j \in DOMAIN recs : recs'[j].status = "active" => recs[j].status = "active"
    BY <2>3 DEF OneRec
  <2>7. DrivesRun(s)'
    BY <2>2 DEF DrivesRun
  <2>8. HandlerGoes(s)
    BY <1>0, <1>1, <2>2, <2>3, <2>5, <2>6, <2>7 DEF HandlerGoes, OneRec, LoopPcs, HoldPcs
  <2> QED
    BY <2>4, <2>8, HandlerKeeps
<1> QED
  BY <1>2, <1>3

-----------------------------------------------------------------------------
(***************************************************************************)
(* The end of a goal.                                                      *)
(***************************************************************************)
\* The stored goal ends at the hands of slot s0 or POST p0, and g is stored: a
\* goal that is not numbered yet, or none.
LEMMA GoalOver ==
  ASSUME Shape, Ended, NEW s0, NEW p0, Ends(s0, p0), stored' \in 0 .. MaxGoals, goals' \in Nat,
         goals <= goals', stored' <= goals', stored' = 0 \/ stored' > goals,
         \A s \in Slots : s # s0 => run'[s] = run[s],
         \A s \in Slots : s = s0 => run'[s].goal = run[s].goal /\ run'[s].pc \notin HoldPcs
  PROVE  Ended' /\ dropped' \in SUBSET (1 .. MaxGoals) /\ held' \in SUBSET (1 .. MaxGoals)
<1> USE GoalAssumption
<1>0. /\ goals \in Nat /\ stored \in 0 .. MaxGoals /\ \A g \in dropped : g \in Nat \ {0}
      /\ dropped \in SUBSET (1 .. MaxGoals) /\ held \in SUBSET (1 .. MaxGoals)
      /\ \A s \in Slots : run[s].goal \in 0 .. MaxGoals
  BY DEF Shape, RunRec
<1>1. /\ dropped' \in SUBSET (1 .. MaxGoals) /\ held' \in SUBSET (1 .. MaxGoals)
      /\ held \subseteq held'
      /\ \A g \in dropped' : g \in dropped \/ (g = stored /\ stored # 0)
  BY <1>0 DEF Ends
<1>2. stored' \notin dropped'
  BY <1>0, <1>1 DEF Ended
<1>3. \A g \in dropped' : g <= goals'
  BY <1>0, <1>1 DEF Ended
<1>4. ASSUME NEW s \in Slots
      PROVE  /\ run'[s].goal <= goals'
             /\ run'[s].pc \in HoldPcs /\ run'[s].goal \in dropped' => run'[s].goal \in held'
  <2>1. run'[s].goal = run[s].goal
    OBVIOUS
  <2>2. run[s].goal <= goals'
    BY <1>0 DEF Ended
  <2>3. ASSUME run'[s].pc \in HoldPcs, run'[s].goal \in dropped'
        PROVE  run'[s].goal \in held'
    <3>1. s # s0 /\ run'[s] = run[s] /\ run[s].pc \in HoldPcs
      BY <2>3
    <3>2. CASE run[s].goal \in dropped
      BY <1>1, <2>1, <3>1, <3>2 DEF Ended
    <3>3. CASE run[s].goal = stored /\ stored # 0
      BY <2>1, <3>1, <3>3 DEF Ends, Holds, HoldPcs
    <3> QED
      BY <1>1, <2>1, <2>3, <3>2, <3>3
  <2> QED
    BY <2>1, <2>2, <2>3
<1> QED
  BY <1>1, <1>2, <1>3, <1>4 DEF Ended

\* An end that is not raced meets no other handler and no other command.
LEMMA EndAlone ==
  ASSUME NEW s0, NEW p0, Ends(s0, p0), parked' # "raced"
  PROVE  /\ parked # "raced" /\ parked' = parked
         /\ \A s \in Slots : s # s0 => run[s].pc \in {"free", "running"}
         /\ \A p \in Posts : p # p0 => post[p].pc \notin {"setRecord", "clearDelete", "clearDrop"}
  BY DEF Ends, Handling, Commanded

\* Achieved or capped: the goal is deleted, then the record is dropped.
LEMMA GoalEndSteps ==
  ASSUME IInv, NEW s \in Slots, GoalEnds(s) \/ GoalDrops(s)
  PROVE  IInv'
<1> USE GoalAssumption DEF memory, counters, observers
<1>0. /\ run \in [Slots -> RunRec] /\ run[s] \in RunRec
      /\ recs \in Seq(Rec) /\ map \in Nat /\ stored \in 0 .. MaxGoals /\ Len(recs) \in Nat
      /\ run[s].rec \in 0 .. Len(recs) /\ goals \in Nat /\ goals \in 0 .. MaxGoals
      /\ \A t \in Slots : /\ run[t].rec \in 0 .. Len(recs)
                          /\ run[t].pc \in LoopPcs => run[t].rec # 0
  BY SlotFacts DEF IInv, Shape, Refs
<1>1. CASE GoalEnds(s)
  <2>1. /\ run[s].pc = "delete" /\ stored' = 0 /\ Ends(s, 0) /\ To(s, "drop")
        /\ UNCHANGED <<recs, map, sweep, pending, post, goals, upsets>>
    BY <1>1 DEF GoalEnds, deleteGoal
  <2>2. /\ Slot(s) /\ run'[s].pc = "drop" /\ run'[s].goal = run[s].goal
        /\ run'[s].rec = run[s].rec
    BY <1>0, <2>1, RunEffects DEF RunPcs
  <2>3. run' \in [Slots -> RunRec] /\ \A t \in Slots : t # s => run'[t] = run[t]
    BY <2>2 DEF Slot
  <2>4. Ended' /\ dropped' \in SUBSET (1 .. MaxGoals) /\ held' \in SUBSET (1 .. MaxGoals)
    BY <1>0, <2>1, <2>2, <2>3, GoalOver DEF IInv, HoldPcs
  <2>5. Shape'
    <3>1. parked' \in {"no", "parked", "unstarted", "raced"} /\ stored' \in 0 .. MaxGoals
      BY <2>1 DEF Ends, IInv, Shape
    <3> QED
      BY <2>1, <2>3, <2>4, <3>1 DEF IInv, Shape
  <2>6. Refs'
    BY <1>0, <2>1, <2>2, <2>3 DEF Refs, LoopPcs
  <2>7. Budget'
    BY <2>1, <2>2, PlainBudget DEF LoopPcs
  <2>8. Unraced'
    <3> SUFFICES ASSUME parked' # "raced" PROVE Knows' /\ Recorded' /\ Driven'
      BY DEF Unraced
    <3>1. \A t \in Slots : t # s => run[t].pc \in {"free", "running"}
      BY <2>1, EndAlone
    <3>2. Knows'
      BY <2>1, <2>2, <2>3, <3>1 DEF Knows, HoldPcs
    <3> QED
      BY <2>1, <3>2 DEF Recorded, Driven, Armed
  <2> QED
    BY <2>4, <2>5, <2>6, <2>7, <2>8 DEF IInv
<1>2. CASE GoalDrops(s)
  <2>1. /\ run[s].pc = "drop" /\ map' = 0 /\ Done(s)
        /\ UNCHANGED <<stored, recs, sweep, pending, post, goals, upsets, dropped, held, parked>>
    BY <1>2 DEF GoalDrops
  <2>2. Slot(s) /\ run'[s].pc = "free" /\ run'[s].goal = 0 /\ run'[s].rec = 0
    BY <1>0, <2>1, RunEffects
  <2>3. run' \in [Slots -> RunRec] /\ \A t \in Slots : t # s => run'[t] = run[t]
    BY <2>2 DEF Slot
  <2>4. Shape'
    BY <1>0, <2>1, <2>3 DEF IInv, Shape
  <2>5. Refs'
    BY <1>0, <2>1, <2>2, <2>3 DEF Refs, LoopPcs
  <2>6. Ended'
    <3>1. \A t \in Slots : run'[t] = run[t] \/ run'[t].goal \in {0, stored}
      BY <2>2, <2>3
    <3> QED
      BY <2>1, <3>1, EndedKept DEF IInv
  <2>7. Budget'
    BY <2>1, <2>2, PlainBudget DEF LoopPcs
  <2>8. Unraced'
    <3> SUFFICES ASSUME parked' # "raced" PROVE Knows' /\ Recorded' /\ Driven'
      BY DEF Unraced
    <3>1. Knows /\ stored = 0
      BY <2>1 DEF IInv, Unraced, Knows
    <3>2. Knows'
      BY <2>1, <2>2, <2>3, <3>1 DEF Knows, HoldPcs
    <3> QED
      BY <2>1, <3>1, <3>2 DEF Recorded, Driven, Armed
  <2> QED
    BY <2>4, <2>5, <2>6, <2>7, <2>8 DEF IInv
<1> QED
  BY <1>1, <1>2

-----------------------------------------------------------------------------
(***************************************************************************)
(* The messages route.                                                     *)
(***************************************************************************)
\* Runs stay as they are, records stay or one is made or has its status changed.
RunsRest ==
  /\ UNCHANGED <<run, goals, dropped, held>>
  /\ recs' \in Seq(Rec) /\ Len(recs) <= Len(recs') /\ map' \in 0 .. Len(recs')
  /\ DOMAIN recs \subseteq DOMAIN recs'
  /\ \A k \in DOMAIN recs : recs'[k].starts = recs[k].starts /\ recs'[k].turns = recs[k].turns
  /\ \A k \in DOMAIN recs' : k \notin DOMAIN recs => recs'[k].starts = 0
  /\ post' \in [Posts -> PostRec] /\ UNCHANGED stored
  /\ sweep' \in [pc : {"scan", "apply", "done"}, goal : 0 .. MaxGoals]
  /\ pending' \in Nat /\ pending' <= upsets' /\ upsets' \in 0 .. MaxUpsets
  /\ parked' \in {"no", "parked", "unstarted", "raced"} /\ (parked = "raced" => parked' = "raced")

\* Such a step keeps all but what the observer parked is about.
LEMMA RunsRestKeeps ==
  ASSUME IInv, RunsRest
  PROVE  Shape' /\ Refs' /\ Ended' /\ Budget'
<1> USE GoalAssumption
<1>1. Shape'
  BY DEF RunsRest, IInv, Shape
<1>2. Refs'
  <2>1. Len(recs) \in Nat /\ Len(recs') \in Nat
    BY DEF RunsRest, IInv, Shape
  <2> QED
    BY <2>1 DEF RunsRest, IInv, Refs
<1>3. Ended'
  BY DEF RunsRest, IInv, Ended
<1>4. Budget'
  <2>1. \A k \in DOMAIN recs :
          recs'[k].starts = recs[k].starts /\ recs'[k].turns >= recs[k].turns
    <3>1. \A k \in DOMAIN recs : recs[k] \in Rec
      BY DEF IInv, Shape
    <3>2. \A k \in DOMAIN recs : recs[k].turns \in Nat
      BY <3>1 DEF Rec
    <3> QED
      BY <3>2 DEF RunsRest
  <2>2. \A s \in Slots : run'[s].pc \in LoopPcs =>
          run[s].pc \in LoopPcs /\ run'[s].rec = run[s].rec
    BY DEF RunsRest
  <2> QED
    BY <2>1, <2>2, BudgetKept DEF IInv, RunsRest
<1> QED
  BY <1>1, <1>2, <1>3, <1>4

\* What is known before a POST moves on.
LEMMA PostFacts ==
  ASSUME IInv
  PROVE  /\ post \in [Posts -> PostRec] /\ stored \in 0 .. MaxGoals /\ recs \in Seq(Rec)
         /\ Len(recs) \in Nat /\ DOMAIN recs = 1 .. Len(recs) /\ map \in 0 .. Len(recs)
         /\ sweep \in [pc : {"scan", "apply", "done"}, goal : 0 .. MaxGoals]
         /\ pending \in Nat /\ pending <= upsets /\ upsets \in 0 .. MaxUpsets
         /\ parked \in {"no", "parked", "unstarted", "raced"}
  BY DEF IInv, Shape

\* A POST arrives, ends without a turn, reads for a clear, or is rejected.
LEMMA PlainPostSteps ==
  ASSUME IInv, NEW p \in Posts,
         \/ \E kind \in Kinds : PostArrives(p, kind)
         \/ PostEndsEarly(p) \/ ClearReads(p) \/ PostThrows(p)
  PROVE  IInv'
<1> USE GoalAssumption DEF memory, counters, observers
<1>0. /\ post \in [Posts -> PostRec] /\ stored \in 0 .. MaxGoals /\ recs \in Seq(Rec)
      /\ Len(recs) \in Nat /\ map \in 0 .. Len(recs)
      /\ sweep \in [pc : {"scan", "apply", "done"}, goal : 0 .. MaxGoals]
      /\ pending \in Nat /\ pending <= upsets /\ upsets \in 0 .. MaxUpsets
      /\ parked \in {"no", "parked", "unstarted", "raced"}
  BY PostFacts
<1>1. UNCHANGED <<stored, recs, map, sweep, pending, run, goals, dropped, held>>
  BY DEF PostArrives, PostEndsEarly, ClearReads, PostThrows
<1>2. /\ OnePost(p) /\ parked' \in {"no", "parked", "unstarted", "raced"} /\ (parked = "raced" => parked' = "raced")
      /\ upsets <= upsets' /\ upsets' \in 0 .. MaxUpsets
      /\ \/ /\ post[p].pc = "new" /\ post'[p].pc = "rehydrate" /\ post'[p].goal = stored
            /\ parked' = parked
         \/ /\ post[p].pc \in {"dispatch", "turn", "clearDelete"} /\ post'[p].pc = "done"
            /\ parked' \in {"parked", "raced"}
         \/ /\ post[p].pc = "dispatch" /\ post'[p].pc = "done" /\ stored = 0 /\ parked' = parked
         \/ /\ post[p].pc = "dispatch" /\ post'[p].pc = "clearDelete" /\ parked' = parked
  <2>1. ASSUME NEW kind \in Kinds, PostArrives(p, kind)
        PROVE  /\ OnePost(p) /\ post[p].pc = "new" /\ post'[p].pc = "rehydrate"
               /\ post'[p].goal = stored /\ UNCHANGED <<parked, upsets>>
    BY <1>0, <2>1, PostEffects DEF PostArrives
  <2>2. ASSUME PostEndsEarly(p) \/ PostThrows(p)
        PROVE  /\ OnePost(p) /\ post[p].pc \in {"dispatch", "turn", "clearDelete"} /\ post'[p].pc = "done"
               /\ parked' \in {"parked", "raced"} /\ (parked = "raced" => parked' = "raced")
               /\ upsets <= upsets' /\ upsets' \in 0 .. MaxUpsets
    <3>1. post' = [post EXCEPT ![p] = DonePost] /\ post[p].pc \in {"dispatch", "turn", "clearDelete"} /\ Parks
      BY <2>2 DEF PostEndsEarly, PostThrows
    <3>2. upsets <= upsets' /\ upsets' \in 0 .. MaxUpsets
      BY <1>0, <2>2 DEF PostEndsEarly, PostThrows
    <3> QED
      BY <1>0, <3>1, <3>2, PostEffects DEF Parks
  <2>3. ASSUME ClearReads(p)
        PROVE  /\ OnePost(p) /\ post[p].pc = "dispatch" /\ UNCHANGED <<parked, upsets>>
               /\ \/ stored = 0 /\ post'[p].pc = "done"
                  \/ post'[p].pc = "clearDelete"
    <3>1. CASE stored = 0
      <4>1. post' = [post EXCEPT ![p] = DonePost]
        BY <2>3, <3>1 DEF ClearReads
      <4> QED
        BY <1>0, <2>3, <3>1, <4>1, PostEffects DEF ClearReads
    <3>2. CASE stored # 0
      <4>1. post' = [post EXCEPT ![p].pc = "clearDelete"]
        BY <2>3, <3>2 DEF ClearReads
      <4> QED
        BY <1>0, <2>3, <4>1, PostEffects DEF ClearReads, PostPcs
    <3> QED
      BY <3>1, <3>2
  <2> QED
    BY <1>0, <2>1, <2>2, <2>3
<1>3. post' \in [Posts -> PostRec] /\ \A q \in Posts : q # p => post'[q] = post[q]
  BY <1>2 DEF OnePost
<1>4. Shape' /\ Refs' /\ Ended' /\ Budget'
  <2>1. pending' <= upsets'
    BY <1>0, <1>1, <1>2
  <2>2. RunsRest
    BY <1>0, <1>1, <1>2, <1>3, <2>1 DEF RunsRest
  <2> QED
    BY <2>2, RunsRestKeeps
<1>5. Unraced'
  <2> SUFFICES ASSUME parked' # "raced" PROVE Knows' /\ Recorded' /\ Driven'
    BY DEF Unraced
  <2>0. Knows /\ Recorded /\ Driven
    BY <1>2 DEF IInv, Unraced
  <2>1. Knows'
    BY <1>1, <1>2, <1>3, <2>0 DEF Knows
  <2>2. Recorded'
    <3> SUFFICES ASSUME stored # 0, map = 0
                 PROVE  \/ \E q \in Posts : post'[q].pc = "setRecord"
                        \/ /\ parked' = "parked"
                           /\ \A s \in Slots : run'[s].pc = "free"
                           /\ \A q \in Posts : \/ post'[q].pc \in {"new", "done"}
                                               \/ post'[q].pc = "rehydrate" /\ post'[q].goal # 0
      BY <1>1 DEF Recorded
    <3>1. CASE \E q \in Posts : post[q].pc = "setRecord"
      BY <1>2, <1>3, <3>1
    <3>2. CASE /\ parked = "parked"
               /\ \A s \in Slots : run[s].pc = "free"
               /\ \A q \in Posts : \/ post[q].pc \in {"new", "done"}
                                   \/ post[q].pc = "rehydrate" /\ post[q].goal # 0
      BY <1>1, <1>2, <1>3, <3>2
    <3> QED
      BY <2>0, <3>1, <3>2 DEF Recorded
  <2>3. Driven'
    BY <1>1, <1>2, <1>3, <2>0 DEF Driven, Armed, DrivesRun, DrivesPost
  <2> QED
    BY <2>1, <2>2, <2>3
<1> QED
  BY <1>4, <1>5 DEF IInv

\* A POST rehydrates the record, or makes the record of a set.
LEMMA RecordSteps ==
  ASSUME IInv, NEW p \in Posts, Rehydrate(p) \/ RehydrateThrows(p) \/ SetRecords(p)
  PROVE  IInv'
<1> USE GoalAssumption DEF memory, counters, observers
<1>0. /\ post \in [Posts -> PostRec] /\ stored \in 0 .. MaxGoals /\ recs \in Seq(Rec)
      /\ Len(recs) \in Nat /\ DOMAIN recs = 1 .. Len(recs) /\ map \in 0 .. Len(recs)
      /\ sweep \in [pc : {"scan", "apply", "done"}, goal : 0 .. MaxGoals]
      /\ pending \in Nat /\ pending <= upsets /\ upsets \in 0 .. MaxUpsets
      /\ parked \in {"no", "parked", "unstarted", "raced"}
  BY PostFacts
<1>1. /\ UNCHANGED <<stored, sweep, pending, run, goals, dropped, held>>
      /\ upsets <= upsets' /\ upsets' \in 0 .. MaxUpsets
  BY <1>0 DEF Rehydrate, RehydrateThrows, SetRecords
<1>2. /\ OnePost(p)
      /\ \/ post[p].pc = "rehydrate" /\ post'[p].pc = "dispatch"
         \/ post[p].pc = "setRecord" /\ post'[p].pc = "turn" /\ SetRecords(p)
  <2>1. CASE Rehydrate(p) \/ RehydrateThrows(p)
    <3>1. post[p].pc = "rehydrate" /\ post' = [post EXCEPT ![p].pc = "dispatch", ![p].goal = 0]
      BY <2>1 DEF Rehydrate, RehydrateThrows
    <3> QED
      BY <1>0, <3>1, PostEffects
  <2>2. CASE SetRecords(p)
    <3>1. post[p].pc = "setRecord" /\ post' = [post EXCEPT ![p].pc = "turn"]
      BY <2>2 DEF SetRecords
    <3> QED
      BY <1>0, <2>2, <3>1, PostEffects DEF PostPcs
  <2> QED
    BY <2>1, <2>2
<1>3. post' \in [Posts -> PostRec] /\ \A q \in Posts : q # p => post'[q] = post[q]
  BY <1>2 DEF OnePost
<1>4. \/ /\ UNCHANGED <<recs, map>> /\ parked' = "raced"
      \/ /\ UNCHANGED <<recs, map, parked>> /\ post[p].pc = "rehydrate" /\ post[p].goal = 0
      \/ /\ setRecord /\ parked' = parked /\ post'[p].pc = "turn"
      \/ /\ setRecord /\ map = 0 /\ Parks
      \/ /\ map # 0 /\ UNCHANGED <<map, parked>> /\ post'[p].pc = "dispatch"
         /\ recs' = [recs EXCEPT ![map].status = IF post[p].kind = "chat" THEN "active" ELSE @]
  BY <1>2 DEF Rehydrate, RehydrateThrows, SetRecords
<1>5. /\ recs' \in Seq(Rec) /\ Len(recs) <= Len(recs') /\ map' \in 0 .. Len(recs')
      /\ DOMAIN recs \subseteq DOMAIN recs' /\ (map' = 0 => map = 0)
      /\ \A k \in DOMAIN recs : recs'[k].starts = recs[k].starts /\ recs'[k].turns = recs[k].turns
      /\ \A k \in DOMAIN recs' : k \notin DOMAIN recs => recs'[k].starts = 0
  <2>1. CASE UNCHANGED <<recs, map>>
    BY <1>0, <2>1
  <2>2. CASE setRecord
    BY <1>0, <2>2, SetRecordEffect
  <2>3. CASE /\ map # 0 /\ UNCHANGED map
             /\ recs' = [recs EXCEPT ![map].status = IF post[p].kind = "chat" THEN "active" ELSE @]
    <3>1. map \in DOMAIN recs
      BY <1>0, <2>3
    <3>2. recs[map].status \in {"active", "paused"}
      <4>1. recs[map] \in Rec
        BY <1>0, <3>1
      <4> QED
        BY <4>1 DEF Rec
    <3>3. PICK x \in {"active", "paused"} : recs' = [recs EXCEPT ![map].status = x]
      BY <2>3, <3>1, <3>2
    <3>4. /\ OneRec(map)
          /\ recs'[map].turns = recs[map].turns /\ recs'[map].starts = recs[map].starts
      BY <1>0, <3>1, <3>3, RecEffects
    <3>5. \A k \in DOMAIN recs : recs'[k].starts = recs[k].starts /\ recs'[k].turns = recs[k].turns
      BY <3>4 DEF OneRec
    <3> QED
      BY <1>0, <2>3, <3>4, <3>5 DEF OneRec
  <2> QED
    BY <1>4, <2>1, <2>2, <2>3
<1>6. parked' \in {"no", "parked", "unstarted", "raced"} /\ (parked = "raced" => parked' = "raced")
  BY <1>0, <1>4 DEF Parks
<1>7. Shape' /\ Refs' /\ Ended' /\ Budget'
  <2>1. pending' <= upsets'
    BY <1>0, <1>1
  <2>2. RunsRest
    BY <1>0, <1>1, <1>3, <1>5, <1>6, <2>1 DEF RunsRest
  <2> QED
    BY <2>2, RunsRestKeeps
<1>8. Unraced'
  <2> SUFFICES ASSUME parked' # "raced" PROVE Knows' /\ Recorded' /\ Driven'
    BY DEF Unraced
  <2>0. Knows /\ Recorded /\ Driven
    BY <1>6 DEF IInv, Unraced
  <2>1. Knows'
    BY <1>1, <1>2, <1>3, <2>0 DEF Knows
  <2>2. Recorded'
    <3>1. CASE map' # 0
      BY <3>1 DEF Recorded
    <3>2. CASE map' = 0
      <4>1. UNCHANGED <<recs, map, parked>> /\ post[p].pc = "rehydrate" /\ post[p].goal = 0
        BY <1>0, <1>4, <3>2 DEF setRecord
      <4>2. stored # 0 => \E q \in Posts : post[q].pc = "setRecord"
        BY <2>0, <3>2, <4>1 DEF Recorded
      <4>3. stored # 0 => \E q \in Posts : post'[q].pc = "setRecord"
        BY <1>3, <4>1, <4>2
      <4> QED
        BY <1>1, <4>3 DEF Recorded
    <3> QED
      BY <3>1, <3>2
  <2>3. Driven'
    <3>1. DrivesPost(p)'
      BY <1>2 DEF DrivesPost
    <3> QED
      BY <3>1 DEF Driven
  <2> QED
    BY <2>1, <2>2, <2>3
<1> QED
  BY <1>7, <1>8 DEF IInv

\* A POST starts its turn.
LEMMA TurnStep ==
  ASSUME IInv, NEW p \in Posts, PostStartsTurn(p)
  PROVE  IInv'
<1> USE GoalAssumption DEF memory, counters, observers
<1>0. /\ post \in [Posts -> PostRec] /\ stored \in 0 .. MaxGoals /\ recs \in Seq(Rec)
      /\ Len(recs) \in Nat /\ map \in 0 .. Len(recs) /\ map \in Nat
      /\ parked \in {"no", "parked", "unstarted", "raced"} /\ run \in [Slots -> RunRec]
  BY PostFacts DEF IInv, Shape
<1>1. PICK s \in Slots : StartRun(s)
  BY DEF PostStartsTurn
<1>2. /\ Slot(s) /\ run[s].pc = "free" /\ run'[s].pc = "running" /\ run'[s].goal = 0
      /\ run'[s].rec = 0
  BY <1>0, <1>1, RunEffects
<1>3. run' \in [Slots -> RunRec] /\ \A t \in Slots : t # s => run'[t] = run[t]
  BY <1>2 DEF Slot
<1>4. OnePost(p) /\ post'[p].pc = "done" /\ post[p].pc \in {"turn", "dispatch"}
  BY <1>0, PostEffects DEF PostStartsTurn
<1>5. post' \in [Posts -> PostRec] /\ \A q \in Posts : q # p => post'[q] = post[q]
  BY <1>4 DEF OnePost
<1>6. /\ UNCHANGED <<stored, recs, map, sweep, pending, goals, upsets, dropped, held>>
      /\ parked' \in {"no", "raced"} /\ (parked = "raced" => parked' = "raced")
  BY DEF PostStartsTurn, Unparks
<1>7. Shape'
  BY <1>3, <1>5, <1>6 DEF IInv, Shape
<1>8. Refs'
  BY <1>0, <1>2, <1>3, <1>6 DEF IInv, Refs, LoopPcs
<1>9. Ended'
  <2>1. \A t \in Slots : run'[t] = run[t] \/ run'[t].goal \in {0, stored}
    BY <1>2, <1>3
  <2> QED
    BY <1>6, <2>1, EndedKept DEF IInv
<1>10. Budget'
  BY <1>2, <1>6, PlainBudget DEF LoopPcs
<1>11. Unraced'
  <2> SUFFICES ASSUME parked' # "raced" PROVE Knows' /\ Recorded' /\ Driven'
    BY DEF Unraced
  <2>0. Knows /\ Recorded /\ Driven
    BY <1>6 DEF IInv, Unraced
  <2>1. Knows'
    BY <1>2, <1>3, <1>4, <1>5, <1>6, <2>0 DEF Knows, HoldPcs
  <2>2. Recorded'
    <3> SUFFICES ASSUME stored # 0, map = 0
                 PROVE  \E q \in Posts : post'[q].pc = "setRecord"
      BY <1>6 DEF Recorded
    <3>1. \E q \in Posts : post[q].pc = "setRecord"
      BY <1>4, <2>0 DEF Recorded
    <3> QED
      BY <1>4, <1>5, <3>1
  <2>3. Driven'
    BY <1>2 DEF Driven, DrivesRun
  <2> QED
    BY <2>1, <2>2, <2>3
<1> QED
  BY <1>7, <1>8, <1>9, <1>10, <1>11 DEF IInv

\* A goal is set or deleted by a POST, or the record is dropped.
LEMMA CommandSteps ==
  ASSUME IInv, NEW p \in Posts, SetWrites(p) \/ ClearDeletes(p) \/ ClearDrops(p)
  PROVE  IInv'
<1> USE GoalAssumption DEF memory, counters, observers
<1>0. /\ post \in [Posts -> PostRec] /\ stored \in 0 .. MaxGoals /\ recs \in Seq(Rec)
      /\ Len(recs) \in Nat /\ map \in 0 .. Len(recs) /\ goals \in 0 .. MaxGoals
      /\ sweep \in [pc : {"scan", "apply", "done"}, goal : 0 .. MaxGoals]
      /\ pending \in Nat /\ pending <= upsets /\ upsets \in 0 .. MaxUpsets
      /\ parked \in {"no", "parked", "unstarted", "raced"}
  BY PostFacts DEF IInv, Shape
<1>1. /\ UNCHANGED <<recs, sweep, pending, run, upsets>> /\ OnePost(p)
      /\ \/ /\ SetWrites(p) /\ post[p].pc = "dispatch" /\ post'[p].pc = "setRecord"
            /\ goals' = goals + 1 /\ goals < MaxGoals /\ stored' = goals + 1 /\ Ends(0, p)
            /\ UNCHANGED map
         \/ /\ ClearDeletes(p) /\ post[p].pc = "clearDelete" /\ post'[p].pc = "clearDrop"
            /\ UNCHANGED <<goals, map>> /\ stored' = 0 /\ Ends(0, p)
         \/ /\ ClearDrops(p) /\ post[p].pc = "clearDrop" /\ post'[p].pc = "done" /\ map' = 0
            /\ UNCHANGED <<stored, goals, dropped, held, parked>>
  <2>1. CASE SetWrites(p)
    <3>1. post' = [post EXCEPT ![p].pc = "setRecord"]
      BY <2>1 DEF SetWrites
    <3>2. OnePost(p) /\ post'[p].pc = "setRecord"
      BY <1>0, <3>1, PostEffects DEF PostPcs
    <3> QED
      BY <2>1, <3>2 DEF SetWrites, writeGoal
  <2>2. CASE ClearDeletes(p)
    <3>1. post' = [post EXCEPT ![p].pc = "clearDrop"]
      BY <2>2 DEF ClearDeletes
    <3>2. OnePost(p) /\ post'[p].pc = "clearDrop"
      BY <1>0, <3>1, PostEffects DEF PostPcs
    <3> QED
      BY <2>2, <3>2 DEF ClearDeletes, deleteGoal
  <2>3. CASE ClearDrops(p)
    <3>1. post' = [post EXCEPT ![p] = DonePost]
      BY <2>3 DEF ClearDrops
    <3>2. OnePost(p) /\ post'[p].pc = "done"
      BY <1>0, <3>1, PostEffects
    <3> QED
      BY <2>3, <3>2 DEF ClearDrops
  <2> QED
    BY <2>1, <2>2, <2>3
<1>2. post' \in [Posts -> PostRec] /\ \A q \in Posts : q # p => post'[q] = post[q]
  BY <1>1 DEF OnePost
<1>3. CASE SetWrites(p) \/ ClearDeletes(p)
  <2>1. /\ Ends(0, p) /\ UNCHANGED map /\ goals' \in 0 .. MaxGoals /\ stored' \in 0 .. MaxGoals
        /\ goals <= goals' /\ stored' <= goals' /\ (stored' = 0 \/ stored' > goals)
        /\ \/ stored' = 0 /\ post'[p].pc = "clearDrop"
           \/ post'[p].pc = "setRecord"
    <3>1. CASE SetWrites(p)
      BY <1>0, <3>1 DEF SetWrites, writeGoal
    <3>2. CASE ClearDeletes(p)
      BY <1>0, <3>2 DEF ClearDeletes, deleteGoal
    <3> QED
      BY <1>3, <3>1, <3>2
  <2>2. Ended' /\ dropped' \in SUBSET (1 .. MaxGoals) /\ held' \in SUBSET (1 .. MaxGoals)
    <3>1. \A s \in Slots : s # 0 /\ run'[s] = run[s]
      BY <1>1 DEF Slots
    <3> QED
      BY <2>1, <3>1, GoalOver DEF IInv
  <2>3. Shape'
    <3>1. parked' \in {"no", "parked", "unstarted", "raced"}
      BY <1>0, <2>1 DEF Ends
    <3> QED
      BY <1>1, <1>2, <2>1, <2>2, <3>1 DEF IInv, Shape
  <2>4. Refs' /\ Budget'
    BY <1>1 DEF IInv, Refs, Budget, InFlight
  <2>5. Unraced'
    <3> SUFFICES ASSUME parked' # "raced" PROVE Knows' /\ Recorded' /\ Driven'
      BY DEF Unraced
    <3>1. /\ \A s \in Slots : s # 0 => run[s].pc \in {"free", "running"}
          /\ \A q \in Posts : q # p => post[q].pc \notin {"setRecord", "clearDelete", "clearDrop"}
      BY <2>1, EndAlone
    <3>2. Knows'
      <4>1. \A s \in Slots : run'[s].pc \in {"free", "running"}
        BY <1>1, <3>1 DEF Slots
      <4> QED
        BY <1>2, <2>1, <3>1, <4>1 DEF Knows, HoldPcs
    <3>3. Recorded' /\ Driven'
      BY <2>1 DEF Recorded, Driven, Armed, DrivesPost
    <3> QED
      BY <3>2, <3>3
  <2> QED
    BY <2>2, <2>3, <2>4, <2>5 DEF IInv
<1>4. CASE ClearDrops(p)
  <2>1. /\ post[p].pc = "clearDrop" /\ post'[p].pc = "done" /\ map' = 0
        /\ UNCHANGED <<stored, goals, dropped, held, parked>>
    BY <1>1, <1>4 DEF ClearDrops, SetWrites, ClearDeletes
  <2>2. Shape' /\ Refs' /\ Ended' /\ Budget'
    BY <1>0, <1>1, <1>2, <2>1 DEF IInv, Shape, Refs, Ended, Budget, InFlight
  <2>3. Unraced'
    <3> SUFFICES ASSUME parked' # "raced" PROVE Knows' /\ Recorded' /\ Driven'
      BY DEF Unraced
    <3>1. Knows /\ stored = 0
      BY <2>1 DEF IInv, Unraced, Knows
    <3>2. Knows'
      BY <1>1, <1>2, <2>1, <3>1 DEF Knows
    <3> QED
      BY <2>1, <3>1, <3>2 DEF Recorded, Driven, Armed
  <2> QED
    BY <2>2, <2>3 DEF IInv
<1> QED
  BY <1>3, <1>4

-----------------------------------------------------------------------------
(***************************************************************************)
(* The queue, a restart and the boot sweep.                                *)
(***************************************************************************)
\* A message is queued, or the boot sweep takes a step.
LEMMA SweepSteps ==
  ASSUME IInv, AgentChatQueues \/ SweepScans \/ SweepApplies
  PROVE  IInv'
<1> USE GoalAssumption DEF memory, counters, observers
<1>0. /\ post \in [Posts -> PostRec] /\ stored \in 0 .. MaxGoals /\ recs \in Seq(Rec)
      /\ Len(recs) \in Nat /\ DOMAIN recs = 1 .. Len(recs) /\ map \in 0 .. Len(recs)
      /\ sweep \in [pc : {"scan", "apply", "done"}, goal : 0 .. MaxGoals]
      /\ pending \in Nat /\ pending <= upsets /\ upsets \in 0 .. MaxUpsets
      /\ parked \in {"no", "parked", "unstarted", "raced"}
  BY PostFacts
<1>1. /\ UNCHANGED <<stored, run, post, goals, dropped, held>>
      /\ \/ UNCHANGED <<recs, map, parked>>
         \/ setRecord /\ Parks
  BY DEF AgentChatQueues, SweepScans, SweepApplies
<1>2. pending' \in Nat /\ pending' <= upsets' /\ upsets' \in 0 .. MaxUpsets
  BY <1>0 DEF AgentChatQueues, SweepScans, SweepApplies
<1>3. sweep' \in [pc : {"scan", "apply", "done"}, goal : 0 .. MaxGoals]
  <2>1. 0 \in 0 .. MaxGoals
    OBVIOUS
  <2> QED
    BY <1>0, <2>1 DEF AgentChatQueues, SweepScans, SweepApplies
<1>4. /\ recs' \in Seq(Rec) /\ Len(recs) <= Len(recs') /\ map' \in 0 .. Len(recs')
      /\ DOMAIN recs \subseteq DOMAIN recs'
      /\ \A k \in DOMAIN recs : recs'[k].starts = recs[k].starts /\ recs'[k].turns = recs[k].turns
      /\ \A k \in DOMAIN recs' : k \notin DOMAIN recs => recs'[k].starts = 0
  <2>1. CASE UNCHANGED <<recs, map>>
    BY <1>0, <2>1
  <2>2. CASE setRecord
    BY <1>0, <2>2, SetRecordEffect
  <2> QED
    BY <1>1, <2>1, <2>2
<1>5. parked' \in {"no", "parked", "unstarted", "raced"} /\ (parked = "raced" => parked' = "raced")
  BY <1>0, <1>1 DEF Parks
<1>6. Shape' /\ Refs' /\ Ended' /\ Budget'
  <2>1. RunsRest
    BY <1>0, <1>1, <1>2, <1>3, <1>4, <1>5 DEF RunsRest
  <2> QED
    BY <2>1, RunsRestKeeps
<1>7. Unraced'
  <2> SUFFICES ASSUME parked' # "raced" PROVE Knows' /\ Recorded' /\ Driven'
    BY DEF Unraced
  <2>0. Knows /\ Recorded /\ Driven
    BY <1>5 DEF IInv, Unraced
  <2>1. Knows'
    BY <1>1, <2>0 DEF Knows
  <2>2. CASE UNCHANGED <<recs, map, parked>>
    BY <1>1, <2>0, <2>1, <2>2 DEF Recorded, Driven, Armed, DrivesRun, DrivesPost
  <2>3. CASE setRecord /\ Parks
    <3>1. map' # 0 /\ parked' # "no"
      BY <1>0, <2>3 DEF setRecord, Parks
    <3> QED
      BY <2>1, <3>1 DEF Recorded, Driven
  <2> QED
    BY <1>1, <2>2, <2>3
<1> QED
  BY <1>6, <1>7 DEF IInv

\* The process restarts: what is left is the stored goal and its observers.
LEMMA RestartStep ==
  ASSUME IInv, Restart
  PROVE  IInv'
<1> USE GoalAssumption
<1>0. /\ upsets \in 0 .. MaxUpsets /\ parked \in {"no", "parked", "unstarted", "raced"} /\ 0 \in 0 .. MaxGoals
      /\ goals \in 0 .. MaxGoals
  BY DEF IInv, Shape
<1>1. /\ UNCHANGED <<stored, goals, dropped, held>> /\ recs' = << >> /\ map' = 0 /\ pending' = 0
      /\ sweep' = [pc |-> "scan", goal |-> 0]
      /\ parked' \in {"parked", "raced"}
      /\ upsets' \in 0 .. MaxUpsets /\ 0 <= upsets'
  BY <1>0 DEF Restart, Parks
<1>2. /\ run' \in [Slots -> RunRec]
      /\ \A s \in Slots : run'[s].pc = "free" /\ run'[s].goal = 0 /\ run'[s].rec = 0
  BY <1>0 DEF Restart, Free, RunRec, RunPcs
<1>3. /\ post' \in [Posts -> PostRec]
      /\ \A p \in Posts : post'[p].pc \in {"new", "done"}
  <2>1. /\ NewPost \in PostRec /\ NewPost.pc = "new"
        /\ DonePost \in PostRec /\ DonePost.pc = "done"
    BY <1>0 DEF NewPost, DonePost, PostRec, PostPcs, Kinds
  <2> QED
    BY <2>1 DEF Restart
<1>4. Shape'
  <2>1. recs' \in Seq(Rec) /\ map' \in 0 .. Len(recs')
    BY <1>1
  <2>2. sweep' \in [pc : {"scan", "apply", "done"}, goal : 0 .. MaxGoals]
    BY <1>0, <1>1
  <2> QED
    BY <1>1, <1>2, <1>3, <2>1, <2>2 DEF IInv, Shape
<1>5. Refs'
  BY <1>1, <1>2 DEF Refs, LoopPcs
<1>6. Ended'
  BY <1>0, <1>1, <1>2 DEF IInv, Ended, HoldPcs
<1>7. Budget'
  BY <1>1 DEF Budget
<1>8. Unraced'
  <2>1. Knows'
    BY <1>2, <1>3 DEF Knows, HoldPcs
  <2>2. parked' # "raced" => Recorded' /\ Driven'
    BY <1>1, <1>2, <1>3 DEF Recorded, Driven
  <2> QED
    BY <2>1, <2>2 DEF Unraced
<1> QED
  BY <1>4, <1>5, <1>6, <1>7, <1>8 DEF IInv

-----------------------------------------------------------------------------
(***************************************************************************)
(* The theorems.                                                           *)
(***************************************************************************)
\* A conversation without a goal satisfies the invariant.
LEMMA InitHolds == Init => IInv
<1> USE GoalAssumption
<1> SUFFICES ASSUME Init PROVE IInv
  OBVIOUS
<1>0. 0 \in 0 .. MaxGoals /\ 0 \in 0 .. MaxUpsets
  OBVIOUS
<1>1. /\ run \in [Slots -> RunRec]
      /\ \A s \in Slots : run[s].pc = "free" /\ run[s].goal = 0 /\ run[s].rec = 0
  BY <1>0 DEF Init, Free, RunRec, RunPcs
<1>2. /\ post \in [Posts -> PostRec]
      /\ \A p \in Posts : post[p].pc = "new"
  BY <1>0 DEF Init, NewPost, PostRec, PostPcs, Kinds
<1>3. Shape
  <2>1. recs \in Seq(Rec) /\ map \in 0 .. Len(recs)
    BY DEF Init
  <2>2. sweep \in [pc : {"scan", "apply", "done"}, goal : 0 .. MaxGoals]
    BY <1>0 DEF Init
  <2> QED
    BY <1>0, <1>1, <1>2, <2>1, <2>2 DEF Init, Shape
<1>4. Refs
  BY <1>1 DEF Init, Refs, LoopPcs
<1>5. Ended
  BY <1>1 DEF Init, Ended
<1>6. Budget
  BY DEF Init, Budget
<1>7. Unraced
  BY <1>1, <1>2 DEF Init, Unraced, Knows, Recorded, Driven, Armed, HoldPcs
<1> QED
  BY <1>3, <1>4, <1>5, <1>6, <1>7 DEF IInv

\* Every step keeps the invariant.
LEMMA NextKeeps == IInv /\ [Next]_vars => IInv'
<1> SUFFICES ASSUME IInv, [Next]_vars PROVE IInv'
  OBVIOUS
<1>1. ASSUME NEW p \in Posts,
             \/ PostStep(p) \/ PostThrows(p) \/ RehydrateThrows(p)
             \/ \E kind \in Kinds : PostArrives(p, kind)
      PROVE  IInv'
  <2>1. CASE \/ \E kind \in Kinds : PostArrives(p, kind)
             \/ PostEndsEarly(p) \/ ClearReads(p) \/ PostThrows(p)
    BY <2>1, PlainPostSteps
  <2>2. CASE Rehydrate(p) \/ RehydrateThrows(p) \/ SetRecords(p)
    BY <2>2, RecordSteps
  <2>3. CASE PostStartsTurn(p)
    BY <2>3, TurnStep
  <2>4. CASE SetWrites(p) \/ ClearDeletes(p) \/ ClearDrops(p)
    BY <2>4, CommandSteps
  <2> QED
    BY <1>1, <2>1, <2>2, <2>3, <2>4 DEF PostStep
<1>2. ASSUME NEW s \in Slots, HandlerStep(s) \/ RunEnds(s) \/ RunRejects(s) \/ HandlerThrows(s)
      PROVE  IInv'
  <2>1. CASE RunCompletes(s) \/ RunFails(s) \/ ReadGoal(s) \/ Reread(s)
    BY <2>1, BeginSteps
  <2>2. CASE HandlerThrows(s) \/ RunRejects(s) \/ PauseWrites(s)
    BY <2>2, GiveUpSteps
  <2>3. CASE MirrorReason(s)
    BY <2>3, MirrorStep
  <2>4. CASE CheckTerminal(s) \/ \E outcome \in Outcomes : Evaluate(s, outcome)
    BY <2>4, PauseSteps
  <2>5. CASE CheckTurn(s)
    BY <2>5, CheckTurnStep
  <2>6. CASE Reenter(s)
    BY <2>6, ReenterStep
  <2>7. CASE GoalEnds(s) \/ GoalDrops(s)
    BY <2>7, GoalEndSteps
  <2> QED
    BY <1>2, <2>1, <2>2, <2>3, <2>4, <2>5, <2>6, <2>7 DEF HandlerStep, RunEnds
<1>3. CASE AgentChatQueues \/ SweepScans \/ SweepApplies
  BY <1>3, SweepSteps
<1>4. CASE Restart
  BY <1>4, RestartStep
<1>5. CASE UNCHANGED vars
  BY <1>5 DEF vars, memory, counters, observers, IInv, Shape, Refs, Ended, Budget, InFlight,
              Unraced, Knows, Recorded, Driven, Armed, DrivesRun, DrivesPost
<1> QED
  BY <1>1, <1>2, <1>3, <1>4, <1>5 DEF Next

\* The invariant holds in every reachable state.
THEOREM Inductive == Spec => []IInv
  BY InitHolds, NextKeeps, PTL DEF Spec

\* Handlers, POSTs, records and observers keep their types: a handler never
\* names a record that does not exist, and the queue never exceeds its bound.
THEOREM TypeCorrect == Spec => []TypeOK
<1>1. IInv => TypeOK
  <2> SUFFICES ASSUME IInv PROVE TypeOK
    OBVIOUS
  <2>1. run \in [Slots -> [pc : RunPcs, goal : 0 .. MaxGoals, rec : 0 .. Len(recs),
                           achieved : BOOLEAN]]
    <3>1. run \in [Slots -> RunRec] /\ \A s \in Slots : run[s].rec \in 0 .. Len(recs)
      BY DEF IInv, Shape, Refs
    <3> QED
      BY <3>1 DEF RunRec
  <2>2. pending \in 0 .. MaxUpsets
    BY GoalAssumption DEF IInv, Shape
  <2>3. post \in [Posts -> [pc : PostPcs, kind : Kinds, goal : 0 .. MaxGoals]]
    BY DEF IInv, Shape, PostRec
  <2>4. recs \in Seq([status : {"active", "paused"}, turns : Nat, failures : 0 .. THRESHOLD,
                      starts : 0 .. MAX_TURNS])
    BY DEF IInv, Shape, Rec
  <2> QED
    BY <2>1, <2>2, <2>3, <2>4 DEF IInv, Shape, TypeOK
<1> QED
  BY <1>1, Inductive, PTL

\* A goal that was cleared, replaced, achieved or capped comes back only
\* through a handler that had read it before it ended.
THEOREM EndedStaysEnded == Spec => []EndedGoalStaysEnded
<1>1. IInv => EndedGoalStaysEnded
  BY DEF IInv, Ended, EndedGoalStaysEnded
<1> QED
  BY <1>1, Inductive, PTL

\* One record starts fewer continuations than the turn cap, however many runs
\* of the conversation end at the same time.
THEOREM ContinuationsAreBounded == Spec => []ContinuationsBounded
<1>1. IInv => ContinuationsBounded
  <2> SUFFICES ASSUME IInv, NEW k \in DOMAIN recs PROVE recs[k].starts < MAX_TURNS
    BY DEF ContinuationsBounded
  <2>1. recs[k] \in Rec
    BY DEF IInv, Shape
  <2>2. recs[k].starts \in Nat
    BY <2>1, GoalAssumption DEF Rec
  <2>3. Cardinality(InFlight(k)) \in Nat
    BY InFlightFinite
  <2>4. recs[k].starts + Cardinality(InFlight(k)) < MAX_TURNS
    BY DEF IInv, Budget
  <2> QED
    BY <2>2, <2>3, <2>4, GoalAssumption
<1> QED
  BY <1>1, Inductive, PTL

\* Whatever is rejected and however POSTs and handlers overlap, an active goal
\* that nothing in flight drives was parked, lost its run before it began, or was
\* lost in a race (goal-host.ts, the messages route).
THEOREM StallsAreExplained == Spec => []NoSilentStall
<1>1. IInv => NoSilentStall
  <2> SUFFICES ASSUME IInv, stored # 0, map = 0 \/ recs[map].status = "active", parked = "no"
               PROVE  Busy
    BY DEF NoSilentStall
  <2>1. (\E s \in Slots : DrivesRun(s)) \/ (\E p \in Posts : DrivesPost(p))
    BY DEF IInv, Unraced, Driven, Armed
  <2> QED
    BY <2>1 DEF Busy, DrivesRun, DrivesPost, LoopPcs
<1> QED
  BY <1>1, Inductive, PTL
=============================================================================
