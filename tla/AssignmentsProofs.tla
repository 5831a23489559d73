-------------------------- MODULE AssignmentsProofs --------------------------
(***************************************************************************)
(* Proofs about Assignments, for any number of starts, messages, stops and  *)
(* dropped notifications: type correctness, the bound on the loop of        *)
(* sub-agent runs, that a recorded end is final, what becomes of a queued   *)
(* message, and that the storage row converges to the closure's assignment. *)
(***************************************************************************)
EXTENDS Assignments, TLAPS

-----------------------------------------------------------------------------
(***************************************************************************)
(* Sequences: what is on the bridge, and what waits for the database.       *)
(***************************************************************************)
Items(s) == {s[i] : i \in DOMAIN s}

\* Issuing a request, or emitting an event, adds one element at the end.
LEMMA AppendFacts ==
  ASSUME NEW S, NEW s \in Seq(S), NEW e \in S
  PROVE  /\ Append(s, e) \in Seq(S)
         /\ Append(s, e) # <<>>
         /\ Len(Append(s, e)) = Len(s) + 1
         /\ \A i \in 1..Len(s) : Append(s, e)[i] = s[i]
         /\ Append(s, e)[Len(s) + 1] = e
  OBVIOUS

\* Answering a request, or delivering an event, takes the first element away.
LEMMA TailFacts ==
  ASSUME NEW S, NEW s \in Seq(S), s # <<>>
  PROVE  /\ Tail(s) \in Seq(S)
         /\ Len(s) \in Nat \ {0} /\ Len(Tail(s)) = Len(s) - 1
         /\ \A i \in 1..Len(s) - 1 : Tail(s)[i] = s[i + 1]
         /\ Head(s) \in S /\ Head(s) = s[1]
  OBVIOUS

\* What a sequence holds after an element is appended.
LEMMA AppendItems ==
  ASSUME NEW S, NEW s \in Seq(S), NEW e \in S
  PROVE  Items(Append(s, e)) = Items(s) \cup {e}
<1>1. DOMAIN s = 1..Len(s) /\ DOMAIN Append(s, e) = 1..(Len(s) + 1) /\ Len(s) \in Nat
  BY AppendFacts
<1> QED
  BY <1>1, AppendFacts DEF Items

\* What a sequence holds without its first element.
LEMMA TailItems ==
  ASSUME NEW S, NEW s \in Seq(S), s # <<>>
  PROVE  Items(s) = Items(Tail(s)) \cup {Head(s)}
<1>1. /\ DOMAIN s = 1..Len(s) /\ DOMAIN Tail(s) = 1..(Len(s) - 1)
      /\ Len(s) \in Nat \ {0} /\ Head(s) = s[1]
      /\ \A i \in 1..Len(s) - 1 : Tail(s)[i] = s[i + 1]
  BY TailFacts
<1>2. Items(Tail(s)) \subseteq Items(s) /\ Head(s) \in Items(s)
  BY <1>1 DEF Items
<1>3. ASSUME NEW i \in DOMAIN s, i # 1 PROVE s[i] \in Items(Tail(s))
  <2>1. i - 1 \in DOMAIN Tail(s) /\ Tail(s)[i - 1] = s[i]
    BY <1>1, <1>3
  <2> QED
    BY <2>1 DEF Items
<1> QED
  BY <1>1, <1>2, <1>3 DEF Items

\* A read that is answered and followed by a write of the same handler.
LEMMA TurnItems ==
  ASSUME NEW S, NEW s \in Seq(S), s # <<>>, NEW e \in S
  PROVE  /\ Append(Tail(s), e) \in Seq(S)
         /\ Items(Append(Tail(s), e)) = Items(Tail(s)) \cup {e}
<1>1. PICK t \in Seq(S) : t = Tail(s)
  BY TailFacts
<1>2. Append(t, e) \in Seq(S) /\ Items(Append(t, e)) = Items(t) \cup {e}
  BY AppendFacts, AppendItems
<1> QED
  BY <1>1, <1>2

-----------------------------------------------------------------------------
(***************************************************************************)
(* Type correctness.                                                       *)
(***************************************************************************)
Budget == [messages : Nat, stops : Nat, drops : Nat]

\* The requests that are issued are requests.
LEMMA RequestTypes ==
  /\ Reset \in Assignment
  /\ ReadToStop \in Request
  /\ \A k \in Starts : ReadToStart(k) \in Request
  /\ \A a \in Assignment : ReadToMerge(a) \in Request
  /\ \A op \in {"write", "writeStopped"}, k \in Starts \cup {Nobody}, a \in Assignment :
       Write(op, k, a) \in Request
  BY DEF Reset, Assignment, Status, Request, ReadToStop, ReadToStart, ReadToMerge, Write

\* Spending a message, a stop or a drop leaves a well-formed budget.
LEMMA BudgetTypes ==
  ASSUME budget \in Budget
  PROVE  /\ budget.messages > 0 => [budget EXCEPT !.messages = @ - 1] \in Budget
         /\ budget.stops > 0 => [budget EXCEPT !.stops = @ - 1] \in Budget
         /\ budget.drops > 0 => [budget EXCEPT !.drops = @ - 1] \in Budget
  BY DEF Budget

\* Starting an assignment keeps the types.
LEMMA TypeStart ==
  ASSUME TypeOK, NEW k \in Starts,
         StartRequested(k) \/ StartAssignment(k)
  PROVE  TypeOK'
<1>1. CASE StartRequested(k)
  BY <1>1, RequestTypes, AppendFacts DEF TypeOK, StartRequested
<1>2. CASE StartAssignment(k)
  <2>1. [status |-> "running", by |-> k, n |-> 1] \in Assignment
    BY DEF Assignment, Status
  <2>2. Append(requests, Write("write", k, [status |-> "running", by |-> k, n |-> 1]))
          \in Seq(Request)
    BY <2>1, RequestTypes, AppendFacts DEF TypeOK
  <2>3. Append(bridge, k) \in Seq(Event)
    BY AppendFacts DEF TypeOK, Event
  <2> QED
    BY <1>2, <2>1, <2>2, <2>3 DEF TypeOK, StartAssignment, Emit
<1> QED
  BY <1>1, <1>2

\* The end of a closure keeps the types.
LEMMA TypeFinish ==
  ASSUME TypeOK, NEW k \in Starts, NEW s \in Finished, Finish(k, s)
  PROVE  /\ listening' \in [Starts -> BOOLEAN]
         /\ copy' \in [Starts -> Assignment]
         /\ bridge' \in Seq(Event)
<1>1. bridge' \in Seq(Event)
  BY AppendFacts DEF TypeOK, Finish, Emit, Event
<1>2. [copy[k] EXCEPT !.status = s] \in Assignment
  BY DEF TypeOK, Assignment, Finished, Status
<1> QED
  BY <1>1, <1>2 DEF TypeOK, Finish

\* A further run of a closure keeps the types.
LEMMA TypeNextRun ==
  ASSUME TypeOK, NEW k \in Starts, NextRun(k), Emit(k)
  PROVE  /\ copy' \in [Starts -> Assignment]
         /\ run' \in [Starts -> {"none", "requested", "refused", "starting", "running",
                                 "saving", "ending", "over"}]
         /\ listening' \in [Starts -> BOOLEAN]
         /\ bridge' \in Seq(Event)
<1>1. bridge' \in Seq(Event)
  BY AppendFacts DEF TypeOK, Emit, Event
<1>2. copy[k] \in Assignment /\ copy[k].n + 1 \in Nat
  BY DEF TypeOK, Assignment
<1>3. [copy[k] EXCEPT !.n = @ + 1] \in Assignment
  BY <1>2 DEF Assignment
<1> QED
  BY <1>1, <1>3 DEF TypeOK, NextRun

\* What a run does by itself keeps the types.
LEMMA TypeRunStep ==
  ASSUME TypeOK, NEW k \in Starts, RunStep(k)
  PROVE  TypeOK'
<1>1. CASE RunSaving(k)
  BY <1>1 DEF TypeOK, RunSaving
<1>2. CASE ContinueWithMessage(k)
  BY <1>2, TypeNextRun DEF TypeOK, ContinueWithMessage
<1>3. CASE ContinueAutonomously(k)
  BY <1>3, TypeNextRun DEF TypeOK, ContinueAutonomously
<1>4. CASE RunCompletes(k)
  BY <1>4, TypeFinish DEF TypeOK, RunCompletes, Finished
<1>5. CASE RunFails(k)
  BY <1>5, TypeFinish DEF TypeOK, RunFails, Finished
<1>6. CASE RunResolvesLate(k)
  BY <1>6 DEF TypeOK, RunResolvesLate
<1> QED
  BY <1>1, <1>2, <1>3, <1>4, <1>5, <1>6 DEF RunStep

\* run:cancel keeps the types of what the closure owns.
LEMMA TypeCancelled ==
  ASSUME TypeOK, NEW k \in Starts, RunCancelled(k)
  PROVE  /\ listening' \in [Starts -> BOOLEAN]
         /\ copy' \in [Starts -> Assignment]
         /\ bridge' \in Seq(Event)
         /\ run' \in [Starts -> {"none", "requested", "refused", "starting", "running",
                                 "saving", "ending", "over"}]
  BY TypeFinish DEF TypeOK, RunCancelled, Finished

\* The agent-chat route, the stop route's first step and the bridge keep them.
LEMMA TypeRoutes ==
  ASSUME TypeOK,
         \/ AgentChatQueues \/ AgentChatIdle \/ AgentChatStarts \/ DirectRunEnds
         \/ StopRequested \/ Dispatch \/ Drop
  PROVE  TypeOK'
<1>1. CASE AgentChatQueues
  <2>1. budget' \in Budget
    BY <1>1, BudgetTypes DEF TypeOK, AgentChatQueues, Budget
  <2> QED
    BY <1>1, <2>1 DEF TypeOK, AgentChatQueues, closureVars, Budget
<1>2. CASE AgentChatIdle
  <2>1. budget' \in Budget
    BY <1>2, BudgetTypes DEF TypeOK, AgentChatIdle, Budget
  <2> QED
    BY <1>2, <2>1 DEF TypeOK, AgentChatIdle, closureVars, Budget
<1>3. CASE AgentChatStarts
  BY <1>3 DEF TypeOK, AgentChatStarts, closureVars
<1>4. CASE DirectRunEnds
  BY <1>4 DEF TypeOK, DirectRunEnds, closureVars
<1>5. CASE StopRequested
  <2>1. budget' \in Budget
    BY <1>5, BudgetTypes DEF TypeOK, StopRequested, Budget
  <2>2. requests' \in Seq(Request)
    BY <1>5, RequestTypes, AppendFacts DEF TypeOK, StopRequested
  <2> QED
    BY <1>5, <2>1, <2>2 DEF TypeOK, StopRequested, closureVars, Budget
<1>6. CASE Dispatch
  <2>1. Head(bridge) \in Event /\ Tail(bridge) \in Seq(Event)
    BY <1>6, TailFacts DEF TypeOK, Dispatch
  <2>2. (IF Head(bridge) = Nobody THEN Reset ELSE copy[Head(bridge)]) \in Assignment
    BY <2>1, RequestTypes DEF TypeOK, Event
  <2>3. requests' \in Seq(Request)
    BY <1>6, <2>2, RequestTypes, AppendFacts DEF TypeOK, Dispatch
  <2> QED
    BY <1>6, <2>1, <2>3 DEF TypeOK, Dispatch, closureVars
<1>7. CASE Drop
  <2>1. budget' \in Budget
    BY <1>7, BudgetTypes DEF TypeOK, Drop, Budget
  <2>2. bridge' \in Seq(Event)
    BY <1>7, TailFacts DEF TypeOK, Drop
  <2> QED
    BY <1>7, <2>1, <2>2 DEF TypeOK, Drop, closureVars, Budget
<1> QED
  BY <1>1, <1>2, <1>3, <1>4, <1>5, <1>6, <1>7

\* The answers of the database keep them.
LEMMA TypeRow ==
  ASSUME TypeOK, Row
  PROVE  TypeOK'
<1>0. ASSUME NEW op, Serve(op)
      PROVE  /\ Tail(requests) \in Seq(Request)
             /\ Head(requests) \in Request
             /\ Head(requests).value \in Assignment
  <2>1. Tail(requests) \in Seq(Request) /\ Head(requests) \in Request
    BY <1>0, TailFacts DEF TypeOK, Serve
  <2> QED
    BY <2>1 DEF Request
<1>1. CASE StartLoaded
  BY <1>0, <1>1 DEF TypeOK, StartLoaded
<1>2. CASE StopRefused
  BY <1>0, <1>2 DEF TypeOK, StopRefused, closureVars
<1>3. CASE StopLoaded
  <2>1. requests' \in Seq(Request)
    BY <1>0, <1>3, RequestTypes, AppendFacts DEF TypeOK, StopLoaded
  <2>2. CASE UNCHANGED <<copy, run, listening, bridge>>
    BY <1>3, <2>1, <2>2 DEF TypeOK, StopLoaded
  <2>3. ASSUME NEW k \in Starts, RunCancelled(k) PROVE TypeOK'
    BY <1>3, <2>1, <2>3, TypeCancelled DEF TypeOK, StopLoaded
  <2> QED
    BY <1>3, <2>2, <2>3 DEF StopLoaded
<1>4. CASE StopWritten
  <2>1. Append(bridge, Nobody) \in Seq(Event)
    BY AppendFacts DEF TypeOK, Event
  <2> QED
    BY <1>0, <1>4, <2>1 DEF TypeOK, StopWritten, Emit, closureVars
<1>5. CASE Merge
  <2>1. Merged(Head(requests).value) \in Assignment
    BY <1>0, <1>5 DEF TypeOK, Merge, Merged, Assignment
  <2>2. requests' \in Seq(Request)
    BY <1>0, <1>5, <2>1, RequestTypes, AppendFacts DEF Merge
  <2> QED
    BY <1>5, <2>2 DEF TypeOK, Merge, closureVars
<1>6. CASE RowWritten
  BY <1>0, <1>6 DEF TypeOK, RowWritten, closureVars
<1> QED
  BY <1>1, <1>2, <1>3, <1>4, <1>5, <1>6 DEF Row

\* Every step keeps the types.
LEMMA TypeStep ==
  ASSUME TypeOK, [Next]_vars
  PROVE  TypeOK'
<1>1. CASE UNCHANGED vars
  BY <1>1 DEF TypeOK, vars, closureVars
<1>2. ASSUME NEW k \in Starts, CancelRun(k) PROVE TypeOK'
  <2>1. budget' \in Budget
    BY <1>2, BudgetTypes DEF TypeOK, CancelRun, Budget
  <2> QED
    BY <1>2, <2>1, TypeCancelled DEF TypeOK, CancelRun, Budget
<1> QED
  BY <1>1, <1>2, TypeStart, TypeRunStep, TypeRoutes, TypeRow DEF Next

\* The state of the closures, the routes, the bridge and the row is well
\* formed in every reachable state.
THEOREM TypeCorrect == Spec => []TypeOK
<1>1. Init => TypeOK
  BY AssignmentsAssumption, RequestTypes DEF Init, TypeOK
<1>2. TypeOK /\ [Next]_vars => TypeOK'
  BY TypeStep
<1> QED
  BY <1>1, <1>2, PTL DEF Spec
-----------------------------------------------------------------------------
(***************************************************************************)
(* What a further run and an end change in the closure's assignment.        *)
(***************************************************************************)
\* A further run of a closure has the next number, and that is all.
LEMMA NextRunChanges ==
  ASSUME TypeOK, NEW k \in Starts, NextRun(k), NEW j \in Starts
  PROVE  /\ copy'[j].n = IF j = k THEN copy[j].n + 1 ELSE copy[j].n
         /\ copy'[j].by = copy[j].by /\ copy'[j].status = copy[j].status
         /\ run'[j] = IF j = k THEN "running" ELSE run[j]
         /\ listening'[j] = listening[j]
  BY DEF TypeOK, NextRun, Assignment

\* An end changes the status and takes the listeners away, and that is all.
LEMMA FinishChanges ==
  ASSUME TypeOK, NEW k \in Starts, NEW s, Finish(k, s), NEW j \in Starts
  PROVE  /\ copy'[j].n = copy[j].n /\ copy'[j].by = copy[j].by
         /\ copy'[j].status = IF j = k THEN s ELSE copy[j].status
         /\ listening'[j] = IF j = k THEN FALSE ELSE listening[j]
  BY DEF TypeOK, Finish, Assignment

-----------------------------------------------------------------------------
(***************************************************************************)
(* The loop of sub-agent runs.                                             *)
(***************************************************************************)
\* Each run of a closure but the first is paid for with an autonomous cycle or
\* with a message it has taken.
LoopInv ==
  \A k \in Starts :
    copy[k].n <= 1 + cycle[k] + taken[k] /\ cycle[k] <= MaxCycles

\* Every step keeps the account of the runs.
LEMMA LoopStep ==
  ASSUME TypeOK, LoopInv, [Next]_vars
  PROVE  LoopInv'
<1> USE AssignmentsAssumption
<1>0. /\ \A j \in Starts : copy[j] \in Assignment /\ copy[j].n \in Nat
      /\ cycle \in [Starts -> Nat] /\ taken \in [Starts -> Nat]
  BY DEF TypeOK, Assignment
<1>1. ASSUME NEW k \in Starts, StartAssignment(k) PROVE LoopInv'
  BY <1>0, <1>1 DEF LoopInv, StartAssignment, TypeOK
<1>2. ASSUME NEW k \in Starts, ContinueWithMessage(k) PROVE LoopInv'
  BY <1>0, <1>2, NextRunChanges DEF LoopInv, ContinueWithMessage
<1>3. ASSUME NEW k \in Starts, ContinueAutonomously(k) PROVE LoopInv'
  BY <1>0, <1>3, NextRunChanges DEF LoopInv, ContinueAutonomously
<1>4. ASSUME NEW k \in Starts, RunCompletes(k) \/ RunFails(k) PROVE LoopInv'
  BY <1>0, <1>4, FinishChanges DEF LoopInv, RunCompletes, RunFails
<1>5. ASSUME NEW k \in Starts, RunCancelled(k), UNCHANGED <<cycle, taken>> PROVE LoopInv'
  BY <1>0, <1>5, FinishChanges DEF LoopInv, RunCancelled
<1>6. CASE StopLoaded
  BY <1>5, <1>6 DEF LoopInv, StopLoaded
<1>7. CASE UNCHANGED <<copy, cycle, taken>>
  BY <1>7 DEF LoopInv
<1> QED
  BY <1>1, <1>2, <1>3, <1>4, <1>5, <1>6, <1>7
     DEF Next, vars, closureVars, StartRequested, RunStep, RunSaving, RunResolvesLate,
         CancelRun, AgentChatQueues, AgentChatIdle, AgentChatStarts, DirectRunEnds,
         StopRequested, Dispatch, Drop, Row, StartLoaded, StopRefused, StopWritten,
         Merge, RowWritten

\* A start runs its sub-agent at most once, once per autonomous cycle and once
\* per user message it has taken, whatever is cancelled or completes late.
THEOREM LoopIsBounded == Spec => []LoopBounded
<1>1. Init => LoopInv
  <2> SUFFICES ASSUME Init, NEW k \in Starts
               PROVE  copy[k].n <= 1 + cycle[k] + taken[k] /\ cycle[k] <= MaxCycles
    BY DEF LoopInv
  <2> QED
    BY AssignmentsAssumption DEF Init, Reset
<1>2. TypeOK /\ LoopInv /\ [Next]_vars => LoopInv'
  BY LoopStep
<1>3. TypeOK /\ LoopInv => LoopBounded
  <2> SUFFICES ASSUME TypeOK, LoopInv, NEW k \in Starts
               PROVE  copy[k].n <= 1 + MaxCycles + taken[k]
    BY DEF LoopBounded
  <2>1. copy[k].n \in Nat /\ cycle[k] \in Nat /\ taken[k] \in Nat /\ MaxCycles \in Nat
    BY AssignmentsAssumption DEF TypeOK, Assignment
  <2> QED
    BY <2>1 DEF LoopInv
<1> QED
  BY <1>1, <1>2, <1>3, TypeCorrect, PTL DEF Spec

-----------------------------------------------------------------------------
(***************************************************************************)
(* The closure's own state: its assignment, its run and its listeners.      *)
(***************************************************************************)
NotStarted == {"none", "requested", "refused", "starting"}

\* The assignment is touched only while the listeners of its run are
\* registered, and they are gone once it has an end.
ClosureInv ==
  \A k \in Starts :
    /\ listening[k] <=> run[k] \in {"running", "saving"}
    /\ run[k] \in NotStarted => copy[k] = Reset /\ taken[k] = 0
    /\ run[k] \notin NotStarted =>
         /\ copy[k].by = k /\ copy[k].n > 0
         /\ copy[k].status = "running" <=> listening[k]
         /\ copy[k].status # "assigned"

\* In the requests s, a request to start is pending once at most, and its start
\* still waits for the answer (r: what each start's run is at).
Waiting(s, r) ==
  /\ \A i \in 1..Len(s) : s[i].op = "readToStart" =>
       s[i].by \in Starts /\ r[s[i].by] = "requested"
  /\ \A i \in 1..Len(s), j \in 1..Len(s) :
       s[i].op = "readToStart" /\ s[j].op = "readToStart" /\ s[i].by = s[j].by => i = j

StartReads == Waiting(requests, run)

\* Cancelling a live run ends its closure.
LEMMA CancelledEnds ==
  ASSUME TypeOK, ClosureInv, NEW k \in Starts, RunCancelled(k), listening[k],
         UNCHANGED taken
  PROVE  /\ ClosureInv'
         /\ run' = [run EXCEPT ![k] = "ending"]
         /\ Finish(k, "failed")
<1>1. copy[k].status = "running"
  BY DEF ClosureInv, NotStarted
<1>2. run' = [run EXCEPT ![k] = "ending"] /\ Finish(k, "failed")
  BY <1>1 DEF RunCancelled
<1> QED
  BY <1>1, <1>2 DEF TypeOK, ClosureInv, NotStarted, Finish, Assignment

\* A start request that is answered leaves no other one of the same start.
LEMMA StartAnswered ==
  ASSUME TypeOK, StartReads, Serve("readToStart")
  PROVE  /\ Head(requests).by \in Starts
         /\ run[Head(requests).by] = "requested"
<1>1. Head(requests) = requests[1] /\ Len(requests) \in Nat \ {0}
  BY TailFacts DEF TypeOK, Serve
<1> QED
  BY <1>1 DEF StartReads, Waiting, Serve

\* Every step keeps the closure's assignment, run and listeners in agreement.
LEMMA ClosureStep ==
  ASSUME TypeOK, ClosureInv, StartReads, [Next]_vars
  PROVE  ClosureInv'
<1>0. \A j \in Starts : copy[j] \in Assignment
  BY DEF TypeOK
<1>1. ASSUME NEW k \in Starts, StartRequested(k) PROVE ClosureInv'
  BY <1>1 DEF ClosureInv, StartRequested, NotStarted, TypeOK
<1>2. ASSUME NEW k \in Starts, StartAssignment(k) PROVE ClosureInv'
  BY <1>2 DEF ClosureInv, StartAssignment, NotStarted, TypeOK
<1>3. ASSUME NEW k \in Starts, RunSaving(k) PROVE ClosureInv'
  BY <1>3 DEF ClosureInv, RunSaving, NotStarted, TypeOK
<1>4. ASSUME NEW k \in Starts, ContinueWithMessage(k) PROVE ClosureInv'
  BY <1>0, <1>4
     DEF ClosureInv, ContinueWithMessage, Completes, NextRun, NotStarted, TypeOK, Assignment
<1>5. ASSUME NEW k \in Starts, ContinueAutonomously(k) PROVE ClosureInv'
  BY <1>0, <1>5
     DEF ClosureInv, ContinueAutonomously, Completes, NextRun, NotStarted, TypeOK, Assignment
<1>6. ASSUME NEW k \in Starts, RunCompletes(k) PROVE ClosureInv'
  BY <1>0, <1>6
     DEF ClosureInv, RunCompletes, Completes, Finish, NotStarted, TypeOK, Assignment
<1>7. ASSUME NEW k \in Starts, RunFails(k) PROVE ClosureInv'
  BY <1>0, <1>7 DEF ClosureInv, RunFails, Finish, NotStarted, TypeOK, Assignment
<1>8. ASSUME NEW k \in Starts, RunResolvesLate(k) PROVE ClosureInv'
  BY <1>8 DEF ClosureInv, RunResolvesLate, NotStarted, TypeOK
<1>9. ASSUME NEW k \in Starts, CancelRun(k) PROVE ClosureInv'
  BY <1>9, CancelledEnds DEF CancelRun
<1>10. CASE StartLoaded
  <2>1. Head(requests).by \in Starts /\ run[Head(requests).by] = "requested"
    BY <1>10, StartAnswered DEF StartLoaded
  <2> QED
    BY <1>10, <2>1 DEF ClosureInv, StartLoaded, NotStarted, TypeOK
<1>11. CASE StopLoaded
  <2>1. ASSUME NEW k \in Starts, Cancellable(k), RunCancelled(k) PROVE ClosureInv'
    BY <1>11, <2>1, CancelledEnds DEF StopLoaded, Cancellable
  <2>2. CASE UNCHANGED <<copy, run, listening, bridge>>
    BY <1>11, <2>2 DEF StopLoaded, ClosureInv
  <2> QED
    BY <1>11, <2>1, <2>2 DEF StopLoaded
<1>12. CASE UNCHANGED closureVars
  BY <1>12 DEF closureVars, ClosureInv
<1> QED
  BY <1>1, <1>2, <1>3, <1>4, <1>5, <1>6, <1>7, <1>8, <1>9, <1>10, <1>11, <1>12
     DEF Next, vars, RunStep, AgentChatQueues, AgentChatIdle, AgentChatStarts,
         DirectRunEnds, StopRequested, Dispatch, Drop, Row, StopRefused, StopWritten,
         Merge, RowWritten

\* Issuing a request that is not a start's, or answering any, keeps it.
LEMMA WaitingKept ==
  ASSUME NEW s \in Seq(Request), NEW r, Waiting(s, r)
  PROVE  /\ s # <<>> => Waiting(Tail(s), r)
         /\ \A e \in Request : e.op # "readToStart" => Waiting(Append(s, e), r)
<1>1. ASSUME s # <<>> PROVE Waiting(Tail(s), r)
  <2>1. /\ Len(s) \in Nat \ {0} /\ Len(Tail(s)) = Len(s) - 1
        /\ \A i \in 1..Len(s) - 1 : Tail(s)[i] = s[i + 1]
    BY <1>1, TailFacts
  <2> QED
    BY <2>1 DEF Waiting
<1>2. ASSUME NEW e \in Request, e.op # "readToStart" PROVE Waiting(Append(s, e), r)
  <2>1. /\ Len(s) \in Nat /\ Len(Append(s, e)) = Len(s) + 1
        /\ \A i \in 1..Len(s) : Append(s, e)[i] = s[i]
        /\ Append(s, e)[Len(s) + 1] = e
    BY AppendFacts
  <2>2. \A i \in 1..(Len(s) + 1) :
          Append(s, e)[i].op = "readToStart" => i \in 1..Len(s) /\ Append(s, e)[i] = s[i]
    BY <1>2, <2>1
  <2> QED
    BY <2>1, <2>2 DEF Waiting
<1> QED
  BY <1>1, <1>2

\* So does any change of runs that do not wait.
LEMMA WaitingElsewhere ==
  ASSUME NEW s \in Seq(Request), NEW r, NEW t, Waiting(s, r),
         \A j \in Starts : r[j] = "requested" => t[j] = "requested"
  PROVE  Waiting(s, t)
  BY DEF Waiting

\* Every step keeps it.
LEMMA StartReadsStep ==
  ASSUME TypeOK, ClosureInv, StartReads, [Next]_vars
  PROVE  StartReads'
<1>0. requests \in Seq(Request) /\ Waiting(requests, run)
  BY DEF TypeOK, StartReads
<1>1. ASSUME NEW k \in Starts, StartRequested(k) PROVE StartReads'
  <2> DEFINE e == ReadToStart(k)
  <2>1. /\ Len(requests) \in Nat /\ Len(Append(requests, e)) = Len(requests) + 1
        /\ \A i \in 1..Len(requests) : Append(requests, e)[i] = requests[i]
        /\ Append(requests, e)[Len(requests) + 1] = e
    BY <1>0, AppendFacts, RequestTypes
  <2>2. \A i \in 1..Len(requests) : requests[i].op = "readToStart" => requests[i].by # k
    BY <1>0, <1>1 DEF Waiting, StartRequested
  <2>3. e.op = "readToStart" /\ e.by = k
    BY DEF ReadToStart
  <2>4. run' = [run EXCEPT ![k] = "requested"] /\ requests' = Append(requests, e)
    BY <1>1 DEF StartRequested
  <2>5. \A j \in Starts : run'[j] = IF j = k THEN "requested" ELSE run[j]
    BY <2>4 DEF TypeOK
  <2> HIDE DEF e
  <2>6. Waiting(Append(requests, e), run')
    BY <1>0, <2>1, <2>2, <2>3, <2>5 DEF Waiting
  <2> QED
    BY <2>4, <2>6 DEF StartReads
<1>2. CASE StartLoaded
  <2> DEFINE k == Head(requests).by
  <2>1. /\ Len(requests) \in Nat \ {0} /\ Len(Tail(requests)) = Len(requests) - 1
        /\ \A i \in 1..Len(requests) - 1 : Tail(requests)[i] = requests[i + 1]
        /\ Head(requests) = requests[1]
    BY <1>0, <1>2, TailFacts DEF StartLoaded, Serve
  <2>2. requests[1].op = "readToStart" /\ requests[1].by = k
    BY <1>2, <2>1 DEF StartLoaded, Serve
  <2>3. \A j \in Starts : j # k => run'[j] = run[j]
    BY <1>2 DEF StartLoaded, TypeOK
  <2>4. \A i \in 1..Len(requests) - 1 :
          requests[i + 1].op = "readToStart" => requests[i + 1].by # k
    BY <1>0, <2>1, <2>2 DEF Waiting
  <2> HIDE DEF k
  <2>5. Waiting(Tail(requests), run)
    BY <1>0, <1>2, WaitingKept DEF StartLoaded, Serve
  <2>6. Waiting(Tail(requests), run')
    BY <2>1, <2>3, <2>4, <2>5 DEF Waiting
  <2> QED
    BY <1>2, <2>6 DEF StartReads, StartLoaded
<1>3. ASSUME NEW k \in Starts, StartAssignment(k) PROVE StartReads'
  <2> DEFINE a == [status |-> "running", by |-> k, n |-> 1]
  <2>1. a \in Assignment
    BY DEF Assignment, Status
  <2>2. Write("write", k, a) \in Request /\ Write("write", k, a).op # "readToStart"
    BY <2>1, RequestTypes DEF Write
  <2>3. requests' = Append(requests, Write("write", k, a))
    BY <1>3 DEF StartAssignment
  <2>4. requests' \in Seq(Request) /\ Waiting(requests', run)
    BY <1>0, <2>2, <2>3, WaitingKept, AppendFacts
  <2>5. \A j \in Starts : run[j] = "requested" => run'[j] = "requested"
    BY <1>3 DEF StartAssignment, TypeOK
  <2> QED
    BY <2>4, <2>5, WaitingElsewhere DEF StartReads
<1>4. ASSUME NEW k \in Starts, RunStep(k) \/ CancelRun(k) PROVE StartReads'
  <2>1. \A j \in Starts : run[j] = "requested" => run'[j] = "requested"
    BY <1>4 DEF TypeOK, RunStep, RunSaving, ContinueWithMessage, ContinueAutonomously,
       Completes, NextRun, RunCompletes, RunFails, RunResolvesLate, CancelRun, RunCancelled
  <2>2. UNCHANGED requests
    BY <1>4 DEF RunStep, RunSaving, ContinueWithMessage, ContinueAutonomously,
       RunCompletes, RunFails, RunResolvesLate, CancelRun
  <2> QED
    BY <1>0, <2>1, <2>2, WaitingElsewhere DEF StartReads
<1>5. CASE StopRequested
  BY <1>0, <1>5, WaitingKept, RequestTypes
     DEF StartReads, StopRequested, ReadToStop, closureVars
<1>6. CASE Dispatch
  <2>1. Head(bridge) \in Event
    BY <1>6, TailFacts DEF TypeOK, Dispatch
  <2>2. (IF Head(bridge) = Nobody THEN Reset ELSE copy[Head(bridge)]) \in Assignment
    BY <2>1, RequestTypes DEF TypeOK, Event
  <2>3. \A a \in Assignment : ReadToMerge(a) \in Request /\ ReadToMerge(a).op # "readToStart"
    BY RequestTypes DEF ReadToMerge
  <2> QED
    BY <1>0, <1>6, <2>2, <2>3, WaitingKept DEF StartReads, Dispatch, closureVars
<1>7. CASE StopRefused \/ StopWritten \/ RowWritten
  BY <1>0, <1>7, WaitingKept
     DEF StartReads, StopRefused, StopWritten, RowWritten, Serve, closureVars
<1>8. CASE StopLoaded
  <2>1. Tail(requests) \in Seq(Request) /\ Waiting(Tail(requests), run)
    BY <1>0, <1>8, WaitingKept, TailFacts DEF StopLoaded, Serve
  <2>2. Write("writeStopped", Nobody, Reset) \in Request
         /\ Write("writeStopped", Nobody, Reset).op # "readToStart"
    BY RequestTypes DEF Write
  <2>3. requests' \in Seq(Request) /\ Waiting(requests', run)
    BY <1>8, <2>1, <2>2, WaitingKept, AppendFacts DEF StopLoaded
  <2>4. \A j \in Starts : run[j] = "requested" => run'[j] = "requested"
    BY <1>8 DEF TypeOK, StopLoaded, Cancellable, RunCancelled
  <2> QED
    BY <2>3, <2>4, WaitingElsewhere DEF StartReads
<1>9. CASE Merge
  <2>1. Tail(requests) \in Seq(Request) /\ Waiting(Tail(requests), run)
        /\ Head(requests) \in Request
    BY <1>0, <1>9, WaitingKept, TailFacts DEF Merge, Serve
  <2>2. Merged(Head(requests).value) \in Assignment
    BY <2>1 DEF TypeOK, Merged, Assignment, Request
  <2>3. \A a \in Assignment :
          Write("write", Nobody, a) \in Request /\ Write("write", Nobody, a).op # "readToStart"
    BY RequestTypes DEF Write
  <2> QED
    BY <1>9, <2>1, <2>2, <2>3, WaitingKept DEF StartReads, Merge, closureVars
<1>10. CASE UNCHANGED <<requests, run>>
  BY <1>10 DEF StartReads
<1> QED
  BY <1>1, <1>2, <1>3, <1>4, <1>5, <1>6, <1>7, <1>8, <1>9, <1>10
     DEF Next, vars, closureVars, AgentChatQueues, AgentChatIdle, AgentChatStarts,
         DirectRunEnds, Drop, Row

\* Both hold in every reachable state.
LEMMA ClosureAlways == Spec => [](ClosureInv /\ StartReads)
<1>1. Init => ClosureInv /\ StartReads
  BY DEF Init, ClosureInv, StartReads, Waiting, NotStarted, Reset
<1>2. TypeOK /\ ClosureInv /\ StartReads /\ [Next]_vars => ClosureInv' /\ StartReads'
  BY ClosureStep, StartReadsStep
<1> QED
  BY <1>1, <1>2, TypeCorrect, PTL DEF Spec

\* A step that ends no closure leaves the assignment of a finished one alone.
LEMMA EndStep ==
  ASSUME TypeOK, ClosureInv, [Next]_vars, NEW j \in Starts, copy[j].status \in Finished
  PROVE  copy'[j] = copy[j]
<1>1. run[j] \notin NotStarted /\ ~listening[j] /\ run[j] \notin {"running", "saving"}
  BY DEF ClosureInv, Finished, Reset
<1> QED
  BY <1>1
     DEF Next, vars, closureVars, StartRequested, StartAssignment, RunStep, RunSaving,
         ContinueWithMessage, ContinueAutonomously, Completes, NextRun, RunCompletes,
         RunFails, Finish, RunResolvesLate, CancelRun, RunCancelled, AgentChatQueues,
         AgentChatIdle, AgentChatStarts, DirectRunEnds, StopRequested, Dispatch, Drop, Row,
         StartLoaded, StopRefused, StopLoaded, Cancellable, StopWritten, Merge, RowWritten,
         TypeOK, NotStarted

\* "A stopped/cancelled run never re-loops": an end that a closure has recorded
\* is never changed, by a late completion, a message or another start.
THEOREM EndIsFinalAlways == Spec => EndIsFinal
<1>1. TypeOK /\ ClosureInv /\ [Next]_vars
        => [\A k \in Starts : copy[k].status \in Finished => copy'[k] = copy[k]]_vars
  BY EndStep
<1> QED
  BY <1>1, TypeCorrect, ClosureAlways, PTL DEF Spec, EndIsFinal

-----------------------------------------------------------------------------
(***************************************************************************)
(* Messages.                                                               *)
(***************************************************************************)
Alone(k) == \A j \in Starts \ {k} : copy[j].n = 0

\* A message that was sent is queued, taken, admitted, running, or through.
MessageOK(k) ==
  /\ queue + taken[k] + direct + admitted <= MaxMessages - budget.messages
  /\ queue > 0 /\ copy[k].status = "completed" =>
       MaxMessages - budget.messages > queue + taken[k]

MessageInv == \A k \in Starts : Alone(k) => MessageOK(k)

\* A closure that runs has a numbered run, so that no other start is alone; a
\* start that has run is never unrun.
LEMMA AloneFacts ==
  ASSUME TypeOK, ClosureInv, NEW k \in Starts
  PROVE  /\ Alone(k) => \A j \in Starts \ {k} : ~listening[j] /\ run[j] # "running"
         /\ copy[k].n \in Nat
<1>1. \A j \in Starts : copy[j].n \in Nat
  BY DEF TypeOK, Assignment
<1>2. \A j \in Starts : listening[j] \/ run[j] = "running" => copy[j].n > 0
  BY DEF ClosureInv, NotStarted
<1> QED
  BY <1>1, <1>2 DEF Alone

\* A closure that is alone was alone before: a start is never undone.
LEMMA AloneBefore ==
  ASSUME TypeOK, ClosureInv, [Next]_vars, NEW k \in Starts
  PROVE  /\ copy[k].n > 0 => copy'[k].n > 0
         /\ Alone(k)' => Alone(k)
<1>0. \A j \in Starts : copy[j].n \in Nat
  BY DEF TypeOK, Assignment
<1>1. \A j \in Starts : copy[j].n > 0 => copy'[j].n > 0
  <2>1. ASSUME NEW i \in Starts, StartAssignment(i)
        PROVE  \A j \in Starts : copy[j].n > 0 => copy'[j].n > 0
    BY <2>1 DEF TypeOK, StartAssignment
  <2>2. ASSUME NEW i \in Starts, ContinueWithMessage(i) \/ ContinueAutonomously(i)
        PROVE  \A j \in Starts : copy[j].n > 0 => copy'[j].n > 0
    BY <1>0, <2>2, NextRunChanges DEF ContinueWithMessage, ContinueAutonomously
  <2>3. ASSUME NEW i \in Starts, NEW s, Finish(i, s)
        PROVE  \A j \in Starts : copy[j].n > 0 => copy'[j].n > 0
    BY <2>3, FinishChanges
  <2> QED
    BY <2>1, <2>2, <2>3
       DEF Next, vars, closureVars, StartRequested, RunStep, RunSaving, RunCompletes,
           RunFails, RunResolvesLate, CancelRun, RunCancelled, AgentChatQueues,
           AgentChatIdle, AgentChatStarts, DirectRunEnds, StopRequested, Dispatch, Drop,
           Row, StartLoaded, StopRefused, StopLoaded, StopWritten, Merge, RowWritten
<1>2. \A j \in Starts : copy[j].n # 0 => copy'[j].n # 0
  BY <1>0, <1>1
<1> QED
  BY <1>1, <1>2 DEF Alone

\* Every step keeps the account of the messages.
LEMMA MessageStep ==
  ASSUME TypeOK, ClosureInv, MessageInv, [Next]_vars
  PROVE  MessageInv'
<1> USE AssignmentsAssumption
<1> SUFFICES ASSUME NEW k \in Starts, Alone(k)'
             PROVE  MessageOK(k)'
  BY DEF MessageInv
<1>0. /\ queue \in Nat /\ direct \in Nat /\ admitted \in Nat /\ budget.messages \in Nat
      /\ taken \in [Starts -> Nat] /\ taken[k] \in Nat /\ budget \in Budget
  BY DEF TypeOK, Budget
<1>1. Alone(k) /\ MessageOK(k)
  BY AloneBefore DEF MessageInv
<1>2. /\ \A j \in Starts \ {k} : ~listening[j] /\ run[j] # "running"
      /\ copy[k].status = "completed" => ~listening[k] /\ run[k] # "running"
      /\ listening[k] => copy[k].status = "running"
  BY <1>1, AloneFacts DEF ClosureInv, NotStarted, Reset
<1>3. ASSUME UNCHANGED <<queue, taken, direct, admitted>>, budget'.messages = budget.messages,
             copy'[k].status # "completed" \/ copy'[k].status = copy[k].status \/ queue = 0
      PROVE  MessageOK(k)'
  BY <1>1, <1>3 DEF MessageOK
<1>4. ASSUME NEW i \in Starts, StartAssignment(i) PROVE MessageOK(k)'
  <2>1. copy'[k].status # "completed" \/ copy'[k].status = copy[k].status
    BY <1>4 DEF StartAssignment, TypeOK
  <2> QED
    BY <1>3, <1>4, <2>1 DEF StartAssignment
<1>5. ASSUME NEW i \in Starts, ContinueWithMessage(i) PROVE MessageOK(k)'
  <2>1. i = k /\ copy[k].status = "running"
    BY <1>2, <1>5 DEF ContinueWithMessage, Completes
  <2>2. copy'[k].status = "running"
    BY <1>5, <2>1, NextRunChanges DEF ContinueWithMessage
  <2>3. taken'[k] = taken[k] + 1
    BY <1>0, <1>5, <2>1 DEF ContinueWithMessage
  <2> QED
    BY <1>0, <1>1, <1>5, <2>2, <2>3 DEF MessageOK, ContinueWithMessage
<1>6. ASSUME NEW i \in Starts, ContinueAutonomously(i) PROVE MessageOK(k)'
  BY <1>3, <1>6, NextRunChanges DEF ContinueAutonomously
<1>7. ASSUME NEW i \in Starts, RunCompletes(i) PROVE MessageOK(k)'
  BY <1>3, <1>7 DEF RunCompletes
<1>8. ASSUME NEW i \in Starts, Finish(i, "failed"), UNCHANGED <<queue, taken, direct, admitted>>,
             budget'.messages = budget.messages
      PROVE  MessageOK(k)'
  <2>1. copy'[k].status = IF k = i THEN "failed" ELSE copy[k].status
    BY <1>8, FinishChanges
  <2> QED
    BY <1>3, <1>8, <2>1
<1>9. ASSUME NEW i \in Starts, RunCancelled(i), UNCHANGED <<queue, taken, direct, admitted>>,
             budget'.messages = budget.messages
      PROVE  MessageOK(k)'
  BY <1>3, <1>8, <1>9 DEF RunCancelled
<1>10. ASSUME NEW i \in Starts, CancelRun(i) PROVE MessageOK(k)'
  BY <1>0, <1>9, <1>10 DEF CancelRun, Budget
<1>11. CASE AgentChatQueues
  <2>1. budget'.messages = budget.messages - 1
    BY <1>0, <1>11 DEF AgentChatQueues, Budget
  <2>2. copy[k].status = "completed" => direct > 0
    BY <1>2, <1>11 DEF AgentChatQueues, Active
  <2>3. queue' = queue + 1 /\ UNCHANGED <<copy, taken, direct, admitted>>
    BY <1>11 DEF AgentChatQueues, closureVars
  <2> QED
    BY <1>0, <1>1, <2>1, <2>2, <2>3 DEF MessageOK
<1>12. CASE AgentChatIdle
  <2>1. budget'.messages = budget.messages - 1
    BY <1>0, <1>12 DEF AgentChatIdle, Budget
  <2> QED
    BY <1>0, <1>1, <1>12, <2>1 DEF MessageOK, AgentChatIdle, closureVars
<1>13. CASE AgentChatStarts \/ DirectRunEnds
  BY <1>0, <1>1, <1>13 DEF MessageOK, AgentChatStarts, DirectRunEnds, closureVars
<1>14. CASE StopRequested \/ Drop
  BY <1>0, <1>3, <1>14 DEF StopRequested, Drop, Budget, closureVars
<1>15. CASE StopLoaded
  BY <1>3, <1>9, <1>15 DEF StopLoaded
<1>16. CASE UNCHANGED <<copy, taken, queue, direct, admitted, budget>>
  BY <1>3, <1>16
<1> QED
  BY <1>4, <1>5, <1>6, <1>7, <1>8, <1>10, <1>11, <1>12, <1>13, <1>14, <1>15, <1>16
     DEF Next, vars, closureVars, StartRequested, RunStep, RunSaving, RunFails,
         RunResolvesLate, Dispatch, Row, StartLoaded, StopRefused, StopWritten, Merge,
         RowWritten

\* With a single start, a message that is still queued after the closure has
\* stopped listening was left there by a failure or a cancel, or arrived behind
\* a run that the agent-chat route had started itself.
THEOREM MessagesAreTaken == Spec => []MessagesTaken
<1>1. Init => MessageInv
  <2> SUFFICES ASSUME Init, NEW k \in Starts PROVE MessageOK(k)
    BY DEF MessageInv
  <2> QED
    BY AssignmentsAssumption DEF Init, MessageOK
<1>2. TypeOK /\ ClosureInv /\ MessageInv /\ [Next]_vars => MessageInv'
  BY MessageStep
<1>3. TypeOK /\ ClosureInv /\ MessageInv => MessagesTaken
  <2> SUFFICES ASSUME TypeOK, ClosureInv, MessageInv, NEW k \in Starts,
                      queue > 0, copy[k].n > 0, ~listening[k], Alone(k)
               PROVE  \/ copy[k].status = "failed"
                      \/ MaxMessages - budget.messages > queue + taken[k]
    BY DEF MessagesTaken, Alone
  <2>1. copy[k].status \in {"completed", "failed"}
    <3>1. run[k] \notin NotStarted /\ copy[k].status \in Status
      BY DEF ClosureInv, TypeOK, Assignment, Reset
    <3> QED
      BY <3>1 DEF ClosureInv, Status
  <2> QED
    BY <2>1 DEF MessageInv, MessageOK
<1> QED
  BY <1>1, <1>2, <1>3, TypeCorrect, ClosureAlways, PTL DEF Spec

-----------------------------------------------------------------------------
(***************************************************************************)
(* The row.                                                                *)
(***************************************************************************)
Carries(q) == q.op \in {"readToMerge", "write"}
IsFinal(a) == a.status \in Finished

\* As long as nobody has called Stop, there is no trace of it.
StopUnused ==
  stop = "idle" =>
    /\ \A q \in Items(requests) :
         /\ q.op \notin {"readToStop", "writeStopped"}
         /\ Carries(q) => q.value.by # Nobody
    /\ Nobody \notin Items(bridge)

\* What is recorded under a start's name comes from a closure that has been
\* started, and an end is the end of that closure (c: the closures' copies).
From(c, a) ==
  /\ a.by # Nobody => c[a.by].n > 0
  /\ IsFinal(a) => a.by # Nobody /\ a = c[a.by]

Sent     == \A e \in Items(bridge) : e # Nobody => copy[e].n > 0
Recorded == \A q \in Items(requests) : From(copy, q.value)

Provenance == Sent /\ Recorded /\ From(copy, stored)

\* A single start, and nothing has interfered with its updates.
Undisturbed(k) == stop = "idle" /\ budget.drops = MaxDrops /\ Alone(k)

\* The end is under way, or it has arrived.
EndComes ==
  \/ bridge # <<>>
  \/ \E q \in Items(requests) : Carries(q) /\ IsFinal(q.value)
  \/ IsFinal(stored)

\* In the requests s, nothing older follows a final one of the same operation.
Ordered(s, op) ==
  \A i \in 1..Len(s), j \in 1..Len(s) :
    i < j /\ s[i].op = op /\ IsFinal(s[i].value) /\ s[j].op = op => IsFinal(s[j].value)

\* Nothing older is left to be merged once the final update is being written.
ReadsBeforeWrites(s) ==
  \A p \in Items(s), q \in Items(s) :
    p.op = "write" /\ IsFinal(p.value) /\ q.op = "readToMerge" => IsFinal(q.value)

\* A row a with an end is not overwritten by an older update.
RowStays(s, a) ==
  IsFinal(a) => \A q \in Items(s) : q.op = "write" => IsFinal(q.value)

RowOK(s, a) ==
  /\ Ordered(s, "readToMerge")
  /\ Ordered(s, "write")
  /\ ReadsBeforeWrites(s)
  /\ RowStays(s, a)

RowInv ==
  \A k \in Starts :
    Undisturbed(k) => RowOK(requests, stored) /\ (IsFinal(copy[k]) => EndComes)

DropsInv == budget.drops <= MaxDrops

\* Answering the first request keeps the order; if it was a final one, all
\* requests of the same operation that follow are final.
LEMMA OrderedTail ==
  ASSUME NEW s \in Seq(Request), s # <<>>, NEW op, Ordered(s, op)
  PROVE  /\ Ordered(Tail(s), op)
         /\ Head(s).op = op /\ IsFinal(Head(s).value) =>
              \A q \in Items(Tail(s)) : q.op = op => IsFinal(q.value)
<1>1. /\ DOMAIN Tail(s) = 1..(Len(s) - 1) /\ Len(Tail(s)) = Len(s) - 1
      /\ Len(s) \in Nat \ {0} /\ Head(s) = s[1]
      /\ \A i \in 1..Len(s) - 1 : Tail(s)[i] = s[i + 1]
  BY TailFacts
<1>2. Ordered(Tail(s), op)
  BY <1>1 DEF Ordered
<1>3. ASSUME Head(s).op = op, IsFinal(Head(s).value), NEW i \in 1..(Len(s) - 1),
             Tail(s)[i].op = op
      PROVE  IsFinal(Tail(s)[i].value)
  BY <1>1, <1>3 DEF Ordered
<1> QED
  BY <1>1, <1>2, <1>3 DEF Items

\* A request issued last keeps the order if it is of another operation, if it
\* is final, or if no final one is pending.
LEMMA OrderedAppend ==
  ASSUME NEW s \in Seq(Request), NEW e \in Request, NEW op, Ordered(s, op),
         \/ e.op # op \/ IsFinal(e.value)
         \/ \A q \in Items(s) : q.op = op => ~IsFinal(q.value)
  PROVE  Ordered(Append(s, e), op)
<1>1. /\ DOMAIN s = 1..Len(s) /\ Len(s) \in Nat /\ Len(Append(s, e)) = Len(s) + 1
      /\ \A i \in 1..Len(s) : Append(s, e)[i] = s[i]
      /\ Append(s, e)[Len(s) + 1] = e
  BY AppendFacts
<1>2. \A i \in 1..Len(s) : s[i] \in Items(s)
  BY <1>1 DEF Items
<1> QED
  BY <1>1, <1>2 DEF Ordered

\* What is recorded stays true: a started closure stays started, and an end is
\* final.
LEMMA FromKept ==
  ASSUME TypeOK, ClosureInv, [Next]_vars, NEW a \in Assignment, From(copy, a)
  PROVE  From(copy', a)
<1>1. a.by # Nobody => a.by \in Starts
  BY DEF Assignment
<1>2. a.by # Nobody => copy'[a.by].n > 0
  BY <1>1, AloneBefore DEF From
<1>3. IsFinal(a) => a.by # Nobody /\ copy[a.by].status \in Finished /\ a = copy[a.by]
  BY DEF From, IsFinal
<1>4. IsFinal(a) => a = copy'[a.by]
  BY <1>1, <1>3, EndStep
<1> QED
  BY <1>2, <1>3, <1>4 DEF From

\* What the closures write down, and the reset of the stop route.
LEMMA FromClosure ==
  ASSUME TypeOK, ClosureInv, NEW e \in Starts, copy[e].n > 0
  PROVE  From(copy, copy[e]) /\ copy[e].by = e
<1>1. copy[e].by = e
  BY DEF ClosureInv, Reset, NotStarted
<1> QED
  BY <1>1, AssignmentsAssumption DEF From

\* The reset of the stop route comes from no closure and ends nothing.
LEMMA FromReset == From(copy, Reset) /\ From(copy', Reset) /\ ~IsFinal(Reset)
  BY DEF From, Reset, IsFinal, Finished

\* Merging an update into the row keeps what is recorded true.
LEMMA FromMerged ==
  ASSUME NEW a \in Assignment, stored \in Assignment, From(copy, a), From(copy, stored)
  PROVE  From(copy, Merged(a)) /\ (a.by # Nobody => Merged(a) = a)
<1>1. CASE a.by # Nobody
  BY <1>1 DEF Merged
<1>2. CASE a.by = Nobody
  <2>1. /\ Merged(a).by = stored.by /\ Merged(a).status = a.status
    BY <1>2 DEF Merged, Assignment
  <2> QED
    BY <1>2, <2>1 DEF From, IsFinal
<1> QED
  BY <1>1, <1>2

\* Every step keeps the provenance of what travels and of what is stored.
LEMMA ProvenanceStep ==
  ASSUME TypeOK, ClosureInv, ClosureInv', Provenance, [Next]_vars
  PROVE  Provenance'
<1> USE AssignmentsAssumption
<1>0. /\ requests \in Seq(Request) /\ bridge \in Seq(Event) /\ stored \in Assignment
      /\ Items(requests) \subseteq Request /\ Items(bridge) \subseteq Event
      /\ \A q \in Request : q.value \in Assignment
  <2>1. \A S : \A s \in Seq(S) : Items(s) \subseteq S
    BY DEF Items
  <2>2. \A q \in Request : q.value \in Assignment
    BY DEF Request
  <2> QED
    BY <2>1, <2>2 DEF TypeOK
<1>1. /\ \A a \in Assignment : From(copy, a) => From(copy', a)
      /\ \A e \in Starts : copy[e].n > 0 => copy'[e].n > 0
  BY FromKept, AloneBefore
<1>2. /\ \A e \in Items(bridge) : e # Nobody => copy'[e].n > 0
      /\ \A q \in Items(requests) : From(copy', q.value)
      /\ From(copy', stored)
  BY <1>0, <1>1 DEF Provenance, Sent, Recorded, Event
<1>3. ASSUME UNCHANGED bridge PROVE Sent'
  BY <1>2, <1>3 DEF Sent
<1>4. ASSUME NEW k \in Starts, Emit(k), run'[k] \notin NotStarted PROVE Sent'
  <2>1. copy'[k].n > 0
    BY <1>4 DEF ClosureInv
  <2>2. Items(bridge') = Items(bridge) \cup {k}
    BY <1>0, <1>4, AppendItems DEF Emit, Event
  <2> QED
    BY <1>2, <2>1, <2>2 DEF Sent
<1>5. ASSUME Emit(Nobody) PROVE Sent'
  <2>1. Items(bridge') = Items(bridge) \cup {Nobody}
    BY <1>0, <1>5, AppendItems DEF Emit, Event
  <2> QED
    BY <1>2, <2>1 DEF Sent
<1>6. ASSUME bridge # <<>>, bridge' = Tail(bridge) PROVE Sent'
  BY <1>0, <1>2, <1>6, TailItems DEF Sent
<1>7. ASSUME UNCHANGED requests PROVE Recorded'
  BY <1>2, <1>7 DEF Recorded
<1>8. ASSUME NEW q \in Request, From(copy', q.value), requests' = Append(requests, q)
      PROVE  Recorded'
  <2>1. Items(requests') = Items(requests) \cup {q}
    BY <1>0, <1>8, AppendItems
  <2> QED
    BY <1>2, <1>8, <2>1 DEF Recorded
<1>9. ASSUME requests # <<>>, requests' = Tail(requests) PROVE Recorded'
  BY <1>0, <1>2, <1>9, TailItems DEF Recorded
<1>10. ASSUME requests # <<>>, NEW q \in Request, From(copy', q.value),
              requests' = Append(Tail(requests), q)
       PROVE  Recorded'
  <2>1. Tail(requests) \in Seq(Request) /\ Items(Tail(requests)) \subseteq Items(requests)
    BY <1>0, <1>10, TailFacts, TailItems
  <2>2. Items(requests') = Items(Tail(requests)) \cup {q}
    BY <1>0, <1>10, TurnItems
  <2> QED
    BY <1>2, <1>10, <2>1, <2>2 DEF Recorded
<1>11. ASSUME NEW op, Serve(op)
       PROVE  /\ requests # <<>> /\ Head(requests) \in Request
              /\ Head(requests).value \in Assignment
              /\ From(copy, Head(requests).value) /\ From(copy', Head(requests).value)
  BY <1>0, <1>2, <1>11, TailItems, TailFacts DEF Serve, Provenance, Recorded
<1>12. ASSUME NEW k \in Starts, StartRequested(k) PROVE Provenance'
  <2>1. ReadToStart(k) \in Request /\ From(copy', ReadToStart(k).value)
    BY RequestTypes, FromReset DEF ReadToStart
  <2> QED
    BY <1>2, <1>3, <1>8, <1>12, <2>1 DEF StartRequested, Provenance
<1>13. ASSUME NEW k \in Starts, StartAssignment(k) PROVE Provenance'
  <2> DEFINE a == [status |-> "running", by |-> k, n |-> 1]
  <2>1. a \in Assignment /\ copy'[k] = a /\ run'[k] = "running"
    BY <1>13 DEF Assignment, Status, StartAssignment, TypeOK
  <2>2. From(copy', a)
    BY <2>1 DEF From, IsFinal, Finished
  <2>3. Write("write", k, a) \in Request /\ Write("write", k, a).value = a
    BY <2>1, RequestTypes DEF Write
  <2>4. Sent' /\ Recorded'
    BY <1>4, <1>8, <1>13, <2>1, <2>2, <2>3 DEF StartAssignment, NotStarted
  <2> QED
    BY <1>2, <1>13, <2>4 DEF StartAssignment, Provenance
<1>14. ASSUME NEW k \in Starts, RunStep(k) PROVE Provenance'
  <2>1. UNCHANGED <<requests, stored>>
    BY <1>14 DEF RunStep, RunSaving, ContinueWithMessage, ContinueAutonomously,
       RunCompletes, RunFails, RunResolvesLate
  <2>2. UNCHANGED bridge \/ (Emit(k) /\ run'[k] \notin NotStarted)
    BY <1>14 DEF RunStep, RunSaving, ContinueWithMessage, ContinueAutonomously, NextRun,
       RunCompletes, RunFails, Finish, RunResolvesLate, NotStarted, TypeOK
  <2> QED
    BY <1>2, <1>3, <1>4, <1>7, <2>1, <2>2 DEF Provenance
<1>15. ASSUME NEW k \in Starts, RunCancelled(k) PROVE Sent'
  <2>1. UNCHANGED bridge \/ (Emit(k) /\ run'[k] \notin NotStarted)
    BY <1>15 DEF RunCancelled, Finish, NotStarted, TypeOK
  <2> QED
    BY <1>3, <1>4, <2>1
<1>16. ASSUME NEW k \in Starts, CancelRun(k) PROVE Provenance'
  BY <1>2, <1>7, <1>15, <1>16 DEF CancelRun, Provenance
<1>17. CASE StopRequested
  <2>1. ReadToStop \in Request /\ From(copy', ReadToStop.value)
    BY RequestTypes, FromReset DEF ReadToStop
  <2> QED
    BY <1>2, <1>3, <1>8, <1>17, <2>1 DEF StopRequested, Provenance
<1>18. CASE Dispatch
  <2> DEFINE a == IF Head(bridge) = Nobody THEN Reset ELSE copy[Head(bridge)]
  <2>1. Head(bridge) \in Event /\ (Head(bridge) # Nobody => copy[Head(bridge)].n > 0)
    BY <1>0, <1>18, TailFacts, TailItems DEF Dispatch, Provenance, Sent
  <2>2. a \in Assignment
    BY <2>1, RequestTypes DEF TypeOK, Event
  <2>3. From(copy', a)
    BY <1>1, <2>1, <2>2, FromClosure, FromReset DEF Event
  <2>4. ReadToMerge(a) \in Request /\ ReadToMerge(a).value = a
    BY <2>2, RequestTypes DEF ReadToMerge
  <2>5. Recorded'
    BY <1>8, <1>18, <2>3, <2>4 DEF Dispatch
  <2> QED
    BY <1>2, <1>6, <1>18, <2>5 DEF Dispatch, Provenance
<1>19. CASE Drop
  BY <1>2, <1>6, <1>7, <1>19 DEF Drop, Provenance
<1>20. CASE StartLoaded
  BY <1>2, <1>3, <1>9, <1>11, <1>20 DEF StartLoaded, Provenance
<1>21. CASE StopRefused
  BY <1>2, <1>3, <1>9, <1>11, <1>21 DEF StopRefused, Provenance
<1>22. CASE StopLoaded
  <2>1. Write("writeStopped", Nobody, Reset) \in Request
        /\ From(copy', Write("writeStopped", Nobody, Reset).value)
    BY RequestTypes, FromReset DEF Write
  <2>2. Recorded'
    BY <1>10, <1>11, <1>22, <2>1 DEF StopLoaded
  <2> QED
    BY <1>2, <1>3, <1>15, <1>22, <2>2 DEF StopLoaded, Provenance
<1>23. CASE StopWritten
  BY <1>5, <1>9, <1>11, <1>23 DEF StopWritten, Provenance
<1>24. CASE Merge
  <2> DEFINE a == Merged(Head(requests).value)
  <2>1. a \in Assignment
    BY <1>0, <1>11, <1>24 DEF Merge, Merged, Assignment
  <2>2. From(copy', a)
    BY <1>0, <1>1, <1>11, <1>24, <2>1, FromMerged DEF Merge, Provenance
  <2>3. Write("write", Nobody, a) \in Request /\ Write("write", Nobody, a).value = a
    BY <2>1, RequestTypes DEF Write
  <2>4. Recorded'
    BY <1>9, <1>10, <1>11, <1>24, <2>2, <2>3 DEF Merge
  <2> QED
    BY <1>2, <1>3, <1>24, <2>4 DEF Merge, Provenance
<1>25. CASE RowWritten
  BY <1>3, <1>9, <1>11, <1>25 DEF RowWritten, Provenance
<1>26. CASE UNCHANGED <<requests, bridge, stored>>
  BY <1>2, <1>3, <1>7, <1>26 DEF Provenance
<1> QED
  BY <1>12, <1>13, <1>14, <1>16, <1>17, <1>18, <1>19, <1>20, <1>21, <1>22, <1>23, <1>24,
     <1>25, <1>26
     DEF Next, vars, AgentChatQueues, AgentChatIdle, AgentChatStarts, DirectRunEnds, Row

\* Every step keeps it: without a call of Stop there is no trace of one.
LEMMA StopUnusedStep ==
  ASSUME TypeOK, ClosureInv, Provenance, StopUnused, [Next]_vars
  PROVE  StopUnused'
<1> USE AssignmentsAssumption
<1> DEFINE Clean(q) == /\ q.op \notin {"readToStop", "writeStopped"}
                       /\ Carries(q) => q.value.by # Nobody
<1>0. requests \in Seq(Request) /\ bridge \in Seq(Event) /\ stored \in Assignment
  BY DEF TypeOK
<1> SUFFICES ASSUME stop' = "idle"
             PROVE  (\A q \in Items(requests') : Clean(q)) /\ Nobody \notin Items(bridge')
  BY DEF StopUnused, Carries
<1>1. stop = "idle" /\ ~StopRequested /\ ~StopRefused /\ ~StopLoaded /\ ~StopWritten
  BY DEF Next, vars, closureVars, StartRequested, StartAssignment, RunStep, RunSaving,
     ContinueWithMessage, ContinueAutonomously, RunCompletes, RunFails, RunResolvesLate,
     CancelRun, AgentChatQueues, AgentChatIdle, AgentChatStarts, DirectRunEnds,
     StopRequested, Dispatch, Drop, Row, StartLoaded, StopRefused, StopLoaded, StopWritten,
     Merge, RowWritten
<1>2. (\A q \in Items(requests) : Clean(q)) /\ Nobody \notin Items(bridge)
  BY <1>1 DEF StopUnused, Carries
<1> HIDE DEF Clean
<1>3. ASSUME NEW k \in Starts, Emit(k) PROVE Nobody \notin Items(bridge')
  <2>1. Items(bridge') = Items(bridge) \cup {k}
    BY <1>0, <1>3, AppendItems DEF Emit, Event
  <2> QED
    BY <1>2, <2>1
<1>4. ASSUME NEW q \in Request, Clean(q), requests' = Append(requests, q)
      PROVE  \A p \in Items(requests') : Clean(p)
  <2>1. Items(requests') = Items(requests) \cup {q}
    BY <1>0, <1>4, AppendItems
  <2> QED
    BY <1>2, <1>4, <2>1
<1>5. ASSUME requests # <<>>
      PROVE  /\ \A p \in Items(Tail(requests)) : Clean(p)
             /\ Clean(Head(requests)) /\ Head(requests) \in Request
  BY <1>0, <1>2, <1>5, TailItems, TailFacts
<1>6. ASSUME NEW k \in Starts, StartRequested(k)
      PROVE  (\A q \in Items(requests') : Clean(q)) /\ Nobody \notin Items(bridge')
  <2>1. ReadToStart(k) \in Request /\ Clean(ReadToStart(k))
    BY RequestTypes DEF ReadToStart, Clean, Carries
  <2> QED
    BY <1>2, <1>4, <1>6, <2>1 DEF StartRequested
<1>7. ASSUME NEW k \in Starts, StartAssignment(k)
      PROVE  (\A q \in Items(requests') : Clean(q)) /\ Nobody \notin Items(bridge')
  <2> DEFINE a == [status |-> "running", by |-> k, n |-> 1]
  <2>1. a \in Assignment /\ a.by # Nobody
    BY DEF Assignment, Status
  <2>2. Write("write", k, a) \in Request /\ Clean(Write("write", k, a))
    BY <2>1, RequestTypes DEF Write, Clean, Carries
  <2> QED
    BY <1>3, <1>4, <1>7, <2>2 DEF StartAssignment
<1>8. ASSUME NEW k \in Starts, RunStep(k) \/ CancelRun(k)
      PROVE  (\A q \in Items(requests') : Clean(q)) /\ Nobody \notin Items(bridge')
  <2>1. UNCHANGED requests /\ (UNCHANGED bridge \/ Emit(k))
    BY <1>8 DEF RunStep, RunSaving, ContinueWithMessage, ContinueAutonomously,
       RunCompletes, RunFails, RunResolvesLate, CancelRun, RunCancelled, Finish
  <2> QED
    BY <1>2, <1>3, <2>1
<1>9. CASE Dispatch
  <2>1. /\ Head(bridge) \in Starts /\ copy[Head(bridge)].n > 0
        /\ Items(Tail(bridge)) \subseteq Items(bridge)
    BY <1>0, <1>2, <1>9, TailFacts, TailItems DEF Dispatch, Provenance, Sent, Event
  <2> DEFINE a == copy[Head(bridge)]
  <2>2. a \in Assignment /\ a.by # Nobody
    BY <2>1, FromClosure DEF TypeOK
  <2>3. ReadToMerge(a) \in Request /\ Clean(ReadToMerge(a))
    BY <2>2, RequestTypes DEF ReadToMerge, Clean, Carries
  <2>4. requests' = Append(requests, ReadToMerge(a)) /\ bridge' = Tail(bridge)
    BY <1>9, <2>1 DEF Dispatch
  <2> HIDE DEF a
  <2> QED
    BY <1>2, <1>4, <2>1, <2>3, <2>4
<1>10. CASE Drop
  BY <1>0, <1>2, <1>10, TailItems DEF Drop
<1>11. CASE StartLoaded \/ RowWritten
  BY <1>2, <1>5, <1>11 DEF StartLoaded, RowWritten, Serve
<1>12. CASE Merge
  <2> DEFINE a == Head(requests).value
  <2>1. requests # <<>> /\ Head(requests).op = "readToMerge"
    BY <1>12 DEF Merge, Serve
  <2>2. a \in Assignment /\ a.by # Nobody
    BY <1>5, <2>1 DEF Clean, Carries, Request
  <2>3. Write("write", Nobody, a) \in Request /\ Clean(Write("write", Nobody, a))
    BY <2>2, RequestTypes DEF Write, Clean, Carries
  <2>4. Merged(a) = a
    BY <2>2 DEF Merged
  <2>5. UNCHANGED bridge /\ (\/ requests' = Tail(requests)
                            \/ requests' = Append(Tail(requests), Write("write", Nobody, a)))
    BY <1>12, <2>4 DEF Merge
  <2> HIDE DEF a
  <2>6. Items(Append(Tail(requests), Write("write", Nobody, a)))
          = Items(Tail(requests)) \cup {Write("write", Nobody, a)}
    BY <1>0, <2>1, <2>3, TurnItems
  <2> QED
    BY <1>2, <1>5, <2>1, <2>3, <2>5, <2>6
<1>13. CASE UNCHANGED <<requests, bridge>>
  BY <1>2, <1>13
<1> QED
  BY <1>1, <1>6, <1>7, <1>8, <1>9, <1>10, <1>11, <1>12, <1>13
     DEF Next, vars, AgentChatQueues, AgentChatIdle, AgentChatStarts, DirectRunEnds, Row

\* Notifications that were dropped are never given back.
LEMMA DropsStep ==
  ASSUME TypeOK, DropsInv, [Next]_vars
  PROVE  DropsInv' /\ (Drop \/ budget'.drops = budget.drops) /\ (Drop => budget'.drops # MaxDrops)
<1>0. budget \in Budget /\ budget.drops \in Nat /\ MaxDrops \in Nat
  BY AssignmentsAssumption DEF TypeOK, Budget
<1>1. CASE Drop
  <2>1. budget'.drops = budget.drops - 1
    BY <1>0, <1>1 DEF Drop, Budget
  <2> QED
    BY <1>0, <1>1, <2>1 DEF DropsInv
<1>2. CASE ~Drop
  <2>1. budget'.drops = budget.drops
    BY <1>0, <1>2
       DEF Next, vars, closureVars, StartRequested, StartAssignment, RunStep, RunSaving,
           ContinueWithMessage, ContinueAutonomously, RunCompletes, RunFails,
           RunResolvesLate, CancelRun, AgentChatQueues, AgentChatIdle, AgentChatStarts,
           DirectRunEnds, StopRequested, Dispatch, Row, StartLoaded, StopRefused,
           StopLoaded, StopWritten, Merge, RowWritten, Budget
  <2> QED
    BY <1>2, <2>1 DEF DropsInv
<1> QED
  BY <1>1, <1>2

\* With one start only, an end that is recorded anywhere is that start's: while
\* it has none, the order of the requests does not matter.
LEMMA NothingFinal ==
  ASSUME NEW c, NEW a \in Assignment, NEW s \in Seq(Request), NEW k \in Starts,
         \A j \in Starts \ {k} : c[j].n = 0, ~IsFinal(c[k]),
         From(c, a), \A q \in Items(s) : From(c, q.value)
  PROVE  /\ ~IsFinal(a) /\ \A q \in Items(s) : ~IsFinal(q.value)
         /\ RowOK(s, a)
<1>1. ASSUME NEW v \in Assignment, From(c, v) PROVE ~IsFinal(v)
  <2> SUFFICES ASSUME IsFinal(v) PROVE FALSE
    OBVIOUS
  <2>1. v.by \in Starts /\ v = c[v.by] /\ c[v.by].n > 0
    BY <1>1 DEF From, Assignment
  <2>2. v.by = k
    BY <2>1
  <2> QED
    BY <2>1, <2>2
<1>2. ASSUME NEW q \in Items(s) PROVE q.value \in Assignment
  <2>1. q \in Request
    BY DEF Items
  <2> QED
    BY <2>1 DEF Request
<1>3. \A i \in 1..Len(s) : s[i] \in Items(s)
  BY DEF Items
<1>4. ~IsFinal(a) /\ \A q \in Items(s) : ~IsFinal(q.value)
  BY <1>1, <1>2
<1> QED
  BY <1>3, <1>4 DEF RowOK, Ordered, ReadsBeforeWrites, RowStays

\* Every step keeps the order of the updates of an undisturbed start.
LEMMA RowStep ==
  ASSUME TypeOK, TypeOK', ClosureInv, Provenance, Provenance', StopUnused,
         DropsInv, RowInv, [Next]_vars
  PROVE  RowInv'
<1> USE AssignmentsAssumption
<1> DEFINE Goal(i) == RowOK(requests', stored') /\ (IsFinal(copy'[i]) => EndComes')
<1> SUFFICES ASSUME NEW k \in Starts, Undisturbed(k)'
             PROVE  Goal(k)
  BY DEF RowInv
<1>0. /\ requests \in Seq(Request) /\ bridge \in Seq(Event) /\ stored \in Assignment
      /\ requests' \in Seq(Request) /\ stored' \in Assignment
      /\ Items(requests) \subseteq Request
  BY DEF TypeOK, Items
<1>1. stop = "idle" /\ ~StopRequested /\ ~StopRefused /\ ~StopLoaded /\ ~StopWritten
  BY DEF Undisturbed, Next, vars, closureVars, StartRequested, StartAssignment, RunStep,
     RunSaving, ContinueWithMessage, ContinueAutonomously, RunCompletes, RunFails,
     RunResolvesLate, CancelRun, AgentChatQueues, AgentChatIdle, AgentChatStarts,
     DirectRunEnds, StopRequested, Dispatch, Drop, Row, StartLoaded, StopRefused,
     StopLoaded, StopWritten, Merge, RowWritten
<1>2. budget.drops = MaxDrops /\ ~Drop
  BY DropsStep DEF Undisturbed
<1>3. Alone(k) /\ \A j \in Starts \ {k} : copy'[j].n = 0
  BY AloneBefore DEF Undisturbed, Alone
<1>4. /\ RowOK(requests, stored) /\ (IsFinal(copy[k]) => EndComes)
      /\ Ordered(requests, "readToMerge") /\ Ordered(requests, "write")
      /\ ReadsBeforeWrites(requests) /\ RowStays(requests, stored)
  BY <1>1, <1>2, <1>3 DEF RowInv, RowOK, Undisturbed
<1>5. ASSUME ~IsFinal(copy'[k]) PROVE Goal(k)
  <2>1. From(copy', stored') /\ \A q \in Items(requests') : From(copy', q.value)
    BY DEF Provenance, Recorded
  <2>2. RowOK(requests', stored')
    BY <1>0, <1>3, <1>5, <2>1, NothingFinal
  <2> QED
    BY <1>5, <2>2
<1>6. ASSUME UNCHANGED <<requests, stored>>,
             UNCHANGED <<copy, bridge>> \/ \E j \in Starts : Emit(j)
      PROVE  Goal(k)
  <2>1. CASE UNCHANGED <<copy, bridge>>
    BY <1>4, <1>6, <2>1 DEF EndComes
  <2>2. CASE \E j \in Starts : Emit(j)
    <3>1. bridge' # <<>>
      BY <1>0, <2>2, AppendFacts DEF Emit, Event
    <3> QED
      BY <1>4, <1>6, <3>1 DEF EndComes
  <2> QED
    BY <1>6, <2>1, <2>2
<1>7. ASSUME requests # <<>>
      PROVE  /\ Tail(requests) \in Seq(Request) /\ Head(requests) \in Request
             /\ Items(requests) = Items(Tail(requests)) \cup {Head(requests)}
             /\ Ordered(Tail(requests), "readToMerge") /\ Ordered(Tail(requests), "write")
             /\ ReadsBeforeWrites(Tail(requests)) /\ RowStays(Tail(requests), stored)
             /\ \A op : Head(requests).op = op /\ IsFinal(Head(requests).value)
                         /\ op \in {"readToMerge", "write"}
                  => \A q \in Items(Tail(requests)) : q.op = op => IsFinal(q.value)
  <2>1. /\ Tail(requests) \in Seq(Request) /\ Head(requests) \in Request
        /\ Items(requests) = Items(Tail(requests)) \cup {Head(requests)}
    BY <1>0, <1>7, TailFacts, TailItems
  <2>2. /\ Ordered(Tail(requests), "readToMerge") /\ Ordered(Tail(requests), "write")
        /\ \A op : Head(requests).op = op /\ IsFinal(Head(requests).value)
                         /\ op \in {"readToMerge", "write"}
                  => \A q \in Items(Tail(requests)) : q.op = op => IsFinal(q.value)
    BY <1>0, <1>4, <1>7, OrderedTail
  <2>3. ReadsBeforeWrites(Tail(requests)) /\ RowStays(Tail(requests), stored)
    BY <1>4, <2>1 DEF ReadsBeforeWrites, RowStays
  <2> QED
    BY <2>1, <2>2, <2>3
<1>8. ASSUME NEW j \in Starts, StartRequested(j) PROVE Goal(k)
  <2> DEFINE e == ReadToStart(j)
  <2>1. e \in Request /\ e.op = "readToStart" /\ requests' = Append(requests, e)
    BY <1>8, RequestTypes DEF StartRequested, ReadToStart
  <2> HIDE DEF e
  <2>2. Items(requests') = Items(requests) \cup {e}
    BY <1>0, <2>1, AppendItems
  <2>3. Ordered(requests', "readToMerge") /\ Ordered(requests', "write")
    BY <1>0, <1>4, <2>1, OrderedAppend
  <2>4. RowOK(requests', stored)
    BY <1>4, <2>1, <2>2, <2>3 DEF RowOK, ReadsBeforeWrites, RowStays
  <2> QED
    BY <1>4, <1>8, <2>2, <2>4 DEF StartRequested, EndComes
<1>9. CASE StartLoaded
  <2>1. /\ requests # <<>> /\ ~Carries(Head(requests)) /\ requests' = Tail(requests)
        /\ UNCHANGED <<stored, bridge, copy>>
    BY <1>9 DEF StartLoaded, Serve, Carries
  <2>2. RowOK(requests', stored')
    BY <1>7, <2>1 DEF RowOK
  <2> QED
    BY <1>4, <1>7, <2>1, <2>2 DEF EndComes
<1>10. ASSUME NEW j \in Starts, StartAssignment(j) PROVE Goal(k)
  <2>1. copy'[j] = [status |-> "running", by |-> j, n |-> 1]
    BY <1>10 DEF StartAssignment, TypeOK
  <2>2. j = k
    BY <1>3, <2>1
  <2> QED
    BY <1>5, <2>1, <2>2 DEF IsFinal, Finished
<1>11. ASSUME NEW j \in Starts, RunStep(j) \/ CancelRun(j) PROVE Goal(k)
  <2>1. /\ UNCHANGED <<requests, stored>>
        /\ UNCHANGED <<copy, bridge>> \/ Emit(j)
    BY <1>11 DEF RunStep, RunSaving, ContinueWithMessage, ContinueAutonomously,
       RunCompletes, RunFails, RunResolvesLate, CancelRun, RunCancelled, Finish
  <2> QED
    BY <1>6, <2>1
<1>12. CASE Dispatch
  <2>1. CASE ~IsFinal(copy[k])
    BY <1>5, <1>12, <2>1 DEF Dispatch, closureVars
  <2>2. CASE IsFinal(copy[k])
    <3>1. Head(bridge) \in Starts /\ copy[Head(bridge)].n > 0
      BY <1>0, <1>1, <1>12, TailFacts, TailItems
         DEF Dispatch, Provenance, Sent, Event, StopUnused
    <3>2. Head(bridge) = k
      BY <1>3, <3>1 DEF Alone
    <3> DEFINE e == ReadToMerge(copy[k])
    <3>3. /\ requests' = Append(requests, e) /\ UNCHANGED <<stored, copy>>
          /\ e \in Request /\ e.op = "readToMerge" /\ e.value = copy[k]
      BY <1>12, <3>2, RequestTypes DEF Dispatch, closureVars, ReadToMerge, TypeOK
    <3> HIDE DEF e
    <3>4. Items(requests') = Items(requests) \cup {e}
      BY <1>0, <3>3, AppendItems
    <3>5. Ordered(requests', "readToMerge") /\ Ordered(requests', "write")
      BY <1>0, <1>4, <2>2, <3>3, OrderedAppend
    <3>6. RowOK(requests', stored')
      BY <1>4, <2>2, <3>3, <3>4, <3>5 DEF RowOK, ReadsBeforeWrites, RowStays
    <3>7. Carries(e) /\ IsFinal(e.value) /\ e \in Items(requests')
      BY <2>2, <3>3, <3>4 DEF Carries
    <3> QED
      BY <3>6, <3>7 DEF EndComes
  <2> QED
    BY <2>1, <2>2
<1>13. CASE Merge
  <2> DEFINE a == Head(requests).value
  <2>1. /\ requests # <<>> /\ Head(requests).op = "readToMerge" /\ Carries(Head(requests))
        /\ UNCHANGED <<stored, copy, bridge>>
    BY <1>13 DEF Merge, Serve, Carries, closureVars
  <2>2. a \in Assignment /\ Merged(a) = a
    BY <1>1, <1>7, <2>1 DEF StopUnused, Merged, Request
  <2>3. CASE IsFinal(stored)
    <3>1. requests' = Tail(requests)
      BY <1>13, <2>3 DEF Merge, IsFinal
    <3>2. RowOK(requests', stored')
      BY <1>7, <2>1, <3>1 DEF RowOK
    <3> QED
      BY <2>1, <2>3, <3>2 DEF EndComes
  <2>4. CASE ~IsFinal(stored)
    <3> DEFINE e == Write("write", Nobody, a)
               t == Tail(requests)
    <3>1. /\ requests' = Append(t, e)
          /\ e \in Request /\ e.op = "write" /\ e.value = a /\ Carries(e)
      BY <1>13, <2>2, <2>4, RequestTypes DEF Merge, IsFinal, Write, Carries
    <3>2. Items(requests') = Items(t) \cup {e}
      BY <1>0, <2>1, <3>1, TurnItems
    <3>3. /\ t \in Seq(Request) /\ Items(requests) = Items(t) \cup {Head(requests)}
          /\ Ordered(t, "readToMerge") /\ Ordered(t, "write") /\ ReadsBeforeWrites(t)
          /\ IsFinal(a) => \A q \in Items(t) : q.op = "readToMerge" => IsFinal(q.value)
      BY <1>7, <2>1
    <3>4. ~IsFinal(a) => \A q \in Items(t) : q.op = "write" => ~IsFinal(q.value)
      BY <1>4, <2>1, <3>3 DEF ReadsBeforeWrites
    <3> HIDE DEF e, t, a
    <3>5. Ordered(requests', "readToMerge") /\ Ordered(requests', "write")
      BY <3>1, <3>3, <3>4, OrderedAppend
    <3>6. RowOK(requests', stored')
      BY <2>1, <2>4, <3>1, <3>2, <3>3, <3>5 DEF RowOK, ReadsBeforeWrites, RowStays
    <3>7. ASSUME EndComes PROVE EndComes'
      <4>1. CASE bridge # <<>>
        BY <2>1, <4>1 DEF EndComes
      <4>2. ASSUME NEW q \in Items(requests), Carries(q), IsFinal(q.value) PROVE EndComes'
        <5>1. CASE q = Head(requests)
          BY <3>1, <3>2, <4>2, <5>1 DEF EndComes, a
        <5>2. CASE q \in Items(t)
          BY <3>2, <4>2, <5>2 DEF EndComes
        <5> QED
          BY <3>3, <5>1, <5>2
      <4> QED
        BY <2>4, <3>7, <4>1, <4>2 DEF EndComes
    <3> QED
      BY <1>4, <2>1, <3>6, <3>7
  <2> QED
    BY <2>3, <2>4
<1>14. CASE RowWritten
  <2>1. /\ requests # <<>> /\ Head(requests).op = "write"
        /\ requests' = Tail(requests) /\ stored' = Head(requests).value
        /\ UNCHANGED <<copy, bridge>>
    BY <1>14 DEF RowWritten, Serve, closureVars
  <2>2. RowStays(requests', stored')
    BY <1>7, <2>1 DEF RowStays
  <2>3. RowOK(requests', stored')
    BY <1>7, <2>1, <2>2 DEF RowOK
  <2>4. IsFinal(stored) => IsFinal(stored')
    BY <1>4, <1>7, <2>1 DEF RowStays
  <2>5. EndComes => EndComes'
    BY <1>7, <2>1, <2>4 DEF EndComes
  <2> QED
    BY <1>4, <2>1, <2>3, <2>5
<1>15. CASE UNCHANGED <<requests, stored, copy, bridge>>
  BY <1>6, <1>15
<1> QED
  BY <1>1, <1>2, <1>8, <1>9, <1>10, <1>11, <1>12, <1>13, <1>14, <1>15
     DEF Next, vars, closureVars, AgentChatQueues, AgentChatIdle, AgentChatStarts,
         DirectRunEnds, Row

\* With a single start, nobody calling Stop and nothing dropped, the row ends up
\* as the closure left it: updates are dispatched by reference and merged by
\* handlers that read and write the row in separate steps, but no older one
\* overtakes the final one on either hop.
THEOREM RowAlwaysConverges == Spec => []RowConverges
<1> DEFINE Inv == Provenance /\ StopUnused /\ DropsInv /\ RowInv
<1>1. Init => Inv
  <2> SUFFICES ASSUME Init PROVE Inv
    OBVIOUS
  <2>1. /\ requests = <<>> /\ bridge = <<>> /\ stored = Reset
        /\ \A k \in Starts : copy[k] = Reset
    BY DEF Init
  <2>2. Items(<<>>) = {} /\ Len(<<>>) = 0 /\ ~IsFinal(Reset) /\ From(copy, Reset)
    BY FromReset DEF Items
  <2>3. RowOK(<<>>, Reset)
    BY <2>2 DEF RowOK, Ordered, ReadsBeforeWrites, RowStays
  <2>4. DropsInv
    BY AssignmentsAssumption DEF Init, DropsInv
  <2> QED
    BY <2>1, <2>2, <2>3, <2>4 DEF Provenance, Sent, Recorded, StopUnused, RowInv
<1>2. TypeOK /\ TypeOK' /\ ClosureInv /\ ClosureInv' /\ Inv /\ [Next]_vars => Inv'
  BY ProvenanceStep, StopUnusedStep, DropsStep, RowStep
<1>3. TypeOK /\ ClosureInv /\ Inv => RowConverges
  <2> SUFFICES ASSUME TypeOK, ClosureInv, Inv, NEW k \in Starts, Quiet, stop = "idle",
                      budget.drops = MaxDrops, copy[k].n > 0, Alone(k)
               PROVE  stored = copy[k]
    BY DEF RowConverges, Alone
  <2>1. IsFinal(copy[k])
    <3>1. run[k] \notin NotStarted /\ run[k] \notin {"running", "saving"}
      BY DEF Quiet, ClosureInv, Reset
    <3>2. copy[k].status \in Status
      BY DEF TypeOK, Assignment
    <3> QED
      BY <3>1, <3>2 DEF ClosureInv, NotStarted, Status, IsFinal, Finished
  <2>2. bridge = <<>> /\ Items(requests) = {}
    BY DEF Quiet, Items
  <2>3. IsFinal(stored)
    BY <2>1, <2>2 DEF RowInv, Undisturbed, EndComes
  <2>4. stored.by \in Starts /\ stored = copy[stored.by] /\ copy[stored.by].n > 0
    BY <2>3 DEF Provenance, From, TypeOK, Assignment
  <2> QED
    BY <2>4 DEF Alone
<1> HIDE DEF Inv
<1> QED
  BY <1>1, <1>2, <1>3, TypeCorrect, ClosureAlways, PTL DEF Spec
=============================================================================
