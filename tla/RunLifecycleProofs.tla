------------------------- MODULE RunLifecycleProofs -------------------------
(***************************************************************************)
(* Proofs about RunLifecycle: type correctness, and that a run leaves at    *)
(* most one error message in its conversation, for any number of runs,      *)
(* cancels, failures, crashes and hangs, and any order of statements.       *)
(***************************************************************************)
EXTENDS RunLifecycle, TLAPS

(***************************************************************************)
(* The inductive invariant.                                                *)
(***************************************************************************)
\* A call that is under way has an AgentRun with a status.
Started ==
  \A r \in Runs : status[r] = "none" => pc[r] \in {"idle", "dead"}

\* A run that has not begun can be neither cancelled nor killed, and its error
\* slot is free.
NotBegun ==
  \A r \in Runs : pc[r] = "idle" =>
    status[r] = "none" /\ ctrl[r] = "none" /\ r \notin slot

\* A running run never holds the error slot: whoever claims it has set a
\* terminal status before.
SlotFree == \A r \in Runs : status[r] = "running" => r \notin slot

\* A running run has not reached its finalizers: the watchdog cannot claim the
\* slot that finalizeCleanup has released.
NotFinalized ==
  \A r \in Runs : status[r] = "running" =>
    pc[r] \in {"inserting", "setup", "armed", "streaming", "rejected"}

\* Where the slot no longer says that a message was posted.
Released == Closing \cup {"returned", "dead"}

\* Up to there, a run whose slot is free has no message, stored or under way.
NoMessageYet ==
  \A r \in Runs : r \notin slot /\ pc[r] \notin Released =>
    bubbles[r] = 0 /\ posting[r] = 0

LifeInv ==
  /\ Started
  /\ NotBegun
  /\ SlotFree
  /\ NotFinalized
  /\ NoMessageYet
  /\ OneErrorMessage

\* What is left of the bounds.
Budget == [cancels : Nat, failures : Nat, crashes : Nat, gates : Nat, hangs : Nat]

-----------------------------------------------------------------------------
(***************************************************************************)
(* The statements waiting for the database stay well formed.               *)
(***************************************************************************)
\* The statements streamChat, cancelRun and the sweeps issue are statements.
LEMMA StatementTypes ==
  /\ \A op \in Ops, rows \in SUBSET Runs, as \in Terminal \cup {"running"} :
       Stmt(op, rows, as) \in Statement
  /\ \A op \in Ops, r \in Runs, as \in Terminal \cup {"running"} :
       Awaited(op, r, as) \in Statement
  BY DEF Stmt, Awaited, Statement

\* Issuing one statement keeps the queue of statements a sequence.
LEMMA AppendTypes ==
  ASSUME NEW S, NEW s \in Seq(S), NEW e \in S
  PROVE  Append(s, e) \in Seq(S)
  OBVIOUS

\* So does issuing two, as the watchdog and cancelRun do.
LEMMA AppendTwoTypes ==
  ASSUME NEW S, NEW s \in Seq(S), NEW e \in S, NEW f \in S
  PROVE  s \o <<e, f>> \in Seq(S)
<1>1. <<e, f>> \in Seq(S)
  OBVIOUS
<1> QED
  BY <1>1

\* Executing or rejecting any statement of the queue leaves a sequence.
LEMMA RemoveAtTypes ==
  ASSUME NEW S, NEW s \in Seq(S), NEW i \in DOMAIN s
  PROVE  RemoveAt(s, i) \in Seq(S)
<1>1. i \in 1 .. Len(s) /\ Len(s) \in Nat
  OBVIOUS
<1>2. SubSeq(s, 1, i - 1) \in Seq(S)
  BY <1>1
<1>3. SubSeq(s, i + 1, Len(s)) \in Seq(S)
  BY <1>1
<1> QED
  BY <1>2, <1>3 DEF RemoveAt

\* storeRun keeps a sequence of runs, over capacity or not.
LEMMA StoreRunTypes ==
  ASSUME NEW r \in Runs, order \in Seq(Runs)
  PROVE  StoreRun(r) \in Seq(Runs)
<1>1. /\ Append(order, r) \in Seq(Runs)
      /\ Len(Append(order, r)) = Len(order) + 1 /\ Len(order) \in Nat
  OBVIOUS
<1>2. Append(order, r) # <<>>
  <2>1. SUFFICES ASSUME Append(order, r) = <<>> PROVE FALSE
    OBVIOUS
  <2>2. Len(Append(order, r)) = Len(<<>>)
    BY <2>1
  <2>3. Len(<<>>) = 0
    OBVIOUS
  <2> QED
    BY <1>1, <2>2, <2>3
<1>3. Tail(Append(order, r)) \in Seq(Runs)
  BY <1>1, <1>2
<1> QED
  BY <1>1, <1>3 DEF StoreRun

\* The rows a statement addresses, and what it writes.
LEMMA DbElements ==
  ASSUME NEW i \in DOMAIN db, db \in Seq(Statement)
  PROVE  db[i].on \in SUBSET Runs /\ db[i].as \in Terminal \cup {"running"}
<1>1. db[i] \in Statement
  OBVIOUS
<1> QED
  BY <1>1 DEF Statement

\* A bound that is not exhausted can be charged.
LEMMA BudgetTypes ==
  ASSUME budget \in Budget
  PROVE  /\ budget.cancels > 0 => [budget EXCEPT !.cancels = @ - 1] \in Budget
         /\ budget.failures > 0 => [budget EXCEPT !.failures = @ - 1] \in Budget
         /\ budget.crashes > 0 => [budget EXCEPT !.crashes = @ - 1] \in Budget
         /\ budget.gates > 0 => [budget EXCEPT !.gates = @ - 1] \in Budget
         /\ budget.hangs > 0 => [budget EXCEPT !.hangs = @ - 1] \in Budget
  BY DEF Budget

-----------------------------------------------------------------------------
(***************************************************************************)
(* TypeOK is preserved, one lemma per group of actions.                    *)
(***************************************************************************)
\* streamChat up to the prompt, and its setup errors.
LEMMA TypeSetup ==
  ASSUME TypeOK, Started, NEW r \in Runs,
         StreamChat(r) \/ RunInserted(r) \/ InsertRunRejects(r) \/
         StartWatchdog(r) \/ Prompt(r) \/ SetupThrows(r) \/
         SetupThrowsTerminal(r) \/ SetupErrorPosted(r)
  PROVE  TypeOK'
<1>1. CASE StreamChat(r)
  BY <1>1, StatementTypes, AppendTypes, StoreRunTypes DEF TypeOK, StreamChat,
     bubbleVars, rowVars, sweepVars, PC, Setup, Saving, Closing, Ops, Terminal
<1>2. CASE RunInserted(r)
  BY <1>2, StatementTypes, AppendTypes DEF TypeOK, RunInserted, bubbleVars,
     rowVars, sweepVars, PC, Setup, Saving, Closing, Ops, Terminal
<1>3. CASE InsertRunRejects(r)
  BY <1>3 DEF TypeOK, InsertRunRejects, bubbleVars, rowVars, sweepVars, PC,
     Setup, Saving, Closing
<1>4. CASE StartWatchdog(r)
  BY <1>4 DEF TypeOK, StartWatchdog, bubbleVars, rowVars, sweepVars, PC,
     Setup, Saving, Closing
<1>5. CASE Prompt(r)
  BY <1>5 DEF TypeOK, Prompt, bubbleVars, rowVars, sweepVars, PC, Setup,
     Saving, Closing
<1>6. CASE SetupThrows(r)
  BY <1>6 DEF TypeOK, SetupThrows, rowVars, sweepVars, ClaimErrorPersistSlot,
     PC, Setup, Saving, Closing, Terminal
<1>7. CASE SetupThrowsTerminal(r)
  <2>1. status[r] \in Terminal \cup {"running"}
    BY <1>7 DEF TypeOK, Started, SetupThrowsTerminal
  <2> QED
    BY <1>7, StatementTypes, AppendTypes, <2>1 DEF TypeOK,
       SetupThrowsTerminal, bubbleVars, rowVars, sweepVars, FinalizeSetupTail,
       PC, Setup, Saving, Closing, Ops, Terminal
<1>8. CASE SetupErrorPosted(r)
  <2>1. status[r] \in Terminal \cup {"running"}
    BY <1>8 DEF TypeOK, Started, SetupErrorPosted
  <2> QED
    BY <1>8, StatementTypes, AppendTypes, <2>1 DEF TypeOK, SetupErrorPosted,
       bubbleVars, rowVars, sweepVars, FinalizeSetupTail, Emit, PC, Setup,
       Saving, Closing, Ops, Terminal
<1> QED
  BY <1>1, <1>2, <1>3, <1>4, <1>5, <1>6, <1>7, <1>8

\* The prompt and the finalizers.
LEMMA TypeFinalize ==
  ASSUME TypeOK, Started, NEW r \in Runs,
         PromptResolves(r) \/ PromptThrowsCancelled(r) \/
         PromptThrowsAbort(r) \/ PromptThrowsError(r) \/
         PromptThrowsErrorAgain(r) \/ Saved(r) \/ RunUpdated(r) \/
         UpdateRunRejects(r) \/ SetupRunUpdated(r) \/ Return(r) \/
         PersistErrorMessage(r)
  PROVE  TypeOK'
<1>1. CASE PromptResolves(r)
  BY <1>1 DEF TypeOK, PromptResolves, bubbleVars, rowVars, sweepVars, PC,
     Setup, Saving, Closing, Terminal
<1>2. CASE PromptThrowsCancelled(r)
  BY <1>2, StatementTypes, AppendTypes DEF TypeOK, PromptThrowsCancelled,
     rowVars, sweepVars, FinalizeCleanup, PC, Setup, Saving, Closing, Ops,
     Terminal
<1>3. CASE PromptThrowsAbort(r)
  BY <1>3 DEF TypeOK, PromptThrowsAbort, bubbleVars, rowVars, sweepVars, PC,
     Setup, Saving, Closing, Terminal
<1>4. CASE PromptThrowsError(r)
  BY <1>4 DEF TypeOK, PromptThrowsError, rowVars, sweepVars,
     ClaimErrorPersistSlot, PC, Setup, Saving, Closing, Terminal
<1>5. CASE PromptThrowsErrorAgain(r)
  BY <1>5, StatementTypes, AppendTypes DEF TypeOK, PromptThrowsErrorAgain,
     rowVars, sweepVars, FinalizeCleanup, Emit, PC, Setup, Saving, Closing, Ops,
     Terminal
<1>6. CASE Saved(r)
  <2>1. status[r] \in Terminal \cup {"running"}
    BY <1>6 DEF TypeOK, Started, Saved, Saving
  <2>2. EventOf[pc[r]] \in {"complete", "error", "cancel"}
    BY <1>6 DEF EventOf, Saved, Saving
  <2> QED
    BY <1>6, StatementTypes, AppendTypes, <2>1, <2>2 DEF TypeOK, Saved,
       rowVars, sweepVars, FinalizeCleanup, Emit, PC, Setup, Saving, Closing,
       Ops, Terminal
<1>7. CASE RunUpdated(r)
  BY <1>7, StatementTypes, AppendTypes DEF TypeOK, RunUpdated, bubbleVars,
     rowVars, sweepVars, PC, Setup, Saving, Closing, Ops, Terminal
<1>8. CASE UpdateRunRejects(r)
  <2>1. status[r] \in Terminal \cup {"running"}
    BY <1>8 DEF TypeOK, Started, UpdateRunRejects
  <2> QED
    BY <1>8, StatementTypes, AppendTypes, <2>1 DEF TypeOK, UpdateRunRejects,
       bubbleVars, rowVars, sweepVars, FinalizeSetupTail, PC, Setup, Saving,
       Closing, Ops, Terminal
<1>9. CASE SetupRunUpdated(r)
  BY <1>9, StatementTypes, AppendTypes DEF TypeOK, SetupRunUpdated,
     bubbleVars, rowVars, sweepVars, PC, Setup, Saving, Closing, Ops, Terminal
<1>10. CASE Return(r)
  BY <1>10 DEF TypeOK, Return, bubbleVars, rowVars, sweepVars, PC, Setup,
     Saving, Closing
<1>11. CASE PersistErrorMessage(r)
  <2>1. posting[r] \in Nat /\ posting[r] - 1 \in Nat
    BY <1>11 DEF PersistErrorMessage, TypeOK
  <2>2. posting' \in [Runs -> Nat]
    BY <1>11, <2>1 DEF PersistErrorMessage, TypeOK
  <2>3. bubbles' \in [Runs -> Nat]
    <3>1. bubbles[r] + 1 \in Nat
      BY DEF TypeOK
    <3>2. \/ bubbles' = [bubbles EXCEPT ![r] = @ + 1]
          \/ bubbles' = bubbles
      BY <1>11 DEF PersistErrorMessage
    <3> QED
      BY <3>1, <3>2 DEF TypeOK
  <2>4. budget' \in Budget
    BY <1>11, BudgetTypes DEF PersistErrorMessage, TypeOK, Budget
  <2> QED
    BY <1>11, <2>2, <2>3, <2>4 DEF TypeOK, PersistErrorMessage, memVars, rowVars,
       sweepVars, Budget
<1> QED
  BY <1>1, <1>2, <1>3, <1>4, <1>5, <1>6, <1>7, <1>8, <1>9, <1>10, <1>11

\* What happens to a run from outside.
LEMMA TypeAround ==
  ASSUME TypeOK, Started, NEW r \in Runs,
         Wedge(r) \/ AbortUnblocks(r) \/ CloseGate(r) \/ ToolTimeout(r) \/
         CancelRun(r) \/ ForceCancel(r) \/ WatchdogTrip(r) \/
         UpdateHeartbeat(r) \/ RowGoesStale(r) \/ ScanController(r)
  PROVE  TypeOK'
<1>1. CASE Wedge(r)
  <2>1. budget' \in Budget
    BY <1>1, BudgetTypes DEF Wedge, TypeOK, Budget
  <2> QED
    BY <1>1, <2>1 DEF TypeOK, Wedge, bubbleVars, rowVars, sweepVars, Budget
<1>2. CASE AbortUnblocks(r)
  BY <1>2 DEF TypeOK, AbortUnblocks, bubbleVars, rowVars, sweepVars
<1>3. CASE CloseGate(r)
  BY <1>3 DEF TypeOK, CloseGate, bubbleVars, rowVars, sweepVars
<1>4. CASE ToolTimeout(r)
  BY <1>4 DEF TypeOK, ToolTimeout, bubbleVars, rowVars, sweepVars
<1>5. CASE CancelRun(r)
  <2>1. budget' \in Budget
    BY <1>5, BudgetTypes DEF CancelRun, TypeOK, Budget
  <2> QED
    BY <1>5, StatementTypes, AppendTypes, <2>1 DEF TypeOK, CancelRun,
       bubbleVars, rowVars, sweepVars, Emit, Ops, Terminal, Budget
<1>6. CASE ForceCancel(r)
  <2>1. budget' \in Budget
    BY <1>6, BudgetTypes DEF ForceCancel, TypeOK, Budget
  <2>2. SameConv(r) \in SUBSET Runs
    BY DEF SameConv
  <2> QED
    BY <1>6, StatementTypes, AppendTypes, <2>1, <2>2 DEF TypeOK, ForceCancel,
       memVars, bubbleVars, rowVars, sweepVars, Ops, Terminal, Budget
<1>7. CASE WatchdogTrip(r)
  BY <1>7, StatementTypes, AppendTwoTypes DEF TypeOK, WatchdogTrip, rowVars,
     sweepVars, ClaimErrorPersistSlot, Emit, Ops, Terminal
<1>8. CASE UpdateHeartbeat(r)
  BY <1>8 DEF TypeOK, UpdateHeartbeat, memVars, bubbleVars, sweepVars
<1>9. CASE RowGoesStale(r)
  BY <1>9 DEF TypeOK, RowGoesStale, memVars, bubbleVars, sweepVars
<1>10. CASE ScanController(r)
  BY <1>10, StatementTypes, AppendTypes DEF TypeOK, ScanController, memVars,
     bubbleVars, rowVars, Ops, Terminal
<1> QED
  BY <1>1, <1>2, <1>3, <1>4, <1>5, <1>6, <1>7, <1>8, <1>9, <1>10

\* A tool or a gate opens.
LEMMA TypeOpenGate ==
  ASSUME TypeOK, NEW r \in Runs, NEW g \in {"tool", "permission", "userInput"},
         OpenGate(r, g)
  PROVE  TypeOK'
<1>1. budget' \in Budget
  BY BudgetTypes DEF OpenGate, TypeOK, Budget
<1> QED
  BY <1>1 DEF TypeOK, OpenGate, bubbleVars, rowVars, sweepVars, Budget

\* The database executes or rejects a statement.
LEMMA TypeDatabase ==
  ASSUME TypeOK, NEW i \in DOMAIN db,
         Execute(i) \/ ExecuteForceCancel(i) \/ Reject(i)
  PROVE  TypeOK'
<1>0. /\ RemoveAt(db, i) \in Seq(Statement)
      /\ db[i].on \in SUBSET Runs
      /\ db[i].as \in Terminal \cup {"running"}
  BY RemoveAtTypes, DbElements DEF TypeOK
<1>1. CASE Execute(i)
  <2>1. runsRow' \in [Runs -> Terminal \cup {"absent", "running"}]
    BY <1>0, <1>1 DEF Execute, TypeOK, RunsRowAfter
  <2>2. activeRow' \in [Runs -> {"absent", "running", "interrupted"}]
    BY <1>1 DEF Execute, TypeOK, ActiveRowAfter
  <2>3. stale' \in SUBSET Runs
    BY <1>1 DEF Execute, TypeOK
  <2>4. awaits' \in [Runs -> {"none", "pending", "ok", "failed"}]
    BY <1>1 DEF Execute, TypeOK
  <2>5. sweep' \in {"idle", "updating", "scanning", "reading"}
    BY <1>1 DEF Execute, TypeOK
  <2>6. ctrl' \in [Runs -> {"none", "live", "aborted"}]
    BY <1>1 DEF Execute, TypeOK
  <2>7. events' \in [Runs -> SUBSET {"complete", "error", "cancel"}]
    BY <1>1 DEF Execute, TypeOK
  <2> QED
    BY <1>0, <1>1, <2>1, <2>2, <2>3, <2>4, <2>5, <2>6, <2>7
       DEF TypeOK, Execute, bubbleVars
<1>2. CASE ExecuteForceCancel(i)
  <2>1. ASSUME NEW r \in Runs,
               db' = Append(RemoveAt(db, i), Stmt("forceInterrupt", {r}, "error"))
        PROVE  db' \in Seq(Statement)
    BY <1>0, <2>1, StatementTypes, AppendTypes DEF Ops, Terminal
  <2>2. db' \in Seq(Statement)
    BY <1>0, <1>2, <2>1 DEF ExecuteForceCancel
  <2> QED
    BY <1>2, <2>2 DEF TypeOK, ExecuteForceCancel, memVars, bubbleVars, rowVars, sweepVars
<1>3. CASE Reject(i)
  <2>1. budget' \in Budget
    BY <1>3, BudgetTypes DEF Reject, TypeOK, Budget
  <2>2. awaits' \in [Runs -> {"none", "pending", "ok", "failed"}]
    BY <1>3 DEF Reject, TypeOK
  <2>3. sweep' \in {"idle", "updating", "scanning", "reading"} /\ visited' \in SUBSET Runs
    BY <1>3 DEF Reject, TypeOK
  <2> QED
    BY <1>0, <1>3, <2>1, <2>2, <2>3 DEF TypeOK, Reject, memVars, bubbleVars, rowVars, Budget
<1> QED
  BY <1>1, <1>2, <1>3

\* The sweep, a crash and the boot that follows.
LEMMA TypeProcess ==
  ASSUME TypeOK, CleanupOrphans \/ ScanDone \/ Crash \/ StartOrphanCleanup
  PROVE  TypeOK'
<1>1. CASE CleanupOrphans
  BY <1>1, StatementTypes, AppendTypes DEF TypeOK, CleanupOrphans, memVars,
     bubbleVars, rowVars, Ops, Terminal
<1>2. CASE ScanDone
  BY <1>2 DEF TypeOK, ScanDone, memVars, bubbleVars, rowVars
<1>3. CASE Crash
  <2>1. /\ up' \in BOOLEAN /\ wedged' \in [Runs -> BOOLEAN]
        /\ agent' \in [Runs -> BOOLEAN] /\ timer' \in [Runs -> BOOLEAN]
    BY <1>3 DEF Crash
  <2>2. order' \in Seq(Runs) /\ db' \in Seq(Statement)
    BY <1>3 DEF Crash
  <2>3. posting' \in [Runs -> Nat] /\ slot' \in SUBSET Runs /\ visited' \in SUBSET Runs
    BY <1>3 DEF Crash
  <2>4. /\ status' \in [Runs -> Terminal \cup {"none", "running"}]
        /\ ctrl' \in [Runs -> {"none", "live", "aborted"}]
        /\ gate' \in [Runs -> {"none", "tool", "expired", "permission", "userInput"}]
        /\ awaits' \in [Runs -> {"none", "pending", "ok", "failed"}]
    BY <1>3 DEF Crash
  <2>5. pc' \in [Runs -> PC]
    BY <1>3 DEF Crash, TypeOK, PC
  <2>6. budget' \in Budget
    BY <1>3, BudgetTypes DEF Crash, TypeOK, Budget
  <2> QED
    BY <1>3, <2>1, <2>2, <2>3, <2>4, <2>5, <2>6 DEF TypeOK, Crash, rowVars, Budget
<1>4. CASE StartOrphanCleanup
  <2>1. db' \in Seq(Statement)
    BY <1>4, StatementTypes DEF StartOrphanCleanup, Ops, Terminal
  <2> QED
    BY <1>4, <2>1 DEF TypeOK, StartOrphanCleanup, memVars, bubbleVars, rowVars
<1> QED
  BY <1>1, <1>2, <1>3, <1>4

-----------------------------------------------------------------------------
(***************************************************************************)
(* LifeInv is preserved.                                                   *)
(***************************************************************************)
\* Steps that touch neither the call, its status and controller, nor messages;
\* the sweep may abort a controller.
LEMMA LifeOther ==
  ASSUME TypeOK, LifeInv, UNCHANGED <<pc, status, slot, posting, bubbles>>,
         \A r \in Runs : ctrl[r] = "none" => ctrl'[r] = "none"
  PROVE  LifeInv'
  BY DEF LifeInv, Started, NotBegun, SlotFree, NotFinalized, NoMessageYet,
     OneErrorMessage

\* Steps of a call, or of cancelRun, that claim no slot.
LEMMA LifeCall ==
  ASSUME TypeOK, LifeInv, NEW r \in Runs,
         StreamChat(r) \/ RunInserted(r) \/ InsertRunRejects(r) \/
         StartWatchdog(r) \/ Prompt(r) \/ SetupThrowsTerminal(r) \/
         SetupErrorPosted(r) \/ PromptResolves(r) \/
         PromptThrowsCancelled(r) \/ PromptThrowsAbort(r) \/
         PromptThrowsErrorAgain(r) \/ Saved(r) \/ RunUpdated(r) \/
         UpdateRunRejects(r) \/ SetupRunUpdated(r) \/ Return(r) \/
         PersistErrorMessage(r) \/ CancelRun(r)
  PROVE  LifeInv'
<1> USE DEF TypeOK, LifeInv, Started, NotBegun, SlotFree, NotFinalized, NoMessageYet,
        OneErrorMessage, Released, Saving, Closing
<1>1. CASE StreamChat(r)
  BY <1>1 DEF StreamChat, bubbleVars
<1>2. CASE RunInserted(r)
  BY <1>2 DEF RunInserted, bubbleVars
<1>3. CASE InsertRunRejects(r)
  BY <1>3 DEF InsertRunRejects, bubbleVars
<1>4. CASE StartWatchdog(r)
  BY <1>4 DEF StartWatchdog, bubbleVars
<1>5. CASE Prompt(r)
  BY <1>5 DEF Prompt, bubbleVars
<1>6. CASE SetupThrowsTerminal(r)
  BY <1>6 DEF SetupThrowsTerminal, bubbleVars, FinalizeSetupTail
<1>7. CASE SetupErrorPosted(r)
  BY <1>7 DEF SetupErrorPosted, bubbleVars, FinalizeSetupTail
<1>8. CASE PromptResolves(r)
  BY <1>8 DEF PromptResolves, bubbleVars, CanSettle
<1>9. CASE PromptThrowsCancelled(r)
  BY <1>9 DEF PromptThrowsCancelled, FinalizeCleanup, CanSettle
<1>10. CASE PromptThrowsAbort(r)
  BY <1>10 DEF PromptThrowsAbort, bubbleVars, CanSettle
<1>11. CASE PromptThrowsErrorAgain(r)
  BY <1>11 DEF PromptThrowsErrorAgain, FinalizeCleanup, CanSettle
<1>12. CASE Saved(r)
  <2>1. /\ slot' = slot \ {r} /\ bubbles' = bubbles /\ posting' = posting
        /\ status' = status /\ up' = up
        /\ pc' = [pc EXCEPT ![r] = "updating"]
        /\ ctrl' = [ctrl EXCEPT ![r] = "none"]
        /\ pc[r] \in Saving
    BY <1>12 DEF Saved, FinalizeCleanup
  <2>2. status[r] # "running"
    BY <2>1
  <2> QED
    BY <2>1, <2>2
<1>13. CASE RunUpdated(r)
  BY <1>13 DEF RunUpdated, bubbleVars
<1>14. CASE UpdateRunRejects(r)
  BY <1>14 DEF UpdateRunRejects, bubbleVars, FinalizeSetupTail
<1>15. CASE SetupRunUpdated(r)
  BY <1>15 DEF SetupRunUpdated, bubbleVars
<1>16. CASE Return(r)
  BY <1>16 DEF Return, bubbleVars
<1>17. CASE PersistErrorMessage(r)
  BY <1>17 DEF PersistErrorMessage, memVars
<1>18. CASE CancelRun(r)
  BY <1>18 DEF CancelRun, bubbleVars
<1> QED
  BY <1>1, <1>2, <1>3, <1>4, <1>5, <1>6, <1>7, <1>8, <1>9, <1>10, <1>11,
     <1>12, <1>13, <1>14, <1>15, <1>16, <1>17, <1>18

\* Whoever claims the slot finds it free and no message posted: the watchdog and
\* finalizeSetupError because the run is running, finalizeError because it looks.
LEMMA LifeClaim ==
  ASSUME TypeOK, LifeInv, NEW r \in Runs,
         SetupThrows(r) \/ PromptThrowsError(r) \/ WatchdogTrip(r)
  PROVE  LifeInv'
<1> USE DEF TypeOK, LifeInv
<1>1. r \notin slot /\ pc[r] \notin Released /\ pc[r] # "idle"
  <2>1. CASE SetupThrows(r)
    BY <2>1 DEF SetupThrows, SlotFree, Released, Closing
  <2>2. CASE PromptThrowsError(r)
    BY <2>2 DEF PromptThrowsError, CanSettle, Released, Closing
  <2>3. CASE WatchdogTrip(r)
    BY <2>3 DEF WatchdogTrip, Watched, SlotFree, NotFinalized, Released, Closing
  <2> QED
    BY <2>1, <2>2, <2>3
<1>2. bubbles[r] = 0 /\ posting[r] = 0
  BY <1>1 DEF NoMessageYet
<1>3. /\ slot' = slot \cup {r} /\ bubbles' = bubbles
      /\ posting' = [posting EXCEPT ![r] = @ + 1]
      /\ status' = [status EXCEPT ![r] = "error"]
      /\ \A q \in Runs : q # r => pc'[q] = pc[q] /\ ctrl'[q] = ctrl[q]
      /\ pc'[r] \in PC \ {"idle"}
  BY <1>1 DEF SetupThrows, PromptThrowsError, WatchdogTrip, ClaimErrorPersistSlot,
     PC, Saving
<1>4. OneErrorMessage'
  <2> SUFFICES ASSUME NEW q \in Runs PROVE bubbles'[q] + posting'[q] <= 1
    BY DEF OneErrorMessage
  <2>1. CASE q = r
    BY <2>1, <1>2, <1>3
  <2>2. CASE q # r
    BY <2>2, <1>3 DEF OneErrorMessage
  <2> QED
    BY <2>1, <2>2
<1>5. NoMessageYet'
  <2> SUFFICES ASSUME NEW q \in Runs, q \notin slot', pc'[q] \notin Released
               PROVE  bubbles'[q] = 0 /\ posting'[q] = 0
    BY DEF NoMessageYet
  <2>1. q # r /\ q \notin slot
    BY <1>3
  <2> QED
    BY <2>1, <1>3 DEF NoMessageYet
<1>6. Started' /\ SlotFree' /\ NotFinalized' /\ NotBegun'
  BY <1>3 DEF Started, SlotFree, NotFinalized, NotBegun
<1> QED
  BY <1>4, <1>5, <1>6

\* A crash forgets the slots; the messages it leaves behind belong to dead calls.
LEMMA LifeCrash ==
  ASSUME TypeOK, LifeInv, Crash
  PROVE  LifeInv'
<1> USE DEF TypeOK, LifeInv
<1>1. ASSUME NEW r \in Runs
      PROVE  /\ pc'[r] = IF pc[r] = "idle" THEN "idle" ELSE "dead"
             /\ status'[r] = "none" /\ ctrl'[r] = "none" /\ r \notin slot'
             /\ posting'[r] = 0 /\ bubbles'[r] = bubbles[r]
  BY DEF Crash
<1>2. OneErrorMessage'
  <2> SUFFICES ASSUME NEW r \in Runs PROVE bubbles'[r] + posting'[r] <= 1
    BY DEF OneErrorMessage
  <2>1. bubbles[r] \in Nat /\ posting[r] \in Nat /\ bubbles[r] + posting[r] <= 1
    BY DEF OneErrorMessage
  <2> QED
    BY <1>1, <2>1
<1>3. NoMessageYet'
  <2> SUFFICES ASSUME NEW r \in Runs, pc'[r] \notin Released
               PROVE  bubbles'[r] = 0 /\ posting'[r] = 0
    BY DEF NoMessageYet
  <2>1. pc[r] = "idle"
    BY <1>1 DEF Released
  <2>2. r \notin slot /\ pc[r] \notin Released
    BY <2>1 DEF NotBegun, Released, Closing
  <2> QED
    BY <1>1, <2>2 DEF NoMessageYet
<1>4. Started' /\ NotBegun' /\ SlotFree' /\ NotFinalized'
  BY <1>1 DEF Started, NotBegun, SlotFree, NotFinalized
<1> QED
  BY <1>2, <1>3, <1>4

-----------------------------------------------------------------------------
(***************************************************************************)
(* The theorems.                                                           *)
(***************************************************************************)
\* The invariant holds of every reachable state.
THEOREM Invariance == Spec => [](TypeOK /\ LifeInv)
<1>1. Init => TypeOK /\ LifeInv
  <2> SUFFICES ASSUME Init PROVE TypeOK /\ LifeInv
    OBVIOUS
  <2>1. LifeInv
    BY DEF Init, LifeInv, Started, NotBegun, SlotFree, NotFinalized, NoMessageYet,
       OneErrorMessage
  <2>2. /\ up \in BOOLEAN /\ wedged \in [Runs -> BOOLEAN]
        /\ agent \in [Runs -> BOOLEAN] /\ timer \in [Runs -> BOOLEAN]
    BY DEF Init
  <2>3. order \in Seq(Runs) /\ db \in Seq(Statement)
    BY DEF Init
  <2>4. posting \in [Runs -> Nat] /\ bubbles \in [Runs -> Nat]
    BY DEF Init
  <2>5. events \in [Runs -> SUBSET {"complete", "error", "cancel"}]
    BY DEF Init
  <2>6. budget \in Budget
    BY RunLifecycleAssumption DEF Init, Budget
  <2>7. pc \in [Runs -> PC]
    BY DEF Init, PC
  <2>8. /\ status \in [Runs -> Terminal \cup {"none", "running"}]
        /\ ctrl \in [Runs -> {"none", "live", "aborted"}]
        /\ gate \in [Runs -> {"none", "tool", "expired", "permission", "userInput"}]
        /\ awaits \in [Runs -> {"none", "pending", "ok", "failed"}]
        /\ runsRow \in [Runs -> Terminal \cup {"absent", "running"}]
        /\ activeRow \in [Runs -> {"absent", "running", "interrupted"}]
    BY DEF Init
  <2> QED
    BY <2>1, <2>2, <2>3, <2>4, <2>5, <2>6, <2>7, <2>8 DEF Init, TypeOK, Budget
<1>2. TypeOK /\ LifeInv /\ [Next]_vars => TypeOK' /\ LifeInv'
  <2> SUFFICES ASSUME TypeOK, LifeInv, [Next]_vars PROVE TypeOK' /\ LifeInv'
    OBVIOUS
  <2>0. Started
    BY DEF LifeInv
  <2>1. ASSUME NEW r \in Runs, StreamChat(r) \/ Proceed(r) \/ PersistErrorMessage(r)
        PROVE  TypeOK' /\ LifeInv'
    <3>1. TypeOK'
      BY <2>0, <2>1, TypeSetup, TypeFinalize DEF Proceed
    <3>2. LifeInv'
      BY <2>1, LifeCall, LifeClaim DEF Proceed
    <3> QED
      BY <3>1, <3>2
  <2>2. ASSUME NEW r \in Runs, CancelRun(r) \/ WatchdogTrip(r)
        PROVE  TypeOK' /\ LifeInv'
    <3>1. TypeOK'
      BY <2>0, <2>2, TypeAround
    <3>2. LifeInv'
      BY <2>2, LifeCall, LifeClaim
    <3> QED
      BY <3>1, <3>2
  <2>3. ASSUME NEW r \in Runs,
               Wedge(r) \/ AbortUnblocks(r) \/ CloseGate(r) \/ ToolTimeout(r)
                 \/ ForceCancel(r) \/ UpdateHeartbeat(r) \/ RowGoesStale(r)
                 \/ ScanController(r)
        PROVE  TypeOK' /\ LifeInv'
    <3>1. TypeOK'
      BY <2>0, <2>3, TypeAround
    <3>2. UNCHANGED <<pc, status, ctrl, slot, posting, bubbles>>
      BY <2>3 DEF Wedge, AbortUnblocks, CloseGate, ToolTimeout, ForceCancel,
         UpdateHeartbeat, RowGoesStale, ScanController, memVars, bubbleVars
    <3> QED
      BY <3>1, <3>2, LifeOther
  <2>4. ASSUME NEW r \in Runs, NEW g \in {"tool", "permission", "userInput"}, OpenGate(r, g)
        PROVE  TypeOK' /\ LifeInv'
    <3>1. UNCHANGED <<pc, status, ctrl, slot, posting, bubbles>>
      BY <2>4 DEF OpenGate, bubbleVars
    <3> QED
      BY <2>4, <3>1, TypeOpenGate, LifeOther
  <2>5. ASSUME NEW i \in DOMAIN db, Execute(i) \/ ExecuteForceCancel(i) \/ Reject(i)
        PROVE  TypeOK' /\ LifeInv'
    <3>1. TypeOK'
      BY <2>5, TypeDatabase
    <3>2. /\ UNCHANGED <<pc, status, slot, posting, bubbles>>
          /\ \A r \in Runs : ctrl[r] = "none" => ctrl'[r] = "none"
      BY <2>5 DEF Execute, ExecuteForceCancel, Reject, memVars, bubbleVars
    <3> QED
      BY <3>1, <3>2, LifeOther
  <2>6. CASE CleanupOrphans \/ ScanDone \/ StartOrphanCleanup
    <3>1. UNCHANGED <<pc, status, ctrl, slot, posting, bubbles>>
      BY <2>6 DEF CleanupOrphans, ScanDone, StartOrphanCleanup, memVars, bubbleVars
    <3> QED
      BY <2>6, <3>1, TypeProcess, LifeOther
  <2>7. CASE Crash
    BY <2>7, TypeProcess, LifeCrash
  <2>8. CASE UNCHANGED vars
    <3>1. TypeOK'
      BY <2>8 DEF vars, memVars, bubbleVars, rowVars, sweepVars, TypeOK
    <3>2. UNCHANGED <<pc, status, ctrl, slot, posting, bubbles>>
      BY <2>8 DEF vars, memVars, bubbleVars
    <3> QED
      BY <3>1, <3>2, LifeOther
  <2> QED
    BY <2>1, <2>2, <2>3, <2>4, <2>5, <2>6, <2>7, <2>8 DEF Next, Environment, Database
<1> QED
  BY <1>1, <1>2, PTL DEF Spec

\* Type correctness.  TypeOK is not inductive by itself: the status that
\* finalizeCleanup writes is one only because a call under way has a status.
THEOREM TypeCorrect == Spec => []TypeOK
  BY Invariance, PTL

\* A run leaves at most one error message in its conversation, although the
\* watchdog, finalizeError and finalizeSetupError all write one, crashes and
\* restarts included.
THEOREM AtMostOneErrorMessage == Spec => []OneErrorMessage
<1>1. LifeInv => OneErrorMessage
  BY DEF LifeInv
<1> QED
  BY <1>1, Invariance, PTL
=============================================================================
