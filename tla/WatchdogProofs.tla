--------------------------- MODULE WatchdogProofs ---------------------------
(***************************************************************************)
(* Proofs about Watchdog, for every value of the periods, the windows, the  *)
(* tools and their timeouts.                                               *)
(***************************************************************************)
EXTENDS Watchdog, TLAPS

\* A period in which one heartbeat is written: the refresh cadence, rounded up
\* to the tick that notices it is due.
Period == REFRESH + TICK

\* lastHeartbeatWriteAt is younger than the cadence plus the time since the last
\* tick; each lost update makes the row older by a period at most.
BeatInv ==
  Alive => /\ hbWrite < REFRESH + sinceTick
           /\ hbAge <= MaxSetup + lost * Period + hbWrite

\* The tick that leaves a run alive leaves it idle for less than its window.
IdleInv == Alive => idle <= AGENT_IDLE + sinceTick

\* How long a run has hung is bounded by its calls in flight (a call not yet
\* timed out is younger than the last sign of life), and by the slowest call
\* plus the idle time, because a deferral bumps the activity.
HangInv ==
  /\ UserAsked => hang = 0
  /\ \A t \in inflight : hang <= age[t] \/ age[t] = CALL[t]
  /\ hang <= SLOWEST + idle

\* Silence outlasts idleness: every event the observer sees bumps the activity.
SilenceInv ==
  /\ Alive => idle <= silence \/ silence >= IDLE
  /\ KilledInSilence

-----------------------------------------------------------------------------
\* Zero is below every sum of times.
LEMMA ZeroBelowSum == \A a, b \in Nat : 0 <= a + b
  OBVIOUS

\* Type correctness: every tick, event and unit of time keeps the clocks in
\* their ranges; a call's age never passes its timeout.
THEOREM TypeCorrect == Spec => []TypeOK
<1>1. Init => TypeOK
  <2> SUFFICES ASSUME Init PROVE TypeOK
    OBVIOUS
  <2>1. age \in [Tools -> Nat] /\ \A t \in Tools : age[t] <= CALL[t]
    <3>1. \A t \in Tools : CALL[t] \in Nat
      BY WatchdogAssumption
    <3> QED
      BY <3>1 DEF Init
  <2>2. permission \in BOOLEAN /\ inflight \in SUBSET Tools
    BY DEF Init
  <2>3. hbAge \in Nat /\ sinceTick \in 0 .. TICK /\ lost \in 0 .. MaxLost
    BY WatchdogAssumption DEF Init
  <2> QED
    BY <2>1, <2>2, <2>3 DEF Init, TypeOK
<1>2. TypeOK /\ [Next]_vars => TypeOK'
  <2> SUFFICES ASSUME TypeOK, [Next]_vars PROVE TypeOK'
    OBVIOUS
  <2> USE WatchdogAssumption DEF TypeOK
  <2>1. CASE Pass
    BY <2>1 DEF Pass
  <2>2. CASE TickDefers
    BY <2>2 DEF TickDefers, WriteHeartbeat, observerVars
  <2>3. CASE TickTrips
    BY <2>3 DEF TickTrips, watchVars, observerVars, beatVars
  <2>4. CASE TickRefreshes
    BY <2>4 DEF TickRefreshes, WriteHeartbeat, watchVars, observerVars
  <2>5. CASE TickRests
    BY <2>5 DEF TickRests, watchVars, observerVars, beatVars
  <2>6. CASE SubscribeBridge
    BY <2>6 DEF SubscribeBridge, watchVars, observerVars, beatVars
  <2>7. CASE AgentEvent
    BY <2>7 DEF AgentEvent, beatVars
  <2>8. CASE SubAgentEvent
    BY <2>8 DEF SubAgentEvent, beatVars
  <2>9. CASE PermissionGate
    BY <2>9 DEF PermissionGate, beatVars
  <2>10. CASE ClearRun
    BY <2>10 DEF ClearRun, observerVars, beatVars
  <2>11. CASE UNCHANGED vars
    BY <2>11 DEF vars, watchVars, observerVars, beatVars
  <2> QED
    BY <2>1, <2>2, <2>3, <2>4, <2>5, <2>6, <2>7, <2>8, <2>9, <2>10, <2>11 DEF Next
<1> QED
  BY <1>1, <1>2, PTL DEF Spec

-----------------------------------------------------------------------------
\* One more lost update costs one more period.
LEMMA OneMorePeriod ==
  ASSUME NEW n \in Nat, NEW p \in Nat
  PROVE  (n + 1) * p = n * p + p /\ n * p \in Nat
  OBVIOUS

\* Fewer lost updates cost no more time.
LEMMA LostPeriods ==
  ASSUME NEW m \in Nat, NEW n \in 0 .. m, NEW p \in Nat
  PROVE  n * p <= m * p
<1>1. PICK d \in Nat : m = n + d
  <2>1. m - n \in Nat /\ m = n + (m - n)
    OBVIOUS
  <2> QED
    BY <2>1
<1>2. m * p = n * p + d * p
  BY <1>1
<1>3. d * p \in Nat /\ n * p \in Nat
  OBVIOUS
<1> QED
  BY <1>2, <1>3

\* The orphan sweep interrupts no run that the watchdog looks after: with at
\* most MaxLost rejected updates the row's heartbeat stays younger than the
\* sweep's threshold, whatever the deferrals and the refresh cadence do.
THEOREM RowStaysFresh == Spec => []HeartbeatFresh
<1>1. Init => BeatInv
  <2> SUFFICES ASSUME Init PROVE BeatInv
    OBVIOUS
  <2>1. lost * Period = 0
    BY WatchdogAssumption DEF Init, Period
  <2> QED
    BY <2>1, WatchdogAssumption DEF Init, BeatInv, Period
<1>2. TypeOK /\ TypeOK' /\ BeatInv /\ [Next]_vars => BeatInv'
  <2> SUFFICES ASSUME TypeOK, TypeOK', BeatInv, [Next]_vars, Alive'
               PROVE  BeatInv'
    BY DEF BeatInv
  <2> DEFINE Q == lost * Period
  <2>0. Period \in Nat /\ Q \in Nat /\ Alive
    BY WatchdogAssumption DEF Period, TypeOK, Next, vars, Alive, Pass, TickDefers,
       TickTrips, TickRefreshes, TickRests, SubscribeBridge, AgentEvent,
       SubAgentEvent, PermissionGate, ClearRun, Due
  <2>1. /\ hbWrite < REFRESH + sinceTick
        /\ hbAge <= MaxSetup + Q + hbWrite
    BY <2>0 DEF BeatInv
  <2>2. ASSUME WriteHeartbeat, sinceTick' = 0 PROVE BeatInv'
    <3>1. CASE hbAge' = 0 /\ lost' = lost
      <4>1. lost' * Period \in Nat
        BY <3>1, <2>0
      <4> QED
        BY <3>1, <4>1, <2>0, <2>2, WatchdogAssumption DEF BeatInv, WriteHeartbeat, Period, TypeOK
    <3>2. CASE lost' = lost + 1 /\ hbAge' = hbAge
      <4>1. lost' * Period = Q + Period
        BY <3>2, <2>0, OneMorePeriod DEF TypeOK
      <4>2. hbAge' <= MaxSetup + lost' * Period + hbWrite'
        <5> HIDE DEF Q
        <5> QED
          BY <3>2, <4>1, <2>0, <2>1, <2>2, WatchdogAssumption DEF WriteHeartbeat, TypeOK, Period
      <4> QED
        BY <4>2, <2>2, <2>0, WatchdogAssumption DEF BeatInv, WriteHeartbeat, Period
    <3> QED
      BY <3>1, <3>2, <2>2 DEF WriteHeartbeat
  <2>3. ASSUME UNCHANGED beatVars,
               \/ sinceTick' = sinceTick
               \/ hbWrite < REFRESH /\ sinceTick' = 0
        PROVE  BeatInv'
    <3>1. lost' * Period = Q /\ hbWrite' = hbWrite /\ hbAge' = hbAge
      BY <2>3 DEF beatVars
    <3>2. hbWrite < REFRESH + sinceTick'
      <4>1. CASE sinceTick' = sinceTick
        BY <4>1, <2>1
      <4>2. CASE hbWrite < REFRESH /\ sinceTick' = 0
        <5>1. REFRESH + sinceTick' = REFRESH
          BY <4>2, WatchdogAssumption
        <5> QED
          BY <4>2, <5>1
      <4> QED
        BY <2>3, <4>1, <4>2
    <3> HIDE DEF Q
    <3> QED
      BY <2>1, <3>1, <3>2 DEF BeatInv
  <2>4. CASE Pass
    <3>1. lost' * Period = Q /\ hbWrite' = hbWrite + 1 /\ hbAge' = hbAge + 1
          /\ sinceTick' = sinceTick + 1 /\ sinceTick < TICK
      BY <2>4 DEF Pass
    <3> HIDE DEF Q
    <3>2. hbAge' <= MaxSetup + Q + hbWrite'
      BY <2>0, <2>1, <3>1, WatchdogAssumption DEF TypeOK
    <3>3. hbWrite' < REFRESH + sinceTick'
      BY <2>1, <3>1, WatchdogAssumption DEF TypeOK
    <3> QED
      BY <3>1, <3>2, <3>3 DEF BeatInv
  <2>5. CASE TickDefers
    BY <2>5, <2>2 DEF TickDefers
  <2>6. CASE TickTrips
    BY <2>6 DEF TickTrips, Alive
  <2>7. CASE TickRefreshes
    BY <2>7, <2>2 DEF TickRefreshes
  <2>8. CASE TickRests
    BY <2>8, <2>3 DEF TickRests, beatVars
  <2>9. CASE sinceTick' = sinceTick /\ hbAge' = hbAge /\ hbWrite' = hbWrite /\ lost' = lost
    <3>1. UNCHANGED beatVars
      BY <2>9 DEF beatVars
    <3> QED
      BY <2>3, <2>9, <3>1
  <2>10. ASSUME SubscribeBridge \/ AgentEvent \/ SubAgentEvent \/ PermissionGate
                \/ ClearRun \/ UNCHANGED vars
         PROVE  sinceTick' = sinceTick /\ hbAge' = hbAge /\ hbWrite' = hbWrite /\ lost' = lost
    BY <2>10 DEF SubscribeBridge, AgentEvent, SubAgentEvent, PermissionGate,
       ClearRun, vars, beatVars
  <2> QED
    BY <2>4, <2>5, <2>6, <2>7, <2>8, <2>9, <2>10 DEF Next
<1>3. TypeOK /\ BeatInv => HeartbeatFresh
  <2> SUFFICES ASSUME TypeOK, BeatInv, Alive PROVE hbAge < ORPHAN
    BY DEF HeartbeatFresh
  <2>1. lost * Period <= MaxLost * Period
    BY LostPeriods, WatchdogAssumption DEF TypeOK, Period
  <2>2. MaxSetup + MaxLost * Period + Period <= ORPHAN
    BY SetupAssumption, WatchdogAssumption, OneMorePeriod DEF Period
  <2>3. lost * Period \in Nat /\ MaxLost * Period \in Nat /\ Period \in Nat
    BY WatchdogAssumption DEF TypeOK, Period
  <2>4. /\ hbWrite < Period
        /\ hbAge <= MaxSetup + lost * Period + hbWrite
    BY WatchdogAssumption DEF BeatInv, TypeOK, Period
  <2> DEFINE L == lost * Period
             M == MaxLost * Period
  <2> HIDE DEF L, M
  <2>5. L <= M /\ MaxSetup + M + Period <= ORPHAN /\ hbAge <= MaxSetup + L + hbWrite
        /\ L \in Nat /\ M \in Nat
    BY <2>1, <2>2, <2>3, <2>4 DEF L, M
  <2> QED
    BY <2>3, <2>4, <2>5, WatchdogAssumption DEF TypeOK
<1> QED
  BY <1>1, <1>2, <1>3, TypeCorrect, PTL DEF Spec

-----------------------------------------------------------------------------
\* A hanging run is found: while the user is asked nothing, no run survives its
\* last sign of life by more than its slowest call, the idle window and a tick.
THEOREM HangsAreFound == Spec => []HangIsFound
<1>1. Init => IdleInv /\ HangInv
  BY WatchdogAssumption DEF Init, IdleInv, HangInv, UserAsked
<1>2. TypeOK /\ TypeOK' /\ IdleInv /\ [Next]_vars => IdleInv'
  <2> SUFFICES ASSUME TypeOK, TypeOK', IdleInv, [Next]_vars PROVE IdleInv'
    OBVIOUS
  <2> USE WatchdogAssumption DEF TypeOK, IdleInv, Alive
  <2>1. CASE Pass
    BY <2>1 DEF Pass
  <2>2. CASE idle' = 0
    <3>1. sinceTick' \in Nat /\ AGENT_IDLE \in Nat
      OBVIOUS
    <3>2. idle' <= AGENT_IDLE + sinceTick'
      BY <2>2, <3>1, ZeroBelowSum
    <3> QED
      BY <3>2
  <2>3. CASE TickTrips
    BY <2>3 DEF TickTrips
  <2>4. CASE TickRefreshes
    BY <2>4 DEF TickRefreshes, Due, Threshold, watchVars
  <2>5. CASE TickRests
    BY <2>5 DEF TickRests, Due, Threshold, watchVars
  <2>6. CASE SubscribeBridge
    BY <2>6 DEF SubscribeBridge, watchVars
  <2>7. CASE SubAgentEvent
    BY <2>7 DEF SubAgentEvent
  <2>8. CASE PermissionGate
    BY <2>8 DEF PermissionGate
  <2>9. CASE ClearRun
    BY <2>9 DEF ClearRun
  <2>10. CASE UNCHANGED vars
    BY <2>10 DEF vars, watchVars
  <2> QED
    BY <2>1, <2>2, <2>3, <2>4, <2>5, <2>6, <2>7, <2>8, <2>9, <2>10
       DEF Next, TickDefers, AgentEvent
<1>3. TypeOK /\ TypeOK' /\ HangInv /\ [Next]_vars => HangInv'
  <2> SUFFICES ASSUME TypeOK, TypeOK', HangInv, [Next]_vars PROVE HangInv'
    OBVIOUS
  <2>1. ASSUME UNCHANGED <<hang, inflight, age, permission>>, idle' = idle
        PROVE  HangInv'
    BY <2>1 DEF HangInv, UserAsked
  <2>2. ASSUME hang' = 0 PROVE HangInv'
    <3>1. \A t \in inflight' : age'[t] \in Nat
      BY DEF TypeOK
    <3>2. idle' \in Nat /\ SLOWEST \in Nat
      BY WatchdogAssumption DEF TypeOK
    <3>3. \A t \in inflight' : hang' <= age'[t]
      BY <2>2, <3>1
    <3>4. hang' <= SLOWEST + idle'
      BY <2>2, <3>2, ZeroBelowSum
    <3> QED
      BY <2>2, <3>3, <3>4 DEF HangInv
  <2>3. CASE Pass
    <3>1. CASE UserAsked
      BY <3>1, <2>2, <2>3 DEF Pass
    <3>2. CASE ~UserAsked
      <4>1. ~UserAsked' /\ hang' = hang + 1 /\ idle' = idle + 1 /\ inflight' = inflight
        BY <3>2, <2>3 DEF Pass, UserAsked
      <4>2. ASSUME NEW t \in inflight
            PROVE  hang' <= age'[t] \/ age'[t] = CALL[t]
        <5>1. age'[t] = IF age[t] < CALL[t] THEN age[t] + 1 ELSE age[t]
          BY <2>3, <4>2 DEF Pass, TypeOK
        <5>2. age[t] \in Nat /\ CALL[t] \in Nat /\ age[t] <= CALL[t] /\ hang \in Nat
          BY <4>2, WatchdogAssumption DEF TypeOK
        <5> QED
          BY <4>1, <4>2, <5>1, <5>2 DEF HangInv
      <4>3. hang' <= SLOWEST + idle'
        BY <4>1, WatchdogAssumption DEF HangInv, TypeOK
      <4> QED
        BY <4>1, <4>2, <4>3 DEF HangInv
    <3> QED
      BY <3>1, <3>2
  <2>4. CASE TickDefers
    <3>1. hang' = hang /\ inflight' = inflight /\ age' = age /\ permission' = permission
          /\ idle' = 0
      BY <2>4 DEF TickDefers, observerVars
    <3>2. hang <= SLOWEST
      <4>1. CASE UserAsked
        BY <4>1, WatchdogAssumption DEF HangInv
      <4>2. CASE \E t \in inflight : age[t] < CALL[t]
        <5>1. PICK t \in inflight : age[t] < CALL[t]
          BY <4>2
        <5>2. hang <= age[t] /\ t \in Tools
          BY <5>1, WatchdogAssumption DEF HangInv, TypeOK
        <5>3. CALL[t] <= SLOWEST /\ CALL[t] \in Nat /\ age[t] \in Nat
          BY <5>2, WatchdogAssumption DEF TypeOK
        <5> QED
          BY <5>1, <5>2, <5>3, WatchdogAssumption DEF TypeOK
      <4> QED
        BY <2>4, <4>1, <4>2 DEF TickDefers, Deferred
    <3> QED
      BY <3>1, <3>2, WatchdogAssumption DEF HangInv, UserAsked, TypeOK
  <2>5. CASE TickTrips \/ TickRefreshes \/ TickRests \/ SubscribeBridge
    BY <2>5, <2>1 DEF TickTrips, TickRefreshes, TickRests, SubscribeBridge,
       watchVars, observerVars
  <2>6. CASE AgentEvent \/ SubAgentEvent \/ PermissionGate
    BY <2>6, <2>2 DEF AgentEvent, SubAgentEvent, PermissionGate
  <2>7. CASE ClearRun
    <3>1. hang' = hang /\ idle' = idle /\ inflight' = {} /\ permission' = permission
      BY <2>7 DEF ClearRun, observerVars
    <3> QED
      BY <3>1 DEF HangInv, UserAsked
  <2>8. CASE UNCHANGED vars
    BY <2>8, <2>1 DEF vars, watchVars, observerVars
  <2> QED
    BY <2>3, <2>4, <2>5, <2>6, <2>7, <2>8 DEF Next
<1>4. TypeOK /\ IdleInv /\ HangInv => HangIsFound
  BY WatchdogAssumption DEF TypeOK, IdleInv, HangInv, HangIsFound
<1> QED
  BY <1>1, <1>2, <1>3, <1>4, TypeCorrect, PTL DEF Spec

-----------------------------------------------------------------------------
\* Without a team to spin up, the watchdog kills no run that has shown a sign of
\* life within the base window.
THEOREM KillsOnlyTheSilent ==
  ASSUME Team = FALSE
  PROVE  Spec => []KilledInSilence
<1>1. Init => SilenceInv
  BY DEF Init, SilenceInv, KilledInSilence
<1>2. TypeOK /\ TypeOK' /\ SilenceInv /\ [Next]_vars => SilenceInv'
  <2> SUFFICES ASSUME TypeOK, TypeOK', SilenceInv, [Next]_vars PROVE SilenceInv'
    OBVIOUS
  <2> USE WatchdogAssumption DEF TypeOK, SilenceInv, KilledInSilence, Alive
  <2>1. CASE Pass
    BY <2>1 DEF Pass
  <2>2. CASE TickDefers
    BY <2>2 DEF TickDefers, Due, observerVars
  <2>3. CASE TickTrips
    BY <2>3 DEF TickTrips, Due, Threshold, observerVars
  <2>4. CASE TickRefreshes \/ TickRests
    BY <2>4 DEF TickRefreshes, TickRests, watchVars, observerVars
  <2>5. CASE SubscribeBridge
    BY <2>5 DEF SubscribeBridge, watchVars, observerVars
  <2>6. CASE AgentEvent \/ SubAgentEvent
    BY <2>6, Team = FALSE DEF AgentEvent, SubAgentEvent
  <2>7. CASE PermissionGate \/ ClearRun
    BY <2>7 DEF PermissionGate, ClearRun, observerVars
  <2>8. CASE UNCHANGED vars
    BY <2>8 DEF vars, watchVars, observerVars
  <2> QED
    BY <2>1, <2>2, <2>3, <2>4, <2>5, <2>6, <2>7, <2>8 DEF Next
<1>3. SilenceInv => KilledInSilence
  BY DEF SilenceInv
<1> QED
  BY <1>1, <1>2, <1>3, TypeCorrect, PTL DEF Spec
=============================================================================
