-------------------------- MODULE Scheduler_proofs -------------------------
(***************************************************************************)
(* Proofs about the check scheduler, for any number of monitors and ticks  *)
(* and any value of the times; at the end, about the requests that write   *)
(* its tables.                                                             *)
(***************************************************************************)
EXTENDS SchedulerInv, Monitoring, TLAPS, FiniteSetTheorems

LEMMA Places ==
    /\ PC = {"idle", "queued", "attempt", "pause", "log", "update", "incident",
             "resolve", "notify"}
    /\ "pending" \in Status
    /\ "down" \in Status
BY DEF PC, WritePC, Status

LEMMA IdleType == Idle \in CheckState
BY ConstantAssumption DEF Idle, CheckState, PC, Status

LEMMA QueuedType == ASSUME NEW s \in Status PROVE Queued(s) \in CheckState
<1>1. "queued" \in PC
  BY Places
<1> QED
  BY <1>1, IdleType DEF Queued, CheckState

\* The records a goroutine moves through, each given by the fields it changes.
LEMMA MoveType ==
    ASSUME NEW c \in CheckState, NEW p \in PC, NEW k \in Nat
    PROVE  /\ [c EXCEPT !.pc = p] \in CheckState
           /\ [c EXCEPT !.pc = p, !.clock = k] \in CheckState
           /\ [c EXCEPT !.pc = p, !.clock = k, !.attempt = @ + 1] \in CheckState
           /\ \A r \in Status : [c EXCEPT !.pc = p, !.clock = k, !.result = r] \in CheckState
<1>1. c.attempt + 1 \in Nat
  BY DEF CheckState
<1> QED
  BY <1>1 DEF CheckState

LEMMA OlderType == ASSUME NEW c \in CheckState PROVE Older(c) \in CheckState
<1>1. (IF c.left = 0 THEN 0 ELSE c.left - 1) \in 0..CtxLimit
  BY ConstantAssumption DEF CheckState
<1>2. (IF c.pc = "queued" THEN AtMost(c.clock + 1, DbDelay) ELSE c.clock + 1) \in Nat
  BY ConstantAssumption DEF CheckState, AtMost
<1> QED
  BY <1>1, <1>2 DEF Older, CheckState

LEMMA AgeType ==
    ASSUME NEW m \in Monitor, NEW r \in RowState, NEW d \in Nat
    PROVE  /\ [r EXCEPT !.age = AtMost(@ + d, Interval[m])] \in RowState
           /\ [r EXCEPT !.age = AtMost(@ + d, Interval[m])].age <= Interval[m]
<1>1. /\ AtMost(r.age + d, Interval[m]) \in Nat
      /\ AtMost(r.age + d, Interval[m]) <= Interval[m]
  BY ConstantAssumption DEF RowState, AtMost
<1> QED
  BY <1>1 DEF RowState

\* A step of one goroutine keeps the table of checks well-typed.
LEMMA StepType ==
    ASSUME NEW t \in Slot, NEW m \in Monitor, NEW c \in CheckState,
           TypeOK, Step(t, m, c)
    PROVE  check' \in [Slot -> [Monitor -> CheckState]]
BY DEF TypeOK, Step

LEMMA FaultsType ==
    ASSUME TypeOK, NEW live, NEW ok, Executes(live, ok)
    PROVE  faults' \in 0..MaxFaults
BY ConstantAssumption DEF TypeOK, Executes

-----------------------------------------------------------------------------
LEMMA TypeInit == Init => TypeOK
<1> SUFFICES ASSUME Init PROVE TypeOK
  OBVIOUS
<1>1. row \in [Monitor -> RowState] /\ \A m \in Monitor : row[m].age <= Interval[m]
  BY ConstantAssumption DEF Init, RowState, Status
<1>2. check \in [Slot -> [Monitor -> CheckState]]
  BY IdleType DEF Init
<1>3. /\ open \in [Monitor -> 0..2]
      /\ logged \in [Monitor -> Status]
      /\ alert \in [Monitor -> Alert]
  BY Places DEF Init, Alert
<1>4. cron \in 0..TickEvery /\ faults \in 0..MaxFaults
  BY ConstantAssumption DEF Init
<1>5. stopping \in BOOLEAN
  BY DEF Init
<1> QED
  BY <1>1, <1>2, <1>3, <1>4, <1>5 DEF TypeOK

LEMMA TypePreserved == TypeOK /\ [Next]_vars => TypeOK'
<1> SUFFICES ASSUME TypeOK, [Next]_vars PROVE TypeOK'
  OBVIOUS
<1> USE ConstantAssumption
<1>1. ASSUME NEW t \in Slot, NEW ok \in BOOLEAN, RunChecks(t, ok) PROVE TypeOK'
  <2>1. faults' \in 0..MaxFaults
    BY <1>1, FaultsType DEF RunChecks
  <2>2. \A m \in Monitor : Queued(row[m].status) \in CheckState
    BY QueuedType DEF TypeOK, RowState
  <2>3. check' \in [Slot -> [Monitor -> CheckState]]
    BY <1>1, <2>2, IdleType DEF RunChecks, TypeOK
  <2>4. cron' = 0 /\ UNCHANGED <<row, open, logged, alert, stopping>>
    BY <1>1 DEF RunChecks
  <2> QED
    BY <2>1, <2>3, <2>4 DEF TypeOK
<1>2. ASSUME NEW t \in Slot, NEW m \in Monitor, CheckMonitor(t, m) PROVE TypeOK'
  <2> DEFINE c == check[t][m]
  <2>0. c \in CheckState /\ c.result \in Status /\ c.clock \in Nat
    BY DEF TypeOK, CheckState
  <2>1. ASSUME NEW ok \in BOOLEAN, Claim(t, m, ok) PROVE TypeOK'
    <3>1. check' \in [Slot -> [Monitor -> CheckState]]
      BY <2>0, <2>1, StepType, MoveType, Places DEF Claim
    <3>2. faults' \in 0..MaxFaults
      BY <2>1, FaultsType DEF Claim
    <3>3. row' \in [Monitor -> RowState] /\ \A n \in Monitor : row'[n].age <= Interval[n]
      BY <2>1 DEF Claim, TypeOK, RowState
    <3>4. UNCHANGED <<open, logged, alert, cron, stopping>>
      BY <2>1 DEF Claim, process
    <3> QED
      BY <3>1, <3>2, <3>3, <3>4 DEF TypeOK
  <2>2. ASSUME NEW r \in Status, Attempt(t, m, r) PROVE TypeOK'
    <3>1. check' \in [Slot -> [Monitor -> CheckState]]
      BY <2>0, <2>2, StepType, MoveType, Places DEF Attempt
    <3> QED
      BY <2>2, <3>1 DEF Attempt, TypeOK, process, db
  <2>3. CASE Retry(t, m)
    <3>1. check' \in [Slot -> [Monitor -> CheckState]]
      BY <2>0, <2>3, StepType, MoveType, Places DEF Retry
    <3> QED
      BY <2>3, <3>1 DEF Retry, TypeOK, process, db
  <2>4. CASE GiveUp(t, m)
    <3>1. check' \in [Slot -> [Monitor -> CheckState]]
      BY IdleType, <2>4, StepType DEF GiveUp
    <3> QED
      BY <2>4, <3>1 DEF GiveUp, TypeOK, process, db
  <2>5. ASSUME NEW ok \in BOOLEAN, InsertLog(t, m, ok) PROVE TypeOK'
    <3>1. check' \in [Slot -> [Monitor -> CheckState]]
      BY <2>0, <2>5, StepType, MoveType, Places DEF InsertLog
    <3>2. faults' \in 0..MaxFaults
      BY <2>5, FaultsType DEF InsertLog
    <3>3. logged' \in [Monitor -> Status]
      BY <2>0, <2>5 DEF InsertLog, TypeOK
    <3>4. UNCHANGED <<row, open, alert, cron, stopping>>
      BY <2>5 DEF InsertLog, process
    <3> QED
      BY <3>1, <3>2, <3>3, <3>4 DEF TypeOK
  <2>6. ASSUME NEW ok \in BOOLEAN, UpdateMonitor(t, m, ok) PROVE TypeOK'
    <3>0. AfterUpdate(c) \in CheckState
      BY <2>0, IdleType, MoveType, Places DEF AfterUpdate
    <3>1. check' \in [Slot -> [Monitor -> CheckState]]
      BY <2>6, <3>0, StepType DEF UpdateMonitor
    <3>2. faults' \in 0..MaxFaults
      BY <2>6, FaultsType DEF UpdateMonitor
    <3>3. AtMost(c.clock, Interval[m]) \in Nat /\ AtMost(c.clock, Interval[m]) <= Interval[m]
      BY <2>0 DEF AtMost
    <3>4. row' \in [Monitor -> RowState] /\ \A n \in Monitor : row'[n].age <= Interval[n]
      BY <2>0, <2>6, <3>3 DEF UpdateMonitor, TypeOK, RowState
    <3>5. UNCHANGED <<open, logged, alert, cron, stopping>>
      BY <2>6 DEF UpdateMonitor, process
    <3> QED
      BY <3>1, <3>2, <3>4, <3>5 DEF TypeOK
  <2>7. ASSUME NEW ok \in BOOLEAN, CreateIncident(t, m, ok) PROVE TypeOK'
    <3>1. check' \in [Slot -> [Monitor -> CheckState]]
      BY <2>0, <2>7, StepType, MoveType, Places DEF CreateIncident
    <3>2. faults' \in 0..MaxFaults
      BY <2>7, FaultsType DEF CreateIncident
    <3> QED
      BY <2>7, <3>1, <3>2 DEF CreateIncident, TypeOK, process, AtMost
  <2>8. ASSUME NEW ok \in BOOLEAN, ResolveIncident(t, m, ok) PROVE TypeOK'
    <3>1. check' \in [Slot -> [Monitor -> CheckState]]
      BY <2>0, <2>8, StepType, MoveType, Places DEF ResolveIncident
    <3>2. faults' \in 0..MaxFaults
      BY <2>8, FaultsType DEF ResolveIncident
    <3> QED
      BY <2>8, <3>1, <3>2 DEF ResolveIncident, TypeOK, process
  <2>9. ASSUME NEW ok \in BOOLEAN, Notify(t, m, ok) PROVE TypeOK'
    <3>1. check' \in [Slot -> [Monitor -> CheckState]]
      BY IdleType, <2>9, StepType DEF Notify
    <3>2. faults' \in 0..MaxFaults
      BY <2>9, FaultsType DEF Notify
    <3> QED
      BY <2>9, <3>1, <3>2 DEF Notify, TypeOK, process, Event, Alert
  <2> QED
    BY <1>2, <2>1, <2>2, <2>3, <2>4, <2>5, <2>6, <2>7, <2>8, <2>9 DEF CheckMonitor
<1>3. CASE Advance
  <2>1. check' \in [Slot -> [Monitor -> CheckState]]
    BY <1>3, OlderType DEF Advance, TypeOK
  <2>2. row' \in [Monitor -> RowState] /\ \A m \in Monitor : row'[m].age <= Interval[m]
    BY <1>3, AgeType DEF Advance, TypeOK
  <2>3. cron' \in 0..TickEvery
    BY <1>3 DEF Advance, TypeOK, AtMost
  <2>4. UNCHANGED <<open, logged, alert, stopping, faults>>
    BY <1>3 DEF Advance
  <2> QED
    BY <2>1, <2>2, <2>3, <2>4 DEF TypeOK
<1>4. CASE Stop
  BY <1>4 DEF Stop, Fault, TypeOK, db
<1>5. ASSUME NEW d \in 0..TickEvery, Crash(d) \/ Restart(d) PROVE TypeOK'
  <2>0. Start(d)
    BY <1>5 DEF Crash, Restart
  <2>1. faults' \in 0..MaxFaults
    BY <1>5 DEF Crash, Restart, Fault, TypeOK
  <2>2. check' \in [Slot -> [Monitor -> CheckState]]
    BY <2>0, IdleType DEF Start, AllIdle
  <2>3. row' \in [Monitor -> RowState] /\ \A m \in Monitor : row'[m].age <= Interval[m]
    <3>1. d \in Nat
      OBVIOUS
    <3> QED
      BY <2>0, <3>1, AgeType DEF Start, TypeOK
  <2>4. cron' = 0 /\ stopping' \in BOOLEAN /\ UNCHANGED <<open, logged, alert>>
    BY <2>0 DEF Start
  <2> QED
    BY <2>1, <2>2, <2>3, <2>4 DEF TypeOK
<1>6. CASE UNCHANGED vars
  BY <1>6 DEF vars, TypeOK
<1> QED
  BY <1>1, <1>2, <1>3, <1>4, <1>5, <1>6 DEF Next, Tick, Check, Outage

\* The state of the scheduler is always well-typed: in particular no check
\* outlives the bounds of its tick's context and no age passes the interval.
THEOREM TypeCorrect == Spec => []TypeOK
BY TypeInit, TypePreserved, PTL DEF Spec

-----------------------------------------------------------------------------
(* The claim protects a monitor from a second check.                       *)

\* A queued check finds a worker when there are no more monitors than workers.
LEMMA WorkerForAll ==
    ASSUME Cardinality(Monitor) <= Workers, NEW t \in Slot, NEW m \in Monitor,
           check[t][m].pc = "queued"
    PROVE  WorkerFree(t)
<1>1. IsFiniteSet(Monitor) /\ Workers \in Nat
  BY ConstantAssumption
<1>2. /\ IsFiniteSet(Monitor \ {m})
      /\ Cardinality(Monitor \ {m}) = Cardinality(Monitor) - 1
  BY <1>1, FS_RemoveElement
<1>3. Running(t) \subseteq Monitor \ {m}
  BY DEF Running
<1>4. Cardinality(Running(t)) <= Cardinality(Monitor \ {m})
  BY <1>2, <1>3, FS_Subset
<1>5. Cardinality(Running(t)) \in Nat /\ Cardinality(Monitor) \in Nat
  BY <1>1, <1>2, <1>3, FS_Subset, FS_CardinalityType
<1> QED
  BY <1>1, <1>2, <1>4, <1>5 DEF WorkerFree

\* What one step of the goroutine checking m in tick t may do to its own state
\* and to its monitor's row; everything else in the two tables stays.
Alone(t, m) ==
    /\ cron' = cron
    /\ \A n \in Monitor \ {m} : row'[n] = row[n]
    /\ row'[m].exists = row[m].exists
    /\ \A u \in Slot, n \in Monitor :
          u # t \/ n # m => check'[u][n] = check[u][n]
Moves(c, d) ==
    \/ d = Idle
    \/ d.pc # "queued" /\ d.left = c.left /\ d.clock \in {0, c.clock}
Ages(c, old, new) ==
    \/ new = old
    \/ c.left > 0 /\ new = 0
    \/ c.left > 0 /\ new <= c.clock

LEMMA StepAlone ==
    ASSUME TypeOK, NEW t \in Slot, NEW m \in Monitor, NEW d, Step(t, m, d)
    PROVE  /\ check'[t][m] = d
           /\ \A u \in Slot, n \in Monitor : u # t \/ n # m => check'[u][n] = check[u][n]
BY DEF TypeOK, Step

LEMMA NoDbFault ==
    ASSUME "db" \notin FaultKinds, NEW live, NEW ok \in BOOLEAN, Executes(live, ok)
    PROVE  (live => ok) /\ (ok => live)
BY DEF Executes

LEMMA CheckEffect ==
    ASSUME TypeOK, "db" \notin FaultKinds,
           NEW t \in Slot, NEW m \in Monitor, CheckMonitor(t, m)
    PROVE  /\ check[t][m].pc # "idle"
           /\ Alone(t, m)
           /\ Moves(check[t][m], check'[t][m])
           /\ Ages(check[t][m], row[m].age, row'[m].age)
           /\ check[t][m].pc = "queued" /\ Alive(t, m) /\ row[m].exists => row'[m].age = 0
<1> DEFINE c == check[t][m]
           Goal == /\ c.pc # "idle"
                   /\ Alone(t, m)
                   /\ Moves(c, check'[t][m])
                   /\ Ages(c, row[m].age, row'[m].age)
                   /\ c.pc = "queued" /\ Alive(t, m) /\ row[m].exists => row'[m].age = 0
<1>0. c \in CheckState /\ row \in [Monitor -> RowState]
  BY DEF TypeOK
<1>1. ASSUME NEW d, Step(t, m, d), Moves(c, d), c.pc \notin {"idle", "queued"},
             UNCHANGED <<row, cron>>
      PROVE  Goal
  BY <1>1, StepAlone DEF Alone, Ages
<1>2. ASSUME NEW ok \in BOOLEAN, Claim(t, m, ok) PROVE Goal
  <2>1. (Alive(t, m) => ok) /\ (ok => Alive(t, m))
    BY <1>2, NoDbFault DEF Claim
  <2>2. Step(t, m, [c EXCEPT !.pc = "attempt", !.clock = 0]) /\ cron' = cron /\ c.pc = "queued"
    BY <1>2 DEF Claim, process
  <2>3. row' = IF ok /\ row[m].exists THEN [row EXCEPT ![m].age = 0] ELSE row
    BY <1>2 DEF Claim
  <2>4. Moves(c, [c EXCEPT !.pc = "attempt", !.clock = 0])
    BY <1>0 DEF Moves, CheckState
  <2>5. /\ \A n \in Monitor \ {m} : row'[n] = row[n]
        /\ row'[m].exists = row[m].exists
        /\ row'[m].age = IF ok /\ row[m].exists THEN 0 ELSE row[m].age
    BY <1>0, <2>3 DEF RowState
  <2> QED
    BY <2>1, <2>2, <2>4, <2>5, StepAlone DEF Alone, Ages, Alive
<1>3. ASSUME NEW r \in Status, Attempt(t, m, r) PROVE Goal
  <2>1. ASSUME NEW p \in PC, p # "queued"
        PROVE  Moves(c, [c EXCEPT !.pc = p, !.clock = 0, !.result = r])
    BY <1>0, <2>1 DEF Moves, CheckState
  <2> QED
    BY <1>1, <1>3, <2>1, Places DEF Attempt, db, process
<1>4. CASE Retry(t, m)
  <2>1. Moves(c, [c EXCEPT !.pc = "attempt", !.clock = 0, !.attempt = @ + 1])
    BY <1>0 DEF Moves, CheckState
  <2> QED
    BY <1>1, <1>4, <2>1 DEF Retry, db, process
<1>5. CASE GiveUp(t, m)
  BY <1>1, <1>5 DEF GiveUp, Moves, db, process
<1>6. ASSUME NEW p \in PC, p # "queued" PROVE Moves(c, [c EXCEPT !.pc = p])
  BY <1>0, <1>6 DEF Moves, CheckState
<1>7. ASSUME NEW ok \in BOOLEAN, InsertLog(t, m, ok) PROVE Goal
  BY <1>1, <1>6, <1>7, Places DEF InsertLog, process
<1>8. ASSUME NEW ok \in BOOLEAN, UpdateMonitor(t, m, ok) PROVE Goal
  <2>1. ok => c.left > 0
    BY <1>8, NoDbFault DEF UpdateMonitor, Alive
  <2>2. Step(t, m, AfterUpdate(c)) /\ cron' = cron /\ c.pc = "update"
    BY <1>8 DEF UpdateMonitor, process
  <2>3. Moves(c, AfterUpdate(c))
    BY <1>6, Places DEF AfterUpdate, Moves
  <2>4. AtMost(c.clock, Interval[m]) <= c.clock
    BY <1>0, ConstantAssumption DEF AtMost, CheckState
  <2>5. /\ \A n \in Monitor \ {m} : row'[n] = row[n]
        /\ row'[m].exists = row[m].exists
        /\ row'[m].age = IF ok /\ row[m].exists THEN AtMost(c.clock, Interval[m]) ELSE row[m].age
    BY <1>0, <1>8 DEF RowState, UpdateMonitor
  <2>6. Ages(c, row[m].age, row'[m].age)
    BY <2>1, <2>4, <2>5 DEF Ages
  <2> QED
    BY <2>2, <2>3, <2>5, <2>6, StepAlone DEF Alone
<1>9. ASSUME NEW ok \in BOOLEAN, CreateIncident(t, m, ok) PROVE Goal
  BY <1>1, <1>6, <1>9, Places DEF CreateIncident, process
<1>10. ASSUME NEW ok \in BOOLEAN, ResolveIncident(t, m, ok) PROVE Goal
  BY <1>1, <1>6, <1>10, Places DEF ResolveIncident, process
<1>11. ASSUME NEW ok \in BOOLEAN, Notify(t, m, ok) PROVE Goal
  BY <1>1, <1>11 DEF Notify, Moves, process
<1> QED
  BY <1>2, <1>3, <1>4, <1>5, <1>7, <1>8, <1>9, <1>10, <1>11 DEF CheckMonitor

\* When the cron job fires, a monitor with a live check is not due.
LEMMA DueIsFree ==
    ASSUME ClaimHypothesis, TypeOK, ClaimInv, cron = TickEvery,
           NEW t \in Slot, NEW m \in Monitor, Live(t, m)
    PROVE  m \notin Due
<1> SUFFICES ASSUME m \in Due PROVE FALSE
  OBVIOUS
<1>1. DbDelay < TickEvery /\ CtxLimit <= Interval[m]
  BY DEF ClaimHypothesis
<1>2. /\ row[m].age \in Nat /\ check[t][m].left \in Nat /\ check[t][m].clock \in Nat
      /\ TickEvery \in Nat /\ DbDelay \in Nat /\ CtxLimit \in Nat /\ Interval[m] \in Nat
  BY ConstantAssumption DEF TypeOK, RowState, CheckState
<1>3. check[t][m].pc # "queued"
  BY <1>1, <1>2 DEF ClaimInv, InTime
<1>4. row[m].age + check[t][m].left <= CtxLimit
  BY <1>3 DEF ClaimInv, InTime, Live, Alive, Due
<1> QED
  BY <1>1, <1>2, <1>4 DEF Due, Live, Alive

LEMMA ClaimInit == Init => ClaimInv
BY ConstantAssumption DEF Init, ClaimInv, SingleFlight, Live, InTime, Idle

LEMMA ClaimPreserved ==
    ASSUME ClaimHypothesis PROVE TypeOK /\ ClaimInv /\ [Next]_vars => ClaimInv'
<1> USE ConstantAssumption
<1>h. /\ "db" \notin FaultKinds
      /\ Cardinality(Monitor) <= Workers
      /\ DbDelay < TickEvery
      /\ \A m \in Monitor : CtxLimit <= Interval[m]
  BY DEF ClaimHypothesis
<1> SUFFICES ASSUME TypeOK, ClaimInv, [Next]_vars PROVE ClaimInv'
  OBVIOUS
<1>0. /\ check \in [Slot -> [Monitor -> CheckState]]
      /\ row \in [Monitor -> RowState]
      /\ cron \in 0..TickEvery
      /\ \A t \in Slot, m \in Monitor : check[t][m] \in CheckState
      /\ \A m \in Monitor : row[m] \in RowState
  BY DEF TypeOK
<1>1. ASSUME NEW t \in Slot, NEW ok \in BOOLEAN, RunChecks(t, ok) PROVE ClaimInv'
  <2>1. \A u \in Slot, m \in Monitor : check[u][m].pc # "queued"
    BY <1>0, <1>1, <1>h DEF ClaimInv, InTime, RunChecks
  <2>2. \A u \in Slot, m \in Monitor : Live(u, m) => m \notin Due
    BY <1>1, DueIsFree DEF RunChecks
  <2>3. /\ \A u \in Slot \ {t} : check'[u] = check[u]
        /\ \A m \in Monitor : check'[t][m] = IF ok /\ m \in Due THEN Queued(row[m].status) ELSE Idle
        /\ cron' = 0 /\ row' = row
    BY <1>0, <1>1 DEF RunChecks
  <2>4. \A s \in Status : /\ Queued(s).pc = "queued"
                          /\ Queued(s).clock = 0
                          /\ Queued(s).left = CtxLimit
    BY DEF Queued, Idle
  <2>5. SingleFlight'
    BY <1>0, <2>2, <2>3 DEF ClaimInv, SingleFlight, Live, Alive, Idle
  <2>6. ASSUME NEW u \in Slot, NEW m \in Monitor PROVE InTime(check[u][m], row[m])'
    <3>1. CASE u = t
      <4>1. row[m].status \in Status
        BY <1>0 DEF RowState
      <4> QED
        BY <3>1, <2>3, <2>4, <4>1 DEF InTime, Idle
    <3>2. CASE u # t
      <4>1. check'[u][m] = check[u][m]
        BY <3>2, <2>3
      <4> QED
        BY <4>1, <2>1, <2>3 DEF ClaimInv, InTime
    <3> QED
      BY <3>1, <3>2
  <2> QED
    BY <2>5, <2>6 DEF ClaimInv
<1>2. ASSUME NEW t \in Slot, NEW m \in Monitor, CheckMonitor(t, m) PROVE ClaimInv'
  <2> DEFINE c == check[t][m]
  <2>1. /\ c.pc # "idle"
        /\ Alone(t, m)
        /\ Moves(c, check'[t][m])
        /\ Ages(c, row[m].age, row'[m].age)
        /\ c.pc = "queued" /\ Alive(t, m) /\ row[m].exists => row'[m].age = 0
    BY <1>h, <1>2, CheckEffect
  <2>2. \A u \in Slot, n \in Monitor : Live(u, n)' => Live(u, n)
    BY <2>1 DEF Live, Alive, Alone, Moves, Idle
  <2>3. SingleFlight'
    BY <2>2 DEF ClaimInv, SingleFlight
  <2>4. ASSUME NEW u \in Slot, NEW n \in Monitor PROVE InTime(check[u][n], row[n])'
    <3>1. CASE n # m
      BY <3>1, <2>1 DEF Alone, ClaimInv, InTime
    <3>2. CASE n = m /\ u # t
      <4>1. check'[u][n] = check[u][n] /\ cron' = cron
        BY <3>2, <2>1 DEF Alone
      <4>2. CASE row'[m].age = row[m].age
        BY <4>1, <4>2, <3>2, <2>1 DEF Alone, ClaimInv, InTime
      <4>3. CASE Alive(t, m)
        <5>1. ~ Live(u, m)
          BY <4>3, <3>2, <2>1 DEF ClaimInv, SingleFlight, Live
        <5> QED
          BY <5>1, <4>1, <3>2 DEF ClaimInv, InTime, Live, Alive
      <4> QED
        BY <4>2, <4>3, <2>1 DEF Ages, Alive
    <3>3. CASE n = m /\ u = t
      <4>1. CASE check'[t][m] = Idle
        BY <4>1, <3>3 DEF InTime, Idle
      <4>2. CASE check'[t][m] # Idle
        <5>1. /\ check'[t][m].pc # "queued"
              /\ check'[t][m].left = c.left
              /\ check'[t][m].clock \in {0, c.clock}
          BY <4>2, <2>1 DEF Moves
        <5>2. c.left \in 0..CtxLimit /\ c.clock \in Nat /\ row[m].age \in Nat
          BY <1>0 DEF CheckState, RowState
        <5>3. c.left > 0 => c.clock + c.left <= CtxLimit
          BY <2>1 DEF ClaimInv, InTime
        <5>4. c.left > 0 /\ row'[m].exists => row'[m].age + c.left <= CtxLimit
          <6>1. row'[m].exists = row[m].exists
            BY <2>1 DEF Alone
          <6>2. CASE c.pc = "queued"
            BY <6>1, <6>2, <2>1, <5>2 DEF Alive
          <6>3. CASE c.pc # "queued"
            <7>1. c.left > 0 /\ row[m].exists => row[m].age + c.left <= CtxLimit
              BY <6>3, <2>1 DEF ClaimInv, InTime
            <7>2. CASE row'[m].age = row[m].age
              BY <7>1, <7>2, <6>1
            <7>3. CASE row'[m].age = 0
              BY <7>3, <5>2
            <7>4. CASE row'[m].age <= c.clock
              <8>1. row'[m].age \in Nat
                <9>1. TypeOK'
                  BY TypePreserved
                <9> QED
                  BY <9>1 DEF TypeOK, RowState
              <8> QED
                BY <8>1, <7>4, <5>2, <5>3
            <7> QED
              BY <7>2, <7>3, <7>4, <2>1 DEF Ages
          <6> QED
            BY <6>2, <6>3
        <5> QED
          BY <5>1, <5>2, <5>3, <5>4, <3>3 DEF InTime
      <4> QED
        BY <4>1, <4>2
    <3> QED
      BY <3>1, <3>2, <3>3
  <2> QED
    BY <2>3, <2>4 DEF ClaimInv
<1>3. CASE Advance
  <2>1. ASSUME NEW t \in Slot, NEW m \in Monitor
        PROVE  check'[t][m] = Older(check[t][m])
    BY <1>3 DEF Advance
  <2>2. ASSUME NEW m \in Monitor
        PROVE  /\ row'[m].exists = row[m].exists
               /\ row'[m].age \in Nat /\ row'[m].age <= row[m].age + 1
    <3>1. row'[m] = [row[m] EXCEPT !.age = AtMost(@ + 1, Interval[m])]
      BY <1>3 DEF Advance
    <3>2. row[m].age \in Nat /\ Interval[m] \in Nat
      BY <1>0 DEF RowState
    <3>3. AtMost(row[m].age + 1, Interval[m]) \in Nat
          /\ AtMost(row[m].age + 1, Interval[m]) <= row[m].age + 1
      BY <3>2 DEF AtMost
    <3> QED
      BY <1>0, <3>1, <3>3 DEF RowState
  <2>3. ASSUME NEW t \in Slot, NEW m \in Monitor, check[t][m].pc # "idle"
        PROVE  /\ Older(check[t][m]).pc = check[t][m].pc
               /\ Older(check[t][m]).clock <= check[t][m].clock + 1
               /\ Older(check[t][m]).clock \in Nat
               /\ Older(check[t][m]).left = IF check[t][m].left = 0 THEN 0 ELSE check[t][m].left - 1
               /\ check[t][m].pc = "queued" =>
                     Older(check[t][m]).clock = AtMost(check[t][m].clock + 1, DbDelay)
    <3>0. check[t][m] \in CheckState
      BY <1>0
    <3> QED
      BY <2>3, <3>0 DEF Older, CheckState, AtMost
  <2>4. ASSUME NEW t \in Slot, NEW m \in Monitor, check[t][m].pc = "idle"
        PROVE  Older(check[t][m]) = check[t][m]
    BY <2>4 DEF Older
  <2>5. \A t \in Slot, m \in Monitor : Live(t, m)' => Live(t, m)
    <3> SUFFICES ASSUME NEW t \in Slot, NEW m \in Monitor, Live(t, m)' PROVE Live(t, m)
      OBVIOUS
    <3>1. check[t][m].left \in Nat
      BY <1>0 DEF CheckState
    <3> QED
      BY <2>1, <2>3, <2>4, <3>1 DEF Live, Alive
  <2>6. SingleFlight'
    BY <2>5 DEF ClaimInv, SingleFlight
  <2>7. ASSUME NEW t \in Slot, NEW m \in Monitor PROVE InTime(check[t][m], row[m])'
    <3> DEFINE c == check[t][m]
    <3>0. /\ c.left \in 0..CtxLimit /\ c.clock \in Nat /\ row[m].age \in Nat
      BY <1>0 DEF CheckState, RowState
    <3>1. CASE c.pc = "idle"
      BY <3>1, <2>1, <2>4 DEF InTime
    <3>2. CASE c.pc = "queued"
      <4>1. WorkerFree(t)
        BY <3>2, <1>h, WorkerForAll
      <4>2. ~ Urgent(t, m)
        BY <1>3 DEF Advance
      <4>3. c.clock < DbDelay
        BY <4>1, <4>2, <3>2, <3>0 DEF Urgent
      <4>4. c.clock = cron /\ (c.left > 0 => c.clock + c.left <= CtxLimit)
        BY <3>2 DEF ClaimInv, InTime
      <4>5. cron' = cron + 1
        BY <4>3, <4>4, <1>h, <1>0, <1>3 DEF Advance, AtMost
      <4>6. Older(c).clock = c.clock + 1
        BY <2>3, <3>2, <4>3, <3>0 DEF AtMost
      <4>7. check'[t][m] = Older(c) /\ Older(c).pc = "queued"
            /\ Older(c).left = IF c.left = 0 THEN 0 ELSE c.left - 1
        BY <2>1, <2>3, <3>2
      <4> QED
        BY <4>3, <4>4, <4>5, <4>6, <4>7, <3>0 DEF InTime
    <3>3. CASE c.pc \notin {"idle", "queued"}
      <4>1. /\ c.left > 0 => c.clock + c.left <= CtxLimit
            /\ c.left > 0 /\ row[m].exists => row[m].age + c.left <= CtxLimit
        BY <3>3 DEF ClaimInv, InTime
      <4>2. check'[t][m] = Older(c) /\ Older(c).pc = c.pc
            /\ Older(c).left = (IF c.left = 0 THEN 0 ELSE c.left - 1)
            /\ Older(c).clock <= c.clock + 1 /\ Older(c).clock \in Nat
        BY <2>1, <2>3, <3>3
      <4>3. /\ row'[m].exists = row[m].exists
            /\ row'[m].age \in Nat /\ row'[m].age <= row[m].age + 1
        BY <2>2
      <4> QED
        BY <4>1, <4>2, <4>3, <3>0, <3>3 DEF InTime
    <3> QED
      BY <3>1, <3>2, <3>3
  <2> QED
    BY <2>6, <2>7 DEF ClaimInv
<1>4. CASE Stop
  BY <1>4 DEF Stop, db, ClaimInv, SingleFlight, Live, Alive, InTime
<1>5. ASSUME NEW d \in 0..TickEvery, Crash(d) \/ Restart(d) PROVE ClaimInv'
  <2>1. \A t \in Slot, m \in Monitor : check'[t][m] = Idle
    BY <1>5 DEF Crash, Restart, Start, AllIdle
  <2> QED
    BY <2>1 DEF ClaimInv, SingleFlight, Live, InTime, Idle
<1>6. CASE UNCHANGED vars
  BY <1>6 DEF vars, ClaimInv, SingleFlight, Live, Alive, InTime
<1> QED
  BY <1>1, <1>2, <1>3, <1>4, <1>5, <1>6 DEF Next, Tick, Check, Outage

\* When the hypothesis holds, no two checks of one monitor can write at the
\* same time: the claim does what the comment above it says.
THEOREM ClaimProtects == ASSUME ClaimHypothesis PROVE Spec => []SingleFlight
<1>1. ClaimInv => SingleFlight
  BY DEF ClaimInv
<1> QED
  BY <1>1, ClaimInit, ClaimPreserved, TypeCorrect, PTL DEF Spec

-----------------------------------------------------------------------------
(* The claim moves last_checked_at forward, and so does the result.        *)

LEMMA RecordStep ==
    ASSUME TypeOK, NEW t \in Slot, NEW m \in Monitor, CheckMonitor(t, m),
           check'[t][m].pc \in {"log", "update"}
    PROVE  /\ row' = row
           /\ \/ check'[t][m].clock = 0
              \/ /\ check[t][m].pc = "log" /\ check'[t][m].clock = check[t][m].clock
                 /\ check'[t][m].left = check[t][m].left
<1> DEFINE c == check[t][m]
<1>0. c \in CheckState
  BY DEF TypeOK
<1>1. ASSUME NEW r \in Status, Attempt(t, m, r) PROVE row' = row /\ check'[t][m].clock = 0
  <2>1. PICK p : Step(t, m, [c EXCEPT !.pc = p, !.clock = 0, !.result = r])
    BY <1>1 DEF Attempt
  <2>2. check'[t][m] = [c EXCEPT !.pc = p, !.clock = 0, !.result = r]
    BY <2>1, StepAlone
  <2> QED
    BY <1>0, <1>1, <2>2 DEF CheckState, Attempt, db
<1>2. ASSUME NEW ok \in BOOLEAN, InsertLog(t, m, ok)
      PROVE  /\ row' = row /\ c.pc = "log"
             /\ check'[t][m].clock = c.clock /\ check'[t][m].left = c.left
  <2>1. check'[t][m] = [c EXCEPT !.pc = "update"]
    BY <1>2, StepAlone DEF InsertLog
  <2> QED
    BY <1>0, <1>2, <2>1 DEF CheckState, InsertLog
<1>3. ASSUME NEW p \in PC
      PROVE  /\ [c EXCEPT !.pc = p].pc = p
             /\ [c EXCEPT !.pc = p, !.clock = 0].pc = p
             /\ [c EXCEPT !.pc = p, !.clock = 0, !.attempt = @ + 1].pc = p
  BY <1>0, <1>3 DEF CheckState
<1>4. Idle.pc = "idle"
  BY DEF Idle
<1>5. ASSUME NEW ok \in BOOLEAN, Claim(t, m, ok) PROVE check'[t][m].pc = "attempt"
  <2>1. check'[t][m] = [c EXCEPT !.pc = "attempt", !.clock = 0]
    BY <1>5, StepAlone DEF Claim
  <2> QED
    BY <1>3, <2>1, Places
<1>6. ASSUME Retry(t, m) PROVE check'[t][m].pc = "attempt"
  <2>1. check'[t][m] = [c EXCEPT !.pc = "attempt", !.clock = 0, !.attempt = @ + 1]
    BY <1>6, StepAlone DEF Retry
  <2> QED
    BY <1>3, <2>1, Places
<1>7. ASSUME NEW ok \in BOOLEAN, UpdateMonitor(t, m, ok)
      PROVE  check'[t][m].pc \in {"incident", "resolve", "idle"}
  <2>1. check'[t][m] = AfterUpdate(c)
    BY <1>7, StepAlone DEF UpdateMonitor
  <2> QED
    BY <1>3, <1>4, <2>1, Places DEF AfterUpdate
<1>8. ASSUME NEW ok \in BOOLEAN, CreateIncident(t, m, ok) \/ ResolveIncident(t, m, ok)
      PROVE  check'[t][m].pc = "notify"
  <2>1. check'[t][m] = [c EXCEPT !.pc = "notify"]
    BY <1>8, StepAlone DEF CreateIncident, ResolveIncident
  <2> QED
    BY <1>3, <2>1, Places
<1>9. ASSUME NEW ok \in BOOLEAN, GiveUp(t, m) \/ Notify(t, m, ok) PROVE check'[t][m].pc = "idle"
  BY <1>4, <1>9, StepAlone DEF GiveUp, Notify
<1> QED
  BY <1>1, <1>2, <1>5, <1>6, <1>7, <1>8, <1>9 DEF CheckMonitor

LEMMA AgePreserved ==
    ASSUME ClaimHypothesis PROVE TypeOK /\ ClaimInv /\ AgeInv /\ [Next]_vars => AgeInv'
<1> USE ConstantAssumption
<1> SUFFICES ASSUME TypeOK, ClaimInv, AgeInv, [Next]_vars PROVE AgeInv'
  OBVIOUS
<1>0. /\ \A t \in Slot, m \in Monitor : check[t][m] \in CheckState
      /\ \A m \in Monitor : row[m] \in RowState /\ Interval[m] \in Nat
  BY DEF TypeOK
<1>1. ASSUME NEW t \in Slot, NEW ok \in BOOLEAN, RunChecks(t, ok) PROVE AgeInv'
  <2>1. /\ \A u \in Slot \ {t} : check'[u] = check[u]
        /\ \A m \in Monitor : check'[t][m] = IF ok /\ m \in Due THEN Queued(row[m].status) ELSE Idle
        /\ row' = row
    BY <1>1 DEF RunChecks, TypeOK
  <2>2. \A s \in Status : Queued(s).pc = "queued"
    BY DEF Queued, Idle
  <2>3. ASSUME NEW u \in Slot, NEW m \in Monitor PROVE Recent(check[u][m], row[m], m)'
    <3>1. row[m].status \in Status
      BY <1>0 DEF RowState
    <3>2. u = t => check'[u][m].pc \in {"queued", "idle"}
      BY <2>1, <2>2, <3>1 DEF Idle
    <3> QED
      BY <2>1, <3>2 DEF AgeInv, Recent
  <2> QED
    BY <2>3 DEF AgeInv
<1>2. ASSUME NEW t \in Slot, NEW m \in Monitor, CheckMonitor(t, m) PROVE AgeInv'
  <2>1. check[t][m].pc # "idle" /\ Alone(t, m) /\ Ages(check[t][m], row[m].age, row'[m].age)
    BY <1>2, CheckEffect DEF ClaimHypothesis
  <2>2. ASSUME NEW u \in Slot, NEW n \in Monitor PROVE Recent(check[u][n], row[n], n)'
    <3>1. CASE n # m
      BY <2>1, <3>1 DEF Alone, AgeInv, Recent
    <3>2. CASE n = m /\ u # t
      <4>1. check'[u][n] = check[u][n] /\ row'[n].exists = row[n].exists
        BY <2>1, <3>2 DEF Alone
      <4>2. CASE Alive(t, m)
        <5>1. ~Live(u, m)
          BY <2>1, <3>2, <4>2 DEF ClaimInv, SingleFlight, Live
        <5> QED
          BY <3>2, <4>1, <5>1 DEF Live, Alive, Recent
      <4>3. CASE ~Alive(t, m)
        BY <2>1, <3>2, <4>1, <4>3 DEF Ages, Alive, AgeInv, Recent
      <4> QED
        BY <4>2, <4>3
    <3>3. CASE n = m /\ u = t
      <4>1. SUFFICES ASSUME check'[t][m].pc \in {"log", "update"}, check'[t][m].left > 0,
                            row'[m].exists
                     PROVE  AtMost(check'[t][m].clock, Interval[m]) <= row'[m].age
        BY <3>3 DEF Recent
      <4>2. /\ row' = row
            /\ \/ check'[t][m].clock = 0
               \/ /\ check[t][m].pc = "log" /\ check'[t][m].clock = check[t][m].clock
                  /\ check'[t][m].left = check[t][m].left
        BY <1>2, <4>1, RecordStep
      <4>3. row[m].age \in Nat /\ AtMost(0, Interval[m]) = 0
        BY <1>0 DEF RowState, AtMost
      <4> QED
        BY <4>1, <4>2, <4>3 DEF AgeInv, Recent
    <3> QED
      BY <3>1, <3>2, <3>3
  <2> QED
    BY <2>2 DEF AgeInv
<1>3. CASE Advance
  <2>1. ASSUME NEW t \in Slot, NEW m \in Monitor PROVE Recent(check[t][m], row[m], m)'
    <3> DEFINE c == check[t][m]
               r == row[m]
    <3>1. check'[t][m] = Older(c) /\ row'[m] = [r EXCEPT !.age = AtMost(@ + 1, Interval[m])]
      BY <1>3 DEF Advance
    <3>2. /\ c.clock \in Nat /\ c.left \in Nat /\ r.age \in Nat /\ Interval[m] \in Nat
          /\ row'[m].exists = r.exists /\ row'[m].age = AtMost(r.age + 1, Interval[m])
      BY <1>0, <3>1 DEF CheckState, RowState
    <3>3. CASE c.pc \in {"log", "update"}
      <4>1. /\ Older(c).pc = c.pc
            /\ Older(c).left > 0 => c.left > 0 /\ Older(c).clock = c.clock + 1
        <5>1. /\ Older(c).pc = c.pc
              /\ Older(c).clock = IF c.left = 0 THEN c.clock ELSE c.clock + 1
              /\ Older(c).left = IF c.left = 0 THEN 0 ELSE c.left - 1
          BY <1>0, <3>3 DEF Older, CheckState
        <5> QED
          BY <3>2, <5>1
      <4>2. AtMost(c.clock, Interval[m]) <= r.age =>
                AtMost(c.clock + 1, Interval[m]) <= AtMost(r.age + 1, Interval[m])
        BY <3>2 DEF AtMost
      <4> QED
        BY <3>1, <3>2, <3>3, <4>1, <4>2 DEF AgeInv, Recent
    <3>4. CASE c.pc \notin {"log", "update"}
      <4>1. Older(c).pc = c.pc
        BY <1>0 DEF Older, CheckState
      <4> QED
        BY <3>1, <3>4, <4>1 DEF Recent
    <3> QED
      BY <3>3, <3>4
  <2> QED
    BY <2>1 DEF AgeInv
<1>4. CASE Stop
  BY <1>4 DEF Stop, db, AgeInv, Recent
<1>5. ASSUME NEW d \in 0..TickEvery, Crash(d) \/ Restart(d) PROVE AgeInv'
  <2>1. \A t \in Slot, m \in Monitor : check'[t][m] = Idle
    BY <1>5 DEF Crash, Restart, Start, AllIdle
  <2> QED
    BY <2>1 DEF AgeInv, Recent, Idle
<1>6. CASE UNCHANGED vars
  BY <1>6 DEF vars, AgeInv, Recent
<1> QED
  BY <1>1, <1>2, <1>3, <1>4, <1>5, <1>6 DEF Next, Tick, Check, Outage

\* Under the hypothesis no check moves last_checked_at backwards: a slow check
\* writes the moment its last attempt returned, which is after its claim.
THEOREM NeverBackwards == ASSUME ClaimHypothesis PROVE Spec => LastCheckedMonotone
<1>1. Init => AgeInv
  BY DEF Init, AgeInv, Recent, Idle
<1>2. ASSUME TypeOK, AgeInv, Check, NEW n \in Monitor PROVE row'[n].age <= row[n].age
  <2>1. PICK t \in Slot, m \in Monitor : CheckMonitor(t, m)
    BY <1>2 DEF Check
  <2>2. "db" \notin FaultKinds
    BY DEF ClaimHypothesis
  <2>3. row \in [Monitor -> RowState] /\ row[n] \in RowState /\ row[n].age \in Nat
    BY <1>2 DEF TypeOK, RowState
  <2>4. CASE row' = row
    BY <2>3, <2>4
  <2>5. ASSUME NEW ok \in BOOLEAN, Claim(t, m, ok) PROVE row'[n].age <= row[n].age
    <3>1. row' = row \/ row' = [row EXCEPT ![m].age = 0]
      BY <2>5 DEF Claim
    <3>2. row' = [row EXCEPT ![m].age = 0] => row'[n].age = IF n = m THEN 0 ELSE row[n].age
      BY <2>3 DEF RowState
    <3> QED
      BY <2>3, <3>1, <3>2
  <2>6. ASSUME NEW ok \in BOOLEAN, UpdateMonitor(t, m, ok) PROVE row'[n].age <= row[n].age
    <3>1. ok => check[t][m].left > 0
      BY <2>2, <2>6, NoDbFault DEF UpdateMonitor, Alive
    <3>2. ok /\ row[m].exists => AtMost(check[t][m].clock, Interval[m]) <= row[m].age
      BY <1>2, <2>6, <3>1 DEF AgeInv, Recent, UpdateMonitor
    <3>3. row'[n].age = IF ok /\ row[m].exists /\ n = m
                        THEN AtMost(check[t][m].clock, Interval[m]) ELSE row[n].age
      BY <2>3, <2>6 DEF UpdateMonitor, RowState
    <3> QED
      BY <2>3, <3>2, <3>3
  <2>7. \/ row' = row
        \/ \E ok \in BOOLEAN : Claim(t, m, ok) \/ UpdateMonitor(t, m, ok)
    BY <2>1 DEF CheckMonitor, InsertLog, CreateIncident, ResolveIncident, Notify, Attempt,
                Retry, GiveUp, db
  <2> QED
    BY <2>4, <2>5, <2>6, <2>7
<1>3. TypeOK /\ AgeInv /\ [Next]_vars =>
        [Check => \A m \in Monitor : row'[m].age <= row[m].age]_vars
  BY <1>2
<1> QED
  BY <1>1, <1>3, ClaimInit, ClaimPreserved, AgePreserved, TypeCorrect, PTL
     DEF Spec, LastCheckedMonotone

-----------------------------------------------------------------------------
(* A check whose worst case fits in the context is never cut short.        *)

LEMMA Rounds ==
    ASSUME NEW a \in Nat, NEW b \in Nat, NEW r \in Nat
    PROVE  /\ a * r \in Nat
           /\ (a + 1) * r = a * r + r
           /\ a <= b => a * r <= b * r
OBVIOUS

LEMMA MonitorTypes ==
    ASSUME NEW m \in Monitor
    PROVE  /\ Timeout[m] \in Nat /\ Interval[m] \in Nat
           /\ Retries(m) \in Nat /\ Round(m) \in Nat
           /\ Round(m) = Timeout[m] + RetryWait
           /\ RetryWait \in Nat /\ DbDelay \in Nat /\ CtxLimit \in Nat
BY ConstantAssumption DEF Retries, Round

\* A check within its budget still has some of its context left.
LEMMA BudgetAlive ==
    ASSUME BudgetHypothesis, NEW m \in Monitor, NEW c \in CheckState,
           InBudget(c, m), c.pc # "idle"
    PROVE  c.left > 0
<1>1. /\ c.attempt \in Nat /\ c.clock \in Nat /\ c.left \in 0..CtxLimit /\ c.pc \in PC
  BY DEF CheckState
<1>2. c.attempt <= Retries(m)
  BY DEF InBudget
<1>3. c.attempt * Round(m) \in Nat /\ Retries(m) * Round(m) \in Nat
      /\ c.attempt * Round(m) <= Retries(m) * Round(m)
  BY <1>1, <1>2, MonitorTypes, Rounds
<1>4. CtxLimit - c.left <= DbDelay + Retries(m) * Round(m) + Timeout[m] + DbDelay
  <2>1. CASE c.pc = "queued"
    <3>1. CtxLimit - c.left <= c.clock /\ c.clock <= DbDelay
      BY <2>1 DEF InBudget
    <3> QED
      BY <3>1, <1>1, <1>3, MonitorTypes
  <2>2. CASE c.pc = "attempt"
    <3>1. CtxLimit - c.left <= DbDelay + c.attempt * Round(m) + c.clock
          /\ c.clock <= Timeout[m]
      BY <2>2 DEF InBudget
    <3> QED
      BY <3>1, <1>1, <1>3, MonitorTypes
  <2>3. CASE c.pc = "pause"
    <3>1. /\ CtxLimit - c.left <= DbDelay + c.attempt * Round(m) + Timeout[m] + c.clock
          /\ c.clock <= RetryWait
          /\ c.attempt < Retries(m)
      BY <2>3 DEF InBudget
    <3>2. (c.attempt + 1) * Round(m) <= Retries(m) * Round(m)
          /\ (c.attempt + 1) * Round(m) = c.attempt * Round(m) + Round(m)
      <4>1. c.attempt + 1 <= Retries(m) /\ c.attempt + 1 \in Nat
        BY <3>1, <1>1, MonitorTypes
      <4> QED
        BY <4>1, <1>1, MonitorTypes, Rounds
    <3> QED
      BY <3>1, <3>2, <1>1, <1>3, MonitorTypes
  <2>4. CASE c.pc \in WritePC
    <3>1. CtxLimit - c.left <= DbDelay + c.attempt * Round(m) + Timeout[m] + c.clock
          /\ c.clock <= DbDelay
      BY <2>4 DEF InBudget
    <3> QED
      BY <3>1, <1>1, <1>3, MonitorTypes
  <2> QED
    BY <1>1, <2>1, <2>2, <2>3, <2>4 DEF PC
<1> QED
  BY <1>1, <1>3, <1>4, MonitorTypes DEF BudgetHypothesis, Budget

\* The steps of a goroutine keep it within its budget.
LEMMA BudgetStep ==
    ASSUME TypeOK, BudgetInv, NEW t \in Slot, NEW m \in Monitor, CheckMonitor(t, m)
    PROVE  BudgetInv'
<1> DEFINE c == check[t][m]
<1>0. /\ c \in CheckState /\ c.attempt \in Nat /\ c.clock \in Nat /\ c.left \in 0..CtxLimit
      /\ InBudget(c, m)
  BY DEF TypeOK, CheckState, BudgetInv
<1>1. ASSUME NEW d, Step(t, m, d), InBudget(d, m) PROVE BudgetInv'
  BY <1>1, StepAlone DEF BudgetInv
<1>2. InBudget(Idle, m)
  BY DEF InBudget, Idle, WritePC
<1>3. c.attempt * Round(m) \in Nat
  BY <1>0, MonitorTypes, Rounds
<1>4. ASSUME NEW p \in WritePC, c.pc \in WritePC PROVE InBudget([c EXCEPT !.pc = p], m)
  <2> DEFINE d == [c EXCEPT !.pc = p]
  <2>1. d.pc = p /\ d.attempt = c.attempt /\ d.clock = c.clock /\ d.left = c.left
    BY <1>0 DEF CheckState
  <2>2. c.pc # "idle" /\ p \notin {"idle", "queued", "attempt", "pause"}
    BY <1>4 DEF WritePC
  <2> HIDE DEF d
  <2>3. InBudget(d, m)
    BY <1>0, <1>4, <2>1, <2>2 DEF InBudget
  <2> QED
    BY <2>3 DEF d
<1>5. ASSUME NEW ok \in BOOLEAN, Claim(t, m, ok) PROVE BudgetInv'
  <2> DEFINE d == [c EXCEPT !.pc = "attempt", !.clock = 0]
  <2>1. d.pc = "attempt" /\ d.attempt = c.attempt /\ d.clock = 0 /\ d.left = c.left
    BY <1>0 DEF CheckState
  <2>2. c.pc = "queued" /\ Step(t, m, d)
    BY <1>5 DEF Claim
  <2>3. c.attempt <= Retries(m) /\ CtxLimit - c.left <= c.clock /\ c.clock <= DbDelay
    BY <1>0, <2>2 DEF InBudget
  <2> HIDE DEF d
  <2>4. CtxLimit - d.left <= DbDelay + d.attempt * Round(m) + d.clock
    BY <1>0, <1>3, <2>1, <2>3, MonitorTypes
  <2>5. InBudget(d, m)
    BY <2>1, <2>3, <2>4, MonitorTypes DEF InBudget, WritePC
  <2> QED
    BY <1>1, <2>2, <2>5
<1>6. ASSUME NEW r \in Status, Attempt(t, m, r) PROVE BudgetInv'
  <2> DEFINE p == IF r = "down" /\ c.attempt < Retries(m) THEN "pause" ELSE "log"
             d == [c EXCEPT !.pc = p, !.clock = 0, !.result = r]
  <2>1. d.pc = p /\ d.attempt = c.attempt /\ d.clock = 0 /\ d.left = c.left
    BY <1>0 DEF CheckState
  <2>2. c.pc = "attempt" /\ Step(t, m, d)
    BY <1>6 DEF Attempt
  <2>3. c.attempt <= Retries(m) /\ c.clock <= Timeout[m]
        /\ CtxLimit - c.left <= DbDelay + c.attempt * Round(m) + c.clock
    BY <1>0, <2>2 DEF InBudget
  <2>4. p \in {"pause", "log"} /\ (p = "pause" => c.attempt < Retries(m))
    OBVIOUS
  <2> HIDE DEF d, p
  <2>5. CtxLimit - d.left <= DbDelay + d.attempt * Round(m) + Timeout[m] + d.clock
    BY <1>0, <1>3, <2>1, <2>3, MonitorTypes
  <2>6. InBudget(d, m)
    BY <2>1, <2>3, <2>4, <2>5, MonitorTypes DEF InBudget, WritePC
  <2> QED
    BY <1>1, <2>2, <2>6
<1>7. CASE Retry(t, m)
  <2> DEFINE d == [c EXCEPT !.pc = "attempt", !.clock = 0, !.attempt = @ + 1]
  <2>1. d.pc = "attempt" /\ d.attempt = c.attempt + 1 /\ d.clock = 0 /\ d.left = c.left
    BY <1>0 DEF CheckState
  <2>2. c.pc = "pause" /\ Step(t, m, d)
    BY <1>7 DEF Retry
  <2>3. c.attempt < Retries(m) /\ c.clock <= RetryWait
        /\ CtxLimit - c.left <= DbDelay + c.attempt * Round(m) + Timeout[m] + c.clock
    BY <1>0, <2>2 DEF InBudget
  <2>4. (c.attempt + 1) * Round(m) = c.attempt * Round(m) + Round(m)
    BY <1>0, MonitorTypes, Rounds
  <2> HIDE DEF d
  <2>5. CtxLimit - d.left <= DbDelay + d.attempt * Round(m) + d.clock
    BY <1>0, <1>3, <2>1, <2>3, <2>4, MonitorTypes
  <2>6. d.attempt <= Retries(m)
    BY <1>0, <2>1, <2>3, MonitorTypes
  <2>7. InBudget(d, m)
    BY <2>1, <2>5, <2>6, MonitorTypes DEF InBudget, WritePC
  <2> QED
    BY <1>1, <2>2, <2>7
<1>8. CASE GiveUp(t, m)
  BY <1>1, <1>2, <1>8 DEF GiveUp
<1>9. ASSUME NEW ok \in BOOLEAN, InsertLog(t, m, ok) PROVE BudgetInv'
  <2>1. c.pc \in WritePC /\ "update" \in WritePC /\ Step(t, m, [c EXCEPT !.pc = "update"])
    BY <1>9 DEF InsertLog, WritePC
  <2> QED
    BY <1>1, <1>4, <2>1
<1>10. ASSUME NEW ok \in BOOLEAN, UpdateMonitor(t, m, ok) PROVE BudgetInv'
  <2>1. c.pc \in WritePC /\ {"incident", "resolve"} \subseteq WritePC /\ Step(t, m, AfterUpdate(c))
    BY <1>10 DEF UpdateMonitor, WritePC
  <2>2. InBudget(AfterUpdate(c), m)
    BY <1>2, <1>4, <2>1 DEF AfterUpdate
  <2> QED
    BY <1>1, <2>1, <2>2
<1>11. ASSUME NEW ok \in BOOLEAN, CreateIncident(t, m, ok) \/ ResolveIncident(t, m, ok)
       PROVE BudgetInv'
  <2>1. c.pc \in WritePC /\ "notify" \in WritePC /\ Step(t, m, [c EXCEPT !.pc = "notify"])
    BY <1>11 DEF CreateIncident, ResolveIncident, WritePC
  <2> QED
    BY <1>1, <1>4, <2>1
<1>12. ASSUME NEW ok \in BOOLEAN, Notify(t, m, ok) PROVE BudgetInv'
  BY <1>1, <1>2, <1>12 DEF Notify
<1> QED
  BY <1>5, <1>6, <1>7, <1>8, <1>9, <1>10, <1>11, <1>12 DEF CheckMonitor

\* Time passes only for a check that is not urgent, so each bound holds.
LEMMA BudgetTime ==
    ASSUME TypeOK, BudgetInv, Cardinality(Monitor) <= Workers, Advance,
           NEW t \in Slot, NEW m \in Monitor, ~Stalls(m)
    PROVE  InBudget(check'[t][m], m)
<1> DEFINE c == check[t][m]
           d == Older(c)
<1>0. /\ c \in CheckState /\ c.attempt \in Nat /\ c.clock \in Nat /\ c.left \in 0..CtxLimit
      /\ c.pc \in PC /\ InBudget(c, m)
  BY DEF TypeOK, CheckState, BudgetInv
<1>1. check'[t][m] = d /\ ~Urgent(t, m)
  BY DEF Advance
<1> SUFFICES InBudget(d, m)
  BY <1>1
<1>2. c.attempt * Round(m) \in Nat
  BY <1>0, MonitorTypes, Rounds
<1>3. CASE c.pc = "idle"
  BY <1>0, <1>3 DEF Older
<1>4. CASE c.pc # "idle"
  <2>1. /\ d.pc = c.pc /\ d.attempt = c.attempt
        /\ d.clock = IF c.pc = "queued" THEN AtMost(c.clock + 1, DbDelay) ELSE c.clock + 1
        /\ d.left = IF c.left = 0 THEN 0 ELSE c.left - 1
    <3>1. /\ d.pc = c.pc /\ d.attempt = c.attempt
          /\ d.clock = IF c.pc = "queued" THEN AtMost(c.clock + 1, DbDelay)
                       ELSE IF c.left = 0 THEN c.clock ELSE c.clock + 1
          /\ d.left = IF c.left = 0 THEN 0 ELSE c.left - 1
      BY <1>0, <1>4 DEF Older, CheckState
    <3>2. c.pc # "queued" => c.left # 0
      BY <1>1, <1>4, ~Stalls(m) DEF Urgent
    <3> HIDE DEF d
    <3> QED
      BY <3>1, <3>2
  <2> HIDE DEF d
  <2>2. CASE c.pc = "queued"
    <3>1. c.clock < DbDelay
      BY <1>0, <1>1, <2>2, WorkerForAll, MonitorTypes DEF Urgent
    <3>2. d.clock = c.clock + 1
      BY <1>0, <2>1, <2>2, <3>1, MonitorTypes DEF AtMost
    <3>3. c.attempt = 0 /\ c.attempt <= Retries(m) /\ CtxLimit - c.left <= c.clock
      BY <1>0, <2>2 DEF InBudget
    <3>4. CtxLimit - d.left <= d.clock /\ d.clock <= DbDelay
      BY <1>0, <2>1, <3>1, <3>2, <3>3, MonitorTypes
    <3> QED
      BY <2>1, <2>2, <3>3, <3>4 DEF InBudget, WritePC
  <2>3. CASE c.pc = "attempt"
    <3>1. c.clock < Timeout[m] /\ d.clock = c.clock + 1
      BY <1>0, <1>1, <2>1, <2>3, MonitorTypes DEF Urgent
    <3>2. c.attempt <= Retries(m)
          /\ CtxLimit - c.left <= DbDelay + c.attempt * Round(m) + c.clock
      BY <1>0, <2>3 DEF InBudget
    <3>3. CtxLimit - d.left <= DbDelay + d.attempt * Round(m) + d.clock /\ d.clock <= Timeout[m]
      BY <1>0, <1>2, <2>1, <3>1, <3>2, MonitorTypes
    <3> QED
      BY <2>1, <2>3, <3>2, <3>3 DEF InBudget, WritePC
  <2>4. CASE c.pc = "pause"
    <3>1. c.clock < RetryWait /\ d.clock = c.clock + 1
      BY <1>0, <1>1, <2>1, <2>4, MonitorTypes DEF Urgent
    <3>2. c.attempt <= Retries(m) /\ c.attempt < Retries(m)
          /\ CtxLimit - c.left <= DbDelay + c.attempt * Round(m) + Timeout[m] + c.clock
      BY <1>0, <2>4 DEF InBudget
    <3>3. CtxLimit - d.left <= DbDelay + d.attempt * Round(m) + Timeout[m] + d.clock
          /\ d.clock <= RetryWait
      BY <1>0, <1>2, <2>1, <3>1, <3>2, MonitorTypes
    <3> QED
      BY <2>1, <2>4, <3>2, <3>3 DEF InBudget, WritePC
  <2>5. CASE c.pc \in WritePC
    <3>0. c.pc \notin {"idle", "queued", "attempt", "pause"}
      BY <2>5 DEF WritePC
    <3>1. c.clock < DbDelay /\ d.clock = c.clock + 1
      BY <1>0, <1>1, <2>1, <3>0, MonitorTypes DEF Urgent
    <3>2. c.attempt <= Retries(m)
          /\ CtxLimit - c.left <= DbDelay + c.attempt * Round(m) + Timeout[m] + c.clock
      BY <1>0, <2>5, <3>0 DEF InBudget
    <3>3. CtxLimit - d.left <= DbDelay + d.attempt * Round(m) + Timeout[m] + d.clock
          /\ d.clock <= DbDelay
      BY <1>0, <1>2, <2>1, <3>1, <3>2, MonitorTypes
    <3> QED
      BY <2>1, <3>0, <3>2, <3>3 DEF InBudget
  <2> QED
    BY <1>0, <1>4, <2>2, <2>3, <2>4, <2>5 DEF PC
<1> QED
  BY <1>3, <1>4

LEMMA BudgetPreserved ==
    ASSUME BudgetHypothesis PROVE TypeOK /\ BudgetInv /\ [Next]_vars => BudgetInv'
<1> SUFFICES ASSUME TypeOK, BudgetInv, [Next]_vars PROVE BudgetInv'
  OBVIOUS
<1>0. \A m \in Monitor : InBudget(Idle, m)
  BY DEF InBudget, Idle, WritePC
<1>1. ASSUME NEW t \in Slot, NEW ok \in BOOLEAN, RunChecks(t, ok) PROVE BudgetInv'
  <2>1. /\ \A u \in Slot \ {t} : check'[u] = check[u]
        /\ \A m \in Monitor : check'[t][m] = IF ok /\ m \in Due THEN Queued(row[m].status) ELSE Idle
    BY <1>1 DEF RunChecks, TypeOK
  <2>2. \A m \in Monitor, s \in Status : InBudget(Queued(s), m)
    <3> SUFFICES ASSUME NEW m \in Monitor, NEW s \in Status PROVE InBudget(Queued(s), m)
      OBVIOUS
    <3>1. /\ Queued(s).pc = "queued" /\ Queued(s).clock = 0
          /\ Queued(s).attempt = 0 /\ Queued(s).left = CtxLimit
      BY DEF Queued, Idle
    <3> QED
      BY <3>1, MonitorTypes DEF InBudget, WritePC
  <2>3. \A m \in Monitor : row[m].status \in Status
    BY DEF TypeOK, RowState
  <2> QED
    BY <1>0, <2>1, <2>2, <2>3 DEF BudgetInv
<1>2. ASSUME NEW t \in Slot, NEW m \in Monitor, CheckMonitor(t, m) PROVE BudgetInv'
  BY <1>2, BudgetStep
<1>3. CASE Advance
  BY <1>3, BudgetTime DEF BudgetInv, BudgetHypothesis
<1>4. CASE Stop
  BY <1>4 DEF Stop, BudgetInv
<1>5. ASSUME NEW d \in 0..TickEvery, Crash(d) \/ Restart(d) PROVE BudgetInv'
  BY <1>0, <1>5 DEF Crash, Restart, Start, AllIdle, BudgetInv
<1>6. CASE UNCHANGED vars
  BY <1>6 DEF vars, BudgetInv
<1> QED
  BY <1>1, <1>2, <1>3, <1>4, <1>5, <1>6 DEF Next, Tick, Check, Outage

\* A monitor whose claim, attempts, pauses and statements fit in the context of
\* a tick is never abandoned between two attempts or two statements: every
\* check that starts runs to its end with a live context.
THEOREM BudgetSuffices == ASSUME BudgetHypothesis PROVE Spec => []NeverCutShort
<1>1. Init => BudgetInv
  BY DEF Init, BudgetInv, InBudget, Idle, WritePC
<1>2. TypeOK /\ BudgetInv => NeverCutShort
  BY BudgetAlive DEF TypeOK, BudgetInv, NeverCutShort, Alive
<1> QED
  BY <1>1, <1>2, BudgetPreserved, TypeCorrect, PTL DEF Spec
-----------------------------------------------------------------------------
(* Ticks do not pile up.                                                   *)

\* A step of a check ends it or leaves its context as it is, and touches no
\* other check, whatever fails.
LEMMA CheckMoves ==
    ASSUME TypeOK, NEW t \in Slot, NEW m \in Monitor, CheckMonitor(t, m)
    PROVE  /\ check[t][m].pc # "idle"
           /\ cron' = cron
           /\ check'[t][m] = Idle \/ check'[t][m].left = check[t][m].left
           /\ \A u \in Slot, n \in Monitor : u # t \/ n # m => check'[u][n] = check[u][n]
<1> DEFINE c == check[t][m]
<1>0. c \in CheckState
  BY DEF TypeOK
<1>1. PICK d : /\ Step(t, m, d)
               /\ d = Idle \/ d.left = c.left
               /\ c.pc # "idle" /\ cron' = cron
  <2>1. ASSUME NEW ok \in BOOLEAN,
               \/ Claim(t, m, ok) \/ InsertLog(t, m, ok) \/ UpdateMonitor(t, m, ok)
               \/ CreateIncident(t, m, ok) \/ ResolveIncident(t, m, ok) \/ Notify(t, m, ok)
        PROVE  \E d : /\ Step(t, m, d)
                      /\ d = Idle \/ d.left = c.left
                      /\ c.pc # "idle" /\ cron' = cron
    <3>1. \A p \in PC : [c EXCEPT !.pc = p].left = c.left
                        /\ [c EXCEPT !.pc = p, !.clock = 0].left = c.left
      BY <1>0 DEF CheckState
    <3>2. AfterUpdate(c) = Idle \/ AfterUpdate(c).left = c.left
      BY <3>1, Places DEF AfterUpdate
    <3> QED
      BY <2>1, <3>1, <3>2, Places
         DEF Claim, InsertLog, UpdateMonitor, CreateIncident, ResolveIncident, Notify, process
  <2>2. ASSUME NEW r \in Status, Attempt(t, m, r)
        PROVE  \E d : /\ Step(t, m, d)
                      /\ d = Idle \/ d.left = c.left
                      /\ c.pc # "idle" /\ cron' = cron
    BY <1>0, <2>2 DEF Attempt, CheckState, process
  <2>3. ASSUME Retry(t, m) \/ GiveUp(t, m)
        PROVE  \E d : /\ Step(t, m, d)
                      /\ d = Idle \/ d.left = c.left
                      /\ c.pc # "idle" /\ cron' = cron
    BY <1>0, <2>3 DEF Retry, GiveUp, CheckState, process
  <2> QED
    BY <2>1, <2>2, <2>3 DEF CheckMonitor
<1> QED
  BY <1>1, StepAlone

\* A check whose context has expired ends before time passes, unless a call in
\* its tick is stalled: one that still waits for a worker waits for a check that
\* is urgent itself, or stalled.
LEMMA GoingIsAlive ==
    ASSUME TypeOK, SlotInv, NEW t \in Slot, \A n \in Monitor : ~Urgent(t, n), Going(t),
           NEW m \in Monitor, check[t][m].pc # "idle"
    PROVE  check[t][m].left > 0
<1> SUFFICES ASSUME check[t][m].left = 0 PROVE FALSE
  BY ConstantAssumption DEF TypeOK, CheckState
<1>1. ASSUME NEW n \in Running(t) PROVE FALSE
  <2>1. n \in Monitor /\ check[t][n].pc \notin {"idle", "queued"}
    BY DEF Running
  <2>2. check[t][n].left = 0
    BY <2>1 DEF SlotInv
  <2>3. check[t][n].pc \in PC
    BY <2>1 DEF TypeOK, CheckState
  <2>4. ~Stalled(t, n)
    BY <2>1 DEF Going
  <2> QED
    BY <2>1, <2>2, <2>3, <2>4 DEF Urgent, Stalled, PC
<1>2. Running(t) = {}
  BY <1>1
<1>3. WorkerFree(t)
  BY <1>2, FS_EmptySet, ConstantAssumption DEF WorkerFree
<1>4. check[t][m].pc = "queued"
  BY <1>2 DEF Running
<1> QED
  BY <1>3, <1>4 DEF Urgent

LEMMA SlotPreserved == TypeOK /\ SlotInv /\ [Next]_vars => SlotInv'
<1> USE ConstantAssumption
<1> SUFFICES ASSUME TypeOK, SlotInv, [Next]_vars PROVE SlotInv'
  OBVIOUS
<1>0. /\ cron \in 0..TickEvery
      /\ \A t \in Slot, m \in Monitor : /\ check[t][m] \in CheckState
                                        /\ check[t][m].left \in 0..CtxLimit
      /\ \A t \in Slot : check[t] \in [Monitor -> CheckState]
      /\ Idle.pc = "idle"
  BY DEF TypeOK, CheckState, Idle
<1>1. ASSUME NEW t \in Slot, NEW ok \in BOOLEAN, RunChecks(t, ok) PROVE SlotInv'
  <2>1. /\ \A u \in Slot \ {t} : check'[u] = check[u]
        /\ \A m \in Monitor : check'[t][m] = IF ok /\ m \in Due THEN Queued(row[m].status) ELSE Idle
        /\ cron = TickEvery /\ cron' = 0
    BY <1>1 DEF RunChecks, TypeOK
  <2>2. \A m \in Monitor : check'[t][m].left = CtxLimit
    <3>1. Idle.left = CtxLimit /\ \A s : Queued(s).left = CtxLimit
      BY DEF Queued, Idle
    <3> QED
      BY <2>1, <3>1
  <2>3. \A u \in Slot \ {t}, n \in Monitor :
            check'[u][n].pc # "idle" /\ Alive(u, n)' => check'[u][n].left + TickEvery <= CtxLimit
    BY <2>1 DEF SlotInv, Alive
  <2>4. \A u, v \in Slot \ {t}, m, n \in Monitor :
            check'[u][m].pc # "idle" /\ check'[v][n].pc # "idle" =>
                /\ u = v => check'[u][m].left = check'[v][n].left
                /\ u # v /\ Alive(u, m)' /\ Alive(v, n)' =>
                      \/ Younger(check'[u][m], check'[v][n])
                      \/ Younger(check'[v][n], check'[u][m])
    BY <2>1 DEF SlotInv, Alive
  <2>5. \A u \in Slot \ {t}, m, n \in Monitor :
            check'[u][n].pc # "idle" /\ Alive(u, n)' => Younger(check'[t][m], check'[u][n])
    BY <1>0, <2>1, <2>2, <2>3 DEF Younger
  <2>6. \A u \in Slot, m \in Monitor :
            check'[u][m].pc # "idle" /\ Alive(u, m)' => check'[u][m].left + cron' <= CtxLimit
    BY <1>0, <2>1, <2>2, <2>3
  <2> QED
    BY <2>2, <2>4, <2>5, <2>6 DEF SlotInv
<1>2. ASSUME NEW t \in Slot, NEW m \in Monitor, CheckMonitor(t, m) PROVE SlotInv'
  <2>1. /\ cron' = cron
        /\ \A u \in Slot, n \in Monitor : check'[u][n].pc # "idle" =>
              check[u][n].pc # "idle" /\ check'[u][n].left = check[u][n].left
    BY <1>0, <1>2, CheckMoves
  <2> QED
    BY <2>1 DEF SlotInv, Younger, Alive
<1>3. CASE Advance
  <2>1. cron' = AtMost(cron + 1, TickEvery) /\ cron' <= cron + 1
    BY <1>0, <1>3 DEF Advance, AtMost
  <2>2. ASSUME NEW u \in Slot, NEW n \in Monitor, check'[u][n].pc # "idle"
        PROVE  /\ check[u][n].pc # "idle"
               /\ check'[u][n].left = IF check[u][n].left = 0 THEN 0 ELSE check[u][n].left - 1
    <3>1. check'[u][n] = Older(check[u][n])
      BY <1>3 DEF Advance
    <3>2. check[u][n].pc # "idle"
      BY <2>2, <3>1 DEF Older
    <3>3. Older(check[u][n]).left = IF check[u][n].left = 0 THEN 0 ELSE check[u][n].left - 1
      BY <1>0, <3>2 DEF Older, CheckState
    <3> QED
      BY <3>1, <3>2, <3>3
  <2>3. ASSUME NEW u \in Slot, NEW v \in Slot, NEW m \in Monitor, NEW n \in Monitor,
               check'[u][m].pc # "idle", check'[v][n].pc # "idle"
        PROVE  /\ u = v => check'[u][m].left = check'[v][n].left
               /\ Alive(u, m)' => check'[u][m].left + cron' <= CtxLimit
               /\ u # v /\ Alive(u, m)' /\ Alive(v, n)' =>
                     \/ Younger(check'[u][m], check'[v][n])
                     \/ Younger(check'[v][n], check'[u][m])
    <3>0. check[u][m].pc # "idle" /\ check[v][n].pc # "idle"
      BY <2>2, <2>3
    <3>1. u = v => check'[u][m].left = check'[v][n].left
      BY <2>2, <2>3, <3>0 DEF SlotInv
    <3>2. cron' \in Int
      BY <1>0, <2>1 DEF AtMost
    <3>3. check[u][m].left \in Int /\ check[v][n].left \in Int
      BY <1>0
    <3>4. Alive(u, m)' => Alive(u, m) /\ check'[u][m].left = check[u][m].left - 1
      BY <1>0, <2>2, <2>3 DEF Alive
    <3>5. Alive(v, n)' => Alive(v, n) /\ check'[v][n].left = check[v][n].left - 1
      BY <1>0, <2>2, <2>3 DEF Alive
    <3>6. Alive(u, m) => check[u][m].left + cron <= CtxLimit
      BY <3>0 DEF SlotInv
    <3>7. u # v /\ Alive(u, m) /\ Alive(v, n) =>
              Younger(check[u][m], check[v][n]) \/ Younger(check[v][n], check[u][m])
      BY <3>0 DEF SlotInv
    <3> QED
      BY <1>0, <2>1, <3>1, <3>2, <3>3, <3>4, <3>5, <3>6, <3>7 DEF Younger
  <2> QED
    BY <2>3 DEF SlotInv
<1>4. CASE Stop
  BY <1>4 DEF Stop, SlotInv, Younger, Alive
<1>5. ASSUME NEW d \in 0..TickEvery, Crash(d) \/ Restart(d) PROVE SlotInv'
  BY <1>0, <1>5 DEF Crash, Restart, Start, AllIdle, SlotInv
<1>6. CASE UNCHANGED vars
  BY <1>6 DEF vars, SlotInv, Younger, Alive
<1> QED
  BY <1>1, <1>2, <1>3, <1>4, <1>5, <1>6 DEF Next, Tick, Check, Outage

LEMMA Quotients ==
    ASSUME NEW k \in Nat \ {0}, NEW x \in Nat, NEW y \in Nat
    PROVE  /\ x \div k \in Nat
           /\ x <= y => x \div k <= y \div k
           /\ x >= y + k => x \div k # y \div k
           /\ x + k <= y => x \div k + 1 <= y \div k
  OBVIOUS

\* Ticks in progress whose contexts live, with at most x + 1 left.
LEMMA FewTicks ==
    ASSUME TypeOK, SlotInv, NEW x \in Nat, NEW T \in SUBSET Slot,
           \A t \in T : \E m \in Monitor :
               check[t][m].pc # "idle" /\ check[t][m].left \in 1..(x + 1)
    PROVE  IsFiniteSet(T) /\ Cardinality(T) <= x \div TickEvery + 1
<1> USE ConstantAssumption
<1> DEFINE one(t) == CHOOSE m \in Monitor :
                         check[t][m].pc # "idle" /\ check[t][m].left \in 1..(x + 1)
           left(t) == check[t][one(t)].left - 1
           nth == [t \in T |-> left(t) \div TickEvery]
           K == x \div TickEvery
<1>1. \A t \in T : /\ one(t) \in Monitor
                   /\ check[t][one(t)].pc # "idle"
                   /\ Alive(t, one(t))
                   /\ check[t][one(t)].left \in Int
                   /\ left(t) \in Nat /\ left(t) <= x
  <2> SUFFICES ASSUME NEW t \in T PROVE /\ one(t) \in Monitor
                                        /\ check[t][one(t)].pc # "idle"
                                        /\ Alive(t, one(t))
                                        /\ check[t][one(t)].left \in Int
                                        /\ left(t) \in Nat /\ left(t) <= x
    OBVIOUS
  <2>1. \E m \in Monitor : check[t][m].pc # "idle" /\ check[t][m].left \in 1..(x + 1)
    OBVIOUS
  <2>2. one(t) \in Monitor /\ check[t][one(t)].pc # "idle"
        /\ check[t][one(t)].left \in 1..(x + 1)
    BY <2>1
  <2> HIDE DEF one
  <2>3. check[t][one(t)].left \in Int /\ check[t][one(t)].left > 0
        /\ check[t][one(t)].left - 1 \in Nat /\ check[t][one(t)].left - 1 <= x
    BY <2>2
  <2> QED
    BY <2>2, <2>3 DEF Alive
<1>2. ASSUME NEW t \in T, NEW u \in T, t # u
      PROVE  left(t) >= left(u) + TickEvery \/ left(u) >= left(t) + TickEvery
  <2>1. \/ Younger(check[t][one(t)], check[u][one(u)])
        \/ Younger(check[u][one(u)], check[t][one(t)])
    BY <1>1, <1>2 DEF SlotInv
  <2>2. check[t][one(t)].left \in Int /\ check[u][one(u)].left \in Int
    BY <1>1
  <2>3. /\ left(t) = check[t][one(t)].left - 1
        /\ left(u) = check[u][one(u)].left - 1
    OBVIOUS
  <2> HIDE DEF left, one
  <2> QED
    BY <2>1, <2>2, <2>3 DEF Younger
<1>3. K \in Nat
  BY Quotients
<1> HIDE DEF one, K
<1>4. nth \in [T -> 0..K]
  <2> SUFFICES ASSUME NEW t \in T PROVE left(t) \div TickEvery \in 0..K
    OBVIOUS
  <2>1. left(t) \div TickEvery \in Nat /\ left(t) \div TickEvery <= x \div TickEvery
    BY <1>1, Quotients
  <2> QED
    BY <1>3, <2>1 DEF K
<1>5. ASSUME NEW t \in T, NEW u \in T, t # u PROVE nth[t] # nth[u]
  <2>1. left(t) \in Nat /\ left(u) \in Nat
    BY <1>1
  <2>2. left(t) \div TickEvery # left(u) \div TickEvery
    <3>1. left(t) >= left(u) + TickEvery \/ left(u) >= left(t) + TickEvery
      BY <1>2, <1>5
    <3> HIDE DEF left
    <3> QED
      BY <2>1, <3>1, Quotients
  <2> QED
    BY <2>2
<1>6. nth \in Injection(T, 0..K)
  BY <1>4, <1>5 DEF Injection, IsInjective
<1>7. IsFiniteSet(0..K) /\ Cardinality(0..K) = K + 1
  BY <1>3, FS_Interval
<1> HIDE DEF nth
<1>8. IsFiniteSet(T) /\ Cardinality(T) <= Cardinality(0..K)
  BY <1>6, <1>7, FS_Injection
<1> QED
  BY <1>3, <1>7, <1>8 DEF K

LEMMA SlotsSuffice == TypeOK /\ SlotInv => TicksBounded
<1> USE ConstantAssumption
<1> DEFINE T == {t \in Slot : Going(t)}
           x == CtxLimit - 1
<1> SUFFICES ASSUME TypeOK, SlotInv, \A t \in Slot, m \in Monitor : ~Urgent(t, m)
             PROVE  /\ Cardinality(T) <= x \div TickEvery + 1
                    /\ cron = TickEvery => Cardinality(T) + 1 <= x \div TickEvery + 1
  BY DEF TicksBounded
<1>0. x \in Nat /\ cron \in 0..TickEvery
  BY DEF TypeOK
<1>1. \A t \in T : \E m \in Monitor :
          /\ check[t][m].pc # "idle" /\ check[t][m].left \in 1..(x + 1)
          /\ check[t][m].left + cron <= CtxLimit
  <2> SUFFICES ASSUME NEW t \in Slot, Going(t)
               PROVE  \E m \in Monitor :
                          /\ check[t][m].pc # "idle" /\ check[t][m].left \in 1..(x + 1)
                          /\ check[t][m].left + cron <= CtxLimit
    OBVIOUS
  <2>1. PICK m \in Monitor : check[t][m].pc # "idle"
    BY DEF Going, InProgress
  <2>2. check[t][m].left > 0 /\ check[t][m].left \in 0..CtxLimit
    <3>1. \A n \in Monitor : ~Urgent(t, n)
      OBVIOUS
    <3>2. check[t][m].left \in 0..CtxLimit
      BY DEF TypeOK, CheckState
    <3> QED
      BY <2>1, <3>1, <3>2, GoingIsAlive
  <2>3. check[t][m].left + cron <= CtxLimit
    BY <2>1, <2>2 DEF SlotInv, Alive
  <2> QED
    BY <2>1, <2>2, <2>3
<1>2. T \in SUBSET Slot
  OBVIOUS
<1> HIDE DEF T
<1>3. Cardinality(T) <= x \div TickEvery + 1
  <2> HIDE DEF x
  <2> QED
    BY <1>0, <1>1, <1>2, FewTicks
<1>4. ASSUME cron = TickEvery PROVE Cardinality(T) <= x \div TickEvery
  <2>1. CASE T = {}
    <3>1. Cardinality(T) = 0
      BY <2>1, FS_EmptySet
    <3> HIDE DEF x
    <3>2. x \div TickEvery \in Nat
      BY <1>0, Quotients
    <3> QED
      BY <3>1, <3>2
  <2>2. CASE T # {}
    <3> DEFINE y == x - TickEvery
    <3>1. \A t \in T : \E m \in Monitor :
              check[t][m].pc # "idle" /\ check[t][m].left \in 1..(y + 1)
      <4> SUFFICES ASSUME NEW t \in T
                   PROVE  \E m \in Monitor :
                              check[t][m].pc # "idle" /\ check[t][m].left \in 1..(y + 1)
        OBVIOUS
      <4>1. PICK m \in Monitor : /\ check[t][m].pc # "idle" /\ check[t][m].left \in 1..(x + 1)
                                /\ check[t][m].left + cron <= CtxLimit
        BY <1>1
      <4> QED
        BY <1>4, <4>1
    <3>2. y \in Nat
      BY <1>0, <2>2, <3>1
    <3>3. y + TickEvery <= x
      BY <1>0
    <3> HIDE DEF x, y
    <3>4. Cardinality(T) <= y \div TickEvery + 1
      BY <1>2, <3>1, <3>2, FewTicks
    <3>5. IsFiniteSet(T)
      BY <1>2, <3>1, <3>2, FewTicks
    <3>6. Cardinality(T) \in Nat
      BY <3>5, FS_CardinalityType
    <3>7. y \div TickEvery + 1 <= x \div TickEvery /\ y \div TickEvery \in Nat
          /\ x \div TickEvery \in Nat
      BY <1>0, <3>2, <3>3, Quotients
    <3> QED
      BY <3>4, <3>6, <3>7
  <2> QED
    BY <2>1, <2>2
<1>5. Cardinality(T) \in Nat /\ x \div TickEvery \in Nat
  <2> HIDE DEF x
  <2> QED
    BY <1>0, <1>1, <1>2, FewTicks, FS_CardinalityType, Quotients
<1> QED
  BY <1>3, <1>4, <1>5

\* However slow the checks, whatever fails and whatever stalls, the ticks in
\* progress that no stalled call holds are no more than begin while a context
\* lives, for any number of ticks the process can hold.
THEOREM NoPileUp == Spec => []TicksBounded
<1>1. Init => SlotInv
  BY DEF Init, SlotInv, Idle
<1> QED
  BY <1>1, SlotsSuffice, SlotPreserved, TypeCorrect, PTL DEF Spec

-----------------------------------------------------------------------------
(* What the checks of a monitor leave in the database: its incidents and     *)
(* notifications follow its status, and the scheduler implements the         *)
(* lifecycle of Outage.                                                      *)

\* A check that can still write is the only one of its monitor.
LEMMA OnlyCheck ==
    ASSUME SingleFlight, NeverCutShort, NEW t \in Slot, NEW m \in Monitor,
           check[t][m].pc # "idle"
    PROVE  Alive(t, m) /\ \A u \in Slot \ {t} : check[u][m].pc = "idle"
BY DEF SingleFlight, NeverCutShort, Live

LEMMA StageStep ==
    ASSUME LifecycleHypothesis, TypeOK, SingleFlight, NeverCutShort,
           NEW t \in Slot, NEW m \in Monitor, StageOf(m), CheckMonitor(t, m)
    PROVE  StageOf(m)'
<1> DEFINE c == check[t][m]
           Now(d) == Stage(d, row'[m].status, open'[m], logged'[m], alert'[m])
<1>0. "db" \notin FaultKinds /\ "degraded" \notin Answer[m]
  BY DEF LifecycleHypothesis, ClaimHypothesis, BinaryHypothesis
<1>1. /\ c \in CheckState /\ row \in [Monitor -> RowState]
      /\ open \in [Monitor -> 0..2] /\ logged \in [Monitor -> Status]
      /\ alert \in [Monitor -> Alert]
  BY DEF TypeOK
<1>2. c.pc # "idle"
  BY <1>0, CheckEffect
<1>3. Alive(t, m) /\ \A u \in Slot \ {t} : check[u][m].pc = "idle"
  BY <1>2, OnlyCheck
<1>4. row[m].exists /\ Stage(c, row[m].status, open[m], logged[m], alert[m])
  BY <1>2 DEF StageOf, AtStage
<1>5. ASSUME NEW d, Step(t, m, d), d.pc = "idle" => d = Idle, row'[m].exists, Now(d)
      PROVE  StageOf(m)'
  <2>1. check'[t][m] = d /\ \A u \in Slot, n \in Monitor : u # t \/ n # m => check'[u][n] = check[u][n]
    BY <1>5, StepAlone
  <2> QED
    BY <1>3, <1>5, <2>1 DEF StageOf, Quiet, AtStage
<1>6. ASSUME NEW ok \in BOOLEAN, Executes(Alive(t, m), ok) PROVE ok
  BY <1>0, <1>3, <1>6, NoDbFault
<1>7. ASSUME NEW ok \in BOOLEAN, Claim(t, m, ok) PROVE StageOf(m)'
  <2> DEFINE d == [c EXCEPT !.pc = "attempt", !.clock = 0]
  <2>1. d.pc = "attempt" /\ d.snap = c.snap /\ c.pc = "queued" /\ Step(t, m, d)
    BY <1>1, <1>7 DEF Claim, CheckState
  <2>2. /\ UNCHANGED <<open, logged, alert>>
        /\ \A n \in Monitor \ {m} : row'[n] = row[n]
        /\ row'[m].exists = row[m].exists /\ row'[m].status = row[m].status
    BY <1>1, <1>7 DEF Claim, RowState
  <2> HIDE DEF d
  <2>3. Now(d)
    BY <1>4, <2>1, <2>2 DEF Stage, WritePC
  <2> QED
    BY <1>4, <1>5, <2>1, <2>2, <2>3
<1>8. ASSUME NEW r \in Status, Attempt(t, m, r) PROVE StageOf(m)'
  <2> DEFINE p == IF r = "down" /\ c.attempt < Retries(m) THEN "pause" ELSE "log"
             d == [c EXCEPT !.pc = p, !.clock = 0, !.result = r]
  <2>1. d.pc = p /\ d.snap = c.snap /\ d.result = r
    BY <1>1 DEF CheckState
  <2>2. c.pc = "attempt" /\ Step(t, m, d) /\ UNCHANGED <<row, open, logged, alert>>
    BY <1>8 DEF Attempt, db
  <2>3. r \in {"up", "down"} /\ p \in {"pause", "log"}
    <3>1. Answer[m] \subseteq {"up", "down", "hang", "stall"}
      BY <1>0, ConstantAssumption
    <3>2. r \in Returns(t, m)
      BY <1>8 DEF Attempt
    <3> QED
      BY <3>1, <3>2 DEF Returns
  <2> HIDE DEF d, p
  <2>4. Now(d)
    BY <1>4, <2>1, <2>2, <2>3 DEF Stage, WritePC
  <2> QED
    BY <1>4, <1>5, <2>1, <2>2, <2>3, <2>4
<1>9. CASE Retry(t, m)
  <2> DEFINE d == [c EXCEPT !.pc = "attempt", !.clock = 0, !.attempt = @ + 1]
  <2>1. d.pc = "attempt" /\ d.snap = c.snap
    BY <1>1 DEF CheckState
  <2>2. c.pc = "pause" /\ Step(t, m, d) /\ UNCHANGED <<row, open, logged, alert>>
    BY <1>9 DEF Retry, db
  <2> HIDE DEF d
  <2>3. Now(d)
    BY <1>4, <2>1, <2>2 DEF Stage, WritePC
  <2> QED
    BY <1>4, <1>5, <2>1, <2>2, <2>3
<1>10. ~ GiveUp(t, m)
  BY <1>3 DEF GiveUp
<1>11. ASSUME NEW ok \in BOOLEAN, InsertLog(t, m, ok) PROVE StageOf(m)'
  <2> DEFINE d == [c EXCEPT !.pc = "update"]
  <2>1. d.pc = "update" /\ d.snap = c.snap /\ d.result = c.result
    BY <1>1 DEF CheckState
  <2>2. c.pc = "log" /\ Step(t, m, d) /\ UNCHANGED <<row, open, alert>> /\ ok
    BY <1>6, <1>11 DEF InsertLog
  <2>3. logged' = [logged EXCEPT ![m] = c.result]
    BY <1>4, <1>11, <2>2 DEF InsertLog
  <2>4. logged'[m] = c.result /\ \A n \in Monitor \ {m} : logged'[n] = logged[n]
    BY <1>1, <2>3
  <2> HIDE DEF d
  <2>5. Now(d)
    BY <1>4, <2>1, <2>2, <2>4 DEF Stage, WritePC
  <2> QED
    BY <1>4, <1>5, <2>1, <2>2, <2>4, <2>5
<1>12. ASSUME NEW ok \in BOOLEAN, UpdateMonitor(t, m, ok) PROVE StageOf(m)'
  <2> DEFINE d == AfterUpdate(c)
  <2>1. c.pc = "update" /\ Step(t, m, d) /\ UNCHANGED <<open, logged, alert>> /\ ok
    BY <1>6, <1>12 DEF UpdateMonitor
  <2>2. /\ \A n \in Monitor \ {m} : row'[n] = row[n]
        /\ row'[m].exists = row[m].exists /\ row'[m].status = c.result
    BY <1>1, <1>4, <1>12, <2>1 DEF UpdateMonitor, RowState
  <2>3. /\ c.result \in {"up", "down"} /\ c.snap = row[m].status /\ logged[m] = c.result
        /\ Agree(row[m].status, open[m], alert[m])
    BY <1>4, <2>1 DEF Stage, WritePC
  <2>4. CASE WentDown(c)
    <3>1. d.pc = "incident" /\ d.result = c.result
      BY <1>1, <2>4 DEF AfterUpdate, CheckState
    <3> HIDE DEF d
    <3>2. Now(d)
      BY <2>1, <2>2, <2>3, <2>4, <3>1 DEF Stage, Agree, WentDown, WritePC
    <3> QED
      BY <1>4, <1>5, <2>1, <2>2, <3>1, <3>2
  <2>5. CASE ~WentDown(c) /\ WentRecovery(c)
    <3>1. d.pc = "resolve" /\ d.result = c.result
      BY <1>1, <2>5 DEF AfterUpdate, CheckState
    <3> HIDE DEF d
    <3>2. Now(d)
      BY <2>1, <2>2, <2>3, <2>5, <3>1 DEF Stage, Agree, WentRecovery, WritePC
    <3> QED
      BY <1>4, <1>5, <2>1, <2>2, <3>1, <3>2
  <2>6. CASE ~WentDown(c) /\ ~WentRecovery(c)
    <3>1. d = Idle /\ d.pc = "idle"
      BY <2>6 DEF AfterUpdate, Idle
    <3> HIDE DEF d
    <3>2. Now(d)
      BY <2>1, <2>2, <2>3, <2>6, <3>1 DEF Stage, Agree, WentDown, WentRecovery, WritePC
    <3> QED
      BY <1>4, <1>5, <2>1, <2>2, <3>1, <3>2
  <2> QED
    BY <2>4, <2>5, <2>6
<1>13. ASSUME NEW ok \in BOOLEAN, CreateIncident(t, m, ok) PROVE StageOf(m)'
  <2> DEFINE d == [c EXCEPT !.pc = "notify"]
  <2>1. d.pc = "notify" /\ d.result = c.result
    BY <1>1 DEF CheckState
  <2>2. c.pc = "incident" /\ Step(t, m, d) /\ UNCHANGED <<row, logged, alert>> /\ ok
    BY <1>6, <1>13 DEF CreateIncident
  <2>3. /\ open'[m] = AtMost(open[m] + 1, 2)
        /\ \A n \in Monitor \ {m} : open'[n] = open[n]
    BY <1>1, <1>4, <1>13, <2>2 DEF CreateIncident
  <2>4. open[m] = 0 /\ row[m].status = "down" /\ alert[m] # "down"
        /\ c.result = "down" /\ logged[m] = "down"
    BY <1>4, <2>2 DEF Stage
  <2>5. open'[m] = 1
    BY <2>3, <2>4 DEF AtMost
  <2> HIDE DEF d
  <2>6. Now(d)
    BY <2>1, <2>2, <2>4, <2>5 DEF Stage, WritePC
  <2> QED
    BY <1>4, <1>5, <2>1, <2>2, <2>3, <2>6
<1>14. ASSUME NEW ok \in BOOLEAN, ResolveIncident(t, m, ok) PROVE StageOf(m)'
  <2> DEFINE d == [c EXCEPT !.pc = "notify"]
  <2>1. d.pc = "notify" /\ d.result = c.result
    BY <1>1 DEF CheckState
  <2>2. c.pc = "resolve" /\ Step(t, m, d) /\ UNCHANGED <<row, logged, alert>> /\ ok
    BY <1>6, <1>14 DEF ResolveIncident
  <2>3. open'[m] = 0 /\ \A n \in Monitor \ {m} : open'[n] = open[n]
    BY <1>1, <1>14, <2>2 DEF ResolveIncident
  <2>4. row[m].status = "up" /\ alert[m] = "down" /\ c.result = "up" /\ logged[m] = "up"
    BY <1>4, <2>2 DEF Stage
  <2> HIDE DEF d
  <2>5. Now(d)
    BY <2>1, <2>2, <2>3, <2>4 DEF Stage, WritePC
  <2> QED
    BY <1>4, <1>5, <2>1, <2>2, <2>3, <2>5
<1>15. ASSUME NEW ok \in BOOLEAN, Notify(t, m, ok) PROVE StageOf(m)'
  <2>1. c.pc = "notify" /\ Step(t, m, Idle) /\ UNCHANGED <<row, open, logged>> /\ ok
    BY <1>6, <1>15 DEF Notify
  <2>2. alert'[m] = Event(c) /\ \A n \in Monitor \ {m} : alert'[n] = alert[n]
    BY <1>1, <1>15, <2>1 DEF Notify
  <2>3. c.result \in {"up", "down"} /\ row[m].status = c.result /\ logged[m] = c.result
        /\ (c.result = "down" => open[m] = 1) /\ (c.result = "up" => open[m] = 0)
    BY <1>4, <2>1 DEF Stage, WritePC
  <2>4. Idle.pc = "idle"
    BY DEF Idle
  <2>5. Now(Idle)
    BY <2>1, <2>2, <2>3, <2>4 DEF Stage, Agree, Event, WritePC
  <2> QED
    BY <1>4, <1>5, <2>1, <2>2, <2>5
<1> QED
  BY <1>7, <1>8, <1>9, <1>10, <1>11, <1>12, <1>13, <1>14, <1>15 DEF CheckMonitor

\* A check of one monitor leaves the others where they are.
LEMMA StageOther ==
    ASSUME TypeOK, NEW t \in Slot, NEW m \in Monitor, CheckMonitor(t, m),
           NEW n \in Monitor \ {m}, StageOf(n)
    PROVE  StageOf(n)'
<1>1. /\ row \in [Monitor -> RowState] /\ open \in [Monitor -> 0..2]
      /\ logged \in [Monitor -> Status] /\ alert \in [Monitor -> Alert]
  BY DEF TypeOK
<1>2. /\ row'[n] = row[n] /\ open'[n] = open[n]
      /\ logged'[n] = logged[n] /\ alert'[n] = alert[n]
  BY <1>1 DEF CheckMonitor, Claim, Attempt, Retry, GiveUp, InsertLog, UpdateMonitor,
              CreateIncident, ResolveIncident, Notify, db
<1>3. \A u \in Slot : check'[u][n] = check[u][n]
  BY CheckMoves
<1> QED
  BY <1>2, <1>3 DEF StageOf, Quiet, AtStage

LEMMA StageInit == LifecycleHypothesis /\ Init => StageInv
BY DEF Init, StageInv, StageOf, Quiet, AtStage, Stage, Agree, Idle, WritePC

\* Time passing moves nobody to another place of its check.
LEMMA OlderStays ==
    ASSUME NEW c \in CheckState
    PROVE  Older(c).pc = c.pc /\ Older(c).snap = c.snap /\ Older(c).result = c.result
BY DEF Older, CheckState

LEMMA StagePreserved ==
    ASSUME LifecycleHypothesis, NEW m \in Monitor
    PROVE  TypeOK /\ ClaimInv /\ NeverCutShort /\ StageOf(m) /\ [Next]_vars => StageOf(m)'
<1> SUFFICES ASSUME TypeOK, ClaimInv, NeverCutShort, StageOf(m), [Next]_vars PROVE StageOf(m)'
  OBVIOUS
<1>0. SingleFlight /\ ClaimHypothesis /\ "crash" \notin FaultKinds
  BY DEF ClaimInv, LifecycleHypothesis
<1>1. ASSUME NEW t \in Slot, NEW ok \in BOOLEAN, RunChecks(t, ok) PROVE StageOf(m)'
  <2>1. /\ \A u \in Slot \ {t} : check'[u] = check[u]
        /\ check'[t][m] = IF ok /\ m \in Due THEN Queued(row[m].status) ELSE Idle
        /\ UNCHANGED <<row, open, logged, alert>>
        /\ check[t][m].pc = "idle"
    BY <1>1 DEF RunChecks, TypeOK, InProgress
  <2>2. Idle.pc = "idle"
    BY DEF Idle
  <2>3. CASE ok /\ m \in Due
    <3>1. \A u \in Slot : check[u][m].pc = "idle"
      BY <1>0, <1>1, <2>3, DueIsFree DEF RunChecks, NeverCutShort, Live
    <3>2. row[m].exists /\ Stage(Idle, row[m].status, open[m], logged[m], alert[m])
      BY <3>1 DEF StageOf, Quiet, AtStage
    <3> DEFINE q == Queued(row[m].status)
    <3>3. q.pc = "queued" /\ q.snap = row[m].status
      BY DEF Queued, Idle
    <3> HIDE DEF q
    <3>4. Stage(q, row[m].status, open[m], logged[m], alert[m])
      BY <2>2, <3>2, <3>3 DEF Stage, WritePC
    <3>5. check'[t][m] = q /\ \A u \in Slot \ {t} : check'[u][m] = check[u][m]
      BY <2>1, <2>3 DEF q
    <3> QED
      BY <2>1, <3>1, <3>2, <3>3, <3>4, <3>5 DEF StageOf, Quiet, AtStage
  <2>4. CASE ~(ok /\ m \in Due)
    <3>1. \A u \in Slot : check'[u][m].pc = check[u][m].pc
      BY <2>1, <2>2, <2>4
    <3>2. \A u \in Slot : check[u][m].pc # "idle" => check'[u][m] = check[u][m]
      BY <2>1
    <3> QED
      BY <2>1, <3>1, <3>2 DEF StageOf, Quiet, AtStage
  <2> QED
    BY <2>3, <2>4
<1>2. ASSUME NEW t \in Slot, NEW n \in Monitor, CheckMonitor(t, n) PROVE StageOf(m)'
  <2>1. CASE n = m
    BY <1>0, <1>2, <2>1, StageStep
  <2>2. CASE n # m
    BY <1>2, <2>2, StageOther
  <2> QED
    BY <2>1, <2>2
<1>3. CASE Advance
  <2>1. UNCHANGED <<open, logged, alert>>
    BY <1>3 DEF Advance
  <2>2. row'[m].exists = row[m].exists /\ row'[m].status = row[m].status
    BY <1>3 DEF Advance, TypeOK, RowState
  <2>3. ASSUME NEW t \in Slot
        PROVE  /\ check'[t][m].pc = check[t][m].pc
               /\ check'[t][m].snap = check[t][m].snap
               /\ check'[t][m].result = check[t][m].result
    BY <1>3, OlderStays DEF Advance, TypeOK
  <2> QED
    BY <2>1, <2>2, <2>3 DEF StageOf, Quiet, AtStage, Stage
<1>4. CASE Stop
  BY <1>4 DEF Stop, db, StageOf, Quiet, AtStage
<1>5. ASSUME NEW d \in 0..TickEvery, Crash(d) \/ Restart(d) PROVE StageOf(m)'
  <2>1. (\A t \in Slot : InProgress(t) = {}) /\ Start(d)
    BY <1>0, <1>5 DEF Crash, Restart, Fault
  <2>2. \A t \in Slot : check[t][m].pc = "idle" /\ check'[t][m].pc = "idle"
    BY <2>1 DEF InProgress, Start, AllIdle, Idle
  <2>3. row'[m].exists = row[m].exists /\ row'[m].status = row[m].status
    BY <2>1 DEF Start, TypeOK, RowState
  <2>4. UNCHANGED <<open, logged, alert>>
    BY <2>1 DEF Start
  <2> QED
    BY <2>2, <2>3, <2>4 DEF StageOf, Quiet, AtStage
<1>6. CASE UNCHANGED vars
  BY <1>6 DEF vars, StageOf, Quiet, AtStage
<1> QED
  BY <1>1, <1>2, <1>3, <1>4, <1>5, <1>6 DEF Next, Tick, Check, Outage

\* What the stages say of a monitor between its checks and at its notification.
LEMMA StageMeans ==
    ASSUME TypeOK, NEW m \in Monitor, StageOf(m)
    PROVE  FollowsStatus(m) /\ Alternates(m) /\ FollowsLog(m)
<1>0. \A t \in Slot : check[t][m].pc \in PC
  BY DEF TypeOK, CheckState
<1>1. ASSUME Quiet(m)
      PROVE  Agree(row[m].status, open[m], alert[m]) /\ logged[m] = row[m].status
  <2>1. Stage(Idle, row[m].status, open[m], logged[m], alert[m]) /\ Idle.pc = "idle"
    BY <1>1 DEF StageOf, AtStage, Idle
  <2> QED
    BY <2>1 DEF Stage
<1>2. ASSUME NEW t \in Slot, check[t][m].pc # "idle"
      PROVE  Stage(check[t][m], row[m].status, open[m], logged[m], alert[m])
  BY <1>2 DEF StageOf, AtStage
<1>3. FollowsStatus(m)
  <2> SUFFICES ASSUME ~Settling(m)
               PROVE  Agree(row[m].status, open[m], alert[m])
    BY DEF FollowsStatus, Agree
  <2>1. CASE ~Quiet(m)
    <3>1. PICK t \in Slot : check[t][m].pc # "idle"
      BY <2>1 DEF Quiet
    <3> QED
      BY <1>0, <1>2, <3>1, Places DEF Settling, Stage
  <2> QED
    BY <1>1, <2>1
<1>4. Alternates(m)
  <2> SUFFICES ASSUME NEW t \in Slot, check[t][m].pc = "notify"
               PROVE  IF Event(check[t][m]) = "down" THEN alert[m] # "down" ELSE alert[m] = "down"
    BY DEF Alternates
  <2>1. /\ check[t][m].result \in {"up", "down"} /\ row[m].status = check[t][m].result
        /\ (row[m].status = "down" => alert[m] # "down")
        /\ (row[m].status = "up" => alert[m] = "down")
    BY <1>2 DEF Stage, WritePC
  <2> QED
    BY <2>1 DEF Event
<1>5. FollowsLog(m)
  <2> SUFFICES ASSUME \A t \in Slot : check[t][m].pc # "update"
               PROVE  row[m].status = logged[m]
    BY DEF FollowsLog
  <2>1. CASE ~Quiet(m)
    <3>1. PICK t \in Slot : check[t][m].pc # "idle"
      BY <2>1 DEF Quiet
    <3> QED
      BY <1>0, <1>2, <3>1, Places DEF Stage
  <2> QED
    BY <1>1, <2>1
<1> QED
  BY <1>3, <1>4, <1>5

LEMMA StageAlways == ASSUME LifecycleHypothesis PROVE Spec => [](TypeOK /\ StageInv)
<1>1. ClaimHypothesis /\ BudgetHypothesis
  BY DEF LifecycleHypothesis
<1>2. Spec => []ClaimInv
  BY <1>1, ClaimInit, ClaimPreserved, TypeCorrect, PTL DEF Spec
<1>3. Spec => []NeverCutShort
  BY <1>1, BudgetSuffices
<1>4. Init => StageInv
  BY StageInit
<1>5. TypeOK /\ ClaimInv /\ NeverCutShort /\ StageInv /\ [Next]_vars => StageInv'
  BY StagePreserved DEF StageInv
<1> QED
  BY <1>2, <1>3, <1>4, <1>5, TypeCorrect, PTL DEF Spec

\* A monitor whose checks answer up or down and fit in their tick has, between
\* two checks, exactly one open incident and a standing down notification when
\* its status is down, and neither otherwise: the status, the incidents and the
\* notifications that checkMonitor writes in separate statements never part.
THEOREM IncidentsFollow ==
    ASSUME LifecycleHypothesis PROVE Spec => []IncidentsFollowStatus
<1>1. TypeOK /\ StageInv => IncidentsFollowStatus
  BY StageMeans DEF StageInv, IncidentsFollowStatus
<1> QED
  BY <1>1, StageAlways, PTL

\* Under the same hypothesis no outage is announced twice and no recovery is
\* announced that does not end an announced outage.
THEOREM AlertsAlternating ==
    ASSUME LifecycleHypothesis PROVE Spec => []AlertsAlternate
<1>1. TypeOK /\ StageInv => AlertsAlternate
  BY StageMeans DEF StageInv, AlertsAlternate
<1> QED
  BY <1>1, StageAlways, PTL

\* Under the same hypothesis the status column is the newest log line's.
THEOREM StatusIsLogged ==
    ASSUME LifecycleHypothesis PROVE Spec => []StatusFollowsLog
<1>1. TypeOK /\ StageInv => StatusFollowsLog
  BY StageMeans DEF StageInv, StatusFollowsLog
<1> QED
  BY <1>1, StageAlways, PTL

-----------------------------------------------------------------------------
(* The scheduler implements Outage.                                        *)

LEMMA LifecycleInit == Init => Lifecycle!Init
BY DEF Init, Lifecycle!Init

\* Only three statements of a check touch the incidents or the notifications.
LEMMA LifecycleStep ==
    ASSUME LifecycleHypothesis, TypeOK, NeverCutShort, StageInv,
           NEW t \in Slot, NEW m \in Monitor, CheckMonitor(t, m)
    PROVE  [Lifecycle!Next]_(Lifecycle!vars)
<1> DEFINE c == check[t][m]
           down == {n \in Monitor : open[n] > 0}
           told == {n \in Monitor : alert[n] = "down"}
<1>1. /\ open \in [Monitor -> 0..2]
      /\ alert \in [Monitor -> Alert]
  BY DEF TypeOK
<1>2. "db" \notin FaultKinds
  BY DEF LifecycleHypothesis, ClaimHypothesis
<1>3. c.pc # "idle"
  BY <1>2, CheckEffect
<1>4. ASSUME NEW ok \in BOOLEAN, Executes(Alive(t, m), ok) PROVE ok
  BY <1>2, <1>3, <1>4, NoDbFault DEF NeverCutShort
<1>5. row[m].exists /\ Stage(c, row[m].status, open[m], logged[m], alert[m])
  BY <1>3 DEF StageInv, StageOf, AtStage
<1>6. ASSUME UNCHANGED <<open, alert>> PROVE UNCHANGED Lifecycle!vars
  BY <1>6 DEF Lifecycle!vars
<1>7. ASSUME NEW ok \in BOOLEAN, CreateIncident(t, m, ok) PROVE Lifecycle!Open(m)
  <2>1. ok /\ c.pc = "incident" /\ open[m] = 0 /\ alert[m] # "down" /\ UNCHANGED alert
    BY <1>4, <1>5, <1>7 DEF CreateIncident, Stage
  <2>2. open' = [open EXCEPT ![m] = 1]
    BY <1>1, <1>5, <1>7, <2>1 DEF CreateIncident, AtMost
  <2>3. down' = down \union {m}
    BY <1>1, <2>2
  <2> QED
    BY <2>1, <2>3 DEF Lifecycle!Open
<1>8. ASSUME NEW ok \in BOOLEAN, ResolveIncident(t, m, ok) PROVE Lifecycle!Close(m)
  <2>1. ok /\ c.pc = "resolve" /\ open[m] = 1 /\ alert[m] = "down" /\ UNCHANGED alert
    BY <1>4, <1>5, <1>8 DEF ResolveIncident, Stage
  <2>2. open' = [open EXCEPT ![m] = 0]
    BY <1>8, <2>1 DEF ResolveIncident
  <2>3. down' = down \ {m}
    BY <1>1, <2>2
  <2> QED
    BY <2>1, <2>3 DEF Lifecycle!Close
<1>9. ASSUME NEW ok \in BOOLEAN, Notify(t, m, ok)
      PROVE  Lifecycle!TellDown(m) \/ Lifecycle!TellUp(m)
  <2>1. ok /\ c.pc = "notify" /\ UNCHANGED open
    BY <1>4, <1>9 DEF Notify
  <2>2. /\ c.result \in {"up", "down"} /\ row[m].status = c.result
        /\ (row[m].status = "down" => open[m] = 1 /\ alert[m] # "down")
        /\ (row[m].status = "up" => open[m] = 0 /\ alert[m] = "down")
    BY <1>5, <2>1 DEF Stage, WritePC
  <2>3. alert' = [alert EXCEPT ![m] = Event(c)]
    BY <1>9, <2>1 DEF Notify
  <2>4. CASE c.result = "down"
    <3>1. told' = told \union {m}
      BY <1>1, <2>3, <2>4 DEF Event
    <3> QED
      BY <2>1, <2>2, <2>4, <3>1 DEF Lifecycle!TellDown
  <2>5. CASE c.result = "up"
    <3>1. told' = told \ {m}
      BY <1>1, <2>3, <2>5 DEF Event
    <3> QED
      BY <2>1, <2>2, <2>5, <3>1 DEF Lifecycle!TellUp
  <2> QED
    BY <2>2, <2>4, <2>5
<1> QED
  BY <1>6, <1>7, <1>8, <1>9
  DEF CheckMonitor, Lifecycle!Next, Claim, Attempt, Retry, GiveUp, InsertLog, UpdateMonitor, db

LEMMA LifecycleNext ==
    ASSUME LifecycleHypothesis, TypeOK, NeverCutShort, StageInv, [Next]_vars
    PROVE  [Lifecycle!Next]_(Lifecycle!vars)
<1>1. ASSUME NEW t \in Slot, NEW m \in Monitor, CheckMonitor(t, m)
      PROVE  [Lifecycle!Next]_(Lifecycle!vars)
  BY <1>1, LifecycleStep
<1>2. ASSUME UNCHANGED <<open, alert>> PROVE UNCHANGED Lifecycle!vars
  BY <1>2 DEF Lifecycle!vars
<1> QED
  BY <1>1, <1>2
  DEF Next, Tick, Check, Outage, RunChecks, Advance, Stop, Crash, Restart, Start, vars, db

\* Every behaviour of the scheduler is one of the lifecycle: open, announce,
\* close, announce, statement by statement and for every monitor.
THEOREM ImplementsLifecycle ==
    ASSUME LifecycleHypothesis PROVE Spec => Lifecycle!Spec
<1>1. Spec => []NeverCutShort
  BY BudgetSuffices DEF LifecycleHypothesis
<1>2. TypeOK /\ NeverCutShort /\ StageInv /\ [Next]_vars => [Lifecycle!Next]_(Lifecycle!vars)
  BY LifecycleNext
<1> QED
  BY <1>1, <1>2, LifecycleInit, StageAlways, PTL DEF Spec, Lifecycle!Spec

-----------------------------------------------------------------------------
(* The requests: a reset that succeeded leaves nothing, and nothing comes  *)
(* back.                                                                   *)

RequestTypeOK ==
    /\ TypeOK
    /\ beat \in [Monitor -> Ping \union {NoBeat}]
    /\ lost \in [Monitor -> 0..2]
    /\ reset \in Table \union {"none", "done", "failed"}

Gone(m) == ~row[m].exists /\ open[m] = 0 /\ lost[m] = 0 /\ logged[m] = "pending"

\* Once it is done there is no resolved incident left to reopen either.
Swept == reset = "done" => pinged = {} /\ closed = {} /\ \A m \in Monitor : Gone(m)

\* The scheduler neither creates nor deletes monitors.
LEMMA ScheduleKeepsRows ==
    ASSUME TypeOK, [Next]_vars, NEW m \in Monitor
    PROVE  row'[m].exists = row[m].exists
<1>0. row \in [Monitor -> RowState]
  BY DEF TypeOK
<1>1. CASE Advance
  BY <1>0, <1>1 DEF Advance, RowState
<1>2. ASSUME NEW d \in 0..TickEvery, Crash(d) \/ Restart(d) PROVE row'[m].exists = row[m].exists
  BY <1>0, <1>2 DEF Crash, Restart, Start, RowState
<1>3. ASSUME NEW t \in Slot, NEW n \in Monitor, CheckMonitor(t, n)
      PROVE  row'[m].exists = row[m].exists
  <2>1. ASSUME NEW ok \in BOOLEAN, Claim(t, n, ok) PROVE row'[m].exists = row[m].exists
    <3>1. row' = row \/ row' = [row EXCEPT ![n].age = 0]
      BY <2>1 DEF Claim
    <3> QED
      BY <1>0, <3>1 DEF RowState
  <2>2. ASSUME NEW ok \in BOOLEAN, UpdateMonitor(t, n, ok) PROVE row'[m].exists = row[m].exists
    <3>1. \/ row' = row
          \/ row' = [row EXCEPT ![n].status = check[t][n].result,
                                ![n].age = AtMost(check[t][n].clock, Interval[n])]
      BY <2>2 DEF UpdateMonitor
    <3> QED
      BY <1>0, <3>1 DEF RowState
  <2> QED
    BY <1>3, <2>1, <2>2 DEF CheckMonitor, InsertLog, CreateIncident, ResolveIncident, Notify,
                            Attempt, Retry, GiveUp, db
<1> QED
  BY <1>1, <1>2, <1>3 DEF Next, Tick, Check, Outage, RunChecks, Stop, db, vars

\* The scheduler writes nothing about a monitor that is gone.
LEMMA GoneStays ==
    ASSUME TypeOK, Next, NEW m \in Monitor, ~row[m].exists, open[m] = 0, logged[m] = "pending"
    PROVE  ~row'[m].exists /\ open'[m] = 0 /\ logged'[m] = "pending"
<1>0. /\ row \in [Monitor -> RowState] /\ open \in [Monitor -> 0..2]
      /\ logged \in [Monitor -> Status] /\ row[m] \in RowState
  BY DEF TypeOK
<1>1. CASE Tick BY <1>1 DEF Tick, RunChecks
<1>2. ASSUME NEW d \in Nat,
             row' = [n \in Monitor |-> [row[n] EXCEPT !.age = AtMost(@ + d, Interval[n])]]
      PROVE  ~row'[m].exists
  BY <1>0, <1>2 DEF RowState
<1>3. CASE Advance
  BY <1>0, <1>3 DEF Advance, RowState
<1>4. CASE Stop \/ Outage
  <2>1. ~row'[m].exists
    <3>1. CASE Stop BY <3>1 DEF Stop, db
    <3>2. CASE Outage
      <4>1. PICK d \in 0..TickEvery : Start(d)
        BY <3>2 DEF Outage, Crash, Restart
      <4>2. d \in Nat
        BY ConstantAssumption
      <4> QED
        BY <1>2, <4>1, <4>2 DEF Start
    <3> QED
      BY <1>4, <3>1, <3>2
  <2>2. open' = open /\ logged' = logged
    BY <1>4 DEF Stop, db, Outage, Crash, Restart, Start
  <2> QED
    BY <2>1, <2>2
<1>5. CASE Check
  <2>1. PICK t \in Slot, n \in Monitor : CheckMonitor(t, n)
    BY <1>5 DEF Check
  <2>2. ASSUME NEW ok \in BOOLEAN, Claim(t, n, ok) \/ UpdateMonitor(t, n, ok)
        PROVE  row'[m] = row[m] /\ open' = open /\ logged' = logged
    BY <1>0, <2>2 DEF Claim, UpdateMonitor
  <2>3. ASSUME NEW ok \in BOOLEAN, InsertLog(t, n, ok)
        PROVE  row' = row /\ open' = open /\ logged'[m] = logged[m]
    BY <1>0, <2>3 DEF InsertLog
  <2>4. ASSUME NEW ok \in BOOLEAN, CreateIncident(t, n, ok) \/ ResolveIncident(t, n, ok)
        PROVE  row' = row /\ open'[m] = 0 /\ logged' = logged
    BY <1>0, <2>4 DEF CreateIncident, ResolveIncident
  <2>5. ASSUME NEW ok \in BOOLEAN, \/ Notify(t, n, ok) \/ Retry(t, n) \/ GiveUp(t, n)
                                  \/ \E r \in Status : Attempt(t, n, r)
        PROVE  row' = row /\ open' = open /\ logged' = logged
    BY <2>5 DEF Notify, Retry, GiveUp, Attempt, db
  <2> QED
    BY <2>1, <2>2, <2>3, <2>4, <2>5 DEF CheckMonitor
<1> QED
  BY <1>1, <1>3, <1>4, <1>5 DEF Next

LEMMA RequestTypes == RequestTypeOK /\ [MonitoringNext]_allVars => RequestTypeOK'
<1> SUFFICES ASSUME RequestTypeOK, [MonitoringNext]_allVars PROVE RequestTypeOK'
  OBVIOUS
<1>0. /\ TypeOK /\ row \in [Monitor -> RowState] /\ \A n \in Monitor : row[n].age <= Interval[n]
      /\ open \in [Monitor -> 0..2] /\ logged \in [Monitor -> Status]
      /\ lost \in [Monitor -> 0..2] /\ "pending" \in Status
      /\ beat \in [Monitor -> Ping \union {NoBeat}]
      /\ reset \in Table \union {"none", "done", "failed"}
  BY Places DEF RequestTypeOK, TypeOK
<1>1. CASE Schedule
  <2>1. TypeOK'
    BY <1>0, <1>1, TypePreserved DEF Schedule
  <2> QED
    BY <1>0, <1>1, <2>1 DEF Schedule, RequestTypeOK
<1>2. ASSUME NEW m \in Monitor, NEW status \in Ping, PushHeartbeat(m, status) PROVE RequestTypeOK'
  BY <1>0, <1>2 DEF PushHeartbeat, vars, RequestTypeOK, TypeOK
<1>3. ASSUME NEW m \in Monitor, NEW ok \in BOOLEAN, ApplyHeartbeat(m, ok) PROVE RequestTypeOK'
  <2>1. beat[m] \in Status
    BY <1>0, <1>3 DEF ApplyHeartbeat, Ping, NoBeat, Status
  <2>2. Interval[m] \in Nat
    BY ConstantAssumption
  <2>3. row' \in [Monitor -> RowState] /\ \A n \in Monitor : row'[n].age <= Interval[n]
    <3>1. CASE row' = row
      BY <1>0, <3>1
    <3>2. CASE row' = [row EXCEPT ![m].status = beat[m], ![m].age = 0]
      <4> DEFINE r == [row[m] EXCEPT !.status = beat[m], !.age = 0]
      <4>1. r \in RowState /\ r.age = 0
        BY <1>0, <2>1 DEF RowState
      <4>2. row' = [row EXCEPT ![m] = r]
        BY <1>0, <3>2
      <4> HIDE DEF r
      <4> QED
        BY <1>0, <2>2, <4>1, <4>2
    <3> QED
      BY <1>3, <3>1, <3>2 DEF ApplyHeartbeat
  <2>4. beat' \in [Monitor -> Ping \union {NoBeat}]
    BY <1>0, <1>3 DEF ApplyHeartbeat
  <2> QED
    BY <1>0, <1>3, <2>3, <2>4 DEF ApplyHeartbeat, RequestTypeOK, TypeOK
<1>4. ASSUME NEW m \in Monitor, ResolveManually(m) \/ Reopen(m) PROVE RequestTypeOK'
  <2>1. PICK n \in 0..2 : SetUnresolved(m, n)
    <3>1. Unresolved(m) \in 0..2
      BY <1>0 DEF Unresolved
    <3> QED
      BY <1>4, <3>1 DEF ResolveManually, Reopen, AtMost
  <2>2. open' \in [Monitor -> 0..2] /\ lost' \in [Monitor -> 0..2]
    BY <1>0, <2>1 DEF SetUnresolved
  <2> QED
    BY <1>0, <1>4, <2>2 DEF ResolveManually, Reopen, RequestTypeOK, TypeOK
<1>5. ASSUME NEW m \in Monitor, Delete(m) PROVE RequestTypeOK'
  <2>1. row' \in [Monitor -> RowState] /\ \A n \in Monitor : row'[n].age <= Interval[n]
    BY <1>0, <1>5 DEF Delete, RowState
  <2> QED
    BY <1>0, <1>5, <2>1 DEF Delete, RequestTypeOK, TypeOK
<1>6. CASE BeginReset
  BY <1>0, <1>6 DEF BeginReset, vars, RequestTypeOK, TypeOK, Table
<1>7. ASSUME NEW ok \in BOOLEAN, ResetStep(ok) PROVE RequestTypeOK'
  <2>1. row' \in [Monitor -> RowState] /\ \A n \in Monitor : row'[n].age <= Interval[n]
    <3>1. CASE row' = row
      BY <1>0, <3>1
    <3>2. CASE row' = [m \in Monitor |-> [row[m] EXCEPT !.exists = FALSE]]
      <4>1. ASSUME NEW n \in Monitor
            PROVE  /\ [row[n] EXCEPT !.exists = FALSE] \in RowState
                   /\ [row[n] EXCEPT !.exists = FALSE].age = row[n].age
        BY <1>0 DEF RowState
      <4> QED
        BY <1>0, <3>2, <4>1
    <3> QED
      BY <1>7, <3>1, <3>2 DEF ResetStep, Truncate
  <2>2. /\ open' \in [Monitor -> 0..2] /\ lost' \in [Monitor -> 0..2]
        /\ logged' \in [Monitor -> Status]
    BY <1>0, <1>7 DEF ResetStep, Truncate
  <2>3. reset' \in Table \union {"none", "done", "failed"}
    BY <1>7 DEF ResetStep, NextTable, Table
  <2> QED
    BY <1>0, <1>7, <2>1, <2>2, <2>3 DEF ResetStep, RequestTypeOK, TypeOK
<1>8. CASE UNCHANGED allVars
  BY <1>0, <1>8 DEF allVars, vars, requests, RequestTypeOK, TypeOK
<1> QED
  BY <1>1, <1>2, <1>3, <1>4, <1>5, <1>6, <1>7, <1>8 DEF MonitoringNext, Request

LEMMA SweptStays == RequestTypeOK /\ Swept /\ [MonitoringNext]_allVars => Swept'
<1> SUFFICES ASSUME RequestTypeOK, Swept, [MonitoringNext]_allVars, reset' = "done"
             PROVE  pinged' = {} /\ closed' = {} /\ \A m \in Monitor : Gone(m)'
  BY DEF Swept
<1>0. /\ row \in [Monitor -> RowState] /\ \A m \in Monitor : row[m] \in RowState
      /\ open \in [Monitor -> 0..2] /\ TypeOK
  BY DEF RequestTypeOK, TypeOK
<1>1. ASSUME reset # "done" PROVE \E ok \in BOOLEAN : ResetStep(ok)
  BY <1>1 DEF MonitoringNext, Request, Schedule, PushHeartbeat, ApplyHeartbeat,
              ResolveManually, Reopen, Delete, BeginReset, allVars, requests
<1>2. CASE \E ok \in BOOLEAN : ResetStep(ok)
  <2>1. Truncate(Cascade(reset)) /\ reset \in Table /\ NextTable[reset] = "done"
    BY <1>2 DEF ResetStep
  <2>2. Cascade(reset) = Table
    BY <2>1 DEF NextTable, Table, Cascade
  <2>3. /\ pinged' = {} /\ closed' = {}
        /\ row' = [m \in Monitor |-> [row[m] EXCEPT !.exists = FALSE]]
        /\ open' = [m \in Monitor |-> 0] /\ lost' = [m \in Monitor |-> 0]
        /\ logged' = [m \in Monitor |-> "pending"]
    BY <2>1, <2>2 DEF Truncate, Table
  <2> QED
    BY <1>0, <2>3 DEF Gone, RowState
<1>3. CASE reset = "done" /\ ~(\E ok \in BOOLEAN : ResetStep(ok))
  <2>0. pinged = {} /\ closed = {} /\ \A m \in Monitor : Gone(m)
    BY <1>3 DEF Swept
  <2>1. CASE Schedule
    <3>1. \A m \in Monitor : ~row'[m].exists /\ open'[m] = 0 /\ logged'[m] = "pending"
      BY <1>0, <2>0, <2>1, GoneStays DEF Gone, Schedule
    <3>2. {m \in Monitor : open'[m] < open[m]} = {}
      BY <2>0, <3>1 DEF Gone
    <3> QED
      BY <2>0, <2>1, <3>1, <3>2 DEF Schedule, Gone
  <2>2. ASSUME NEW m \in Monitor, NEW ok \in BOOLEAN, ApplyHeartbeat(m, ok)
        PROVE  UNCHANGED <<row, open, lost, logged, pinged, closed>>
    BY <2>0, <2>2 DEF ApplyHeartbeat, Gone
  <2>3. ASSUME NEW m \in Monitor
        PROVE  /\ ~Delete(m) /\ ~ResolveManually(m) /\ ~Reopen(m)
               /\ \A status \in Ping : ~PushHeartbeat(m, status)
    BY <2>0 DEF Delete, ResolveManually, Reopen, PushHeartbeat, Unresolved, Gone
  <2>4. ~BeginReset
    BY <1>3 DEF BeginReset
  <2>5. CASE UNCHANGED allVars
    BY <2>0, <2>5 DEF allVars, vars, requests, Gone
  <2> QED
    BY <1>3, <2>0, <2>1, <2>2, <2>3, <2>4, <2>5 DEF MonitoringNext, Request, Gone
<1> QED
  BY <1>1, <1>2, <1>3

\* A reset that reported success left nothing behind, whatever checks, pings
\* and other requests ran between its statements, and nothing comes back.
THEOREM ResetIsFinal == MonitoringSpec => []ResetLeavesNothing
<1>1. MonitoringInit => RequestTypeOK /\ Swept
  <2> SUFFICES ASSUME MonitoringInit PROVE RequestTypeOK /\ Swept
    OBVIOUS
  <2>1. TypeOK
    BY TypeInit DEF MonitoringInit
  <2> QED
    BY <2>1 DEF MonitoringInit, RequestTypeOK, Swept
<1>2. Swept => ResetLeavesNothing
  BY DEF Swept, Gone, ResetLeavesNothing
<1> QED
  BY <1>1, <1>2, RequestTypes, SweptStays, PTL DEF MonitoringSpec

-----------------------------------------------------------------------------
(* What the scheduler keeps while requests are made.                       *)

\* No request touches the ticks; it may make a row younger or delete it.
LEMMA RequestEffect ==
    ASSUME RequestTypeOK, Request
    PROVE  /\ check' = check /\ cron' = cron /\ stopping' = stopping
           /\ alert' = alert
           /\ \A m \in Monitor : /\ row'[m].exists => row[m].exists
                                 /\ row'[m].age \in {row[m].age, 0}
<1>0. row \in [Monitor -> RowState]
  BY DEF RequestTypeOK, TypeOK
<1>1. ASSUME NEW m \in Monitor, NEW ok \in BOOLEAN, ApplyHeartbeat(m, ok)
      PROVE  \A n \in Monitor : row'[n].exists = row[n].exists /\ row'[n].age \in {row[n].age, 0}
  <2>1. \/ row' = row
        \/ row' = [row EXCEPT ![m].status = beat[m], ![m].age = 0]
    BY <1>1 DEF ApplyHeartbeat
  <2> QED
    BY <1>0, <2>1 DEF RowState
<1>2. ASSUME NEW m \in Monitor, Delete(m)
      PROVE  \A n \in Monitor : (row'[n].exists => row[n].exists) /\ row'[n].age = row[n].age
  BY <1>0, <1>2 DEF Delete, RowState
<1>3. ASSUME NEW ok \in BOOLEAN, ResetStep(ok)
      PROVE  \A n \in Monitor : (row'[n].exists => row[n].exists) /\ row'[n].age = row[n].age
  <2>1. \/ row' = row
        \/ row' = [m \in Monitor |-> [row[m] EXCEPT !.exists = FALSE]]
    BY <1>3 DEF ResetStep, Truncate
  <2> QED
    BY <1>0, <2>1 DEF RowState
<1> QED
  BY <1>1, <1>2, <1>3 DEF Request, PushHeartbeat, ApplyHeartbeat, ResolveManually, Reopen,
     Delete, BeginReset, ResetStep, vars

LEMMA MonitoringSteps ==
    [MonitoringNext]_allVars => [Next]_vars \/ Request
BY DEF MonitoringNext, Schedule, allVars

LEMMA MonitoringTypes == MonitoringSpec => []RequestTypeOK
<1>1. MonitoringInit => RequestTypeOK
  BY TypeInit DEF MonitoringInit, RequestTypeOK
<1> QED
  BY <1>1, RequestTypes, PTL DEF MonitoringSpec

LEMMA ClaimAmongRequests == ASSUME ClaimHypothesis PROVE MonitoringSpec => []ClaimInv
<1>1. MonitoringInit => ClaimInv
  BY ClaimInit DEF MonitoringInit
<1>2. RequestTypeOK /\ ClaimInv /\ [MonitoringNext]_allVars => ClaimInv'
  <2> SUFFICES ASSUME RequestTypeOK, ClaimInv, Request PROVE ClaimInv'
    BY ClaimPreserved, MonitoringSteps DEF RequestTypeOK
  <2>1. SingleFlight'
    BY RequestEffect DEF ClaimInv, SingleFlight, Live, Alive
  <2>2. ASSUME NEW t \in Slot, NEW m \in Monitor PROVE InTime(check[t][m], row[m])'
    <3>1. InTime(check[t][m], row[m])
      BY DEF ClaimInv
    <3>2. /\ check[t][m].left \in 0..CtxLimit /\ check[t][m].clock \in Nat
          /\ row[m].age \in Nat /\ CtxLimit \in Nat
      BY ConstantAssumption DEF RequestTypeOK, TypeOK, CheckState, RowState
    <3> QED
      BY <3>1, <3>2, RequestEffect DEF InTime
  <2> QED
    BY <2>1, <2>2 DEF ClaimInv
<1> QED
  BY <1>1, <1>2, MonitoringTypes, PTL DEF MonitoringSpec

\* The claim protects a monitor from a second check also while heartbeats
\* overwrite last_checked_at and monitors are deleted: a request only ever
\* makes a monitor due later.
THEOREM ClaimProtectsAmongRequests ==
    ASSUME ClaimHypothesis PROVE MonitoringSpec => []SingleFlight
<1>1. ClaimInv => SingleFlight
  BY DEF ClaimInv
<1> QED
  BY <1>1, ClaimAmongRequests, PTL

\* No request delays a check or cuts it short: what fits in a tick still does.
THEOREM BudgetSufficesAmongRequests ==
    ASSUME BudgetHypothesis PROVE MonitoringSpec => []NeverCutShort
<1>1. MonitoringInit => BudgetInv
  BY DEF MonitoringInit, Init, BudgetInv, InBudget, Idle, WritePC
<1>2. RequestTypeOK /\ BudgetInv /\ [MonitoringNext]_allVars => BudgetInv'
  <2> SUFFICES ASSUME RequestTypeOK, BudgetInv, Request PROVE BudgetInv'
    BY BudgetPreserved, MonitoringSteps DEF RequestTypeOK
  <2> QED
    BY RequestEffect DEF BudgetInv
<1>3. RequestTypeOK /\ BudgetInv => NeverCutShort
  BY BudgetAlive DEF RequestTypeOK, TypeOK, BudgetInv, BudgetHypothesis, NeverCutShort, Alive
<1> QED
  BY <1>1, <1>2, <1>3, MonitoringTypes, PTL DEF MonitoringSpec

LEMMA MonitoringSlots == MonitoringSpec => []SlotInv
<1>1. MonitoringInit => SlotInv
  BY DEF MonitoringInit, Init, SlotInv, Idle
<1>2. RequestTypeOK /\ SlotInv /\ [MonitoringNext]_allVars => SlotInv'
  <2> SUFFICES ASSUME RequestTypeOK, SlotInv, Request PROVE SlotInv'
    BY SlotPreserved, MonitoringSteps DEF RequestTypeOK
  <2> QED
    BY RequestEffect DEF SlotInv, Younger, Alive
<1> QED
  BY <1>1, <1>2, MonitoringTypes, PTL DEF MonitoringSpec

\* Requests start no ticks and keep none busy.
THEOREM NoPileUpAmongRequests == MonitoringSpec => []TicksBounded
<1>1. RequestTypeOK /\ SlotInv => TicksBounded
  BY SlotsSuffice DEF RequestTypeOK
<1> QED
  BY <1>1, MonitoringSlots, MonitoringTypes, PTL

-----------------------------------------------------------------------------
(* A monitor that was deleted.                                             *)

\* A deleted monitor leaves no incident, log line or heartbeat under its id,
\* although checks of it may be between any two of their statements when it is
\* deleted, and requests about it between theirs.
THEOREM DeletionIsComplete == MonitoringSpec => []DeletedLeavesNothing
<1>1. MonitoringInit => DeletedLeavesNothing
  BY DEF MonitoringInit, Init, DeletedLeavesNothing
<1>2. RequestTypeOK /\ DeletedLeavesNothing /\ [MonitoringNext]_allVars => DeletedLeavesNothing'
  <2> SUFFICES ASSUME RequestTypeOK, DeletedLeavesNothing, [MonitoringNext]_allVars,
                      NEW m \in Monitor, ~row'[m].exists
               PROVE  open'[m] = 0 /\ logged'[m] = "pending" /\ m \notin pinged'
    BY DEF DeletedLeavesNothing
  <2>0. /\ TypeOK /\ row \in [Monitor -> RowState] /\ row[m] \in RowState
        /\ open \in [Monitor -> 0..2] /\ logged \in [Monitor -> Status]
        /\ ~row[m].exists => open[m] = 0 /\ logged[m] = "pending" /\ m \notin pinged
    BY DEF RequestTypeOK, TypeOK, DeletedLeavesNothing
  <2>1. CASE Schedule
    <3>1. row'[m].exists = row[m].exists
      BY <2>0, <2>1, ScheduleKeepsRows DEF Schedule
    <3> QED
      BY <2>0, <2>1, <3>1, GoneStays DEF Schedule
  <2>2. ASSUME NEW n \in Monitor,
               \/ \E status \in Ping : PushHeartbeat(n, status)
               \/ \E ok \in BOOLEAN : ApplyHeartbeat(n, ok)
               \/ ResolveManually(n) \/ Reopen(n)
        PROVE  open'[m] = 0 /\ logged'[m] = "pending" /\ m \notin pinged'
    <3>1. row'[m].exists = row[m].exists
      BY <2>0, <2>2 DEF PushHeartbeat, ApplyHeartbeat, ResolveManually, Reopen, vars, RowState
    <3>2. logged' = logged
      BY <2>2 DEF PushHeartbeat, ApplyHeartbeat, ResolveManually, Reopen, vars
    <3>3. open'[m] = open[m]
      BY <2>0, <2>2, <3>1 DEF PushHeartbeat, ApplyHeartbeat, ResolveManually, Reopen, vars, SetUnresolved
    <3>4. m \notin pinged'
      BY <2>0, <2>2, <3>1 DEF PushHeartbeat, ApplyHeartbeat, ResolveManually, Reopen
    <3> QED
      BY <2>0, <3>1, <3>2, <3>3, <3>4
  <2>3. ASSUME NEW n \in Monitor, Delete(n)
        PROVE  open'[m] = 0 /\ logged'[m] = "pending" /\ m \notin pinged'
    BY <2>0, <2>3 DEF Delete, RowState
  <2>4. CASE BeginReset
    BY <2>0, <2>4 DEF BeginReset, vars
  <2>5. ASSUME NEW ok \in BOOLEAN, ResetStep(ok)
        PROVE  open'[m] = 0 /\ logged'[m] = "pending" /\ m \notin pinged'
    <3>1. CASE row' = row
      BY <2>0, <2>5, <3>1 DEF ResetStep, Truncate
    <3>2. CASE row' # row
      <4>1. Truncate(Cascade(reset)) /\ "monitors" \in Cascade(reset) /\ reset \in Table
        BY <2>5, <3>2 DEF ResetStep, Truncate
      <4>2. Cascade(reset) = Table
        BY <4>1 DEF Cascade
      <4> QED
        BY <4>1, <4>2 DEF Truncate, Table
    <3> QED
      BY <3>1, <3>2
  <2>6. CASE UNCHANGED allVars
    BY <2>0, <2>6 DEF allVars, vars, requests
  <2> QED
    BY <2>1, <2>2, <2>3, <2>4, <2>5, <2>6 DEF MonitoringNext, Request
<1> QED
  BY <1>1, <1>2, MonitoringTypes, PTL DEF MonitoringSpec

\* A deleted monitor does not come back and no tick selects it again; checks
\* of it that are in flight get older with every unit of time, and time waits
\* for those whose context has expired (GoingIsAlive), unless a call in their
\* tick is stalled.  DeletedGoesQuiet rests on this, besides fairness.
THEOREM DeletionWindsDown == MonitoringSpec => DeletedWindsDown
<1>1. ASSUME RequestTypeOK, SlotInv, [MonitoringNext]_allVars,
             NEW m \in Monitor, ~row[m].exists
      PROVE  /\ ~row'[m].exists
             /\ \A t \in Slot : check'[t][m].pc # "idle" =>
                   /\ check[t][m].pc # "idle"
                   /\ check'[t][m].left <= check[t][m].left
                   /\ Advance /\ Going(t) => check'[t][m].left < check[t][m].left
  <2>0. /\ TypeOK /\ Idle.pc = "idle" /\ \A t \in Slot : check[t][m] \in CheckState
        /\ \A t \in Slot : check[t][m].left \in 0..CtxLimit
    <3>1. TypeOK /\ Idle.pc = "idle"
      BY <1>1 DEF RequestTypeOK, Idle
    <3>2. \A t \in Slot : check[t][m] \in CheckState
      BY <1>1, <3>1 DEF TypeOK
    <3> QED
      BY <3>1, <3>2 DEF CheckState
  <2>1. ~row'[m].exists
    BY <1>1, <2>0, MonitoringSteps, RequestEffect, ScheduleKeepsRows
  <2> SUFFICES ASSUME NEW t \in Slot, check'[t][m].pc # "idle"
               PROVE  /\ check[t][m].pc # "idle"
                      /\ check'[t][m].left <= check[t][m].left
                      /\ Advance /\ Going(t) => check'[t][m].left < check[t][m].left
    BY <2>1
  <2>2. CASE Advance
    <3>1. check'[t][m] = Older(check[t][m])
      BY <2>2 DEF Advance
    <3>2. check[t][m].pc # "idle"
      BY <3>1 DEF Older
    <3>3. Going(t) => check[t][m].left > 0
      BY <1>1, <2>0, <2>2, <3>2, GoingIsAlive DEF Advance
    <3>4. check'[t][m].left = IF check[t][m].left = 0 THEN 0 ELSE check[t][m].left - 1
      BY <2>0, <3>1, <3>2 DEF Older, CheckState
    <3> QED
      BY <2>0, <3>2, <3>3, <3>4
  <2>3. CASE ~Advance
    <3>1. CASE check'[t][m] = check[t][m]
      BY <2>0, <2>3, <3>1
    <3>2. ASSUME NEW u \in Slot, NEW ok \in BOOLEAN, RunChecks(u, ok) PROVE check'[t][m] = check[t][m]
      <4>1. m \notin Due
        BY <1>1 DEF Due
      <4>2. u # t
        BY <2>0, <3>2, <4>1 DEF RunChecks, TypeOK
      <4> QED
        BY <2>0, <3>2, <4>2 DEF RunChecks, TypeOK
    <3>3. ASSUME NEW u \in Slot, NEW n \in Monitor, CheckMonitor(u, n)
          PROVE  check[t][m].pc # "idle" /\ check'[t][m].left = check[t][m].left
      BY <2>0, <3>3, CheckMoves
    <3>4. ASSUME NEW d \in 0..TickEvery, Crash(d) \/ Restart(d) PROVE FALSE
      BY <2>0, <3>4 DEF Crash, Restart, Start, AllIdle
    <3>5. CASE Stop
      BY <3>1, <3>5 DEF Stop
    <3>6. CASE Request
      BY <1>1, <3>1, <3>6, RequestEffect
    <3>7. CASE UNCHANGED vars
      BY <3>1, <3>7 DEF vars
    <3> QED
      BY <1>1, <2>0, <2>3, <3>1, <3>2, <3>3, <3>4, <3>5, <3>6, <3>7, MonitoringSteps
         DEF Next, Tick, Check, Outage
  <2> QED
    BY <2>2, <2>3
<1>2. RequestTypeOK /\ SlotInv /\ [MonitoringNext]_allVars =>
        [\A m \in Monitor : ~row[m].exists =>
            /\ ~row'[m].exists
            /\ \A t \in Slot : check'[t][m].pc # "idle" =>
                  /\ check[t][m].pc # "idle"
                  /\ check'[t][m].left <= check[t][m].left
                  /\ Advance /\ Going(t) => check'[t][m].left < check[t][m].left]_allVars
  BY <1>1
<1> QED
  BY <1>2, MonitoringSlots, MonitoringTypes, PTL DEF MonitoringSpec, DeletedWindsDown

-----------------------------------------------------------------------------
(* Notifications alternate whatever is done to incidents and monitors.     *)

LEMMA ToldStep ==
    ASSUME LifecycleHypothesis, TypeOK, SingleFlight, NeverCutShort, ToldInv,
           NEW t \in Slot, NEW m \in Monitor, CheckMonitor(t, m)
    PROVE  ToldInv'
<1> DEFINE c == check[t][m]
           Settled == row'[m].exists => (alert'[m] = "down" <=> row'[m].status = "down")
           Now(d) == IF d = Idle THEN Settled
                     ELSE d.pc # "idle" /\ Announces(d, row'[m], alert'[m])
           Others == \A n \in Monitor \ {m} : row'[n] = row[n] /\ alert'[n] = alert[n]
<1>0. "db" \notin FaultKinds /\ "degraded" \notin Answer[m] /\ Idle.pc = "idle"
  BY DEF LifecycleHypothesis, ClaimHypothesis, BinaryHypothesis, Idle
<1>1. c \in CheckState /\ row \in [Monitor -> RowState] /\ alert \in [Monitor -> Alert]
  BY DEF TypeOK
<1>2. c.pc # "idle"
  BY <1>0, CheckEffect
<1>3. Alive(t, m) /\ \A u \in Slot \ {t} : check[u][m].pc = "idle"
  BY <1>2, OnlyCheck
<1>4. Announces(c, row[m], alert[m])
  BY DEF ToldInv
<1>5. ASSUME NEW d, Step(t, m, d), Others, Now(d) PROVE ToldInv'
  <2>1. check'[t][m] = d /\ \A u \in Slot, n \in Monitor : u # t \/ n # m => check'[u][n] = check[u][n]
    BY <1>5, StepAlone
  <2>2. ASSUME NEW n \in Monitor, n # m
        PROVE  (/\ Quiet(n) /\ row[n].exists => (alert[n] = "down" <=> row[n].status = "down")
                /\ \A u \in Slot : Announces(check[u][n], row[n], alert[n]))'
    <3>1. row'[n] = row[n] /\ alert'[n] = alert[n] /\ \A u \in Slot : check'[u][n] = check[u][n]
      BY <1>5, <2>1, <2>2
    <3> QED
      BY <3>1 DEF ToldInv, Quiet, Announces, WentDown, WentRecovery
  <2>3. \A u \in Slot \ {t} : Announces(check'[u][m], row'[m], alert'[m])
    BY <1>3, <2>1 DEF Announces
  <2>4. CASE d = Idle
    <3>1. Announces(check'[t][m], row'[m], alert'[m])
      BY <1>0, <2>1, <2>4 DEF Announces
    <3> QED
      BY <1>5, <2>2, <2>3, <2>4, <3>1 DEF ToldInv, Announces, WentDown, WentRecovery
  <2>5. CASE d # Idle
    <3>1. d.pc # "idle" /\ Announces(check'[t][m], row'[m], alert'[m])
      BY <1>5, <2>1, <2>5
    <3>2. ~Quiet(m)'
      BY <2>1, <3>1 DEF Quiet
    <3> QED
      BY <2>2, <2>3, <3>1, <3>2 DEF ToldInv, Announces, WentDown, WentRecovery
  <2> QED
    BY <2>4, <2>5
<1>6. ASSUME NEW ok \in BOOLEAN, Executes(Alive(t, m), ok) PROVE ok
  BY <1>0, <1>3, <1>6, NoDbFault
<1>7. ASSUME NEW ok \in BOOLEAN, Claim(t, m, ok) PROVE ToldInv'
  <2> DEFINE d == [c EXCEPT !.pc = "attempt", !.clock = 0]
  <2>1. d.pc = "attempt" /\ d.snap = c.snap /\ c.pc = "queued" /\ Step(t, m, d)
    BY <1>1, <1>7 DEF Claim, CheckState
  <2>2. /\ alert' = alert /\ \A n \in Monitor \ {m} : row'[n] = row[n]
        /\ row'[m].exists = row[m].exists /\ row'[m].status = row[m].status
    BY <1>1, <1>7 DEF Claim, RowState
  <2> HIDE DEF d
  <2>3. Now(d)
    BY <1>0, <1>4, <2>1, <2>2 DEF Announces, WritePC
  <2> QED
    BY <1>5, <2>1, <2>2, <2>3
<1>8. ASSUME NEW r \in Status, Attempt(t, m, r) PROVE ToldInv'
  <2> DEFINE p == IF r = "down" /\ c.attempt < Retries(m) THEN "pause" ELSE "log"
             d == [c EXCEPT !.pc = p, !.clock = 0, !.result = r]
  <2>1. d.pc = p /\ d.snap = c.snap /\ d.result = r
    BY <1>1 DEF CheckState
  <2>2. c.pc = "attempt" /\ Step(t, m, d) /\ UNCHANGED <<row, alert>>
    BY <1>8 DEF Attempt, db
  <2>3. r \in {"up", "down"} /\ p \in {"pause", "log"}
    <3>1. Answer[m] \subseteq {"up", "down", "hang", "stall"}
      BY <1>0, ConstantAssumption
    <3>2. r \in Returns(t, m)
      BY <1>8 DEF Attempt
    <3> QED
      BY <3>1, <3>2 DEF Returns
  <2> HIDE DEF d, p
  <2>4. Now(d)
    BY <1>0, <1>4, <2>1, <2>2, <2>3 DEF Announces, WritePC
  <2> QED
    BY <1>5, <2>2, <2>4
<1>9. CASE Retry(t, m)
  <2> DEFINE d == [c EXCEPT !.pc = "attempt", !.clock = 0, !.attempt = @ + 1]
  <2>1. d.pc = "attempt" /\ d.snap = c.snap
    BY <1>1 DEF CheckState
  <2>2. c.pc = "pause" /\ Step(t, m, d) /\ UNCHANGED <<row, alert>>
    BY <1>9 DEF Retry, db
  <2> HIDE DEF d
  <2>3. Now(d)
    BY <1>0, <1>4, <2>1, <2>2 DEF Announces, WritePC
  <2> QED
    BY <1>5, <2>2, <2>3
<1>10. ~GiveUp(t, m)
  BY <1>3 DEF GiveUp
<1>11. ASSUME NEW ok \in BOOLEAN, InsertLog(t, m, ok) PROVE ToldInv'
  <2> DEFINE d == [c EXCEPT !.pc = "update"]
  <2>1. d.pc = "update" /\ d.snap = c.snap /\ d.result = c.result
    BY <1>1 DEF CheckState
  <2>2. c.pc = "log" /\ Step(t, m, d) /\ UNCHANGED <<row, alert>>
    BY <1>11 DEF InsertLog
  <2> HIDE DEF d
  <2>3. Now(d)
    BY <1>0, <1>4, <2>1, <2>2 DEF Announces, WritePC
  <2> QED
    BY <1>5, <2>2, <2>3
<1>12. ASSUME NEW ok \in BOOLEAN, UpdateMonitor(t, m, ok) PROVE ToldInv'
  <2> DEFINE d == AfterUpdate(c)
  <2>1. c.pc = "update" /\ Step(t, m, d) /\ alert' = alert /\ ok
    BY <1>6, <1>12 DEF UpdateMonitor
  <2>2. /\ \A n \in Monitor \ {m} : row'[n] = row[n]
        /\ row'[m].exists = row[m].exists
        /\ row[m].exists => row'[m].status = c.result
    <3>1. row' = IF row[m].exists
                 THEN [row EXCEPT ![m].status = c.result,
                                  ![m].age = AtMost(c.clock, Interval[m])]
                 ELSE row
      BY <1>12, <2>1 DEF UpdateMonitor
    <3> QED
      BY <1>1, <3>1 DEF RowState
  <2>3. c.result \in {"up", "down"} /\ (alert[m] = "down" <=> c.snap = "down")
    BY <1>4, <2>1 DEF Announces, WritePC
  <2>4. ASSUME WentDown(c) \/ WentRecovery(c) PROVE Now(d)
    <3>1. /\ d.pc \in {"incident", "resolve"} /\ d.result = c.result /\ d.snap = c.snap
          /\ WentDown(d) \/ WentRecovery(d)
      BY <1>1, <2>4 DEF AfterUpdate, CheckState, WentDown, WentRecovery
    <3> HIDE DEF d
    <3> QED
      BY <1>0, <2>1, <2>2, <2>3, <3>1 DEF Announces, WritePC
  <2>5. ASSUME ~(WentDown(c) \/ WentRecovery(c)) PROVE Now(d)
    <3>1. d = Idle
      BY <2>5 DEF AfterUpdate
    <3> QED
      BY <2>1, <2>2, <2>3, <2>5, <3>1 DEF WentDown, WentRecovery
  <2> QED
    BY <1>5, <2>1, <2>2, <2>4, <2>5
<1>13. ASSUME NEW ok \in BOOLEAN, CreateIncident(t, m, ok) \/ ResolveIncident(t, m, ok)
       PROVE  ToldInv'
  <2> DEFINE d == [c EXCEPT !.pc = "notify"]
  <2>1. d.pc = "notify" /\ d.result = c.result /\ d.snap = c.snap
    BY <1>1 DEF CheckState
  <2>2. c.pc \in {"incident", "resolve"} /\ Step(t, m, d) /\ UNCHANGED <<row, alert>>
    BY <1>13 DEF CreateIncident, ResolveIncident
  <2> HIDE DEF d
  <2>3. Now(d)
    BY <1>0, <1>4, <2>1, <2>2 DEF Announces, WritePC, WentDown, WentRecovery
  <2> QED
    BY <1>5, <2>2, <2>3
<1>14. ASSUME NEW ok \in BOOLEAN, Notify(t, m, ok) PROVE ToldInv'
  <2>1. c.pc = "notify" /\ Step(t, m, Idle) /\ row' = row /\ ok
    BY <1>6, <1>14 DEF Notify
  <2>2. alert'[m] = Event(c) /\ \A n \in Monitor \ {m} : alert'[n] = alert[n]
    BY <1>1, <1>14, <2>1 DEF Notify
  <2>3. c.result \in {"up", "down"} /\ (row[m].exists => row[m].status = c.result)
    BY <1>4, <2>1 DEF Announces, WritePC
  <2>4. Now(Idle)
    BY <2>1, <2>2, <2>3 DEF Event
  <2> QED
    BY <1>5, <2>1, <2>2, <2>4
<1> QED
  BY <1>7, <1>8, <1>9, <1>10, <1>11, <1>12, <1>13, <1>14 DEF CheckMonitor

\* A step that moves no check, announces nothing and changes no status.
LEMMA ToldKept ==
    ASSUME ToldInv, UNCHANGED alert,
           \A m \in Monitor : /\ row'[m].exists => row[m].exists
                              /\ row'[m].status = row[m].status,
           \A t \in Slot, m \in Monitor : /\ check'[t][m].pc = check[t][m].pc
                                          /\ check'[t][m].snap = check[t][m].snap
                                          /\ check'[t][m].result = check[t][m].result
    PROVE  ToldInv'
<1> SUFFICES ASSUME NEW m \in Monitor
             PROVE  (/\ Quiet(m) /\ row[m].exists => (alert[m] = "down" <=> row[m].status = "down")
                     /\ \A t \in Slot : Announces(check[t][m], row[m], alert[m]))'
  BY DEF ToldInv
<1>1. ASSUME NEW t \in Slot PROVE Announces(check[t][m], row[m], alert[m])'
  <2>1. Announces(check[t][m], row[m], alert[m])
    BY DEF ToldInv
  <2> QED
    BY <2>1 DEF Announces, WentDown, WentRecovery
<1>2. Quiet(m)' => Quiet(m)
  BY DEF Quiet
<1> QED
  BY <1>1, <1>2 DEF ToldInv

LEMMA ToldPreserved ==
    ASSUME LifecycleHypothesis
    PROVE  TypeOK /\ ClaimInv /\ NeverCutShort /\ ToldInv /\ [Next]_vars => ToldInv'
<1> SUFFICES ASSUME TypeOK, ClaimInv, NeverCutShort, ToldInv, [Next]_vars PROVE ToldInv'
  OBVIOUS
<1>0. SingleFlight /\ ClaimHypothesis /\ "crash" \notin FaultKinds /\ Idle.pc = "idle"
  BY DEF ClaimInv, LifecycleHypothesis, Idle
<1>1. ASSUME NEW t \in Slot, NEW ok \in BOOLEAN, RunChecks(t, ok) PROVE ToldInv'
  <2>1. /\ \A u \in Slot \ {t} : check'[u] = check[u]
        /\ \A m \in Monitor : check'[t][m] = IF ok /\ m \in Due THEN Queued(row[m].status) ELSE Idle
        /\ row' = row /\ alert' = alert
        /\ \A m \in Monitor : check[t][m].pc = "idle"
    BY <1>1 DEF RunChecks, TypeOK, InProgress
  <2> SUFFICES ASSUME NEW m \in Monitor
               PROVE  (/\ Quiet(m) /\ row[m].exists =>
                              (alert[m] = "down" <=> row[m].status = "down")
                       /\ \A u \in Slot : Announces(check[u][m], row[m], alert[m]))'
    BY DEF ToldInv
  <2>2. ASSUME NEW u \in Slot, u # t \/ ~(ok /\ m \in Due)
        PROVE  /\ check'[u][m].pc = check[u][m].pc
               /\ Announces(check'[u][m], row'[m], alert'[m])
    BY <1>0, <2>1, <2>2 DEF ToldInv, Announces, WentDown, WentRecovery
  <2>3. CASE ok /\ m \in Due
    <3>1. Quiet(m) /\ row[m].exists
      BY <1>0, <1>1, <2>3, DueIsFree DEF RunChecks, NeverCutShort, Live, Quiet, Due
    <3>2. alert[m] = "down" <=> row[m].status = "down"
      BY <3>1 DEF ToldInv
    <3>3. check'[t][m].pc = "queued" /\ check'[t][m].snap = row[m].status
      BY <2>1, <2>3 DEF Queued, Idle
    <3>4. Announces(check'[t][m], row'[m], alert'[m]) /\ ~Quiet(m)'
      BY <2>1, <3>2, <3>3 DEF Announces, WritePC, Quiet
    <3> QED
      BY <2>2, <3>4 DEF Announces, WentDown, WentRecovery
  <2>4. CASE ~(ok /\ m \in Due)
    <3>1. Quiet(m)' => Quiet(m)
      BY <2>2, <2>4 DEF Quiet
    <3> QED
      BY <2>1, <2>2, <2>4, <3>1 DEF ToldInv, Announces, WentDown, WentRecovery
  <2> QED
    BY <2>3, <2>4
<1>2. ASSUME NEW t \in Slot, NEW m \in Monitor, CheckMonitor(t, m) PROVE ToldInv'
  BY <1>0, <1>2, ToldStep
<1>3. CASE Advance
  <2>1. \A m \in Monitor : row'[m].exists = row[m].exists /\ row'[m].status = row[m].status
    BY <1>3 DEF Advance, TypeOK, RowState
  <2>2. \A t \in Slot, m \in Monitor :
            /\ check'[t][m].pc = check[t][m].pc
            /\ check'[t][m].snap = check[t][m].snap
            /\ check'[t][m].result = check[t][m].result
    BY <1>3, OlderStays DEF Advance, TypeOK
  <2> QED
    BY <1>3, <2>1, <2>2, ToldKept DEF Advance
<1>4. CASE Stop
  BY <1>4, ToldKept DEF Stop, db
<1>5. ASSUME NEW d \in 0..TickEvery, Crash(d) \/ Restart(d) PROVE ToldInv'
  <2>1. (\A t \in Slot : InProgress(t) = {}) /\ Start(d)
    BY <1>0, <1>5 DEF Crash, Restart, Fault
  <2>2. \A t \in Slot, m \in Monitor : check[t][m].pc = "idle" /\ check'[t][m].pc = "idle"
    BY <1>0, <2>1 DEF InProgress, Start, AllIdle
  <2>3. \A m \in Monitor : row'[m].exists = row[m].exists /\ row'[m].status = row[m].status
    BY <2>1 DEF Start, TypeOK, RowState
  <2> QED
    BY <2>1, <2>2, <2>3 DEF Start, ToldInv, Announces, Quiet
<1>6. CASE UNCHANGED vars
  BY <1>6, ToldKept DEF vars
<1> QED
  BY <1>1, <1>2, <1>3, <1>4, <1>5, <1>6 DEF Next, Tick, Check, Outage

\* Operators may resolve and reopen incidents by hand, delete monitors and
\* reset everything between any two statements of a check: down and recovery
\* notifications still alternate, because checkMonitor judges a transition by
\* the status the tick has read and never by the incidents.  Heartbeat pings,
\* which overwrite the status, are the one request this does not survive.
THEOREM AlertsAlternateAmongRequests ==
    ASSUME LifecycleHypothesis, "push" \notin EditKinds
    PROVE  MonitoringSpec => []AlertsAlternate
<1> DEFINE Inv == ToldInv /\ \A m \in Monitor : beat[m] = NoBeat
<1>0. ClaimHypothesis /\ BudgetHypothesis
  BY DEF LifecycleHypothesis
<1>1. MonitoringInit => Inv
  BY DEF MonitoringInit, Init, ToldInv, Announces, Quiet, Idle
<1>2. RequestTypeOK /\ ClaimInv /\ NeverCutShort /\ Inv /\ [MonitoringNext]_allVars => Inv'
  <2> SUFFICES ASSUME RequestTypeOK, ClaimInv, NeverCutShort, Inv, [MonitoringNext]_allVars
               PROVE  Inv'
    OBVIOUS
  <2>1. CASE Schedule
    BY <2>1, ToldPreserved DEF RequestTypeOK, Schedule
  <2>2. CASE Request
    <3>1. \A m \in Monitor : /\ \A status \in Ping : ~PushHeartbeat(m, status)
                             /\ \A ok \in BOOLEAN : ~ApplyHeartbeat(m, ok)
      BY DEF PushHeartbeat, Edit, ApplyHeartbeat
    <3>2. row \in [Monitor -> RowState]
      BY DEF RequestTypeOK, TypeOK
    <3>3. \A m \in Monitor : row'[m].status = row[m].status
      BY <2>2, <3>1, <3>2 DEF Request, ResolveManually, Reopen, Delete, BeginReset, ResetStep,
                              Truncate, vars, RowState
    <3>4. beat' = beat
      BY <2>2, <3>1 DEF Request, ResolveManually, Reopen, Delete, BeginReset, ResetStep
    <3>5. ToldInv'
      BY <2>2, <3>3, RequestEffect, ToldKept
    <3> QED
      BY <3>4, <3>5
  <2>3. CASE UNCHANGED allVars
    BY <2>3, ToldKept DEF allVars, vars, requests
  <2>4. beat' = beat \/ Request
    BY DEF MonitoringNext, Schedule, allVars, requests
  <2> QED
    BY <2>1, <2>2, <2>3, <2>4 DEF MonitoringNext
<1>3. RequestTypeOK /\ Inv => AlertsAlternate
  <2> SUFFICES ASSUME ToldInv, NEW t \in Slot, NEW m \in Monitor, check[t][m].pc = "notify"
               PROVE  IF Event(check[t][m]) = "down" THEN alert[m] # "down" ELSE alert[m] = "down"
    BY DEF AlertsAlternate, Alternates
  <2>1. Announces(check[t][m], row[m], alert[m])
    BY DEF ToldInv
  <2> QED
    BY <2>1 DEF Announces, WentDown, WentRecovery, Event
<1> QED
  BY <1>0, <1>1, <1>2, <1>3, ClaimAmongRequests, BudgetSufficesAmongRequests, MonitoringTypes,
     PTL DEF MonitoringSpec

\* A request about other monitors, or the ping that was recorded for one,
\* writes no row of this one.
LEMMA LeftAloneStays ==
    ASSUME RequestTypeOK, Request, NEW m \in Monitor, LeftAlone(m), beat[m] = NoBeat
    PROVE  /\ row'[m] = row[m] /\ open'[m] = open[m] /\ logged'[m] = logged[m]
           /\ UNCHANGED <<alert, check>> /\ beat'[m] = NoBeat
<1>1. /\ row \in [Monitor -> RowState] /\ open \in [Monitor -> 0..2]
      /\ logged \in [Monitor -> Status] /\ beat \in [Monitor -> Ping \union {NoBeat}]
  BY DEF RequestTypeOK, TypeOK
<1>2. ASSUME NEW n \in Monitor, NEW status \in Ping, PushHeartbeat(n, status)
      PROVE  beat'[m] = NoBeat /\ UNCHANGED <<row, open, logged, alert, check>>
  <2>1. n # m
    BY <1>2 DEF LeftAlone
  <2> QED
    BY <1>1, <1>2, <2>1 DEF PushHeartbeat, vars
<1>3. ASSUME NEW n \in Monitor, NEW ok \in BOOLEAN, ApplyHeartbeat(n, ok)
      PROVE  /\ row'[m] = row[m] /\ beat'[m] = NoBeat
             /\ UNCHANGED <<open, logged, alert, check>>
  BY <1>1, <1>3 DEF ApplyHeartbeat
<1>4. ASSUME NEW n \in Monitor, ResolveManually(n) \/ Reopen(n)
      PROVE  open'[m] = open[m] /\ UNCHANGED <<row, logged, alert, check, beat>>
  <2>1. n # m
    BY <1>4 DEF LeftAlone
  <2>2. ASSUME NEW k, SetUnresolved(n, k) PROVE open'[m] = open[m]
    BY <1>1, <2>1, <2>2 DEF SetUnresolved
  <2> QED
    BY <1>4, <2>2 DEF ResolveManually, Reopen
<1>5. ASSUME NEW n \in Monitor, Delete(n)
      PROVE  /\ row'[m] = row[m] /\ open'[m] = open[m] /\ logged'[m] = logged[m]
             /\ UNCHANGED <<alert, check, beat>>
  <2>1. n # m
    BY <1>5 DEF LeftAlone
  <2> QED
    BY <1>1, <1>5, <2>1 DEF Delete
<1>6. CASE BeginReset
  BY <1>6 DEF BeginReset, vars
<1>7. \A ok \in BOOLEAN : ~ResetStep(ok)
  BY DEF LeftAlone
<1> QED
  BY <1>2, <1>3, <1>4, <1>5, <1>6, <1>7 DEF Request

\* Whatever is pinged, edited or deleted beside it, a monitor that is left
\* alone goes through its outages as if it were the only one.
THEOREM LeftAloneFollows == ASSUME LifecycleHypothesis PROVE MonitoringSpec => OthersUndisturbed
<1> SUFFICES ASSUME NEW m \in Monitor
             PROVE  MonitoringSpec => ([][LeftAlone(m)]_allVars =>
                        [](FollowsStatus(m) /\ Alternates(m) /\ FollowsLog(m)))
  BY DEF OthersUndisturbed
<1> DEFINE Inv == StageOf(m) /\ beat[m] = NoBeat
           Goal == FollowsStatus(m) /\ Alternates(m) /\ FollowsLog(m)
<1>0. ClaimHypothesis /\ BudgetHypothesis
  BY DEF LifecycleHypothesis
<1>1. MonitoringInit => Inv
  BY StageInit DEF MonitoringInit, StageInv
<1>2. ASSUME RequestTypeOK, ClaimInv, NeverCutShort, Inv, [MonitoringNext]_allVars,
             [LeftAlone(m)]_allVars
      PROVE  Inv'
  <2>1. CASE Schedule
    BY <1>2, <2>1, StagePreserved DEF RequestTypeOK, Schedule
  <2>2. CASE UNCHANGED allVars
    BY <1>2, <2>2 DEF allVars, vars, requests, StageOf, Quiet, AtStage
  <2>3. CASE Request /\ ~UNCHANGED allVars
    <3>1. /\ row'[m] = row[m] /\ open'[m] = open[m] /\ logged'[m] = logged[m]
          /\ UNCHANGED <<alert, check>> /\ beat'[m] = NoBeat
      BY <1>2, <2>3, LeftAloneStays
    <3> QED
      BY <1>2, <3>1 DEF StageOf, Quiet, AtStage
  <2> QED
    BY <1>2, <2>1, <2>2, <2>3 DEF MonitoringNext
<1>3. RequestTypeOK /\ Inv => Goal
  BY StageMeans DEF RequestTypeOK
<1>4. RequestTypeOK /\ ClaimInv /\ NeverCutShort /\ Inv /\ [MonitoringNext]_allVars
      /\ [LeftAlone(m)]_allVars => Inv'
  BY <1>2
<1> HIDE DEF Inv, Goal
<1>5. MonitoringSpec => ([][LeftAlone(m)]_allVars => []Goal)
  BY <1>0, <1>1, <1>3, <1>4, ClaimAmongRequests, BudgetSufficesAmongRequests, MonitoringTypes,
     PTL DEF MonitoringSpec
<1> QED
  BY <1>5 DEF Goal
=============================================================================
