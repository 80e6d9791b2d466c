----------------------------- MODULE Scheduler -----------------------------
(***************************************************************************)
(* The check scheduler of internal/scheduler/scheduler.go and the rows it  *)
(* keeps in the database.                                                  *)
(*                                                                         *)
(* A cron job fires every TickEvery units of time.  Each firing (a "tick", *)
(* here a member of Slot) reads the monitors that are due, together with   *)
(* the status they have at that moment, and checks each of them in a       *)
(* goroutine of its own, at most Workers at a time, all under one context  *)
(* that expires CtxLimit after the tick began.  Nothing stops a tick from  *)
(* overlapping the ticks before it.                                        *)
(*                                                                         *)
(* Time is discrete and relative: ages and remaining times, never a date,  *)
(* so that the state space is finite and behaviours are infinite.          *)
(***************************************************************************)
EXTENDS Integers, FiniteSets

CONSTANTS
    Monitor,     \* the monitors
    Slot,        \* ticks that may be in progress at the same time
    Workers,     \* maxWorkers, the capacity of a tick's semaphore
    TickEvery,   \* the cron period
    CtxLimit,    \* the life of a tick's context
    RetryWait,   \* the pause between two attempts
    Interval,    \* monitors.interval, per monitor
    Timeout,     \* monitors.timeout, per monitor
    MaxRetries,  \* monitors.max_retries, per monitor
    Answer,      \* how the target of a monitor can answer, per monitor:
                 \* "hang" lasts until the attempt's context ends it, "stall"
                 \* until the target does (PostgreSQL, Redis: see Checkers)
    DbDelay,     \* BOUND: the longest the statements of one check take
    FaultKinds,  \* which faults may happen: a subset of {"db", "crash", "stop"}
    MaxFaults    \* BOUND: how many faults happen in a behaviour

\* The interval column is INT NOT NULL and a check is due again once its age
\* reaches it; timeouts and retries are plain integers, clamped where used.
ASSUME ConstantAssumption ==
    /\ Workers \in Nat \ {0}
    /\ TickEvery \in Nat \ {0}
    /\ CtxLimit \in Nat \ {0}
    /\ RetryWait \in Nat \ {0}
    /\ DbDelay \in Nat
    /\ MaxFaults \in Nat
    /\ IsFiniteSet(Monitor)
    /\ Interval \in [Monitor -> Nat]
    /\ Timeout \in [Monitor -> Nat]
    /\ MaxRetries \in [Monitor -> Int]
    /\ Answer \in [Monitor -> SUBSET {"up", "down", "degraded", "hang", "stall"}]
    /\ FaultKinds \subseteq {"db", "crash", "stop"}

VARIABLES
    row,       \* the monitors table: is the row there, is it active, its
               \* status, and its age = NOW() - last_checked_at
    open,      \* unresolved incidents of a monitor: 0, 1, or 2 for "several"
    logged,    \* status of the newest monitor_logs row of a monitor
    alert,     \* the last notification dispatched for a monitor
    check,     \* check[t][m]: the goroutine checking m in tick t
    cron,      \* time since the cron job last fired
    stopping,  \* Stop() was called: the cron job no longer fires
    faults     \* faults so far

vars == <<row, open, logged, alert, check, cron, stopping, faults>>
db == <<row, open, logged, alert>>
process == <<cron, stopping>>

Status == {"pending", "up", "down", "degraded"}
Alert == {"none", "down", "recovery"}
WritePC == {"log", "update", "incident", "resolve", "notify"}
PC == {"idle", "queued", "attempt", "pause"} \union WritePC

RowState == [exists : BOOLEAN, active : BOOLEAN, status : Status, age : Nat]
CheckState == [pc : PC, snap : Status, attempt : Nat, clock : Nat,
               left : 0..CtxLimit, result : Status]

Idle == [pc |-> "idle", snap |-> "pending", attempt |-> 0, clock |-> 0,
         left |-> CtxLimit, result |-> "pending"]

AtMost(n, bound) == IF n <= bound THEN n ELSE bound
\* Faulty variant: one retry too many, attempts counted from one.
OneRetryMore(m) == IF MaxRetries[m] < 0 THEN 1 ELSE MaxRetries[m] + 1
Retries(m) == IF MaxRetries[m] < 0 THEN 0 ELSE MaxRetries[m]

TypeOK ==
    /\ row \in [Monitor -> RowState]
    /\ \A m \in Monitor : row[m].age <= Interval[m]
    /\ open \in [Monitor -> 0..2]
    /\ logged \in [Monitor -> Status]
    /\ alert \in [Monitor -> Alert]
    /\ check \in [Slot -> [Monitor -> CheckState]]
    /\ cron \in 0..TickEvery
    /\ stopping \in BOOLEAN
    /\ faults \in 0..MaxFaults

\* A monitor that was just created: 'pending', never checked, hence due.
Init ==
    /\ row = [m \in Monitor |-> [exists |-> TRUE, active |-> TRUE,
                                 status |-> "pending", age |-> Interval[m]]]
    /\ open = [m \in Monitor |-> 0]
    /\ logged = [m \in Monitor |-> "pending"]
    /\ alert = [m \in Monitor |-> "none"]
    /\ check = [t \in Slot |-> [m \in Monitor |-> Idle]]
    /\ cron = 0
    /\ stopping = FALSE
    /\ faults = 0

-----------------------------------------------------------------------------
(* One tick: runChecks.                                                    *)

InProgress(t) == {m \in Monitor : check[t][m].pc # "idle"}
Running(t) == {m \in Monitor : check[t][m].pc \notin {"idle", "queued"}}
WorkerFree(t) == Cardinality(Running(t)) < Workers
\* Faulty variants: a SELECT that forgets monitors which are down, and one that
\* reads from a list of monitors made before some of them were deleted.
DueUnlessDown == {m \in Monitor : /\ row[m].exists /\ row[m].active
                                  /\ row[m].age >= Interval[m]
                                  /\ row[m].status # "down"}
DueThoughDeleted == {m \in Monitor : row[m].active /\ row[m].age >= Interval[m]}
Due == {m \in Monitor : row[m].exists /\ row[m].active /\ row[m].age >= Interval[m]}

\* A statement succeeds only while the context lives; a database fault can
\* make it fail before that.  No failure changes what the check does next.
Executes(live, ok) ==
    IF live
    THEN IF ok THEN UNCHANGED faults
               ELSE /\ "db" \in FaultKinds
                    /\ faults < MaxFaults
                    /\ faults' = faults + 1
    ELSE ~ok /\ UNCHANGED faults

Queued(status) == [Idle EXCEPT !.pc = "queued", !.snap = status]

\* The cron job fires and SELECTs the due monitors with their status.
RunChecks(t, ok) ==
    /\ ~stopping
    /\ cron = TickEvery
    /\ InProgress(t) = {}
    /\ Executes(TRUE, ok)
    /\ check' = [check EXCEPT ![t] =
            [m \in Monitor |->
                IF ok /\ m \in Due
                THEN Queued(row[m].status)
                ELSE Idle]]
    /\ cron' = 0
    /\ UNCHANGED <<row, open, logged, alert, stopping>>

-----------------------------------------------------------------------------
(* One check: checkMonitor, a goroutine per monitor selected.              *)

Step(t, m, c) == check' = [check EXCEPT ![t][m] = c]
Alive(t, m) == check[t][m].left > 0

\* Faulty variant: the check begins without a claim.
Unclaimed(t, m, ok) ==
    /\ check[t][m].pc = "queued"
    /\ WorkerFree(t)
    /\ Executes(Alive(t, m), ok)
    /\ Step(t, m, [check[t][m] EXCEPT !.pc = "attempt", !.clock = 0])
    /\ UNCHANGED <<db, process>>

\* A worker takes the monitor and claims it: last_checked_at = NOW().  A
\* claim that fails is logged, and the check proceeds.
Claim(t, m, ok) ==
    /\ check[t][m].pc = "queued"
    /\ WorkerFree(t)
    /\ Executes(Alive(t, m), ok)
    /\ row' = IF ok /\ row[m].exists THEN [row EXCEPT ![m].age = 0] ELSE row
    /\ Step(t, m, [check[t][m] EXCEPT !.pc = "attempt", !.clock = 0])
    /\ UNCHANGED <<open, logged, alert, process>>

\* A call to the target may outlive the context that checkMonitor gives it.
Stalls(m) == "stall" \in Answer[m]

\* The checker returns: with the target's answer, or "down" once the
\* attempt's own timeout or the tick's context has expired.
Returns(t, m) ==
    (Answer[m] \ {"hang", "stall"})
        \union (IF check[t][m].clock >= Timeout[m] \/ ~Alive(t, m)
                THEN {"down"} ELSE {})

Attempt(t, m, r) ==
    /\ check[t][m].pc = "attempt"
    /\ r \in Returns(t, m)
    /\ Step(t, m, [check[t][m] EXCEPT
            !.pc = IF r = "down" /\ check[t][m].attempt < Retries(m)
                   THEN "pause" ELSE "log",
            !.clock = 0,
            !.result = r])
    /\ UNCHANGED <<db, process, faults>>

\* time.After(5s) fires first: next attempt.
Retry(t, m) ==
    /\ check[t][m].pc = "pause"
    /\ check[t][m].clock >= RetryWait
    /\ Step(t, m, [check[t][m] EXCEPT !.pc = "attempt", !.clock = 0, !.attempt = @ + 1])
    /\ UNCHANGED <<db, process, faults>>

\* ctx.Done() fires first: the check returns without a trace.
GiveUp(t, m) ==
    /\ check[t][m].pc = "pause"
    /\ ~Alive(t, m)
    /\ Step(t, m, Idle)
    /\ UNCHANGED <<db, process, faults>>

\* Faulty variant: the log line repeats the status the tick has read.
InsertOldStatus(t, m, ok) ==
    /\ check[t][m].pc = "log"
    /\ Executes(Alive(t, m), ok)
    /\ logged' = IF ok /\ row[m].exists THEN [logged EXCEPT ![m] = check[t][m].snap] ELSE logged
    /\ Step(t, m, [check[t][m] EXCEPT !.pc = "update"])
    /\ UNCHANGED <<row, open, alert, process>>

\* monitor_logs and incidents reference monitors: an INSERT for a monitor that
\* was deleted fails, an UPDATE of it finds no row.
InsertLog(t, m, ok) ==
    /\ check[t][m].pc = "log"
    /\ Executes(Alive(t, m), ok)
    /\ logged' = IF ok /\ row[m].exists THEN [logged EXCEPT ![m] = check[t][m].result] ELSE logged
    /\ Step(t, m, [check[t][m] EXCEPT !.pc = "update"])
    /\ UNCHANGED <<row, open, alert, process>>

\* Faulty variants: every check that fails is an outage; only a monitor that was
\* up can go down; every check that succeeds is a recovery; and a recovery that
\* is announced before its incident is resolved.
DownAgain(c) == c.result = "down"
DownFromUp(c) == c.result = "down" /\ c.snap = "up"
UpAgain(c) == c.result = "up"
AfterUpdateUnresolved(c) ==
    CASE c.result = "down" /\ c.snap # "down" -> [c EXCEPT !.pc = "incident"]
      [] c.result = "up" /\ c.snap = "down" -> [c EXCEPT !.pc = "notify"]
      [] OTHER -> Idle

\* The transition is judged against the status read by the tick's SELECT.
WentDown(c) == c.result = "down" /\ c.snap # "down"
WentRecovery(c) == c.result = "up" /\ c.snap = "down"
AfterUpdate(c) ==
    IF WentDown(c) THEN [c EXCEPT !.pc = "incident"]
    ELSE IF WentRecovery(c) THEN [c EXCEPT !.pc = "resolve"]
    ELSE Idle

\* Faulty variant: last_checked_at becomes the moment the tick began.
UpdateSinceTick(t, m, ok) ==
    /\ check[t][m].pc = "update"
    /\ Executes(Alive(t, m), ok)
    /\ row' = IF ok /\ row[m].exists
              THEN [row EXCEPT ![m].status = check[t][m].result,
                               ![m].age = AtMost(CtxLimit - check[t][m].left, Interval[m])]
              ELSE row
    /\ Step(t, m, AfterUpdate(check[t][m]))
    /\ UNCHANGED <<open, logged, alert, process>>

\* last_checked_at becomes the moment the last attempt returned.
UpdateMonitor(t, m, ok) ==
    /\ check[t][m].pc = "update"
    /\ Executes(Alive(t, m), ok)
    /\ row' = IF ok /\ row[m].exists
              THEN [row EXCEPT ![m].status = check[t][m].result,
                               ![m].age = AtMost(check[t][m].clock, Interval[m])]
              ELSE row
    /\ Step(t, m, AfterUpdate(check[t][m]))
    /\ UNCHANGED <<open, logged, alert, process>>

CreateIncident(t, m, ok) ==
    /\ check[t][m].pc = "incident"
    /\ Executes(Alive(t, m), ok)
    /\ open' = IF ok /\ row[m].exists THEN [open EXCEPT ![m] = AtMost(@ + 1, 2)] ELSE open
    /\ Step(t, m, [check[t][m] EXCEPT !.pc = "notify"])
    /\ UNCHANGED <<row, logged, alert, process>>

\* Faulty variant: the check ends once the incident is resolved.
ResolveSilently(t, m, ok) ==
    /\ check[t][m].pc = "resolve"
    /\ Executes(Alive(t, m), ok)
    /\ open' = IF ok THEN [open EXCEPT ![m] = 0] ELSE open
    /\ Step(t, m, Idle)
    /\ UNCHANGED <<row, logged, alert, process>>

\* Every unresolved incident of the monitor is resolved.
ResolveIncident(t, m, ok) ==
    /\ check[t][m].pc = "resolve"
    /\ Executes(Alive(t, m), ok)
    /\ open' = IF ok THEN [open EXCEPT ![m] = 0] ELSE open
    /\ Step(t, m, [check[t][m] EXCEPT !.pc = "notify"])
    /\ UNCHANGED <<row, logged, alert, process>>

\* Dispatcher.Notify reads the enabled channels under the tick's context and
\* starts the sends; if it cannot read them nothing is sent.
Event(c) == IF c.result = "down" THEN "down" ELSE "recovery"
Notify(t, m, ok) ==
    /\ check[t][m].pc = "notify"
    /\ Executes(Alive(t, m), ok)
    /\ alert' = IF ok THEN [alert EXCEPT ![m] = Event(check[t][m])] ELSE alert
    /\ Step(t, m, Idle)
    /\ UNCHANGED <<row, open, logged, process>>

CheckMonitor(t, m) ==
    \/ \E ok \in BOOLEAN :
        \/ Claim(t, m, ok)
        \/ InsertLog(t, m, ok)
        \/ UpdateMonitor(t, m, ok)
        \/ CreateIncident(t, m, ok)
        \/ ResolveIncident(t, m, ok)
        \/ Notify(t, m, ok)
    \/ \E r \in Status : Attempt(t, m, r)
    \/ Retry(t, m)
    \/ GiveUp(t, m)

-----------------------------------------------------------------------------
(* Time passes, unless something is due now.                               *)

Urgent(t, m) ==
    LET c == check[t][m]
    IN  CASE c.pc = "idle"    -> FALSE
          [] c.pc = "queued"  -> WorkerFree(t) /\ (c.clock >= DbDelay \/ c.left = 0)
          [] c.pc = "attempt" -> (c.clock >= Timeout[m] \/ c.left = 0) /\ ~Stalls(m)
          [] c.pc = "pause"   -> c.clock >= RetryWait \/ c.left = 0
          [] OTHER            -> c.clock >= DbDelay \/ c.left = 0

\* Faulty variant: the tick runs under a context without a deadline.
OlderForever(c) ==
    IF c.pc = "idle" THEN c
    ELSE [c EXCEPT !.clock = IF c.pc = "queued" THEN AtMost(@ + 1, DbDelay) ELSE @ + 1]

\* A clock is read only while the context lives; after that it stands still.
Older(c) ==
    IF c.pc = "idle" THEN c
    ELSE [c EXCEPT !.clock = IF c.pc = "queued" THEN AtMost(@ + 1, DbDelay)
                             ELSE IF c.left = 0 THEN @ ELSE @ + 1,
                   !.left = IF @ = 0 THEN 0 ELSE @ - 1]

Advance ==
    /\ stopping \/ cron < TickEvery
    /\ \A t \in Slot, m \in Monitor : ~Urgent(t, m)
    /\ row' = [m \in Monitor |-> [row[m] EXCEPT !.age = AtMost(@ + 1, Interval[m])]]
    /\ check' = [t \in Slot |-> [m \in Monitor |-> Older(check[t][m])]]
    /\ cron' = AtMost(cron + 1, TickEvery)
    /\ UNCHANGED <<open, logged, alert, stopping, faults>>

-----------------------------------------------------------------------------
(* The server process stops and starts again: cmd/server/main.go.          *)

Fault(kind) ==
    /\ kind \in FaultKinds
    /\ faults < MaxFaults
    /\ faults' = faults + 1

AllIdle == [t \in Slot |-> [m \in Monitor |-> Idle]]

\* A new process starts its cron job from zero; the outage took d.
Start(d) ==
    /\ check' = AllIdle
    /\ cron' = 0
    /\ stopping' = FALSE
    /\ row' = [m \in Monitor |-> [row[m] EXCEPT !.age = AtMost(@ + d, Interval[m])]]
    /\ UNCHANGED <<open, logged, alert>>

Crash(d) == Fault("crash") /\ Start(d)

\* SIGTERM: the deferred sched.Stop() waits for the ticks in progress.
Stop ==
    /\ ~stopping
    /\ Fault("stop")
    /\ stopping' = TRUE
    /\ UNCHANGED <<db, check, cron>>

Restart(d) ==
    /\ stopping
    /\ \A t \in Slot : InProgress(t) = {}
    /\ Start(d)
    /\ UNCHANGED faults

-----------------------------------------------------------------------------
Tick == \E t \in Slot, ok \in BOOLEAN : RunChecks(t, ok)
Check == \E t \in Slot, m \in Monitor : CheckMonitor(t, m)
Outage == \E d \in 0..TickEvery : Crash(d) \/ Restart(d)

Next == Tick \/ Check \/ Advance \/ Stop \/ Outage

\* The Go runtime runs every runnable goroutine and timer, but no goroutine
\* whose call nobody need end; and an operator or supervisor restarts a server
\* that was stopped.
Runnable(t, m) == CheckMonitor(t, m) /\ ~(check[t][m].pc = "attempt" /\ Stalls(m))
Fairness ==
    /\ WF_vars(Advance \/ Tick)
    /\ \A t \in Slot, m \in Monitor : WF_vars(Runnable(t, m))
    /\ WF_vars(\E d \in 0..TickEvery : Restart(d))

Spec == Init /\ [][Next]_vars
FairSpec == Spec /\ Fairness
-----------------------------------------------------------------------------
(* What the scheduler has to get right.                                    *)

Live(t, m) == check[t][m].pc # "idle" /\ Alive(t, m)

\* The claim does what its comment says: while a check of a monitor can
\* still write, no other tick's check of the same monitor can.
SingleFlight ==
    \A m \in Monitor : \A t1, t2 \in Slot :
        Live(t1, m) /\ Live(t2, m) => t1 = t2

\* No check ever meets the end of its tick's context, so none is abandoned
\* between two attempts or between two statements.
NeverCutShort ==
    \A t \in Slot, m \in Monitor : check[t][m].pc # "idle" => Alive(t, m)

\* Between checks the incidents and the last notification of a monitor tell
\* the same story as its status: one open incident and a down notification
\* while it is down, neither otherwise.
Settling(m) == \E t \in Slot : check[t][m].pc \in {"incident", "resolve", "notify"}
FollowsStatus(m) ==
    ~Settling(m) =>
        IF row[m].status = "down" THEN open[m] = 1 /\ alert[m] = "down"
        ELSE open[m] = 0 /\ alert[m] # "down"
IncidentsFollowStatus == \A m \in Monitor : FollowsStatus(m)

\* Notifications alternate: no outage is announced twice, no recovery is
\* announced that was not preceded by the announcement of its outage.
Alternates(m) ==
    \A t \in Slot : check[t][m].pc = "notify" /\ Alive(t, m) =>
        IF Event(check[t][m]) = "down" THEN alert[m] # "down" ELSE alert[m] = "down"
AlertsAlternate == \A m \in Monitor : Alternates(m)

\* The status column agrees with the newest log line, except between the two
\* statements that write them.
FollowsLog(m) ==
    \/ row[m].status = logged[m]
    \/ \E t \in Slot : check[t][m].pc = "update"
StatusFollowsLog == \A m \in Monitor : FollowsLog(m)

\* No check moves last_checked_at backwards, which would make the monitor due
\* again too early.
LastCheckedMonotone ==
    [][Check => \A m \in Monitor : row'[m].age <= row[m].age]_vars

\* Ticks pile up only behind calls that outlive the context they were given:
\* once every goroutine has done what is due, the other ticks in progress are
\* no more than begin while a context lives, the one about to begin included.
Stalled(t, m) == check[t][m].pc = "attempt" /\ check[t][m].left = 0 /\ Stalls(m)
Going(t) == InProgress(t) # {} /\ ~\E m \in Monitor : Stalled(t, m)
TicksBounded ==
    LET most == (CtxLimit - 1) \div TickEvery + 1
        going == Cardinality({t \in Slot : Going(t)})
    IN  (\A t \in Slot, m \in Monitor : ~Urgent(t, m)) =>
            /\ going <= most
            /\ cron = TickEvery => going + 1 <= most

\* From some time on every attempt on the monitor ends the same way.
AttemptsEnd(m, r) ==
    <>[][\A t \in Slot : check[t][m].pc = "attempt" /\ check'[t][m].pc # "attempt"
            => check'[t][m].result \in {r, "pending"}]_vars

\* A target that stays down ends with an open incident and a notification;
\* one that stays up ends with neither.
OutageAnnounced ==
    \A m \in Monitor :
        AttemptsEnd(m, "down") => <>[](open[m] > 0 /\ alert[m] = "down")
RecoveryAnnounced ==
    \A m \in Monitor :
        AttemptsEnd(m, "up") => <>[](open[m] = 0 /\ alert[m] # "down")
=============================================================================
