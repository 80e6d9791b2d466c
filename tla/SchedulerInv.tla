--------------------------- MODULE SchedulerInv ----------------------------
(***************************************************************************)
(* When the scheduler's promises hold, and the inductive invariants that   *)
(* show it.  The hypotheses are predicates on the constants, not ASSUMEs:  *)
(* the code accepts monitors that break each of them.                      *)
(***************************************************************************)
EXTENDS Scheduler

\* A worker is free for every monitor of a tick, a claim lands before the next
\* tick, and a monitor is not due again before the context of the tick that
\* claimed it has expired.
ClaimHypothesis ==
    /\ "db" \notin FaultKinds
    /\ Cardinality(Monitor) <= Workers
    /\ DbDelay < TickEvery
    /\ \A m \in Monitor : CtxLimit <= Interval[m]

\* No call outlives its context, and the time a check takes at worst fits a
\* context: the claim, every attempt up to its timeout, the pauses between them, and the statements that record it.
Round(m) == Timeout[m] + RetryWait
Budget(m) == DbDelay + Retries(m) * Round(m) + Timeout[m] + DbDelay
BudgetHypothesis ==
    /\ Cardinality(Monitor) <= Workers
    /\ \A m \in Monitor : ~Stalls(m) /\ Budget(m) < CtxLimit

\* The checker answers up or down only.
BinaryHypothesis == \A m \in Monitor : "degraded" \notin Answer[m]

-----------------------------------------------------------------------------
(* At most one live check of a monitor: a queued check belongs to the last *)
(* tick, and the age of a claimed monitor plus what is left of its check's *)
(* context never exceeds the life of a context.                            *)

InTime(c, r) ==
    /\ c.pc = "queued" => c.clock = cron /\ c.clock <= DbDelay
    /\ c.pc # "idle" /\ c.left > 0 =>
          /\ c.clock + c.left <= CtxLimit
          /\ c.pc # "queued" /\ r.exists => r.age + c.left <= CtxLimit

ClaimInv ==
    /\ SingleFlight
    /\ \A t \in Slot, m \in Monitor : InTime(check[t][m], row[m])

\* While a live check records its result, no less time has passed since the
\* claim than since the last attempt returned.
Recent(c, r, m) ==
    c.pc \in {"log", "update"} /\ c.left > 0 /\ r.exists =>
        AtMost(c.clock, Interval[m]) <= r.age

AgeInv == \A t \in Slot, m \in Monitor : Recent(check[t][m], row[m], m)

-----------------------------------------------------------------------------
(* How many ticks are in progress: the checks of a tick live as long as    *)
(* its one context, ticks begin at least a period apart, and none that     *)
(* lives began later than the cron job fired.                              *)

Younger(c, d) == c.left >= d.left + TickEvery

SlotInv ==
    \A t, u \in Slot, m, n \in Monitor :
        check[t][m].pc # "idle" /\ check[u][n].pc # "idle" =>
            /\ t = u => check[t][m].left = check[u][n].left
            /\ Alive(t, m) => check[t][m].left + cron <= CtxLimit
            /\ t # u /\ Alive(t, m) /\ Alive(u, n) =>
                  \/ Younger(check[t][m], check[u][n])
                  \/ Younger(check[u][n], check[t][m])

-----------------------------------------------------------------------------
(* The part of its budget a check has spent, by where it is.               *)

InBudget(c, m) ==
    LET used == CtxLimit - c.left
        sofar == DbDelay + c.attempt * Round(m)
    IN  /\ c.pc # "idle" => c.attempt <= Retries(m)
        /\ c.pc = "queued" =>
              c.attempt = 0 /\ c.clock <= DbDelay /\ used <= c.clock
        /\ c.pc = "attempt" =>
              c.clock <= Timeout[m] /\ used <= sofar + c.clock
        /\ c.pc = "pause" =>
              /\ c.attempt < Retries(m)
              /\ c.clock <= RetryWait
              /\ used <= sofar + Timeout[m] + c.clock
        /\ c.pc \in WritePC =>
              c.clock <= DbDelay /\ used <= sofar + Timeout[m] + c.clock

BudgetInv == \A t \in Slot, m \in Monitor : InBudget(check[t][m], m)

-----------------------------------------------------------------------------
(* What the rows of a monitor say at each point of its only check.         *)

Agree(status, incidents, told) ==
    /\ incidents = IF status = "down" THEN 1 ELSE 0
    /\ told = "down" <=> status = "down"

Stage(c, status, incidents, newest, told) ==
    /\ c.pc \in {"idle", "queued", "attempt", "pause", "log"} =>
          Agree(status, incidents, told) /\ newest = status
    /\ c.pc \in {"queued", "attempt", "pause", "log", "update"} => c.snap = status
    /\ c.pc \in WritePC => c.result \in {"up", "down"}
    /\ c.pc = "update" => Agree(status, incidents, told) /\ newest = c.result
    /\ c.pc \in {"incident", "resolve", "notify"} => status = c.result /\ newest = status
    /\ c.pc = "incident" => status = "down" /\ incidents = 0 /\ told # "down"
    /\ c.pc = "resolve" => status = "up" /\ incidents = 1 /\ told = "down"
    /\ c.pc = "notify" /\ status = "down" => incidents = 1 /\ told # "down"
    /\ c.pc = "notify" /\ status = "up" => incidents = 0 /\ told = "down"

AtStage(c, m) == Stage(c, row[m].status, open[m], logged[m], alert[m])
Quiet(m) == \A t \in Slot : check[t][m].pc = "idle"
StageOf(m) ==
    /\ row[m].exists
    /\ Quiet(m) => AtStage(Idle, m)
    /\ \A t \in Slot : check[t][m].pc # "idle" => AtStage(check[t][m], m)
StageInv == \A m \in Monitor : StageOf(m)

\* Everything under which the incidents and notifications follow the status.
LifecycleHypothesis ==
    ClaimHypothesis /\ BudgetHypothesis /\ BinaryHypothesis /\ "crash" \notin FaultKinds

-----------------------------------------------------------------------------
(* What was announced last, by the status the tick has read: this much     *)
(* survives requests that change incidents and delete monitors.            *)

Announces(c, r, told) ==
    c.pc # "idle" =>
        /\ told = "down" <=> c.snap = "down"
        /\ c.pc \in {"queued", "attempt", "pause", "log", "update"} /\ r.exists =>
              r.status = c.snap
        /\ c.pc \in WritePC => c.result \in {"up", "down"}
        /\ c.pc \in {"incident", "resolve", "notify"} =>
              /\ WentDown(c) \/ WentRecovery(c)
              /\ r.exists => r.status = c.result

ToldInv ==
    \A m \in Monitor :
        /\ Quiet(m) /\ row[m].exists => (alert[m] = "down" <=> row[m].status = "down")
        /\ \A t \in Slot : Announces(check[t][m], row[m], alert[m])

-----------------------------------------------------------------------------
(* The lifecycle of an outage, and how the database shows it.              *)

Lifecycle == INSTANCE Outage WITH
    down <- {m \in Monitor : open[m] > 0},
    told <- {m \in Monitor : alert[m] = "down"}

\* The scheduler implements that lifecycle: statement by statement, over
\* overlapping ticks and restarts, each incident is opened once, announced,
\* resolved and announced again, and no announcement is left out.
OutageLifecycle == Lifecycle!FairSpec
=============================================================================
