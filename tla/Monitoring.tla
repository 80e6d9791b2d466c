----------------------------- MODULE Monitoring -----------------------------
(***************************************************************************)
(* The scheduler together with the requests of the HTTP API that write the *)
(* same tables while it runs: heartbeat pings, manual updates of           *)
(* incidents, the deletion of a monitor and the reset of all monitoring    *)
(* data.                                                                   *)
(*                                                                         *)
(* A request runs one statement after another without a transaction, so    *)
(* the scheduler's statements, and other requests', fall between them.     *)
(***************************************************************************)
EXTENDS Scheduler

CONSTANTS
    EditKinds,  \* which requests are made: a subset of
                \* {"push", "incident", "delete", "reset"}
    MaxEdits    \* BOUND: how many requests are made in a behaviour

ASSUME EditAssumption ==
    /\ EditKinds \subseteq {"push", "incident", "delete", "reset"}
    /\ MaxEdits \in Nat

VARIABLES
    beat,    \* a heartbeat that is recorded but not yet applied, per monitor
    pinged,  \* the monitors with rows in the heartbeats table
    closed,  \* the monitors that have, or had when deleted, a resolved incident
    lost,    \* unresolved incidents left behind by a deleted monitor: 0, 1, or
             \* 2 for "several"
    reset,   \* the table the reset request truncates next
    edits    \* requests so far

requests == <<beat, pinged, closed, lost, reset, edits>>
allVars == <<vars, requests>>

NoBeat == "none"
\* The client's word is stored as it is; "degraded" stands for every word but
\* up and down, which are the two that the scheduler tells from the rest.
Ping == {"up", "down", "degraded"}
Table == {"monitor_logs", "incidents", "heartbeats", "monitors"}

MonitoringInit ==
    /\ Init
    /\ beat = [m \in Monitor |-> NoBeat]
    /\ pinged = {}
    /\ closed = {}
    /\ lost = [m \in Monitor |-> 0]
    /\ reset = "none"
    /\ edits = 0

Edit(kind) ==
    /\ kind \in EditKinds
    /\ edits < MaxEdits
    /\ edits' = edits + 1

\* The scheduler runs on; what it resolves can be reopened.
Schedule ==
    /\ Next
    /\ closed' = closed \union {m \in Monitor : open'[m] < open[m]}
    /\ UNCHANGED <<beat, pinged, lost, reset, edits>>

-----------------------------------------------------------------------------
(* HeartbeatHandler.Push: record the ping, then overwrite the status.      *)

PushHeartbeat(m, status) ==
    /\ Edit("push")
    /\ row[m].exists
    /\ beat[m] = NoBeat
    /\ beat' = [beat EXCEPT ![m] = status]
    /\ pinged' = pinged \union {m}
    /\ UNCHANGED <<vars, closed, lost, reset>>

\* The UPDATE's error is discarded: the ping counts as delivered either way.
ApplyHeartbeat(m, ok) ==
    /\ beat[m] # NoBeat
    /\ row' = IF ok /\ row[m].exists
              THEN [row EXCEPT ![m].status = beat[m], ![m].age = 0]
              ELSE row
    /\ beat' = [beat EXCEPT ![m] = NoBeat]
    /\ UNCHANGED <<open, logged, alert, check, cron, stopping, faults,
                   pinged, closed, lost, reset, edits>>

-----------------------------------------------------------------------------
(* IncidentHandler.Update: an operator resolves or reopens one incident.   *)

Unresolved(m) == IF row[m].exists THEN open[m] ELSE lost[m]
SetUnresolved(m, n) ==
    IF row[m].exists
    THEN open' = [open EXCEPT ![m] = n] /\ UNCHANGED lost
    ELSE lost' = [lost EXCEPT ![m] = n] /\ UNCHANGED open

ResolveManually(m) ==
    /\ Edit("incident")
    /\ Unresolved(m) > 0
    /\ \E n \in IF Unresolved(m) = 2 THEN {1, 2} ELSE {0} : SetUnresolved(m, n)
    /\ closed' = closed \union {m}
    /\ UNCHANGED <<row, logged, alert, check, cron, stopping, faults, beat, pinged, reset>>

Reopen(m) ==
    /\ Edit("incident")
    /\ m \in closed
    /\ SetUnresolved(m, AtMost(Unresolved(m) + 1, 2))
    /\ closed' \in {closed, closed \ {m}}
    /\ UNCHANGED <<row, logged, alert, check, cron, stopping, faults, beat, pinged, reset>>

-----------------------------------------------------------------------------
(* MonitorHandler.Delete: the logs and heartbeats of the monitor go with   *)
(* it, its incidents stay with a NULL monitor_id.                          *)

Delete(m) ==
    /\ Edit("delete")
    /\ row[m].exists
    /\ row' = [row EXCEPT ![m].exists = FALSE]
    /\ open' = [open EXCEPT ![m] = 0]
    /\ lost' = [lost EXCEPT ![m] = open[m]]
    /\ logged' = [logged EXCEPT ![m] = "pending"]
    /\ pinged' = pinged \ {m}
    /\ UNCHANGED <<alert, check, cron, stopping, faults, beat, closed, reset>>

-----------------------------------------------------------------------------
(* AppSettingsHandler.ResetMonitoringData: four TRUNCATEs in a row, each   *)
(* of them cascading to the tables that reference the truncated one.       *)

BeginReset ==
    /\ Edit("reset")
    /\ reset = "none"
    /\ reset' = "monitor_logs"
    /\ UNCHANGED <<vars, beat, pinged, closed, lost>>

NextTable == [monitor_logs |-> "incidents", incidents |-> "heartbeats",
              heartbeats |-> "monitors", monitors |-> "done"]

\* Faulty variant: TRUNCATE without CASCADE.
NoCascade(table) == {table}
\* The tables emptied by truncating one of them.
Cascade(table) == IF table = "monitors" THEN Table ELSE {table}

Truncate(tables) ==
    /\ logged' = IF "monitor_logs" \in tables THEN [m \in Monitor |-> "pending"] ELSE logged
    /\ IF "incidents" \in tables
       THEN /\ open' = [m \in Monitor |-> 0]
            /\ lost' = [m \in Monitor |-> 0]
            /\ closed' = {}
       ELSE UNCHANGED <<open, lost, closed>>
    /\ pinged' = IF "heartbeats" \in tables THEN {} ELSE pinged
    /\ row' = IF "monitors" \in tables
              THEN [m \in Monitor |-> [row[m] EXCEPT !.exists = FALSE]]
              ELSE row

\* A statement that fails ends the request: what was truncated stays so.
ResetStep(ok) ==
    /\ reset \in Table
    /\ IF ok
       THEN Truncate(Cascade(reset)) /\ reset' = NextTable[reset]
       ELSE reset' = "failed" /\ UNCHANGED <<row, open, logged, pinged, closed, lost>>
    /\ UNCHANGED <<alert, check, cron, stopping, faults, beat, edits>>

-----------------------------------------------------------------------------
Request ==
    \/ \E m \in Monitor :
          \/ \E status \in Ping : PushHeartbeat(m, status)
          \/ \E ok \in BOOLEAN : ApplyHeartbeat(m, ok)
          \/ ResolveManually(m)
          \/ Reopen(m)
          \/ Delete(m)
    \/ BeginReset
    \/ \E ok \in BOOLEAN : ResetStep(ok)

MonitoringNext == Schedule \/ Request

\* A request that was started is carried to its end.
RequestFairness ==
    /\ \A m \in Monitor : WF_allVars(\E ok \in BOOLEAN : ApplyHeartbeat(m, ok))
    /\ WF_allVars(\E ok \in BOOLEAN : ResetStep(ok))

MonitoringSpec == MonitoringInit /\ [][MonitoringNext]_allVars
FairMonitoringSpec == MonitoringSpec /\ Fairness /\ RequestFairness
-----------------------------------------------------------------------------
(* What still holds with the API in play.                                  *)

\* A reset that reported success left nothing behind, although checks and
\* pings went on writing between its statements, and nothing comes back: the
\* checks still in flight find no monitor to write about.
ResetLeavesNothing ==
    reset = "done" =>
        /\ pinged = {}
        /\ \A m \in Monitor :
              ~row[m].exists /\ open[m] = 0 /\ lost[m] = 0 /\ logged[m] = "pending"

\* A monitor that was deleted is soon left alone: the checks that were in
\* flight end and no other begins, where no call outlives its context.
DeletedGoesQuiet ==
    (\A m \in Monitor : ~Stalls(m)) =>
        \A m \in Monitor :
            [](~row[m].exists => <>[](\A t \in Slot : check[t][m].pc = "idle"))

\* A monitor that was deleted leaves nothing that a check or a request could
\* write again, although checks of it are in flight: their statements miss.
DeletedLeavesNothing ==
    \A m \in Monitor :
        ~row[m].exists => open[m] = 0 /\ logged[m] = "pending" /\ m \notin pinged

\* It is not selected again, and the checks in flight lose time to live with
\* every unit of time, so that they are over within the life of a context,
\* unless a call in their tick outlives it.
DeletedWindsDown ==
    [][\A m \in Monitor : ~row[m].exists =>
          /\ ~row'[m].exists
          /\ \A t \in Slot : check'[t][m].pc # "idle" =>
                /\ check[t][m].pc # "idle"
                /\ check'[t][m].left <= check[t][m].left
                /\ Advance /\ Going(t) => check'[t][m].left < check[t][m].left]_allVars

\* No request is made about monitor m, and nothing is reset.
LeftAlone(m) ==
    /\ \A status \in Ping : ~PushHeartbeat(m, status)
    /\ ~ResolveManually(m) /\ ~Reopen(m) /\ ~Delete(m)
    /\ \A ok \in BOOLEAN : ~ResetStep(ok)

\* Requests about other monitors, whatever they are and between whichever
\* statements they fall, do not reach a monitor that is left alone: its
\* incidents, its notifications, its log and its status keep telling one story.
OthersUndisturbed ==
    \A m \in Monitor :
        [][LeftAlone(m)]_allVars => [](FollowsStatus(m) /\ Alternates(m) /\ FollowsLog(m))

\* Whatever pings, manual updates and failures wrote, a monitor whose attempts
\* end alike from some time on gets to that status and stays there.
StatusRecovers ==
    \A m \in Monitor : \A r \in Status \ {"pending"} :
        AttemptsEnd(m, r) => <>[](row[m].status = r \/ ~row[m].exists)
=============================================================================
