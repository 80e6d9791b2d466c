------------------------------- MODULE Outage -------------------------------
(***************************************************************************)
(* What the scheduler promises about the outages of a monitor: an incident *)
(* is opened, then announced; it is closed, then its end is announced; and *)
(* only then can the next one open.  Announcements always follow.          *)
(***************************************************************************)
CONSTANT Monitor

VARIABLES
    down,  \* the monitors with an open incident
    told   \* the monitors whose last announcement was that of an outage

vars == <<down, told>>

TypeOK == down \subseteq Monitor /\ told \subseteq Monitor

Init == down = {} /\ told = {}

Open(m) ==
    /\ m \notin down /\ m \notin told
    /\ down' = down \union {m}
    /\ UNCHANGED told

TellDown(m) ==
    /\ m \in down /\ m \notin told
    /\ told' = told \union {m}
    /\ UNCHANGED down

Close(m) ==
    /\ m \in down /\ m \in told
    /\ down' = down \ {m}
    /\ UNCHANGED told

TellUp(m) ==
    /\ m \notin down /\ m \in told
    /\ told' = told \ {m}
    /\ UNCHANGED down

Next == \E m \in Monitor : Open(m) \/ TellDown(m) \/ Close(m) \/ TellUp(m)

Spec == Init /\ [][Next]_vars
FairSpec == Spec /\ \A m \in Monitor : WF_vars(TellDown(m)) /\ WF_vars(TellUp(m))
=============================================================================
