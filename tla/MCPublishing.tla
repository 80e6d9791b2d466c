--------------------------- MODULE MCPublishing ---------------------------
\* A small instance of Publishing.
EXTENDS Publishing, TLC

CONSTANTS m1, m2, blank, u1

TwoMonitors == {m1, m2}
\* "Web API", "web  api" and "Web API: EU".
Names ==
    {[case |-> "mixed", gap |-> "space", sign |-> "none"],
     [case |-> "lower", gap |-> "spaces", sign |-> "none"],
     [case |-> "mixed", gap |-> "space", sign |-> "reserved"]}
Texts == {blank, u1}
MonitorSymmetry == Permutations(TwoMonitors)
===========================================================================
