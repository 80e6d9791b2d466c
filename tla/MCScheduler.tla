---------------------------- MODULE MCScheduler ----------------------------
(* Values of the scheduler's constants.  The unit of time is five seconds: *)
(* a tick every 2, a context of 6, a pause of 1 between attempts.          *)
EXTENDS SchedulerInv, TLC

CONSTANTS m1, m2, t1, t2, t3, t4

OneMonitor == {m1}
TwoMonitors == {m1, m2}
TwoSlots == {t1, t2}
FourSlots == {t1, t2, t3, t4}
SlotSymmetry == Permutations(Slot)

Each(v) == [m \in Monitor |-> v]
Zero == Each(0)
One == Each(1)
Two == Each(2)
Three == Each(3)
Six == Each(6)
Twelve == Each(12)

\* The kinds of checker: TCP, ping, gRPC, UDP, DNS and database answer up or
\* down; HTTP and SSL also degraded.  Any target may hang, and one that is a
\* PostgreSQL or Redis server may stall.
Binary == Each({"up", "down", "hang"})
Graded == Each({"up", "down", "degraded", "hang"})
Stalling == Each({"up", "hang", "stall"})
Hanging == Each({"hang"})

NoFault == {}
CrashFault == {"crash"}
StopFault == {"stop"}
AnyFault == {"db", "crash", "stop"}
=============================================================================
