----------------------------- MODULE MCConsole -----------------------------
\* A small instance of Console: two tabs, in one browser or in two.
EXTENDS Console

CONSTANTS t1, t2, b1, b2, e1, p1, p2

TwoTabs      == {t1, t2}
TwoBrowsers  == {b1, b2}
OneBrowserOrTwo == {[t \in TwoTabs |-> b1], [t \in TwoTabs |-> IF t = t1 THEN b1 ELSE b2]}
OneEmail     == {e1}
TwoPasswords == {p1, p2}
=============================================================================
