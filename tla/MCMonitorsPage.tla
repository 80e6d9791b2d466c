--------------------------- MODULE MCMonitorsPage ---------------------------
\* A small instance of MonitorsPage.
EXTENDS MonitorsPage

CONSTANTS g1, l1, l2, escaped

OneGroup  == {g1}
TwoLabels == {l1, l2}
\* The second label has a character the path carries escaped.
Params    == [name \in {g1, l1, l2} |-> IF name = l2 THEN escaped ELSE name]
ZeroOne   == {0, 1}

Monitor(g, labs) ==
    [born |-> 1, grp |-> g, labs |-> labs, interval |-> 1, retries |-> 1, fav |-> FALSE, pub |-> FALSE]
OneMonitor  == [i \in {1} |-> Monitor(g1, {l1})]
TwoMonitors == [i \in 1..2 |->
    [Monitor(IF i = 1 THEN g1 ELSE NoGroup, {l1}) EXCEPT !.born = i]]

OneForm  == {[grp |-> NoGroup, labs |-> {l1, l2}, interval |-> 1, retries |-> 1]}
Bulk(on) == [on |-> on, grp |-> NoGroup, labs |-> {}, interval |-> 0, retries |-> 0]
BulkForms == {Bulk(on) : on \in {{}, {"grp"}, {"interval"}, {"labs", "retries"}}}
Searches == {{}, 1..MaxId}
==============================================================================
