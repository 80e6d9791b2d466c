----------------------------- MODULE BoundedLog -----------------------------
(* A log that keeps the newest Cap of the lines written to it, in order.    *)
EXTENDS Integers, Sequences

CONSTANTS Line, Cap

VARIABLE log

Init == log = <<>>

Write(line) == log' = IF Len(log) < Cap THEN Append(log, line) ELSE Append(Tail(log), line)

Next == \E line \in Line : Write(line)

Spec == Init /\ [][Next]_log
=============================================================================
