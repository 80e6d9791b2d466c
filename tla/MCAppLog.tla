------------------------------ MODULE MCAppLog ------------------------------
(* Values of the constants of AppLog: a ring of 3, channels of 2.           *)
EXTENDS AppLog

CONSTANTS tail, other

TwoSubscribers == {tail, other}
=============================================================================
