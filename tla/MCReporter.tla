----------------------------- MODULE MCReporter -----------------------------
(* Instances of Reporter for TLC.                                          *)
EXTENDS Reporter

CONSTANTS m1, t1, t2, a, top

\* The addresses of the hosts of m2, if it has any, do not fit their column.
MCHostsOf(m) == IF m = m1 THEN {a} ELSE Hosts \ {a}
MCColumn(h) == IF h = a THEN a ELSE top
MCHashTo(m) == IF m = m1 THEN t1 ELSE t2
=============================================================================
