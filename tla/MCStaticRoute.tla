--------------------------- MODULE MCStaticRoute ----------------------------
(* Instances of StaticRoute for TLC.                                       *)
EXTENDS StaticRoute

CONSTANTS m1, m2, a, b

\* The first thread has a module with up to two hosts, the second one with one.
MCLines(s) == IF s = 1 THEN {<<m1, a>>, <<m1, b>>} ELSE {<<m2, a>>}
=============================================================================
