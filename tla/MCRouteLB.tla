----------------------------- MODULE MCRouteLB ------------------------------
(* Instances of RouteLB for TLC.                                           *)
EXTENDS RouteLB

CONSTANTS m1, h1, h2

\* m1 is served by the last of two RouteLB objects.
MCShard(m) == IF m = m1 THEN 1 ELSE 0

\* No route, a host, and another one joining it or leaving it.
MCRoutes == {{}, {h1}, {h1, h2}}
=============================================================================
