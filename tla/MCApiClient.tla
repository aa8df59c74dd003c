---------------------------- MODULE MCApiClient -----------------------------
(* Instances of ApiClient for TLC.                                         *)
EXTENDS ApiClient

CONSTANT m1

\* m1 is the only module the agent ever has hosts of.
MCHostsOf(m) == IF m = m1 THEN Hosts ELSE {}
=============================================================================
