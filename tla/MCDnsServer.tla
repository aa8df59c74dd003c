---------------------------- MODULE MCDnsServer -----------------------------
(* Instances of DnsServer for TLC.                                         *)
EXTENDS DnsServer, TLC

Symmetry == Permutations(Fds) \cup Permutations(Workers)
=============================================================================
