-------------------------------- MODULE MCLB --------------------------------
(* Instances of LB for TLC.                                                *)
EXTENDS LB, TLC

Symmetry == Permutations(Hosts)

\* The definition of Without agrees with the library's filter on every list
\* without repetition.
SmallLists == UNION {Listings(S) : S \in SUBSET Hosts}

ASSUME WithoutIsRemove ==
    \A s \in SmallLists, D \in SUBSET Hosts :
        Without(s, D) = {SelectSeq(s, LAMBDA h : h \notin D)}
=============================================================================
