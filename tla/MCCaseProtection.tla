-------------------------- MODULE MCCaseProtection --------------------------
(* Small instances of CaseProtection: two incidents and a stop-contact       *)
(* request on case c1; case c2 has a signed plan.                            *)
EXTENDS CaseProtection, TLC

CONSTANTS c1, c2, i1, i2, i3

MCCaseOf == [i \in Incidents |-> c1]

Symmetry == Permutations(Actors) \cup Permutations(Desks) \cup Permutations(Apis)
=============================================================================
