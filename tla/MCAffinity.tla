----------------------------- MODULE MCAffinity -----------------------------
(* Affinity for TLC.                                                       *)
EXTENDS Affinity, TLC

Symmetry == Permutations(Callers \ {Self}) \cup Permutations(CPUs)
=============================================================================
