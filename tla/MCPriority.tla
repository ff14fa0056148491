----------------------------- MODULE MCPriority -----------------------------
(* The instances of Priority for TLC.                                      *)
EXTENDS Priority, TLC

Symmetry == Permutations(Tasks \ {Init_task}) \cup Permutations(CPUs)
=============================================================================
