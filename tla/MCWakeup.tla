------------------------------ MODULE MCWakeup ------------------------------
(* Wakeup for TLC.                                                         *)
EXTENDS WakeupLife, TLC

Symmetry == Permutations(Tasks) \cup Permutations(CPUs)
=============================================================================
