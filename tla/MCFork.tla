------------------------------- MODULE MCFork -------------------------------
(* Fork for TLC.                                                           *)
EXTENDS Fork, TLC

Symmetry == Permutations(Forkers)
=============================================================================
