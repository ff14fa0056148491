--------------------------- MODULE MCAddressSpace ---------------------------
(* AddressSpace for TLC.                                                   *)
EXTENDS AddressSpace, TLC

Symmetry == Permutations(Users) \cup Permutations(MMs)
=============================================================================
