---------------------------- MODULE MCCoreSched -----------------------------
(* One core of two siblings, three tasks of one level and up to two cookies. *)
EXTENDS CoreSched, TLC

CONSTANTS t1, t2, t3, c1, c2, a, b

MCSymmetry == Permutations({t1, t2, t3}) \cup Permutations({a, b})

MCPrio == t1 :> 1 @@ t2 :> 1 @@ t3 :> 1
=============================================================================
