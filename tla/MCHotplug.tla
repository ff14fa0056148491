----------------------------- MODULE MCHotplug ------------------------------
(* One core, whose second CPU comes and goes, a user task bound to that CPU  *)
(* at first, an ordinary kthread and a per-CPU one.                          *)
EXTENDS Hotplug, TLC

CONSTANTS c0, c1, u, v, k

MCKind == u :> "user" @@ v :> "kthread" @@ k :> "percpu"
MCMask == u :> {c1} @@ v :> CPUs @@ k :> {c1}
=============================================================================
