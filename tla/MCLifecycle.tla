---------------------------- MODULE MCLifecycle -----------------------------
(* Lifecycle with one or two admin connections: one client for all         *)
(* projects, one client for each, or two that manage the same project.     *)
EXTENDS Lifecycle, TLC

CONSTANTS p, q, h1, h2

OneClient    == (h1 :> {p, q})
OnePerClient == (h1 :> {p}) @@ (h2 :> {q})
Shared       == (h1 :> {p}) @@ (h2 :> {p})
=============================================================================
