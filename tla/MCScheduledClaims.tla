-------------------------- MODULE MCScheduledClaims --------------------------
(***************************************************************************)
(* A plan of five tasks for TLC: a diamond a-b,c-d and an independent task *)
(* h, declared in an order that is not a topological one beyond its first  *)
(* task; two runs, and a lease that lasts one instant.                     *)
(***************************************************************************)
EXTENDS ScheduledClaims, TLC

CONSTANTS a, b, c, d, h, r1, r2

MCTask == {a, b, c, d, h}
MCDeps == (a :> {}) @@ (b :> {a}) @@ (c :> {a}) @@ (d :> {b, c})
          @@ (h :> {})
MCRank == (a :> 1) @@ (d :> 2) @@ (c :> 3) @@ (b :> 4) @@ (h :> 5)

=============================================================================
