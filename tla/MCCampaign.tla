----------------------------- MODULE MCCampaign -----------------------------
(***************************************************************************)
(* Small projects for TLC.  PlanDeps is a plan whose last task joins two   *)
(* branches, a chain of two tasks and a single one; a task x outside the   *)
(* graph waits in the FIFO queue of the projects that have one.            *)
(***************************************************************************)
EXTENDS CampaignController, TLC

CONSTANTS a, b, c, d, x, w1, w2

PlanDeps == (a :> {}) @@ (b :> {}) @@ (c :> {a}) @@ (d :> {b, c})
PlanRank == (a :> 1) @@ (d :> 2) @@ (c :> 3) @@ (b :> 4)

TwinDeps == (a :> {}) @@ (b :> {})

PairDeps == (a :> {}) @@ (b :> {a})
PairRank == (a :> 1) @@ (b :> 2)

DefaultBudget == [RETRY |-> 2, REPAIR |-> 2, REBASE |-> 1, REPLAN |-> 1]

NoQueue == <<>>
QueueX == <<x>>

=============================================================================
