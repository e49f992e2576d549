-------------------------- MODULE MCQuotaAdmission --------------------------
(***************************************************************************)
(* Two managed projects with a share of two sessions and of one, and an    *)
(* unmanaged one, on an account with three sessions per window.            *)
(***************************************************************************)
EXTENDS QuotaAdmission, TLC

CONSTANTS p1, p2, u

MCAllocation == (p1 :> 2) @@ (p2 :> 1)
MCPrecedence == (p1 :> 1) @@ (p2 :> 2)

=============================================================================
