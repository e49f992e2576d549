-------------------------- MODULE MCProviderCycle --------------------------
(***************************************************************************)
(* The constants of ProviderCycle are numbers: the .cfg files choose them. *)
(***************************************************************************)
EXTENDS ProviderCycle

=============================================================================
