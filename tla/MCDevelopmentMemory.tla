------------------------- MODULE MCDevelopmentMemory -------------------------
(***************************************************************************)
(* The three proofs with a kill or a repeated event, a failing request and *)
(* a commit by somebody else.                                              *)
(***************************************************************************)
EXTENDS DevelopmentMemory, TLC

=============================================================================
