------------------------ MODULE MCRuntimeVerification ------------------------
(***************************************************************************)
(* The constants of RuntimeVerification are numbers: the .cfg files choose *)
(* them.                                                                   *)
(***************************************************************************)
EXTENDS RuntimeVerification

=============================================================================
