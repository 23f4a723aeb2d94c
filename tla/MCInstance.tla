----------------------------- MODULE MCInstance -----------------------------
(***************************************************************************)
(* An instance of the service for TLC.                                     *)
(***************************************************************************)
EXTENDS Instance

=============================================================================
