----------------------------- MODULE MCEndpoint -----------------------------
(***************************************************************************)
(* Instances of Endpoint for TLC.                                          *)
(***************************************************************************)
EXTENDS Endpoint
=============================================================================
