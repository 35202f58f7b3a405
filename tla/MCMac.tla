------------------------------- MODULE MCMac -------------------------------
(* Mac for TLC. *)
EXTENDS Mac
=============================================================================
