------------------------------ MODULE MCKermit ------------------------------
(* Kermit with the constants of its configurations. *)
EXTENDS Kermit
=============================================================================
