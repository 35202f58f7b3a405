---------------------------- MODULE MCEthDevices ----------------------------
(* EthDevices for TLC. *)
EXTENDS EthDevices
=============================================================================
