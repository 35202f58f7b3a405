------------------------------- MODULE MCDhcp -------------------------------
(* Dhcp for TLC: two servers with an address each. *)
EXTENDS Dhcp

CONSTANTS s1, s2, a1, a2

MCPool == [s \in {s1, s2} |-> IF s = s1 THEN {a1} ELSE {a2}]
=============================================================================
