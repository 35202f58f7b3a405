------------------------------- MODULE MCTftp -------------------------------
(* Tftp for TLC. *)
EXTENDS Tftp

CONSTANTS p1, p2, p3, s1, s2, old, wkp

MCPorts == {p1, p2}
MCOnePort == {p1}
MCStale == {p3}
MCTids == {s1, s2}
MCOneTid == {s1}

=============================================================================
