--------------------------- MODULE MCEnvOverflow ----------------------------
(* EnvOverflow for TLC. *)
EXTENDS EnvOverflow

CONSTANTS v1, v2, default, garbage

MCValues == {v1, v2}

=============================================================================
