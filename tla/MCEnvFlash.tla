----------------------------- MODULE MCEnvFlash -----------------------------
(* EnvFlash for TLC: three environments a user can save, so that the one    *)
(* reported, the one in flight and the one before them can all differ.      *)
EXTENDS EnvFlash

CONSTANTS v1, v2, v3, default, garbage

MCValues == {v1, v2, v3}

=============================================================================
