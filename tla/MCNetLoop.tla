------------------------------ MODULE MCNetLoop -----------------------------
(* NetLoop for TLC: a host and a gateway on the subnet and one beyond.      *)
(* Five seconds are one tick: two of them just exceed ten seconds.          *)
EXTENDS NetLoop

CONSTANTS near, gateway, far

MCDelta == [h \in Timers |-> IF h \in {"PingTimeout", "startAgainTimeout"} THEN 2 ELSE 1]
=============================================================================
