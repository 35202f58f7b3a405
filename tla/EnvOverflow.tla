---------------------------- MODULE EnvOverflow -----------------------------
(***************************************************************************)
(* EnvFlash with the other way out of setenv: the variable has been        *)
(* deleted from the environment in RAM when its new value turns out not to *)
(* fit, and _do_setenv returns before env_crc_update.                      *)
(***************************************************************************)
EXTENDS EnvFlash

(* "## Error: environment overflow": the data is what remains without the   *)
(* variable, the CRC that of the data before.  (A name that was not set     *)
(* leaves both as they are, a stuttering step.)                             *)
SetenvOverflow(v) ==
  /\ pc = "idle"
  /\ v # env_ptr.data
  /\ env_ptr' = [data |-> v, crc |-> FALSE]
  /\ UNCHANGED <<flash, gdVars, flash_addr, pc, worn, larger, history>>

OverflowNext == Next \/ \E v \in Values : SetenvOverflow(v)

OverflowSpec == Init /\ [][OverflowNext]_vars

(* What saveenv wrote and reported as "done" is what a reset comes up with  *)
(* ("saveenv - save environment variables to persistent storage").          *)
SavedIsPersistent ==
  pc = "idle" /\ uncertain = {} => BootEnv(flash) = committed

=============================================================================
