------------------------------ MODULE EnvStore ------------------------------
(***************************************************************************)
(* What U-Boot promises about the persistent environment, without saying   *)
(* how it is stored: "saveenv" makes the environment survive a reset, and  *)
(* a reset at any moment comes back with the last environment whose        *)
(* "saveenv" reported success, or with one whose "saveenv" was started     *)
(* since then and did not report.  EnvFlash implements it.                 *)
(***************************************************************************)

CONSTANTS
  Values,      \* environments a user can build with setenv
  DefaultEnv   \* the compiled-in default_environment

VARIABLES
  env,         \* the environment the running system uses
  committed,   \* the environment of the last saveenv that returned 0
  uncertain    \* the environments of later saveenv calls that did not

storeVars == <<env, committed, uncertain>>

Envs == Values \cup {DefaultEnv}

(* What a reset is allowed to come back with. *)
Allowed == {committed} \cup uncertain

Init ==
  /\ env = DefaultEnv
  /\ committed = DefaultEnv
  /\ uncertain = {}

Change ==
  /\ env' \in Values
  /\ UNCHANGED <<committed, uncertain>>

StartSave ==
  /\ uncertain' = uncertain \cup {env}
  /\ UNCHANGED <<env, committed>>

ReportSuccess ==
  /\ env \in uncertain
  /\ committed' = env
  /\ uncertain' = {}
  /\ UNCHANGED env

Boot ==
  /\ env' \in Allowed
  /\ UNCHANGED <<committed, uncertain>>

Next == Change \/ StartSave \/ ReportSuccess \/ Boot

Spec == Init /\ [][Next]_storeVars

=============================================================================
