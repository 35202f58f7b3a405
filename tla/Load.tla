-------------------------------- MODULE Load --------------------------------
(***************************************************************************)
(* What a load promises, whatever carries it (tftpboot, nfs, loadb): the   *)
(* blocks of a file come to memory in their order, none that is there is   *)
(* lost, and a load is reported as "loaded" only when the whole file is    *)
(* there.  The promise is for a load that nothing has disturbed; what      *)
(* disturbs it is for each carrier to say.  A disturbed load may begin     *)
(* again on another device, with what is in memory left there.             *)
(***************************************************************************)
EXTENDS Integers

CONSTANTS
  Size,        \* blocks of the file
  TakesBack    \* whether a block may be stored before it is known to be
               \* good: the last one may then be taken back

VARIABLES
  stored,      \* the blocks of the file that are in their place
  status       \* "loading", "disturbed", "loaded", or "ended" without promise

loadVars == <<stored, status>>

AllBlocks == 1..Size

Init == stored = {} /\ status = "loading"

(* Block b is stored, or stored again, only after all before it. *)
Store ==
  /\ status = "loading"
  /\ \E b \in AllBlocks : 1..(b - 1) \subseteq stored /\ stored' = stored \cup {b}
  /\ UNCHANGED status

TakeBack ==
  /\ TakesBack /\ status = "loading"
  /\ \E b \in stored : stored = 1..b /\ stored' = 1..(b - 1)
  /\ UNCHANGED status

Report ==
  /\ status = "loading" /\ stored = AllBlocks
  /\ status' = "loaded"
  /\ UNCHANGED stored

Fail ==
  /\ status = "loading"
  /\ status' = "ended"
  /\ UNCHANGED stored

(* What a disturbed load may do to memory: nothing but blocks of the file   *)
(* come to their place, and what cannot be taken back stays.               *)
Scattered == stored' \subseteq AllBlocks /\ (TakesBack \/ stored \subseteq stored')

Disturb ==
  /\ status = "loading"
  /\ status' = "disturbed"
  /\ Scattered

Straggle ==
  /\ status = "disturbed"
  /\ status' \in {"disturbed", "ended"}
  /\ Scattered

Restart ==
  /\ status = "disturbed"
  /\ status' = "loading"
  /\ UNCHANGED stored

Next == Store \/ TakeBack \/ Report \/ Fail \/ Disturb \/ Straggle \/ Restart

Spec == Init /\ [][Next]_loadVars
=============================================================================
