----------------------------- MODULE EthDevices -----------------------------
(***************************************************************************)
(* The ring of ethernet devices (net/eth.c) and how NetLoop goes round it  *)
(* when a transfer is given up (NetStartAgain, net/net.c), on a board with *)
(* CONFIG_NET_MULTI.  One command after the other is run, each with the    *)
(* device the user chose in "ethact".                                      *)
(*                                                                         *)
(* What a protocol does is reduced to its end: it succeeds, or one of its  *)
(* handlers calls NetStartAgain.  They stay installed until the next start *)
(* or wait, so one burst of packets may call it more than once.  Whether a *)
(* driver comes up is chosen at every eth_init.                            *)
(***************************************************************************)
EXTENDS Integers

CONSTANTS
  N,      \* devices registered
  Burst   \* bound: calls of NetStartAgain in one pass of the loop

ASSUME EthAssumption == N \in Nat \ {0} /\ Burst \in Nat \ {0}

VARIABLES
  phase,           \* where NetLoop is, see Phases
  NetState,
  handler,         \* what packetHandler and timeHandler belong to
  eth_current,
  first_failed,    \* of eth_try_another; NoDevice before the first failure
  NetRestarted,
  NetRestartWrap,
  NetDevExists,
  netretry,        \* environment variable of that name
  addressed,       \* the devices with an ethernet address
  calls,           \* of NetStartAgain in this pass
  tried,           \* history: devices tried by the command
  started,         \* history: devices the command started its protocol on
  tangled          \* history: wrapped before the start, NetStartAgain called
                   \* twice in a pass, or a second round

env == <<netretry, addressed>>
eth == <<eth_current, first_failed, NetRestartWrap>>
vars == <<phase, NetState, handler, eth_current, first_failed, NetRestarted,
          NetRestartWrap, NetDevExists, netretry, addressed, calls, tried, started, tangled>>

Phases == {"idle", "start", "loop", "switch"}
Devices == 0..(N - 1)
NoDevice == -1

Init ==
  /\ phase = "idle"
  /\ NetState = "CONTINUE"
  /\ handler = "none"
  /\ eth_current \in Devices
  /\ first_failed = NoDevice
  /\ NetRestarted = FALSE
  /\ NetRestartWrap = FALSE
  /\ NetDevExists = FALSE
  /\ netretry \in {"no", "once", "yes"}
  /\ addressed \in SUBSET Devices
  /\ calls = 0
  /\ tried = {}
  /\ started = {}
  /\ tangled = FALSE

-----------------------------------------------------------------------------
(* The device i places after d, i at most N: eth_register links the last to *)
(* the first.                                                               *)
After(d, i) == IF d + i < N THEN d + i ELSE d + i - N

(* The devices eth_try_another moves to when eth_init begins at d and the   *)
(* drivers of k devices fail, one after the other; k = N brings it back to  *)
(* d, where it ends with no device up.                                      *)
Passed(d, k) == {After(d, i) : i \in 1..k}
Failed(d, k) == {After(d, i) : i \in 0..(k - 1)}

(* Mutant of FirstFailed: NetRestarted is never set. *)
FirstFailedAlways(d) == d

(* first_failed, once eth_try_another has been told of the first restart.   *)
FirstFailed(d) == IF NetRestarted THEN first_failed ELSE d

(* Mutant of WentRound: compared before moving on. *)
WentRoundEarly(first, d, k) == first \in {d} \cup Passed(d, k)

(* The first device to fail is met again by eth_try_another from d, or by   *)
(* the eth_init after it.                                                   *)
WentRound(first, d, k) == first \in {After(d, 1)} \cup Passed(After(d, 1), k)

(* NetStartAgain: eth_try_another, eth_init, and what follows from having   *)
(* come round to the first device.  state is NetState when it is called.    *)
NetStartAgain(state) ==
  IF netretry = "no"
  THEN NetState' = "FAIL" /\ UNCHANGED <<handler, eth, tried>>
  ELSE \E k \in 0..N :
         LET first == FirstFailed(eth_current)
             next == After(eth_current, 1)
             wrap == NetRestartWrap \/ WentRound(first, eth_current, k)
         IN /\ first_failed' = first
            /\ eth_current' = After(next, k)
            /\ NetRestartWrap' = FALSE
            /\ tried' = tried \cup {eth_current} \cup Failed(next, k)
            /\ NetState' = IF ~wrap THEN "RESTART"
                           ELSE IF NetDevExists /\ netretry # "once" THEN state
                           ELSE "FAIL"
            /\ handler' = IF wrap /\ NetDevExists /\ netretry # "once"
                          THEN "startAgain" ELSE handler

(* A network command: NetLoop up to "restart:".  The device is the one of   *)
(* "ethact"; first_failed and NetRestartWrap are what earlier commands left. *)
Command ==
  /\ phase = "idle"
  /\ \E act \in Devices, k \in 0..N :
       /\ eth_current' = After(act, k)
       /\ NetRestartWrap' = (NetRestartWrap \/ first_failed \in Passed(act, k))
       /\ tried' = Failed(act, k)
  /\ started' = {}
  /\ tangled' = NetRestartWrap'
  /\ NetRestarted' = FALSE
  /\ NetDevExists' = FALSE
  /\ phase' = "start"
  /\ UNCHANGED <<NetState, handler, first_failed, env, calls>>

(* From "restart:" to the loop: the protocol is started, or net_check_prereq *)
(* finds no address and gives up on the device.                             *)
Start ==
  /\ phase = "start"
  /\ IF eth_current \in addressed
     THEN /\ NetDevExists' = TRUE
          /\ NetState' = "CONTINUE"
          /\ handler' = "protocol"
          /\ tried' = tried \cup {eth_current}
          /\ calls' = 0
          /\ UNCHANGED eth
     ELSE /\ NetStartAgain("CONTINUE")
          /\ calls' = 1
          /\ UNCHANGED NetDevExists
  /\ started' = started \cup {eth_current}
  /\ phase' = "loop"
  /\ UNCHANGED <<NetRestarted, env, tangled>>

(* A packet or a timeout makes the protocol call NetStartAgain. *)
GiveUp ==
  /\ phase = "loop" /\ handler = "protocol" /\ calls < Burst
  /\ NetStartAgain(NetState)
  /\ calls' = calls + 1
  /\ tangled' = (tangled \/ calls > 0)
  /\ UNCHANGED <<phase, NetRestarted, NetDevExists, env, started>>

Succeed ==
  /\ phase = "loop" /\ handler = "protocol"
  /\ NetState' = "SUCCESS"
  /\ UNCHANGED <<phase, handler, eth, NetRestarted, NetDevExists, env, calls, tried, started,
                 tangled>>

(* The ten seconds are over.  The next round begins wherever eth_init left  *)
(* off, so it need not try every device.                                    *)
StartAgainTimeout ==
  /\ phase = "loop" /\ handler = "startAgain"
  /\ NetState' = "RESTART"
  /\ tangled' = TRUE
  /\ phase' = "switch"
  /\ UNCHANGED <<handler, eth, NetRestarted, NetDevExists, env, calls, tried, started>>

(* The end of a pass; ctrlc() said no, or yes.                              *)
PassEnds ==
  /\ phase = "loop"
  /\ phase' \in {"switch", "idle"}
  /\ UNCHANGED <<NetState, handler, eth, NetRestarted, NetDevExists, env, calls, tried, started,
                 tangled>>

(* switch (NetState) *)
Switch ==
  /\ phase = "switch"
  /\ phase' = CASE NetState = "RESTART" -> "start"
                [] NetState = "CONTINUE" -> "loop"
                [] OTHER -> "idle"
  /\ NetRestarted' = (NetRestarted \/ NetState = "RESTART")
  /\ calls' = 0
  /\ UNCHANGED <<NetState, handler, eth, NetDevExists, env, tried, started, tangled>>

Next ==
  Command \/ Start \/ GiveUp \/ Succeed \/ StartAgainTimeout \/ PassEnds \/ Switch

Spec == Init /\ [][Next]_vars

(* The loop keeps running, and a protocol that is started comes to an end.  *)
FairSpec ==
  Spec /\ WF_vars(Start) /\ WF_vars(PassEnds) /\ WF_vars(Switch) /\ SF_vars(GiveUp \/ Succeed)

-----------------------------------------------------------------------------
(* Types of all variables. *)
TypeOK ==
  /\ phase \in Phases
  /\ NetState \in {"CONTINUE", "RESTART", "SUCCESS", "FAIL"}
  /\ handler \in {"none", "protocol", "startAgain"}
  /\ eth_current \in Devices
  /\ first_failed \in Devices \cup {NoDevice}
  /\ NetRestarted \in BOOLEAN
  /\ NetRestartWrap \in BOOLEAN
  /\ NetDevExists \in BOOLEAN
  /\ netretry \in {"no", "once", "yes"}
  /\ addressed \subseteq Devices
  /\ calls \in 0..Burst
  /\ tried \subseteq Devices
  /\ started \subseteq Devices
  /\ tangled \in BOOLEAN

Waiting == NetState = "CONTINUE" /\ handler = "startAgain"

(* NetLoop fails, or waits for a second round, only after every device has  *)
(* been tried, as long as NetStartAgain is called once in a pass and        *)
(* eth_init did not wrap before the first start (NetStartAgain,             *)
(* eth_try_another).                                                        *)
WrapAfterAll ==
  netretry # "no" /\ ~tangled /\ phase = "switch" /\ (NetState = "FAIL" \/ Waiting) =>
    tried = Devices

(* A command starts its protocol on no device twice, so that it comes to an *)
(* end after N starts at the latest, with no more than the same two         *)
(* exceptions (eth_try_another, NetLoop at "restart:").                     *)
StartedOnce ==
  netretry # "no" /\ ~tangled /\ phase = "start" => eth_current \notin started

(* With netretry set to "once" a command comes back, or a pass of it calls  *)
(* NetStartAgain twice: from whatever start, so that a command which never  *)
(* comes back does so again and again.  The second call of a pass turns the *)
(* FAIL of the first into a RESTART, NetRestartWrap being used up, and the  *)
(* round goes on.  Flags of earlier commands alone cannot keep it going     *)
(* (NetRestarted, first_failed).                                           *)
OnceReturns ==
  netretry = "once" /\ phase = "start" ~> phase = "idle" \/ calls > 1

-----------------------------------------------------------------------------
(* The inductive invariant behind WrapAfterAll.                             *)

(* NetStartAgain has been called and has not come round: eth_current is n   *)
(* places after first_failed, and those before it have been tried.          *)
GaveUp == NetRestarted \/ (phase \in {"loop", "switch"} /\ NetState = "RESTART")

OnTheWay ==
  /\ first_failed \in Devices
  /\ \E n \in 1..(N - 1) :
       /\ eth_current = After(first_failed, n)
       /\ \A j \in 0..(n - 1) : After(first_failed, j) \in tried

RoundInv ==
  netretry # "no" /\ ~tangled /\ phase # "idle" =>
    /\ ~NetRestartWrap
    /\ GaveUp => OnTheWay \/ tried = Devices
    /\ phase \in {"loop", "switch"} /\ (NetState = "FAIL" \/ Waiting) => tried = Devices
    /\ phase = "loop" /\ NetState \in {"RESTART", "FAIL"} => calls > 0

(* The devices started on are those eth_current has left behind, and after  *)
(* Start the one it is at.                                                  *)
BehindFirst(n, last) ==
  /\ first_failed \in Devices
  /\ eth_current = After(first_failed, n)
  /\ started \subseteq {After(first_failed, j) : j \in 0..last}

StartedInv ==
  netretry # "no" /\ ~tangled =>
    /\ phase = "start" =>
         IF NetRestarted THEN \E n \in 1..(N - 1) : BehindFirst(n, n - 1) ELSE started = {}
    /\ phase \in {"loop", "switch"} =>
         /\ NetState = "RESTART" => \E n \in 1..(N - 1) : BehindFirst(n, n - 1)
         /\ NetState = "CONTINUE" /\ handler = "protocol" => calls = 0
         /\ calls = 0 /\ handler = "protocol" /\ NetState \in {"CONTINUE", "SUCCESS"} =>
              IF NetRestarted THEN \E n \in 1..(N - 1) : BehindFirst(n, n)
              ELSE started = {eth_current}

IInv == TypeOK /\ RoundInv /\ StartedInv

=============================================================================
