-------------------------------- MODULE Mac --------------------------------
(***************************************************************************)
(* The ethernet driver (drivers/mac9260.c): two rings of DMA descriptors   *)
(* shared by the processor and the two engines of the MAC.                 *)
(*                                                                         *)
(* Frames are numbered in the order the engine stores them (reception) or  *)
(* mac9260_send is called (transmission).  The engines are not under src/; *)
(* they are what the driver takes them to be: an engine works on the       *)
(* descriptors it owns in the order of the ring, and when it meets one it  *)
(* does not own it raises "buffer unavailable" and stops until it is       *)
(* polled.  It may raise the flag some time after it looked at the         *)
(* descriptor, and the processor may look at the flag in between (then the *)
(* engine is "overdue"); that time is taken to be shorter than a call of   *)
(* NetReceive.                                                             *)
(***************************************************************************)
EXTENDS Integers

CONSTANTS
  RxN,        \* ETH_RXBUFNB
  TxN,        \* ETH_TXBUFNB
  MaxFrames,  \* bound: frames stored
  MaxSends,   \* bound: calls of mac9260_send
  BadFrames   \* whether a frame may be stored with the error bit set, or
              \* over two descriptors

ASSUME MacAssumption ==
  /\ RxN \in Nat /\ RxN >= 2
  /\ TxN \in Nat /\ TxN >= 1
  /\ MaxFrames \in Nat /\ MaxSends \in Nat
  /\ BadFrames \in BOOLEAN

VARIABLES
  pc,         \* where mac9260_recv is, see Points
  rx_desc,    \* db->rx_desc, the descriptor it looks at
  rxOwn,      \* the descriptors that have ETH_DMARxDesc_OWN
  rxBuf,      \* frame in each buffer; Partial while the engine writes it
  bad,        \* the descriptors with the error bit, or without FS and LS
  rxEngine,
  rxDma,      \* the descriptor the receive engine is at
  rxFlag,     \* RBUS of HW_ETH_DMASR
  stored,     \* frames stored by the engine
  given,      \* descriptors given back by mac9260_recv
  txPc,       \* where mac9260_send is
  tx_desc, txOwn, txBuf, txEngine, txDma,
  txFlag,     \* TBUS of HW_ETH_DMASR
  sent,       \* frames handed to the engine
  wired,      \* frames put on the wire
  onWire,     \* history: the last of them
  overrun     \* history: a frame was written over one not yet sent

rx == <<rx_desc, rxOwn, rxBuf, bad, rxEngine, rxDma, rxFlag, stored, given>>
tx == <<txPc, tx_desc, txOwn, txBuf, txEngine, txDma, txFlag, sent, wired, onWire, overrun>>
vars == <<pc, rx, tx>>

Points == {"loop", "test", "give", "resume", "handle"}
Engine == {"fetch", "busy", "late", "overdue", "suspended"}
RxSlots == 0..(RxN - 1)
TxSlots == 0..(TxN - 1)
Partial == -1
Nothing == 0

-----------------------------------------------------------------------------
(* The descriptor k places after p, k at most n: buf2nextdescaddr makes a   *)
(* ring of n.                                                              *)
After(p, k, n) == IF p + k < n THEN p + k ELSE p + k - n

(* eth_send_init and eth_recv_init: the heap is cleared, so no descriptor   *)
(* of the send ring is owned.                                              *)
Init ==
  /\ pc = "loop"
  /\ rx_desc = 0 /\ rxDma = 0
  /\ rxOwn = RxSlots
  /\ rxBuf = [s \in RxSlots |-> Nothing]
  /\ bad = {}
  /\ rxEngine = "fetch" /\ rxFlag = FALSE
  /\ stored = 0 /\ given = 0
  /\ txPc = "idle"
  /\ tx_desc = 0 /\ txDma = 0
  /\ txOwn = {}
  /\ txBuf = [s \in TxSlots |-> Nothing]
  /\ txEngine = "fetch" /\ txFlag = FALSE
  /\ sent = 0 /\ wired = 0 /\ onWire = 0
  /\ overrun = FALSE

-----------------------------------------------------------------------------
(* Reception, the processor.                                               *)

(* NetLoop calls eth_rx. *)
Recv ==
  /\ pc = "loop" /\ txPc = "idle"
  /\ pc' = "test"
  /\ UNCHANGED <<rx, tx>>

(* Mutant of Complete: the owner is not looked at. *)
CompleteUnowned(s) == s \notin bad

(* eth_get_size # 0: a whole frame without an error is in s. *)
Complete(s) == s \notin rxOwn /\ s \notin bad

GetSize ==
  /\ pc = "test"
  /\ pc' = IF Complete(rx_desc) THEN "give" ELSE "loop"
  /\ UNCHANGED <<rx, tx>>

(* The descriptor goes back to the engine before its frame is read. *)
GiveBack ==
  /\ pc = "give"
  /\ rxOwn' = rxOwn \cup {rx_desc}
  /\ given' = given + 1
  /\ pc' = "resume"
  /\ UNCHANGED <<rx_desc, rxBuf, bad, rxEngine, rxDma, rxFlag, stored, tx>>

(* Mutant of Polled: nothing is written to the poll demand register. *)
PolledNot(flag, engine) == engine

(* The engine once the driver has looked at the flag, and polled it if the  *)
(* flag was up.                                                            *)
Polled(flag, engine) ==
  IF flag THEN "fetch" ELSE IF engine = "late" THEN "overdue" ELSE engine

Resume ==
  /\ pc = "resume"
  /\ rxEngine' = Polled(rxFlag, rxEngine)
  /\ rxFlag' = FALSE
  /\ pc' = "handle"
  /\ UNCHANGED <<rx_desc, rxOwn, rxBuf, bad, rxDma, stored, given, tx>>

(* Mutant of Handled: the descriptor is left where it is. *)
HandledSame ==
  /\ pc = "handle" /\ txPc = "idle" /\ rxEngine # "overdue"
  /\ pc' = "test"
  /\ UNCHANGED <<rx, tx>>

(* NetReceive returns. *)
Handled ==
  /\ pc = "handle" /\ txPc = "idle" /\ rxEngine # "overdue"
  /\ rx_desc' = After(rx_desc, 1, RxN)
  /\ pc' = "test"
  /\ UNCHANGED <<rxOwn, rxBuf, bad, rxEngine, rxDma, rxFlag, stored, given, tx>>

-----------------------------------------------------------------------------
(* Reception, the engine.                                                  *)

(* The engine looks at its descriptor: it begins to write a frame, or is    *)
(* about to stop.                                                          *)
RxFetch ==
  /\ rxEngine = "fetch"
  /\ IF rxDma \in rxOwn
     THEN /\ stored < MaxFrames
          /\ rxBuf' = [rxBuf EXCEPT ![rxDma] = Partial]
          /\ rxEngine' = "busy"
     ELSE rxEngine' = "late" /\ UNCHANGED rxBuf
  /\ UNCHANGED <<pc, rx_desc, rxOwn, bad, rxDma, rxFlag, stored, given, tx>>

RxStore ==
  /\ rxEngine = "busy"
  /\ rxBuf' = [rxBuf EXCEPT ![rxDma] = stored + 1]
  /\ \/ bad' = bad \ {rxDma}
     \/ BadFrames /\ bad' = bad \cup {rxDma}
  /\ rxOwn' = rxOwn \ {rxDma}
  /\ rxDma' = After(rxDma, 1, RxN)
  /\ stored' = stored + 1
  /\ rxEngine' = "fetch"
  /\ UNCHANGED <<pc, rx_desc, rxFlag, given, tx>>

RxSuspend ==
  /\ rxEngine \in {"late", "overdue"}
  /\ rxEngine' = "suspended"
  /\ rxFlag' = TRUE
  /\ UNCHANGED <<pc, rx_desc, rxOwn, rxBuf, bad, rxDma, stored, given, tx>>

-----------------------------------------------------------------------------
(* Transmission, the processor.  Frames are sent by NetLoop and, while it   *)
(* handles a frame, by NetReceive.                                         *)

(* Mutant of SendCopy: the descriptor is handed over before the copy. *)
SendCopyLate ==
  /\ pc \in {"loop", "handle"} /\ txPc = "idle" /\ sent < MaxSends
  /\ overrun' = (overrun \/ tx_desc \in txOwn)
  /\ txBuf' = [txBuf EXCEPT ![tx_desc] = Partial]
  /\ txOwn' = txOwn \cup {tx_desc}
  /\ txPc' = "copy"
  /\ UNCHANGED <<pc, rx, tx_desc, txEngine, txDma, txFlag, sent, wired, onWire>>

(* mac9260_tx copies the frame into the buffer, whoever owns it: the test   *)
(* of the bit has an empty body.                                           *)
SendCopy ==
  /\ pc \in {"loop", "handle"} /\ txPc = "idle" /\ sent < MaxSends
  /\ overrun' = (overrun \/ tx_desc \in txOwn)
  /\ txBuf' = [txBuf EXCEPT ![tx_desc] = Partial]
  /\ txPc' = "copy"
  /\ UNCHANGED <<pc, rx, tx_desc, txOwn, txEngine, txDma, txFlag, sent, wired, onWire>>

SendOwn ==
  /\ txPc = "copy"
  /\ txBuf' = [txBuf EXCEPT ![tx_desc] = sent + 1]
  /\ txOwn' = txOwn \cup {tx_desc}
  /\ sent' = sent + 1
  /\ txPc' = "resume"
  /\ UNCHANGED <<pc, rx, tx_desc, txEngine, txDma, txFlag, wired, onWire, overrun>>

SendResume ==
  /\ txPc = "resume"
  /\ txEngine' = Polled(txFlag, txEngine)
  /\ txFlag' = FALSE
  /\ tx_desc' = After(tx_desc, 1, TxN)
  /\ txPc' = "idle"
  /\ UNCHANGED <<pc, rx, txOwn, txBuf, txDma, sent, wired, onWire, overrun>>

-----------------------------------------------------------------------------
(* Transmission, the engine.                                               *)

TxFetch ==
  /\ txEngine = "fetch"
  /\ txEngine' = IF txDma \in txOwn THEN "busy" ELSE "late"
  /\ UNCHANGED <<pc, rx, txPc, tx_desc, txOwn, txBuf, txDma, txFlag, sent, wired, onWire, overrun>>

TxSent ==
  /\ txEngine = "busy"
  /\ onWire' = txBuf[txDma]
  /\ wired' = wired + 1
  /\ txOwn' = txOwn \ {txDma}
  /\ txDma' = After(txDma, 1, TxN)
  /\ txEngine' = "fetch"
  /\ UNCHANGED <<pc, rx, txPc, tx_desc, txBuf, txFlag, sent, overrun>>

TxSuspend ==
  /\ txEngine \in {"late", "overdue"}
  /\ txEngine' = "suspended"
  /\ txFlag' = TRUE
  /\ UNCHANGED <<pc, rx, txPc, tx_desc, txOwn, txBuf, txDma, sent, wired, onWire, overrun>>

-----------------------------------------------------------------------------
Receiving == Recv \/ GetSize \/ GiveBack \/ Resume \/ Handled
RxDma == RxFetch \/ RxStore \/ RxSuspend
Sending == SendCopy \/ SendOwn \/ SendResume
TxDma == TxFetch \/ TxSent \/ TxSuspend

Next == Receiving \/ RxDma \/ Sending \/ TxDma

Spec == Init /\ [][Next]_vars

(* A command keeps calling eth_rx, mac9260_send has no wait, and an engine  *)
(* finishes what it began.  No frame has to arrive or to be sent.           *)
FairSpec ==
  /\ Spec
  /\ WF_vars(Receiving) /\ WF_vars(SendOwn \/ SendResume)
  /\ WF_vars(RxStore \/ RxSuspend) /\ WF_vars(TxDma)

-----------------------------------------------------------------------------
(* Types of all variables. *)
TypeOK ==
  /\ pc \in Points
  /\ rx_desc \in RxSlots /\ rxDma \in RxSlots
  /\ rxOwn \subseteq RxSlots /\ bad \subseteq RxSlots
  /\ rxBuf \in [RxSlots -> Int]
  /\ rxEngine \in Engine /\ rxFlag \in BOOLEAN
  /\ stored \in 0..MaxFrames /\ given \in 0..MaxFrames
  /\ txPc \in {"idle", "copy", "resume"}
  /\ tx_desc \in TxSlots /\ txDma \in TxSlots
  /\ txOwn \subseteq TxSlots
  /\ txBuf \in [TxSlots -> Int]
  /\ txEngine \in Engine /\ txFlag \in BOOLEAN
  /\ sent \in 0..MaxSends /\ wired \in Nat /\ onWire \in Int
  /\ overrun \in BOOLEAN

Holding == pc \in {"resume", "handle"}

(* Frames stored and not yet given back. *)
Pending == stored - given

(* The next descriptor mac9260_recv gives back. *)
Head == IF Holding THEN After(rx_desc, 1, RxN) ELSE rx_desc

(* The n-th call of NetReceive reads the n-th frame, although its buffer    *)
(* belongs to the engine again: it can only be spoilt by the RxN-th frame   *)
(* after it (mac9260_recv).                                                *)
ReadsItsFrame ==
  Holding =>
    \/ rxBuf[rx_desc] = given
    \/ stored >= given + RxN
    \/ stored = given + RxN - 1 /\ rxEngine = "busy"

(* The n-th frame on the wire is the n-th frame sent, whole, as long as     *)
(* mac9260_tx has not overrun the ring.                                    *)
SentInOrder == ~overrun => onWire = wired

(* "When Rx Buffer unavailable flag is set: clear it and resume reception": *)
(* an engine that stops is set going again, even when it raises the flag    *)
(* just after mac9260_recv looked at it.                                   *)
RxResumes == rxEngine = "suspended" ~> rxEngine # "suspended"

(* An engine that stops leaves work to the driver: mac9260_recv is about to *)
(* look at the flag, or meets a whole frame at its descriptor and looks at  *)
(* the flag once that is given back.  Otherwise neither would ever move     *)
(* again: the driver looks at the flag nowhere else.                       *)
NeverStarved ==
  rxEngine = "suspended" /\ ~BadFrames => rxFlag /\ (pc = "resume" \/ Complete(Head))

(* A frame sent while the engine is stopped takes every frame before it     *)
(* along.  One sent just before the flag is raised has to wait for it.      *)
TxResumes ==
  \A n \in 1..MaxSends :
    txPc = "resume" /\ txEngine = "suspended" /\ sent = n ~> wired >= n \/ overrun

-----------------------------------------------------------------------------
(* The inductive invariant behind ReadsItsFrame, SentInOrder and the ring. *)

(* From Head on, the descriptors of the frames not given back, then those   *)
(* the engine owns, from rxDma on.                                         *)
RxInv ==
  /\ Pending \in 0..RxN
  /\ rxDma = After(Head, Pending, RxN)
  /\ \A k \in 0..(RxN - 1) :
       /\ After(Head, k, RxN) \in rxOwn <=> k >= Pending
       /\ k < Pending => rxBuf[After(Head, k, RxN)] = given + 1 + k
  /\ pc = "give" => Pending > 0
  /\ rxEngine = "busy" => rxDma \in rxOwn /\ rxBuf[rxDma] = Partial /\ stored < MaxFrames
  /\ rxFlag => rxEngine = "suspended"
  /\ Holding => given > 0
  /\ ReadsItsFrame

(* An engine about to stop saw a ring with no descriptor of its own; at     *)
(* most one has been given back since.                                     *)
StopInv ==
  /\ rxEngine = "suspended" => rxFlag /\ Pending >= RxN - (IF pc = "resume" THEN 2 ELSE 1)
  /\ rxEngine = "late" => Pending >= RxN - (IF pc = "resume" THEN 1 ELSE 0)
  /\ rxEngine = "overdue" => pc = "handle" /\ Pending >= RxN - 1
  /\ BadFrames \/ bad = {}

TxPending == sent - wired

TxHead == IF txPc = "resume" THEN After(tx_desc, 1, TxN) ELSE tx_desc

(* From txDma on, the descriptors of the frames not yet sent.              *)
TxInv ==
  ~overrun =>
    /\ TxPending \in 0..TxN
    /\ TxHead = After(txDma, TxPending, TxN)
    /\ \A k \in 0..(TxN - 1) :
         /\ After(txDma, k, TxN) \in txOwn <=> k < TxPending
         /\ k < TxPending => txBuf[After(txDma, k, TxN)] = wired + 1 + k
    /\ txEngine = "busy" => txDma \in txOwn
    /\ txPc = "copy" => tx_desc \notin txOwn
    /\ onWire = wired

(* mac9260_send leaves its place in the command alone. *)
CopyBound == txPc = "copy" => sent < MaxSends

IInv == TypeOK /\ RxInv /\ StopInv /\ TxInv /\ CopyBound

-----------------------------------------------------------------------------
(* What NetReceive reads. *)
Held == IF ~Holding THEN Nothing
        ELSE IF rxBuf[rx_desc] = given THEN given ELSE Partial

Ring == INSTANCE FrameRing WITH N <- RxN, put <- stored, taken <- given, held <- Held

(* Reception is a ring of RxN buffers: no frame is skipped, handled twice   *)
(* or out of order, and every frame stored is handled.                     *)
ImplementsRing == Ring!FairSpec
=============================================================================
