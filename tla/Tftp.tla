-------------------------------- MODULE Tftp --------------------------------
(***************************************************************************)
(* A TFTP load: net/tftp.c driven by the reception loop of NetLoop         *)
(* (net/net.c), with a TFTP server and a network that loses, duplicates,   *)
(* delays and reorders packets.                                            *)
(*                                                                         *)
(* The network is the set of packets ever sent: a packet in it may be      *)
(* delivered any number of times, or never.  A retransmission adds nothing *)
(* to it.  ARP is not modelled here: a packet waiting for an ARP reply is  *)
(* one not delivered yet.  The server of a session is its UDP port (tid).  *)
(*                                                                         *)
(* A block of the image is its number.  Sizes are in half blocks, so that  *)
(* the last block is shorter than the others.                              *)
(***************************************************************************)
EXTENDS Integers

CONSTANTS
  FileBlocks,    \* DATA packets of the file, the last one short
  LastLen,       \* length of the last one: 0 or 1 half block
  SeqSize,       \* TFTP_SEQUENCE_SIZE
  TimeoutCount,  \* TIMEOUT_COUNT
  Ports,         \* the values TftpOurPort takes in this command
  PortsReused,   \* whether two starts of the command may take the same
  StalePorts,    \* those it had in earlier commands whose packets still arrive
  Tids,          \* server ports, one per read request the server accepts
  OldTid,        \* the server port of an earlier command
  WellKnownPort, \* WELL_KNOWN_PORT
  TimerRuns      \* whether get_timer of the board advances

ASSUME TftpAssumption ==
  /\ FileBlocks \in Nat \ {0}
  /\ LastLen \in {0, 1}
  /\ SeqSize \in Nat \ {0, 1}
  /\ TimeoutCount \in Nat
  /\ OldTid \notin Tids /\ WellKnownPort \notin Tids
  /\ PortsReused \in BOOLEAN
  /\ TimerRuns \in BOOLEAN

VARIABLES
  phase,                \* where NetLoop is, see Phases
  NetState,
  packetHandler,
  timeHandler,
  TftpState,
  TftpServerPort,
  TftpOurPort,
  TftpTimeoutCount,
  TftpBlock,
  TftpLastBlock,
  TftpBlockWrapOffset,  \* in blocks
  NetBootFileXferSize,
  mem,                  \* the blocks stored from load_addr on, by their place
  netretry,             \* environment variable of that name
  net,                  \* the packets sent
  server,               \* the server's side of each session it accepted
  used,                 \* history: the ports TftpStart has taken
  again                 \* history: NetStartAgain called since TftpStart

loop == <<phase, NetState, packetHandler, timeHandler, netretry, again>>
client == <<TftpState, TftpServerPort, TftpOurPort, TftpTimeoutCount, TftpBlock>>
image == <<TftpLastBlock, TftpBlockWrapOffset, NetBootFileXferSize, mem>>
vars == <<phase, NetState, packetHandler, timeHandler, TftpState, TftpServerPort,
          TftpOurPort, TftpTimeoutCount, TftpBlock, TftpLastBlock,
          TftpBlockWrapOffset, NetBootFileXferSize, mem, netretry, net, server,
          used, again>>

Phases == {"rx", "timers", "switch", "done", "aborted"}
FullLen == 2
FileSize == (FileBlocks - 1) * FullLen + LastLen

RRQ(p) == [type |-> "RRQ", port |-> p]
OACK(p, t) == [type |-> "OACK", port |-> p, tid |-> t]
ERROR(p, t) == [type |-> "ERROR", port |-> p, tid |-> t]
ACK(p, t, n) == [type |-> "ACK", port |-> p, tid |-> t, num |-> n]
(* A DATA packet carries the sequence number, the block and its length.     *)
DATA(p, t, n, b, l) ==
  [type |-> "DATA", port |-> p, tid |-> t, num |-> n, block |-> b, len |-> l]

Messages ==
  [type : {"RRQ"}, port : Ports]
    \cup [type : {"OACK", "ERROR"}, port : Ports, tid : Tids \cup {OldTid}]
    \cup [type : {"ACK"}, port : Ports, tid : Tids \cup {OldTid, WellKnownPort}, num : Nat]
    \cup [type : {"DATA"}, port : Ports \cup StalePorts, tid : Tids \cup {OldTid},
          num : Nat, block : 0..FileBlocks, len : 0..FullLen]

BlockLen(b) == IF b = FileBlocks THEN LastLen ELSE FullLen

(* Block b of the file, as the server sends it.                             *)
FileData(p, t, b) == DATA(p, t, b % SeqSize, b, BlockLen(b))

(* The packets of an earlier transfer, of another file as long: block 0 is  *)
(* none of the file's.                                                      *)
StaleData == {DATA(p, OldTid, n, 0, BlockLen(n)) : p \in StalePorts, n \in 1..FileBlocks}

-----------------------------------------------------------------------------
(* TftpSend, for the states that occur.                                     *)
TftpSend(state, tid, port, block) ==
  net' = net \cup {IF state = "RRQ" THEN RRQ(port) ELSE ACK(port, tid, block)}

(* NetStartAgain: give up ("no"), start again at once on another device, or *)
(* wait first when every device has been tried, unless "once".  handler is  *)
(* what timeHandler is when it is called.                                   *)
NetStartAgain(handler) ==
  /\ again' = TRUE
  /\ IF netretry = "no"
     THEN NetState' = "FAIL" /\ timeHandler' = handler /\ UNCHANGED packetHandler
     ELSE \E NetRestartWrap \in BOOLEAN :
            IF ~NetRestartWrap
            THEN NetState' = "RESTART" /\ timeHandler' = handler /\ UNCHANGED packetHandler
            ELSE IF netretry = "once"
            THEN NetState' = "FAIL" /\ timeHandler' = handler /\ UNCHANGED packetHandler
            ELSE /\ timeHandler' = "startAgainTimeout"
                 /\ packetHandler' = "startAgainHandler"
                 /\ UNCHANGED NetState

(* TftpStart and what NetLoop does around it at "restart:".                 *)
TftpStart(p) ==
  /\ NetState' = "CONTINUE"
  /\ packetHandler' = "TftpHandler"
  /\ timeHandler' = "TftpTimeout"
  /\ TftpServerPort' = WellKnownPort
  /\ TftpTimeoutCount' = 0
  /\ TftpState' = "RRQ"
  /\ TftpOurPort' = p
  /\ TftpBlock' = 0
  /\ NetBootFileXferSize' = 0
  /\ TftpSend("RRQ", WellKnownPort, p, 0)
  /\ used' = used \cup {p}
  /\ again' = FALSE

Init ==
  \E p \in Ports :
    /\ phase = "rx"
    /\ NetState = "CONTINUE"
    /\ packetHandler = "TftpHandler"
    /\ timeHandler = "TftpTimeout"
    /\ TftpState = "RRQ"
    /\ TftpServerPort = WellKnownPort
    /\ TftpOurPort = p
    /\ TftpTimeoutCount = 0
    /\ TftpBlock = 0
    /\ TftpLastBlock = 0
    /\ TftpBlockWrapOffset = 0
    /\ NetBootFileXferSize = 0
    /\ mem = [b \in {} |-> 0]
    /\ netretry \in {"no", "once", "yes"}
    /\ net = StaleData \cup {RRQ(p)}
    /\ server = [t \in {} |-> 0]
    /\ used = {p}
    /\ again = FALSE

-----------------------------------------------------------------------------
(* eth_rx: the packets received so far, one after the other.                *)

(* Mutant of Accepts: the destination port is not compared. *)
AcceptsAnyPort(m) ==
  /\ packetHandler = "TftpHandler"
  /\ TftpState = "RRQ" \/ m.tid = TftpServerPort

(* The packets the installed handler looks at.                              *)
Accepts(m) ==
  /\ packetHandler = "TftpHandler"
  /\ m.port = TftpOurPort
  /\ TftpState = "RRQ" \/ m.tid = TftpServerPort

ReceiveOACK(m) ==
  /\ phase = "rx" /\ m.type = "OACK" /\ Accepts(m)
  /\ TftpState' = "OACK"
  /\ TftpServerPort' = m.tid
  /\ TftpSend("OACK", m.tid, TftpOurPort, TftpBlock)
  /\ UNCHANGED <<loop, TftpOurPort, TftpTimeoutCount, TftpBlock, image, server, used>>

(* Mutant of Place: store_block is called with TftpBlock. *)
PlaceOneFurther(n, offset) == n + 1 + offset

(* The place in memory, counted from 1, of a block numbered n.  On a 32-bit *)
(* ulong n - 1 = -1 for n = 0 is the block before the wrapped ones.         *)
Place(n, offset) == n + offset

(* store_block *)
StoreBlock(n, offset, m) ==
  LET a == Place(n, offset)
      newsize == (a - 1) * FullLen + m.len
  IN /\ mem' = [b \in DOMAIN mem \cup {a} |-> IF b = a THEN m.block ELSE mem[b]]
     /\ NetBootFileXferSize' =
          IF NetBootFileXferSize < newsize THEN newsize ELSE NetBootFileXferSize

(* TFTP_DATA.  In STATE_RRQ and STATE_OACK the block is the first.          *)
ReceiveDATA(m) ==
  /\ phase = "rx" /\ m.type = "DATA" /\ Accepts(m)
  /\ TftpBlock' = m.num
  /\ LET first == TftpState \in {"RRQ", "OACK"}
         last == IF first THEN 0 ELSE TftpLastBlock
         offset == IF first THEN 0
                   ELSE IF m.num = 0 THEN TftpBlockWrapOffset + SeqSize
                   ELSE TftpBlockWrapOffset
     IN /\ TftpState' = "DATA"
        /\ TftpServerPort' = m.tid
        /\ TftpBlockWrapOffset' = offset
        /\ IF first /\ m.num # 1
           THEN /\ NetStartAgain(timeHandler)
                /\ TftpLastBlock' = 0
                /\ UNCHANGED <<NetBootFileXferSize, mem, net>>
           ELSE IF m.num = last
           THEN /\ TftpLastBlock' = last
                /\ UNCHANGED <<NetState, packetHandler, timeHandler, again,
                               NetBootFileXferSize, mem, net>>
           ELSE /\ TftpLastBlock' = m.num
                /\ timeHandler' = "TftpTimeout"
                /\ StoreBlock(m.num, offset, m)
                /\ TftpSend("DATA", m.tid, TftpOurPort, m.num)
                /\ NetState' = IF m.len < FullLen THEN "SUCCESS" ELSE NetState
                /\ UNCHANGED <<packetHandler, again>>
  /\ UNCHANGED <<phase, netretry, TftpOurPort, TftpTimeoutCount, server, used>>

ReceiveERROR(m) ==
  /\ phase = "rx" /\ m.type = "ERROR" /\ Accepts(m)
  /\ NetStartAgain(timeHandler)
  /\ UNCHANGED <<phase, netretry, client, image, net, server, used>>

(* No more packets: eth_rx returns and ctrlc() says no, or yes.             *)
RxDone ==
  /\ phase = "rx"
  /\ phase' = "timers"
  /\ UNCHANGED <<NetState, packetHandler, timeHandler, netretry, again, client, image,
                 net, server, used>>

Abort ==
  /\ phase = "rx"
  /\ phase' = "aborted"
  /\ UNCHANGED <<NetState, packetHandler, timeHandler, netretry, again, client, image,
                 net, server, used>>

-----------------------------------------------------------------------------
(* Mutants of TftpTimeout: the old count is compared; the timer is not armed *)
(* again.  *)
TftpTimeoutOnceMore ==
  /\ phase = "timers" /\ TimerRuns /\ timeHandler = "TftpTimeout"
  /\ TftpTimeoutCount' = TftpTimeoutCount + 1
  /\ IF TftpTimeoutCount > TimeoutCount
     THEN NetStartAgain("none") /\ UNCHANGED net
     ELSE /\ timeHandler' = "TftpTimeout"
          /\ TftpSend(TftpState, TftpServerPort, TftpOurPort, TftpBlock)
          /\ UNCHANGED <<NetState, packetHandler, again>>
  /\ phase' = "switch"
  /\ UNCHANGED <<netretry, TftpState, TftpServerPort, TftpOurPort, TftpBlock, image,
                 server, used>>

TftpTimeoutNotRearmed ==
  /\ phase = "timers" /\ TimerRuns /\ timeHandler = "TftpTimeout"
  /\ TftpTimeoutCount' = TftpTimeoutCount + 1
  /\ timeHandler' = "none"
  /\ IF TftpTimeoutCount' > TimeoutCount
     THEN NetStartAgain("none") /\ UNCHANGED net
     ELSE /\ TftpSend(TftpState, TftpServerPort, TftpOurPort, TftpBlock)
          /\ UNCHANGED <<NetState, packetHandler, again>>
  /\ phase' = "switch"
  /\ UNCHANGED <<netretry, TftpState, TftpServerPort, TftpOurPort, TftpBlock, image,
                 server, used>>

(* NetLoop calls the handler of a timer that has expired, having cleared    *)
(* timeHandler.                                                             *)
TftpTimeout ==
  /\ phase = "timers" /\ TimerRuns /\ timeHandler = "TftpTimeout"
  /\ TftpTimeoutCount' = TftpTimeoutCount + 1
  /\ IF TftpTimeoutCount' > TimeoutCount
     THEN NetStartAgain("none") /\ UNCHANGED net
     ELSE /\ timeHandler' = "TftpTimeout"
          /\ TftpSend(TftpState, TftpServerPort, TftpOurPort, TftpBlock)
          /\ UNCHANGED <<NetState, packetHandler, again>>
  /\ phase' = "switch"
  /\ UNCHANGED <<netretry, TftpState, TftpServerPort, TftpOurPort, TftpBlock, image,
                 server, used>>

StartAgainTimeout ==
  /\ phase = "timers" /\ TimerRuns /\ timeHandler = "startAgainTimeout"
  /\ timeHandler' = "none"
  /\ NetState' = "RESTART"
  /\ phase' = "switch"
  /\ UNCHANGED <<packetHandler, netretry, again, client, image, net, server, used>>

NoTimeout ==
  /\ phase = "timers"
  /\ phase' = "switch"
  /\ UNCHANGED <<NetState, packetHandler, timeHandler, netretry, again, client, image,
                 net, server, used>>

(* switch (NetState) *)
Continue ==
  /\ phase = "switch" /\ NetState = "CONTINUE"
  /\ phase' = "rx"
  /\ UNCHANGED <<NetState, packetHandler, timeHandler, netretry, again, client, image,
                 net, server, used>>

(* TftpOurPort is the time since start modulo 3072.                         *)
NextPorts == IF PortsReused THEN Ports ELSE Ports \ used

Restart ==
  /\ phase = "switch" /\ NetState = "RESTART"
  /\ \E p \in NextPorts : TftpStart(p)
  /\ phase' = "rx"
  /\ UNCHANGED <<TftpLastBlock, TftpBlockWrapOffset, mem, netretry, server>>

Return ==
  /\ phase = "switch" /\ NetState \in {"SUCCESS", "FAIL"}
  /\ phase' = "done"
  /\ UNCHANGED <<NetState, packetHandler, timeHandler, netretry, again, client, image,
                 net, server, used>>

-----------------------------------------------------------------------------
(* The server (external): every read request it receives, a retransmitted   *)
(* one too, opens a session on a port of its own, with or without the       *)
(* options acknowledged.  Lost packets are resent, which adds nothing.      *)
ServerAccept(m, t) ==
  /\ m.type = "RRQ" /\ t \notin DOMAIN server
  /\ \E oack \in BOOLEAN :
       LET sent == IF oack THEN 0 ELSE 1
       IN /\ server' = [u \in DOMAIN server \cup {t} |->
                          IF u = t THEN [port |-> m.port, sent |-> sent] ELSE server[u]]
          /\ net' = net \cup {IF oack THEN OACK(m.port, t) ELSE FileData(m.port, t, 1)}
  /\ UNCHANGED <<loop, client, image, used>>

(* The block sent last has been acknowledged: send the next. *)
ServerSend(m) ==
  /\ m.type = "ACK" /\ m.tid \in DOMAIN server
  /\ LET s == server[m.tid]
     IN /\ m.port = s.port /\ m.num = s.sent % SeqSize /\ s.sent < FileBlocks
        /\ server' = [server EXCEPT ![m.tid].sent = s.sent + 1]
        /\ net' = net \cup {FileData(s.port, m.tid, s.sent + 1)}
  /\ UNCHANGED <<loop, client, image, used>>

ServerError(t) ==
  /\ t \in DOMAIN server
  /\ net' = net \cup {ERROR(server[t].port, t)}
  /\ UNCHANGED <<loop, client, image, server, used>>

-----------------------------------------------------------------------------
Receive == \E m \in net : ReceiveOACK(m) \/ ReceiveDATA(m) \/ ReceiveERROR(m)
Timers == TftpTimeout \/ StartAgainTimeout \/ NoTimeout
Switch == Continue \/ Restart \/ Return
Server == \E m \in net : (\E t \in Tids : ServerAccept(m, t)) \/ ServerSend(m)

Next == Receive \/ RxDone \/ Abort \/ Timers \/ Switch \/ Server \/ \E t \in Tids : ServerError(t)

Spec == Init /\ [][Next]_vars

(* The loop keeps running, and a timer that is waited for expires in some   *)
(* pass: the network does not repeat new blocks without end.                *)
Fairness ==
  /\ WF_vars(RxDone) /\ WF_vars(Timers) /\ WF_vars(Switch)
  /\ SF_vars(TftpTimeout) /\ SF_vars(StartAgainTimeout)

FairSpec == Spec /\ Fairness

-----------------------------------------------------------------------------
(* Types of all variables.  TftpTimeout stops counting at the limit. *)
TypeOK ==
  /\ phase \in Phases
  /\ NetState \in {"CONTINUE", "RESTART", "SUCCESS", "FAIL"}
  /\ packetHandler \in {"TftpHandler", "startAgainHandler"}
  /\ timeHandler \in {"TftpTimeout", "startAgainTimeout", "none"}
  /\ TftpState \in {"RRQ", "OACK", "DATA"}
  /\ TftpServerPort \in Tids \cup {OldTid, WellKnownPort}
  /\ TftpOurPort \in Ports
  /\ TftpTimeoutCount \in 0..(TimeoutCount + 1)
  /\ TftpBlock \in Nat
  /\ TftpLastBlock \in Nat
  /\ TftpBlockWrapOffset \in Nat
  /\ NetBootFileXferSize \in Nat
  /\ DOMAIN mem \subseteq Nat
  /\ \A b \in DOMAIN mem : mem[b] \in 0..FileBlocks
  /\ netretry \in {"no", "once", "yes"}
  /\ net \subseteq Messages
  /\ DOMAIN server \subseteq Tids
  /\ \A t \in DOMAIN server : server[t] \in [port : Ports, sent : 0..FileBlocks]
  /\ used \subseteq Ports
  /\ again \in BOOLEAN

Stored == {b \in DOMAIN mem : mem[b] = b}
Complete == 1..FileBlocks \subseteq Stored /\ NetBootFileXferSize = FileSize

(* NetLoop reports success only with every block of the file in its place   *)
(* and the size of the file in filesize, whatever the network does, as long *)
(* as every start takes a port of its own (~PortsReused).  Left out is a    *)
(* transfer given up in this burst with "Starting again": its handler       *)
(* stays, and the packets after that one may still complete it.             *)
Loaded == NetState = "SUCCESS" /\ ~again => Complete

(* A block is acknowledged only when it and all before it are in memory:    *)
(* the server never drops what the client still lacks (TftpHandler); with   *)
(* the same two exceptions.                                                 *)
AckedAreStored ==
  \A m \in net : m.type = "ACK" /\ m.port = TftpOurPort /\ ~again => 1..m.num \subseteq Stored

(* What is in its place stays there: no late packet, duplicate or restart   *)
(* overwrites it with anything else (store_block).                          *)
NeverOverwritten == [][Stored \subseteq Stored']_vars

(* With netretry set to "no" the command either succeeds or fails: it comes *)
(* back, even if no server ever answers (TftpTimeout, NetStartAgain).       *)
Returns == netretry = "no" ~> phase \in {"done", "aborted"}

-----------------------------------------------------------------------------
(* The inductive invariant behind Loaded and AckedAreStored, for a file of  *)
(* fewer than SeqSize blocks and ports no older packet is addressed to.     *)

(* Once the retries are used up only TftpStart arms TftpTimeout again. *)
CountInv ==
  TftpTimeoutCount > TimeoutCount =>
    /\ timeHandler # "TftpTimeout"
    /\ packetHandler = "TftpHandler" => phase \in {"switch", "done"} /\ NetState # "CONTINUE"

(* What is stored is where it belongs. *)
MemInv ==
  /\ DOMAIN mem = Stored
  /\ Stored \subseteq 1..FileBlocks
  /\ TftpBlockWrapOffset = 0
  /\ NetBootFileXferSize <= FileSize

(* Packets and sessions of any start of the transfer. *)
SentInv ==
  /\ TftpOurPort \in used
  /\ \A m \in net : m.port \in used \cup StalePorts
  /\ \A m \in net : m.type = "DATA" /\ m.port \in used =>
       m.num = m.block /\ m.num \in 1..FileBlocks /\ m.len = BlockLen(m.num)
  /\ \A t \in DOMAIN server : server[t].port \in used

(* Packets and sessions of this start: the server is at most one block      *)
(* ahead of what is stored, and so is every DATA packet.                    *)
SessionInv ==
  ~again =>
    /\ \A m \in net : m.port = TftpOurPort /\ m.type = "DATA" => 1..(m.num - 1) \subseteq Stored
    /\ \A m \in net : m.port = TftpOurPort /\ m.type = "ACK" => 1..m.num \subseteq Stored
    /\ \A t \in DOMAIN server :
         server[t].port = TftpOurPort => 1..(server[t].sent - 1) \subseteq Stored

ClientInv ==
  ~again =>
    /\ 1..TftpBlock \subseteq Stored
    /\ TftpState = "DATA" => 1..TftpLastBlock \subseteq Stored

IInv == TypeOK /\ CountInv /\ MemInv /\ SentInv /\ SessionInv /\ ClientInv /\ Loaded

-----------------------------------------------------------------------------
(* The load, as the user of the command sees it.  "Starting again" disturbs *)
(* it until TftpStart.                                                     *)
LoadStatus ==
  IF phase = "aborted" \/ (phase = "done" /\ NetState # "SUCCESS") THEN "ended"
  ELSE IF again THEN IF phase = "done" THEN "ended" ELSE "disturbed"
  ELSE IF phase = "done" THEN "loaded" ELSE "loading"

Transfer == INSTANCE Load WITH
  Size <- FileBlocks, TakesBack <- FALSE, stored <- Stored, status <- LoadStatus

(* Blocks come to memory in order, none is lost over retries and restarts,  *)
(* and success is reported with all of them there (TftpHandler, NetLoop).   *)
ImplementsLoad == Transfer!Spec
=============================================================================
