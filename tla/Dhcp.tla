-------------------------------- MODULE Dhcp --------------------------------
(***************************************************************************)
(* The DHCP client (net/bootp.c with CFG_CMD_DHCP) driven by NetLoop, on a *)
(* board with one ethernet device, with several DHCP servers.              *)
(*                                                                         *)
(* The network loses, delays, reorders and duplicates: a reply may arrive  *)
(* any number of times once what it answers has been sent.  What follows a *)
(* lease (TftpStart) is reduced to its end.  A transaction number is the   *)
(* count of BootpRequest calls: BootpID grows with the time and two calls  *)
(* are seconds apart.                                                      *)
(***************************************************************************)
EXTENDS Integers

CONSTANTS
  Servers,
  Addrs,         \* addresses the servers lease
  Pool,          \* the addresses of each server
  TimeoutCount,  \* TIMEOUT_COUNT
  MaxTry,        \* bound: BootpTry after the first call of BootpRequest
  MaxID          \* bound: calls of BootpRequest

ASSUME DhcpAssumption ==
  /\ Pool \in [Servers -> SUBSET Addrs]
  /\ TimeoutCount \in Nat \ {0}
  /\ MaxTry \in Nat \ {0}
  /\ MaxID \in Nat \ {0}
  /\ 0 \notin Addrs

VARIABLES
  phase,            \* where NetLoop is
  NetState,
  packetHandler,
  timeHandler,
  dhcp_state,
  BootpID,          \* 0 is the transaction of an earlier command
  BootpTry,
  NetOurIP,
  NetDHCPServerIP,  \* 0 when none is known
  netretry,         \* environment variable of that name
  autoload,         \* environment variable of that name: "n" is FALSE
  requests,         \* the requests sent
  granted           \* those a server has acknowledged

loop == <<phase, NetState, packetHandler, timeHandler>>
client == <<dhcp_state, BootpID, BootpTry, NetOurIP, NetDHCPServerIP>>
env == <<netretry, autoload>>
sent == <<requests, granted>>
vars == <<phase, NetState, packetHandler, timeHandler, dhcp_state, BootpID, BootpTry,
          NetOurIP, NetDHCPServerIP, netretry, autoload, requests, granted>>

NoAddr == 0
Requests == [xid : 0..MaxID, server : Servers \cup {NoAddr}, addr : Addrs \cup {NoAddr}]
Request(x, s, a) == [xid |-> x, server |-> s, addr |-> a]

(* A reply goes to the broadcast address, or to the address it gives.       *)
Reply(t, x, s, a, b) == [type |-> t, xid |-> x, server |-> s, addr |-> a, broadcast |-> b]

(* The servers (external): each offers an address of its pool in every      *)
(* transaction, a BOOTP server without the DHCP options, and answers the    *)
(* requests that name it.  Transaction 0 is that of an earlier command.     *)
Offers ==
  {Reply(t, x, s, a, b) : t \in {"OFFER", "BOOTREPLY"}, x \in 0..BootpID, s \in Servers,
                          a \in Addrs, b \in BOOLEAN}
Acks == {Reply("ACK", r.xid, r.server, r.addr, b) : r \in granted, b \in BOOLEAN}
OldAcks == {Reply("ACK", 0, s, a, TRUE) : s \in Servers, a \in Addrs}
Naks == {Reply("NAK", r.xid, r.server, NoAddr, TRUE) : r \in requests}

(* What the network may deliver. *)
Replies == {m \in Offers : m.addr \in Pool[m.server]} \cup Acks \cup OldAcks \cup Naks

-----------------------------------------------------------------------------
(* What BootpRequest changes: a DISCOVER with a number of its own is sent.  *)
Discover ==
  /\ BootpID < MaxID
  /\ BootpTry' = BootpTry + 1
  /\ BootpID' = BootpID + 1
  /\ timeHandler' = "BootpTimeout"
  /\ dhcp_state' = "SELECTING"
  /\ packetHandler' = "DhcpHandler"

(* Mutant of BootpRequest: NetOurIP is cleared. *)
BootpRequestClears == Discover /\ NetOurIP' = NoAddr

(* BootpRequest, which leaves NetOurIP to its callers. *)
BootpRequest == Discover /\ UNCHANGED NetOurIP

(* NetStartAgain: with one device every start is the end of a round.  timer *)
(* is timeHandler when it is called.                                       *)
NetStartAgain(timer) ==
  IF netretry = "yes"
  THEN /\ timeHandler' = "startAgainTimeout"
       /\ packetHandler' = "startAgainHandler"
       /\ UNCHANGED NetState
  ELSE /\ NetState' = "FAIL"
       /\ timeHandler' = timer
       /\ UNCHANGED packetHandler

(* NetLoop, at "restart:" for the first time.  NetDHCPServerIP is what      *)
(* earlier commands left, and BootpTry one more: each dhcp command adds to  *)
(* it and none resets it, so it may be far above TimeoutCount.             *)
Init ==
  /\ phase = "rx"
  /\ NetState = "CONTINUE"
  /\ packetHandler = "DhcpHandler"
  /\ timeHandler = "BootpTimeout"
  /\ dhcp_state = "SELECTING"
  /\ BootpID = 1
  /\ BootpTry \in 1..MaxTry
  /\ NetOurIP = NoAddr
  /\ NetDHCPServerIP \in Servers \cup {NoAddr}
  /\ netretry \in {"no", "once", "yes"}
  /\ autoload \in BOOLEAN
  /\ requests = {} /\ granted = {}

-----------------------------------------------------------------------------
(* NetReceive: before an address is known every packet is for us.           *)
ForUs(m) == NetOurIP = NoAddr \/ m.broadcast \/ m.addr = NetOurIP

(* Mutant of BootpCheckPkt: the transaction is not compared. *)
BootpCheckPktAnyId(m) == TRUE

BootpCheckPkt(m) == m.xid = BootpID

Delivered(m) ==
  /\ phase = "rx" /\ packetHandler = "DhcpHandler"
  /\ BootpCheckPkt(m) /\ ForUs(m)

(* DhcpOptionsProcess: a reply of a BOOTP server has no server identifier.  *)
ServerID(m) == IF m.type = "BOOTREPLY" THEN NetDHCPServerIP ELSE m.server

(* DhcpHandler, SELECTING: whatever the packet is, it is taken for an offer *)
(* and its address for ours.                                               *)
Select(m) ==
  /\ Delivered(m) /\ dhcp_state = "SELECTING"
  /\ dhcp_state' = "REQUESTING"
  /\ NetDHCPServerIP' = ServerID(m)
  /\ NetOurIP' = m.addr
  /\ timeHandler' = "BootpTimeout"
  /\ requests' = requests \cup {Request(m.xid, ServerID(m), m.addr)}
  /\ UNCHANGED <<phase, NetState, packetHandler, BootpID, BootpTry, env, granted>>

(* Mutant of IsAck: DhcpMessageType is not called. *)
IsAckAny(m) == m.type # "NAK"

IsAck(m) == m.type = "ACK"

(* DhcpHandler, REQUESTING: then TftpStart, unless autoload is "n".         *)
Bind(m) ==
  /\ Delivered(m) /\ dhcp_state = "REQUESTING" /\ IsAck(m)
  /\ dhcp_state' = "BOUND"
  /\ NetDHCPServerIP' = ServerID(m)
  /\ NetOurIP' = m.addr
  /\ IF autoload
     THEN /\ packetHandler' = "TftpHandler"
          /\ timeHandler' = "TftpTimeout"
          /\ UNCHANGED NetState
     ELSE /\ NetState' = "SUCCESS"
          /\ UNCHANGED <<packetHandler, timeHandler>>
  /\ UNCHANGED <<phase, BootpID, BootpTry, env, sent>>

(* The transfer that was started succeeds, or is given up.                  *)
Transfer ==
  /\ packetHandler = "TftpHandler"
  /\ \/ phase = "rx" /\ NetState' = "SUCCESS" /\ UNCHANGED <<phase, packetHandler, timeHandler>>
     \/ phase = "rx" /\ NetStartAgain(timeHandler) /\ UNCHANGED phase
     \/ phase = "timers" /\ timeHandler = "TftpTimeout" /\ NetStartAgain("none") /\ phase' = "switch"
  /\ UNCHANGED <<client, env, sent>>

RxDone ==
  /\ phase = "rx"
  /\ phase' \in {"timers", "aborted"}
  /\ UNCHANGED <<NetState, packetHandler, timeHandler, client, env, sent>>

-----------------------------------------------------------------------------
(* Mutant of BootpTimeout: the test is left to BootpRequest. *)
BootpTimeoutNoLimit ==
  /\ phase = "timers" /\ timeHandler = "BootpTimeout"
  /\ BootpRequest /\ UNCHANGED NetState
  /\ phase' = "switch"
  /\ UNCHANGED <<NetDHCPServerIP, env, sent>>

BootpTimeout ==
  /\ phase = "timers" /\ timeHandler = "BootpTimeout"
  /\ IF BootpTry >= TimeoutCount
     THEN NetStartAgain("none") /\ UNCHANGED <<dhcp_state, BootpID, BootpTry, NetOurIP>>
     ELSE BootpRequest /\ UNCHANGED NetState
  /\ phase' = "switch"
  /\ UNCHANGED <<NetDHCPServerIP, env, sent>>

StartAgainTimeout ==
  /\ phase = "timers" /\ timeHandler = "startAgainTimeout"
  /\ timeHandler' = "none"
  /\ NetState' = "RESTART"
  /\ phase' = "switch"
  /\ UNCHANGED <<packetHandler, client, env, sent>>

NoTimeout ==
  /\ phase = "timers"
  /\ phase' = "switch"
  /\ UNCHANGED <<NetState, packetHandler, timeHandler, client, env, sent>>

(* switch (NetState) *)
Continue ==
  /\ phase = "switch" /\ NetState = "CONTINUE"
  /\ phase' = "rx"
  /\ UNCHANGED <<NetState, packetHandler, timeHandler, client, env, sent>>

(* NetLoop from "restart:" on, in the order of the code: the address is     *)
(* cleared, BootpTry is not.                                               *)
Restart ==
  /\ phase = "switch" /\ NetState = "RESTART"
  /\ NetState' = "CONTINUE"
  /\ Discover
  /\ NetOurIP' = NoAddr
  /\ phase' = "rx"
  /\ UNCHANGED <<NetDHCPServerIP, env, sent>>

Return ==
  /\ phase = "switch" /\ NetState \in {"SUCCESS", "FAIL"}
  /\ phase' = "done"
  /\ UNCHANGED <<NetState, packetHandler, timeHandler, client, env, sent>>

-----------------------------------------------------------------------------
(* The server named in r leases its address to us (external).              *)
Grant(r) ==
  /\ r.server # NoAddr /\ r.addr \in Pool[r.server]
  /\ granted' = granted \cup {r}
  /\ UNCHANGED <<loop, client, env, requests>>

Receive == \E m \in Replies : Select(m) \/ Bind(m)
Timers == BootpTimeout \/ StartAgainTimeout \/ NoTimeout
Switch == Continue \/ Restart \/ Return
Server == \E r \in requests : Grant(r)

Next == Receive \/ Transfer \/ RxDone \/ Timers \/ Switch \/ Server

Spec == Init /\ [][Next]_vars

(* The loop keeps running, a timer that is waited for expires in some pass, *)
(* and a transfer comes to an end.                                         *)
FairSpec ==
  /\ Spec
  /\ WF_vars(RxDone) /\ WF_vars(Timers) /\ WF_vars(Switch)
  /\ SF_vars(BootpTimeout) /\ SF_vars(StartAgainTimeout) /\ SF_vars(Transfer)

-----------------------------------------------------------------------------
(* Types of all variables.  However many commands BootpTry has counted, a   *)
(* second DISCOVER is sent only below the limit, unless NetLoop starts      *)
(* again: a command sends TimeoutCount of them at most, and just one with a *)
(* count left over at the limit (BootpTimeout, BootpRequest).              *)
TypeOK ==
  /\ phase \in {"rx", "timers", "switch", "done", "aborted"}
  /\ NetState \in {"CONTINUE", "RESTART", "SUCCESS", "FAIL"}
  /\ packetHandler \in {"DhcpHandler", "TftpHandler", "startAgainHandler"}
  /\ timeHandler \in {"BootpTimeout", "TftpTimeout", "startAgainTimeout", "none"}
  /\ dhcp_state \in {"SELECTING", "REQUESTING", "BOUND"}
  /\ BootpID \in 1..MaxID
  /\ BootpTry \in Nat /\ BootpTry >= BootpID
  /\ netretry # "yes" /\ BootpID > 1 => BootpTry <= TimeoutCount
  /\ NetOurIP \in Addrs \cup {NoAddr}
  /\ NetDHCPServerIP \in Servers \cup {NoAddr}
  /\ netretry \in {"no", "once", "yes"}
  /\ autoload \in BOOLEAN
  /\ requests \subseteq Requests /\ granted \subseteq requests

(* The addresses leased to us in transaction x. *)
Granted(x) == {r.addr : r \in {q \in granted : q.xid = x}}

(* "DHCP client bound to address": the address is the one a server has      *)
(* leased in this transaction, and no other was, whatever offers and        *)
(* replies come late, twice or from several servers (DhcpHandler).          *)
BoundToGrant == dhcp_state = "BOUND" => Granted(BootpID) = {NetOurIP}

(* A dhcp command that reports success leaves the board with an address     *)
(* leased to it, even when BootpTimeout runs in the pass the lease came in. *)
SuccessHasLease ==
  NetState = "SUCCESS" => \E x \in 1..BootpID : NetOurIP \in Granted(x)

(* Unless netretry is "yes" a dhcp command comes back, even if no server    *)
(* ever answers (BootpTimeout).                                            *)
Returns == netretry # "yes" ~> phase \in {"done", "aborted"}

-----------------------------------------------------------------------------
(* One request at most is sent in a transaction, and none before an offer   *)
(* is selected; its address is ours until the next transaction.             *)
RequestInv ==
  /\ \A r \in requests : r.xid \in 1..BootpID
  /\ dhcp_state = "SELECTING" => \A r \in requests : r.xid # BootpID
  /\ dhcp_state # "SELECTING" => \A r \in requests : r.xid = BootpID => r.addr = NetOurIP
  /\ dhcp_state = "BOUND" => \E r \in granted : r.xid = BootpID

(* Who may have reported success, and what only netretry=yes leads to.      *)
LoopInv ==
  /\ packetHandler = "TftpHandler" => dhcp_state = "BOUND"
  /\ NetState = "SUCCESS" /\ phase \in {"rx", "timers"} => dhcp_state = "BOUND"
  /\ NetState = "RESTART" \/ timeHandler = "startAgainTimeout" => netretry = "yes"

(* The inductive invariant behind TypeOK, BoundToGrant and SuccessHasLease. *)
IInv == TypeOK /\ RequestInv /\ LoopInv /\ SuccessHasLease
=============================================================================
