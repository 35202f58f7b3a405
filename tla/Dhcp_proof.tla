----------------------------- MODULE Dhcp_proof -----------------------------
(***************************************************************************)
(* Proofs about Dhcp, for any servers and addresses, any retry count and   *)
(* any replies: types, that the address the client ends up with is the one *)
(* a server has leased to it, and that success is reported with a lease.   *)
(***************************************************************************)
EXTENDS Dhcp, TLAPS

(* A reply that DhcpHandler looks at is of this transaction, and an         *)
(* acknowledgement among them is of a request that was granted.             *)
LEMMA ReplyLemma ==
  ASSUME TypeOK, NEW m \in Replies, BootpCheckPkt(m)
  PROVE  /\ m.xid = BootpID
         /\ m.addr \in Addrs \cup {NoAddr}
         /\ m.server \in Servers \cup {NoAddr}
         /\ IsAck(m) => \E r \in granted : r.xid = BootpID /\ r.addr = m.addr
  <1>0. BootpID \in 1..MaxID /\ requests \subseteq Requests /\ granted \subseteq requests
    BY DEF TypeOK
  <1>1. m.xid = BootpID
    BY DEF BootpCheckPkt
  <1>2. CASE m \in Offers
    BY <1>1, <1>2 DEF Offers, Reply, IsAck
  <1>3. CASE m \in Acks
    <2>1. PICK r \in granted, b \in BOOLEAN : m = Reply("ACK", r.xid, r.server, r.addr, b)
      BY <1>3 DEF Acks
    <2>2. r \in Requests
      BY <1>0, <2>1
    <2> QED
      BY <1>1, <2>1, <2>2 DEF Requests, Reply
  <1>4. CASE m \in OldAcks
    <2>1. m.xid = 0
      BY <1>4 DEF OldAcks, Reply
    <2> QED
      BY <1>0, <1>1, <2>1, DhcpAssumption
  <1>5. CASE m \in Naks
    <2>1. PICK r \in requests : m = Reply("NAK", r.xid, r.server, NoAddr, TRUE)
      BY <1>5 DEF Naks
    <2>2. r \in Requests
      BY <1>0, <2>1
    <2> QED
      BY <1>1, <2>1, <2>2 DEF Requests, Reply, IsAck
  <1>6. m \in Offers \/ m \in Acks \/ m \in OldAcks \/ m \in Naks
    BY Zenon DEF Replies
  <1> QED
    BY <1>2, <1>3, <1>4, <1>5, <1>6

(* NetStartAgain leaves well-typed state, and only netretry=yes waits. *)
LEMMA StartAgainLemma ==
  ASSUME TypeOK, LoopInv, NEW timer, timer \in {timeHandler, "none"}, NetStartAgain(timer),
         UNCHANGED netretry
  PROVE  /\ NetState' \in {NetState, "FAIL"}
         /\ packetHandler' \in {packetHandler, "startAgainHandler"}
         /\ timeHandler' \in {timeHandler, "none", "startAgainTimeout"}
         /\ NetState' = "RESTART" \/ timeHandler' = "startAgainTimeout" => netretry' = "yes"
  <1>1. CASE netretry = "yes"
    BY <1>1 DEF NetStartAgain
  <1>2. CASE netretry # "yes"
    BY <1>2 DEF NetStartAgain, LoopInv
  <1> QED
    BY <1>1, <1>2

(* A DISCOVER opens a transaction no request belongs to. *)
LEMMA DiscoverLemma ==
  ASSUME IInv, Discover, UNCHANGED <<netretry, requests, granted>>
  PROVE  /\ BootpID' \in 1..MaxID
         /\ BootpTry' \in Nat /\ BootpTry' >= BootpID'
         /\ RequestInv'
  <1>0. /\ BootpID \in 1..MaxID /\ MaxID \in Nat
        /\ BootpTry \in Nat /\ BootpTry >= BootpID
    BY DhcpAssumption DEF IInv, TypeOK
  <1>1. BootpID' = BootpID + 1 /\ BootpTry' = BootpTry + 1 /\ BootpID < MaxID
    BY DEF Discover
  <1>2. dhcp_state' = "SELECTING"
    BY DEF Discover
  <1>3. \A r \in requests : r.xid \in 1..BootpID
    BY DEF IInv, RequestInv
  <1>4. \A r \in requests : r.xid \in 1..BootpID' /\ r.xid # BootpID'
    BY <1>0, <1>1, <1>3
  <1>5. RequestInv'
    BY <1>2, <1>4 DEF RequestInv
  <1> QED
    BY <1>0, <1>1, <1>5

-----------------------------------------------------------------------------
LEMMA InitLemma == Init => IInv
  <1> SUFFICES ASSUME Init PROVE IInv
    OBVIOUS
  <1>1. TypeOK
    BY DhcpAssumption DEF Init, TypeOK
  <1>2. RequestInv
    BY DEF Init, RequestInv
  <1>3. LoopInv /\ SuccessHasLease
    BY DhcpAssumption DEF Init, LoopInv, SuccessHasLease
  <1> QED
    BY <1>1, <1>2, <1>3 DEF IInv

(* A selected offer is answered by the only request of its transaction. *)
LEMMA SelectLemma ==
  ASSUME IInv, NEW m \in Replies, Select(m)
  PROVE  IInv'
  <1>0. TypeOK /\ RequestInv /\ LoopInv /\ SuccessHasLease
    BY DEF IInv
  <1>1. /\ m.xid = BootpID /\ m.addr \in Addrs \cup {NoAddr} /\ m.server \in Servers \cup {NoAddr}
    BY <1>0, ReplyLemma DEF Select, Delivered
  <1>2. ServerID(m) \in Servers \cup {NoAddr}
    BY <1>0, <1>1 DEF ServerID, TypeOK
  <1>3. /\ dhcp_state = "SELECTING" /\ phase = "rx" /\ packetHandler = "DhcpHandler"
        /\ dhcp_state' = "REQUESTING" /\ NetDHCPServerIP' = ServerID(m) /\ NetOurIP' = m.addr
        /\ timeHandler' = "BootpTimeout"
        /\ requests' = requests \cup {Request(BootpID, ServerID(m), m.addr)}
        /\ UNCHANGED <<phase, NetState, packetHandler, BootpID, BootpTry, netretry, autoload, granted>>
    BY <1>1 DEF Select, Delivered, env
  <1>4. BootpID \in 1..MaxID /\ MaxID \in Nat
    BY <1>0, DhcpAssumption DEF TypeOK
  <1>5. Request(BootpID, ServerID(m), m.addr) \in Requests
    BY <1>1, <1>2, <1>4 DEF Request, Requests
  <1>6. TypeOK'
    <2>1. requests' \subseteq Requests /\ granted' \subseteq requests'
      BY <1>0, <1>3, <1>5 DEF TypeOK
    <2> QED
      BY <1>0, <1>1, <1>2, <1>3, <2>1 DEF TypeOK
  <1>7. RequestInv'
    <2>1. \A r \in requests : r.xid \in 1..BootpID /\ r.xid # BootpID
      BY <1>0, <1>3 DEF RequestInv
    <2>2. \A r \in requests' : r.xid \in 1..BootpID /\ (r.xid = BootpID => r.addr = m.addr)
      BY <1>3, <1>4, <2>1 DEF Request
    <2> QED
      BY <1>3, <2>2 DEF RequestInv
  <1>8. LoopInv' /\ NetState' # "SUCCESS"
    BY <1>0, <1>3 DEF LoopInv
  <1> QED
    BY <1>6, <1>7, <1>8 DEF IInv, SuccessHasLease

(* The acknowledgement that is accepted is of that request. *)
LEMMA BindLemma ==
  ASSUME IInv, NEW m \in Replies, Bind(m)
  PROVE  IInv'
  <1>0. TypeOK /\ RequestInv /\ LoopInv /\ SuccessHasLease
    BY DEF IInv
  <1>1. /\ m.addr \in Addrs \cup {NoAddr} /\ m.server \in Servers \cup {NoAddr}
        /\ \E r \in granted : r.xid = BootpID /\ r.addr = m.addr
    BY <1>0, ReplyLemma DEF Bind, Delivered
  <1>2. ServerID(m) \in Servers \cup {NoAddr}
    BY <1>0, <1>1 DEF ServerID, TypeOK
  <1>3. /\ dhcp_state = "REQUESTING" /\ phase = "rx"
        /\ dhcp_state' = "BOUND" /\ NetDHCPServerIP' = ServerID(m) /\ NetOurIP' = m.addr
        /\ UNCHANGED <<phase, BootpID, BootpTry, netretry, autoload, requests, granted>>
    BY DEF Bind, Delivered, env, sent
  <1>4. /\ NetState' \in {NetState, "SUCCESS"}
        /\ packetHandler' \in {packetHandler, "TftpHandler"}
        /\ timeHandler' \in {timeHandler, "TftpTimeout"}
    BY DEF Bind
  <1>5. PICK r \in granted : r.xid = BootpID /\ r.addr = m.addr
    BY <1>1
  <1>6. r \in requests /\ NetOurIP = m.addr
    BY <1>0, <1>3, <1>5 DEF TypeOK, RequestInv
  <1>7. TypeOK'
    BY <1>0, <1>1, <1>2, <1>3, <1>4 DEF TypeOK
  <1>8. RequestInv'
    <2>1. \A q \in requests : q.xid = BootpID => q.addr = m.addr
      BY <1>0, <1>3, <1>6 DEF RequestInv
    <2> QED
      BY <1>0, <1>3, <1>5, <2>1 DEF RequestInv
  <1>9. LoopInv'
    BY <1>0, <1>3, <1>4 DEF LoopInv
  <1>10. SuccessHasLease'
    <2>1. m.addr \in Granted(BootpID)
      BY <1>5 DEF Granted
    <2>2. BootpID \in 1..BootpID
      BY <1>0, DhcpAssumption DEF TypeOK
    <2> QED
      BY <1>3, <2>1, <2>2 DEF SuccessHasLease, Granted
  <1> QED
    BY <1>7, <1>8, <1>9, <1>10 DEF IInv

(* A step that leaves the client and its requests alone. *)
LEMMA LoopLemma ==
  ASSUME IInv, UNCHANGED <<client, env, sent>>,
         TypeOK', LoopInv',
         NetState' = "SUCCESS" => NetState = "SUCCESS" \/ dhcp_state = "BOUND"
  PROVE  IInv'
  <1>0. RequestInv /\ SuccessHasLease /\ TypeOK
    BY DEF IInv
  <1>1. UNCHANGED <<dhcp_state, BootpID, NetOurIP, requests, granted>>
    BY DEF client, sent
  <1>2. RequestInv'
    BY <1>0, <1>1 DEF RequestInv
  <1>3. dhcp_state = "BOUND" => NetOurIP \in Granted(BootpID)
    <2> SUFFICES ASSUME dhcp_state = "BOUND" PROVE NetOurIP \in Granted(BootpID)
      OBVIOUS
    <2>1. PICK r \in granted : r.xid = BootpID
      BY <1>0 DEF RequestInv
    <2>2. r \in requests /\ r.addr = NetOurIP
      BY <1>0, <2>1 DEF RequestInv, TypeOK
    <2> QED
      BY <2>1, <2>2 DEF Granted
  <1>4. BootpID \in 1..BootpID
    BY <1>0, DhcpAssumption DEF TypeOK
  <1>5. SuccessHasLease'
    BY <1>0, <1>1, <1>3, <1>4 DEF SuccessHasLease, Granted
  <1> QED
    BY <1>2, <1>5 DEF IInv

(* Only a lease that was acknowledged is followed by a transfer. *)
LEMMA TransferLemma ==
  ASSUME IInv, Transfer
  PROVE  IInv'
  <1>0. TypeOK /\ LoopInv /\ dhcp_state = "BOUND"
    BY DEF IInv, LoopInv, Transfer
  <1>1. UNCHANGED <<client, env, sent>>
    BY DEF Transfer
  <1>2. /\ UNCHANGED <<dhcp_state, BootpID, BootpTry, NetOurIP, NetDHCPServerIP>>
        /\ UNCHANGED <<netretry, autoload, requests, granted>>
    BY <1>1 DEF client, env, sent
  <1>3. phase' \in {"rx", "switch"}
    BY DEF Transfer
  <1>4. CASE NetState' = "SUCCESS" /\ UNCHANGED <<phase, packetHandler, timeHandler>>
    <2>1. TypeOK'
      BY <1>0, <1>2, <1>4 DEF TypeOK
    <2>2. LoopInv'
      BY <1>0, <1>2, <1>4 DEF LoopInv
    <2> QED
      BY <1>0, <1>1, <2>1, <2>2, LoopLemma
  <1>5. CASE NetStartAgain(timeHandler) \/ NetStartAgain("none")
    <2>1. /\ NetState' \in {NetState, "FAIL"}
          /\ packetHandler' \in {packetHandler, "startAgainHandler"}
          /\ timeHandler' \in {timeHandler, "none", "startAgainTimeout"}
          /\ NetState' = "RESTART" \/ timeHandler' = "startAgainTimeout" => netretry' = "yes"
      BY <1>0, <1>2, <1>5, StartAgainLemma
    <2>2. TypeOK'
      BY <1>0, <1>2, <1>3, <2>1 DEF TypeOK
    <2>3. LoopInv'
      BY <1>0, <1>2, <2>1 DEF LoopInv
    <2> QED
      BY <1>0, <1>1, <2>1, <2>2, <2>3, LoopLemma
  <1> QED
    BY <1>4, <1>5 DEF Transfer

LEMMA TimeoutLemma ==
  ASSUME IInv, BootpTimeout
  PROVE  IInv'
  <1>0. TypeOK /\ RequestInv /\ LoopInv /\ SuccessHasLease
    BY DEF IInv
  <1>1. /\ phase' = "switch"
        /\ UNCHANGED <<NetDHCPServerIP, netretry, autoload, requests, granted>>
    BY DEF BootpTimeout, env, sent
  <1>2. CASE BootpTry >= TimeoutCount
    <2>1. /\ NetStartAgain("none")
          /\ UNCHANGED <<dhcp_state, BootpID, BootpTry, NetOurIP>>
      BY <1>2 DEF BootpTimeout
    <2>2. /\ NetState' \in {NetState, "FAIL"}
          /\ packetHandler' \in {packetHandler, "startAgainHandler"}
          /\ timeHandler' \in {timeHandler, "none", "startAgainTimeout"}
          /\ NetState' = "RESTART" \/ timeHandler' = "startAgainTimeout" => netretry' = "yes"
      BY <1>0, <1>1, <2>1, StartAgainLemma
    <2>3. TypeOK'
      BY <1>0, <1>1, <2>1, <2>2 DEF TypeOK
    <2>4. LoopInv'
      BY <1>0, <1>1, <2>1, <2>2 DEF LoopInv
    <2>5. UNCHANGED <<client, env, sent>>
      BY <1>1, <2>1 DEF client, env, sent
    <2> QED
      BY <2>2, <2>3, <2>4, <2>5, LoopLemma
  <1>3. CASE ~(BootpTry >= TimeoutCount)
    <2>1. Discover /\ UNCHANGED <<NetOurIP, NetState>>
      BY <1>3 DEF BootpTimeout, BootpRequest
    <2>2. /\ BootpID' \in 1..MaxID /\ BootpTry' \in Nat /\ BootpTry' >= BootpID'
          /\ RequestInv'
      BY <1>1, <2>1, DiscoverLemma
    <2>3. /\ timeHandler' = "BootpTimeout" /\ dhcp_state' = "SELECTING"
          /\ packetHandler' = "DhcpHandler" /\ BootpID' = BootpID + 1
          /\ BootpTry' = BootpTry + 1
      BY <2>1 DEF Discover
    <2>4. BootpTry' <= TimeoutCount
      BY <1>0, <1>3, <2>3, DhcpAssumption DEF TypeOK
    <2>5. TypeOK'
      BY <1>0, <1>1, <2>1, <2>2, <2>3, <2>4 DEF TypeOK
    <2>6. LoopInv'
      BY <1>0, <1>1, <2>1, <2>2, <2>3 DEF LoopInv
    <2>7. 1..BootpID \subseteq 1..BootpID'
      BY <1>0, <2>3, DhcpAssumption DEF TypeOK
    <2>8. SuccessHasLease'
      BY <1>0, <1>1, <2>1, <2>7 DEF SuccessHasLease, Granted
    <2> QED
      BY <2>2, <2>5, <2>6, <2>8 DEF IInv
  <1> QED
    BY <1>2, <1>3

LEMMA RestartLemma ==
  ASSUME IInv, Restart
  PROVE  IInv'
  <1>0. TypeOK /\ LoopInv
    BY DEF IInv
  <1>1. /\ NetState = "RESTART" /\ NetState' = "CONTINUE" /\ NetOurIP' = NoAddr
        /\ phase' = "rx" /\ Discover
        /\ UNCHANGED <<NetDHCPServerIP, netretry, autoload, requests, granted>>
    BY DEF Restart, env, sent
  <1>2. /\ BootpID' \in 1..MaxID /\ BootpTry' \in Nat /\ BootpTry' >= BootpID'
        /\ RequestInv'
    BY <1>1, DiscoverLemma
  <1>3. /\ timeHandler' = "BootpTimeout" /\ dhcp_state' = "SELECTING"
        /\ packetHandler' = "DhcpHandler"
    BY <1>1 DEF Discover
  <1>4. netretry = "yes"
    BY <1>0, <1>1 DEF LoopInv
  <1>5. TypeOK'
    BY <1>0, <1>1, <1>2, <1>3, <1>4 DEF TypeOK
  <1>6. LoopInv'
    BY <1>1, <1>2, <1>3 DEF LoopInv
  <1> QED
    BY <1>1, <1>2, <1>5, <1>6 DEF IInv, SuccessHasLease

(* The other steps of the loop change phase and NetState only. *)
LEMMA PassLemma ==
  ASSUME IInv, RxDone \/ StartAgainTimeout \/ NoTimeout \/ Continue \/ Return
  PROVE  IInv'
  <1>0. TypeOK /\ LoopInv
    BY DEF IInv
  <1>1. UNCHANGED <<packetHandler, client, env, sent>>
    BY DEF RxDone, StartAgainTimeout, NoTimeout, Continue, Return
  <1>2. /\ UNCHANGED <<dhcp_state, BootpID, BootpTry, NetOurIP, NetDHCPServerIP>>
        /\ UNCHANGED <<netretry, autoload, requests, granted>>
    BY <1>1 DEF client, env, sent
  <1>3. CASE StartAgainTimeout
    <2>1. timeHandler = "startAgainTimeout" /\ timeHandler' = "none"
          /\ NetState' = "RESTART" /\ phase' = "switch"
      BY <1>3 DEF StartAgainTimeout
    <2>2. TypeOK'
      BY <1>0, <1>1, <1>2, <2>1 DEF TypeOK
    <2>3. LoopInv'
      BY <1>0, <1>1, <1>2, <2>1 DEF LoopInv
    <2> QED
      BY <1>1, <2>1, <2>2, <2>3, LoopLemma
  <1>4. CASE RxDone \/ NoTimeout \/ Continue \/ Return
    <2>1. /\ UNCHANGED <<NetState, timeHandler>>
          /\ phase' \in {"rx", "timers", "switch", "done", "aborted"}
          /\ phase' \in {"rx", "timers"} => phase = "rx" \/ NetState = "CONTINUE"
      BY <1>4 DEF RxDone, NoTimeout, Continue, Return
    <2>2. TypeOK'
      BY <1>0, <1>1, <1>2, <2>1 DEF TypeOK
    <2>3. LoopInv'
      BY <1>0, <1>1, <1>2, <2>1 DEF LoopInv
    <2> QED
      BY <1>1, <2>1, <2>2, <2>3, LoopLemma
  <1> QED
    BY <1>3, <1>4

LEMMA GrantLemma ==
  ASSUME IInv, NEW r \in requests, Grant(r)
  PROVE  IInv'
  <1>0. TypeOK /\ RequestInv /\ LoopInv /\ SuccessHasLease
    BY DEF IInv
  <1>1. /\ granted' = granted \cup {r}
        /\ UNCHANGED <<phase, NetState, packetHandler, timeHandler, dhcp_state, BootpID, BootpTry,
                       NetOurIP, NetDHCPServerIP, netretry, autoload, requests>>
    BY DEF Grant, loop, client, env
  <1>2. TypeOK'
    BY <1>0, <1>1 DEF TypeOK
  <1>3. RequestInv'
    BY <1>0, <1>1 DEF RequestInv
  <1>4. LoopInv'
    BY <1>0, <1>1 DEF LoopInv
  <1>5. SuccessHasLease'
    BY <1>0, <1>1 DEF SuccessHasLease, Granted
  <1> QED
    BY <1>2, <1>3, <1>4, <1>5 DEF IInv

LEMMA StepLemma == IInv /\ [Next]_vars => IInv'
  <1> SUFFICES ASSUME IInv, [Next]_vars PROVE IInv'
    OBVIOUS
  <1>1. CASE Receive
    BY <1>1, SelectLemma, BindLemma DEF Receive
  <1>2. CASE Transfer
    BY <1>2, TransferLemma
  <1>3. CASE RxDone
    BY <1>3, PassLemma
  <1>4. CASE Timers
    BY <1>4, TimeoutLemma, PassLemma DEF Timers
  <1>5. CASE Switch
    BY <1>5, RestartLemma, PassLemma DEF Switch
  <1>6. CASE Server
    BY <1>6, GrantLemma DEF Server
  <1>7. CASE UNCHANGED vars
    BY <1>7 DEF vars, IInv, TypeOK, RequestInv, LoopInv, SuccessHasLease, Granted
  <1> QED
    BY <1>1, <1>2, <1>3, <1>4, <1>5, <1>6, <1>7 DEF Next

-----------------------------------------------------------------------------
(* The inductive invariant holds of every behaviour of the client. *)
THEOREM DhcpInvariant == Spec => []IInv
  BY InitLemma, StepLemma, PTL DEF Spec

(* Types, and that a command which does not start again sends a second      *)
(* DISCOVER only below the retry limit, for any servers, addresses and      *)
(* limit, and whatever count earlier commands left (BootpTimeout,           *)
(* BootpRequest).                                                          *)
THEOREM DhcpTyping == Spec => []TypeOK
  <1>1. IInv => TypeOK
    BY DEF IInv
  <1> QED
    BY DhcpInvariant, <1>1, PTL

(* Whatever offers and acknowledgements come late, twice or from several    *)
(* servers, the client binds to the one address it was leased (DhcpHandler). *)
THEOREM DhcpBoundToGrant == Spec => []BoundToGrant
  <1>1. IInv => BoundToGrant
    <2> SUFFICES ASSUME IInv, dhcp_state = "BOUND" PROVE Granted(BootpID) = {NetOurIP}
      BY DEF BoundToGrant
    <2>1. PICK r \in granted : r.xid = BootpID
      BY DEF IInv, RequestInv
    <2>2. \A q \in granted : q.xid = BootpID => q.addr = NetOurIP
      BY DEF IInv, RequestInv, TypeOK
    <2> QED
      BY <2>1, <2>2 DEF Granted
  <1> QED
    BY DhcpInvariant, <1>1, PTL

(* Success is reported only with an address that was leased (DhcpHandler,   *)
(* BootpTimeout).                                                          *)
THEOREM DhcpSuccessHasLease == Spec => []SuccessHasLease
  <1>1. IInv => SuccessHasLease
    BY DEF IInv
  <1> QED
    BY DhcpInvariant, <1>1, PTL

=============================================================================
