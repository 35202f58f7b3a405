----------------------------- MODULE Tftp_proof -----------------------------
(***************************************************************************)
(* Proofs about Tftp, for every file, number of ports, sessions and        *)
(* timeouts: types, and that a load reported as successful is complete.    *)
(* The latter assumes a file that does not wrap the sequence number and    *)
(* ports no stale packet is addressed to (TftpOurPort differs from that of *)
(* the commands before).                                                   *)
(***************************************************************************)
EXTENDS Tftp, TLAPS

LEMMA StartAgainLemma ==
  ASSUME NEW h, NetStartAgain(h)
  PROVE  /\ again' = TRUE
         /\ NetState' \in {"FAIL", "RESTART", NetState}
         /\ timeHandler' \in {h, "startAgainTimeout"}
         /\ packetHandler' \in {packetHandler, "startAgainHandler"}
  BY DEF NetStartAgain

(* Every packet sent is well-formed. *)
LEMMA MessageTypes ==
  ASSUME NEW p \in Ports
  PROVE  /\ RRQ(p) \in Messages
         /\ \A t \in Tids \cup {OldTid} : OACK(p, t) \in Messages /\ ERROR(p, t) \in Messages
         /\ \A t \in Tids \cup {OldTid, WellKnownPort}, n \in Nat : ACK(p, t, n) \in Messages
  BY DEF Messages, RRQ, OACK, ERROR, ACK

LEMMA DataType ==
  ASSUME NEW p \in Ports, NEW t \in Tids, NEW b \in 1..FileBlocks
  PROVE  FileData(p, t, b) \in Messages
  <1>1. b % SeqSize \in Nat
    BY TftpAssumption
  <1>2. BlockLen(b) \in 0..FullLen
    BY TftpAssumption DEF BlockLen, FullLen
  <1> QED
    BY <1>1, <1>2, TftpAssumption DEF FileData, DATA, Messages

LEMMA SendType ==
  ASSUME TypeOK, NEW s, NEW t \in Tids \cup {OldTid, WellKnownPort}, NEW p \in Ports,
         NEW n \in Nat, TftpSend(s, t, p, n)
  PROVE  net' \subseteq Messages
  BY MessageTypes DEF TypeOK, TftpSend

LEMMA TypeInit == Init => TypeOK
  <1> SUFFICES ASSUME Init PROVE TypeOK
    OBVIOUS
  <1>1. net \subseteq Messages
    <2>1. StaleData \subseteq Messages
      BY TftpAssumption DEF StaleData, DATA, Messages, BlockLen, FullLen
    <2> QED
      BY <2>1, MessageTypes DEF Init
  <1>2. /\ DOMAIN mem = {} /\ DOMAIN server = {}
        /\ used \subseteq Ports /\ TftpOurPort \in Ports
    BY DEF Init
  <1>3. /\ phase = "rx" /\ NetState = "CONTINUE" /\ packetHandler = "TftpHandler"
        /\ timeHandler = "TftpTimeout" /\ TftpState = "RRQ" /\ TftpServerPort = WellKnownPort
        /\ TftpTimeoutCount = 0 /\ TftpBlock = 0 /\ TftpLastBlock = 0
        /\ TftpBlockWrapOffset = 0 /\ NetBootFileXferSize = 0
        /\ netretry \in {"no", "once", "yes"} /\ again \in BOOLEAN
    BY DEF Init
  <1> QED
    BY <1>1, <1>2, <1>3, TftpAssumption DEF TypeOK, Phases

LEMMA CountInit == Init => CountInv
  BY TftpAssumption DEF Init, CountInv

LEMMA TypeStep == TypeOK /\ CountInv /\ [Next]_vars => TypeOK'
  <1> SUFFICES ASSUME TypeOK, CountInv, [Next]_vars PROVE TypeOK'
    OBVIOUS
  <1> USE TftpAssumption DEF TypeOK
  <1>1. ASSUME NEW m \in net, ReceiveOACK(m) PROVE TypeOK'
    <2>1. m.tid \in Tids \cup {OldTid}
      BY <1>1 DEF ReceiveOACK, Messages
    <2>2. net' \subseteq Messages
      BY <1>1, <2>1, SendType DEF ReceiveOACK
    <2> QED
      BY <1>1, <2>1, <2>2 DEF ReceiveOACK, loop, image
  <1>2. ASSUME NEW m \in net, ReceiveDATA(m) PROVE TypeOK'
    <2>1. /\ m.tid \in Tids \cup {OldTid} /\ m.num \in Nat /\ m.block \in 0..FileBlocks
          /\ m.len \in 0..FullLen
      BY <1>2 DEF ReceiveDATA, Messages
    <2> DEFINE first == TftpState \in {"RRQ", "OACK"}
               last == IF first THEN 0 ELSE TftpLastBlock
               offset == IF first THEN 0
                         ELSE IF m.num = 0 THEN TftpBlockWrapOffset + SeqSize
                         ELSE TftpBlockWrapOffset
    <2>2. offset \in Nat /\ last \in Nat
      OBVIOUS
    <2>3. /\ phase' = phase /\ netretry' = netretry /\ TftpOurPort' = TftpOurPort
          /\ TftpTimeoutCount' = TftpTimeoutCount /\ server' = server /\ used' = used
          /\ TftpBlock' = m.num /\ TftpState' = "DATA" /\ TftpServerPort' = m.tid
          /\ TftpBlockWrapOffset' = offset
      BY <1>2 DEF ReceiveDATA
    <2>4. CASE first /\ m.num # 1
      <3>1. /\ NetStartAgain(timeHandler) /\ TftpLastBlock' = 0
            /\ UNCHANGED <<NetBootFileXferSize, mem, net>>
        BY <1>2, <2>4 DEF ReceiveDATA
      <3> QED
        BY <2>1, <2>2, <2>3, <3>1, StartAgainLemma
    <2>5. CASE ~(first /\ m.num # 1) /\ m.num = last
      <3>1. /\ TftpLastBlock' = last
            /\ UNCHANGED <<NetState, packetHandler, timeHandler, again,
                           NetBootFileXferSize, mem, net>>
        BY <1>2, <2>5 DEF ReceiveDATA
      <3> QED
        BY <2>1, <2>2, <2>3, <3>1
    <2>6. CASE ~(first /\ m.num # 1) /\ m.num # last
      <3>1. /\ TftpLastBlock' = m.num
            /\ timeHandler' = "TftpTimeout"
            /\ StoreBlock(m.num, offset, m)
            /\ TftpSend("DATA", m.tid, TftpOurPort, m.num)
            /\ NetState' = IF m.len < FullLen THEN "SUCCESS" ELSE NetState
            /\ UNCHANGED <<packetHandler, again>>
        BY <1>2, <2>6 DEF ReceiveDATA
      <3>2. net' \subseteq Messages
        BY <2>1, <3>1, SendType
      <3>3. m.num + offset >= 1
        BY <2>1, <2>2, <2>6
      <3>4. /\ DOMAIN mem' \subseteq Nat
            /\ \A b \in DOMAIN mem' : mem'[b] \in 0..FileBlocks
            /\ NetBootFileXferSize' \in Nat
        BY <2>1, <2>2, <3>1, <3>3 DEF StoreBlock, Place, FullLen
      <3>5. NetState' \in {"CONTINUE", "RESTART", "SUCCESS", "FAIL"}
        BY <3>1
      <3>6. TftpLastBlock' \in Nat /\ TftpBlock' \in Nat /\ TftpBlockWrapOffset' \in Nat
        BY <2>1, <2>2, <2>3, <3>1
      <3> HIDE DEF first, last, offset
      <3> QED
        BY <2>1, <2>3, <3>1, <3>2, <3>4, <3>5, <3>6
    <2> QED
      BY <2>4, <2>5, <2>6
  <1>3. ASSUME NEW m \in net, ReceiveERROR(m) PROVE TypeOK'
    BY <1>3, StartAgainLemma DEF ReceiveERROR, client, image
  <1>4. ASSUME RxDone \/ Abort \/ StartAgainTimeout \/ NoTimeout \/ Continue \/ Return
        PROVE  TypeOK'
    BY <1>4 DEF RxDone, Abort, StartAgainTimeout, NoTimeout, Continue, Return, client, image,
       Phases
  <1>5. ASSUME TftpTimeout PROVE TypeOK'
    <2>1. CASE TftpTimeoutCount + 1 > TimeoutCount
      <3>1. TftpTimeoutCount' \in 0..(TimeoutCount + 1)
        BY <1>5 DEF TftpTimeout, CountInv
      <3>2. NetStartAgain("none") /\ UNCHANGED net
        BY <1>5, <2>1 DEF TftpTimeout
      <3> QED
        BY <1>5, <3>1, <3>2, StartAgainLemma DEF TftpTimeout, image, Phases
    <2>2. CASE ~(TftpTimeoutCount + 1 > TimeoutCount)
      <3>1. net' \subseteq Messages
        BY <1>5, <2>2, SendType DEF TftpTimeout
      <3> QED
        BY <1>5, <2>2, <3>1 DEF TftpTimeout, image, Phases
    <2> QED
      BY <2>1, <2>2
  <1>6. ASSUME Restart PROVE TypeOK'
    <2>1. PICK p \in Ports : TftpStart(p)
      BY <1>6 DEF Restart, NextPorts
    <2>2. net' \subseteq Messages
      BY <2>1, MessageTypes DEF TftpStart, TftpSend
    <2>3. used' \subseteq Ports
      BY <2>1 DEF TftpStart
    <2>4. UNCHANGED <<TftpLastBlock, TftpBlockWrapOffset, mem, netretry, server>>
      BY <1>6 DEF Restart
    <2>5. /\ phase' = "rx" /\ NetState' = "CONTINUE" /\ packetHandler' = "TftpHandler"
          /\ timeHandler' = "TftpTimeout" /\ TftpState' = "RRQ"
          /\ TftpServerPort' = WellKnownPort /\ TftpOurPort' \in Ports
          /\ TftpTimeoutCount' = 0 /\ TftpBlock' = 0 /\ NetBootFileXferSize' = 0
          /\ again' \in BOOLEAN
      BY <1>6, <2>1 DEF Restart, TftpStart
    <2> QED
      BY <2>2, <2>3, <2>4, <2>5 DEF Phases
  <1>7. ASSUME NEW m \in net, NEW t \in Tids, ServerAccept(m, t) PROVE TypeOK'
    <2>1. m.port \in Ports
      BY <1>7 DEF ServerAccept, Messages
    <2>2. PICK sent \in {0, 1} :
            /\ server' = [u \in DOMAIN server \cup {t} |->
                            IF u = t THEN [port |-> m.port, sent |-> sent] ELSE server[u]]
            /\ net' = net \cup {IF sent = 0 THEN OACK(m.port, t) ELSE FileData(m.port, t, 1)}
      BY <1>7 DEF ServerAccept
    <2>3. net' \subseteq Messages
      BY <2>1, <2>2, MessageTypes, DataType
    <2>4. /\ DOMAIN server' \subseteq Tids
          /\ \A u \in DOMAIN server' : server'[u] \in [port : Ports, sent : 0..FileBlocks]
      BY <2>1, <2>2
    <2>5. UNCHANGED <<loop, client, image, used>>
      BY <1>7 DEF ServerAccept
    <2> QED
      BY <2>3, <2>4, <2>5 DEF loop, client, image
  <1>8. ASSUME NEW m \in net, ServerSend(m) PROVE TypeOK'
    <2>1. /\ m.tid \in DOMAIN server
          /\ server[m.tid].sent < FileBlocks
          /\ server' = [server EXCEPT ![m.tid].sent = server[m.tid].sent + 1]
          /\ net' = net \cup {FileData(server[m.tid].port, m.tid, server[m.tid].sent + 1)}
      BY <1>8 DEF ServerSend
    <2>2. net' \subseteq Messages
      BY <2>1, DataType
    <2>3. /\ DOMAIN server' \subseteq Tids
          /\ \A u \in DOMAIN server' : server'[u] \in [port : Ports, sent : 0..FileBlocks]
      BY <2>1
    <2>4. UNCHANGED <<loop, client, image, used>>
      BY <1>8 DEF ServerSend
    <2> QED
      BY <2>2, <2>3, <2>4 DEF loop, client, image
  <1>9. ASSUME NEW t \in Tids, ServerError(t) PROVE TypeOK'
    <2>1. net' \subseteq Messages
      BY <1>9, MessageTypes DEF ServerError
    <2> QED
      BY <1>9, <2>1 DEF ServerError, loop, client, image
  <1>10. ASSUME UNCHANGED vars PROVE TypeOK'
    BY <1>10 DEF vars
  <1> QED
    BY <1>1, <1>2, <1>3, <1>4, <1>5, <1>6, <1>7, <1>8, <1>9, <1>10
       DEF Next, Receive, Timers, Switch, Server

LEMMA CountStep == TypeOK /\ CountInv /\ [Next]_vars => CountInv'
  <1> SUFFICES ASSUME TypeOK, CountInv, [Next]_vars PROVE CountInv'
    OBVIOUS
  <1> USE TftpAssumption DEF TypeOK, CountInv
  <1>1. ASSUME NEW m \in net, ReceiveOACK(m) \/ ReceiveDATA(m) \/ ReceiveERROR(m)
        PROVE  CountInv'
    <2>1. phase = "rx" /\ packetHandler = "TftpHandler" /\ TftpTimeoutCount' = TftpTimeoutCount
      BY <1>1 DEF ReceiveOACK, ReceiveDATA, ReceiveERROR, Accepts, client
    <2> QED
      BY <2>1
  <1>2. ASSUME RxDone \/ Abort \/ StartAgainTimeout \/ NoTimeout \/ Continue \/ Return
        PROVE  CountInv'
    BY <1>2 DEF RxDone, Abort, StartAgainTimeout, NoTimeout, Continue, Return, client
  <1>3. ASSUME TftpTimeout PROVE CountInv'
    <2>1. CASE TftpTimeoutCount + 1 > TimeoutCount
      <3>1. NetStartAgain("none") /\ phase' = "switch"
        BY <1>3, <2>1 DEF TftpTimeout
      <3>2. /\ timeHandler' # "TftpTimeout"
            /\ packetHandler' = "TftpHandler" => NetState' # "CONTINUE"
        BY <3>1 DEF NetStartAgain
      <3> QED
        BY <3>1, <3>2
    <2>2. CASE ~(TftpTimeoutCount + 1 > TimeoutCount)
      BY <1>3, <2>2 DEF TftpTimeout
    <2> QED
      BY <2>1, <2>2
  <1>4. ASSUME Restart PROVE CountInv'
    BY <1>4 DEF Restart, TftpStart
  <1>5. ASSUME Server \/ \E t \in Tids : ServerError(t) PROVE CountInv'
    BY <1>5 DEF Server, ServerAccept, ServerSend, ServerError, loop, client
  <1>6. ASSUME UNCHANGED vars PROVE CountInv'
    BY <1>6 DEF vars
  <1> QED
    BY <1>1, <1>2, <1>3, <1>4, <1>5, <1>6 DEF Next, Receive, Timers, Switch

(* Every variable keeps its type, TftpTimeoutCount its bound. *)
THEOREM TftpTyping == Spec => []TypeOK
  BY TypeInit, CountInit, TypeStep, CountStep, PTL DEF Spec

-----------------------------------------------------------------------------
NoWrap == FileBlocks < SeqSize
(* No start takes a port a packet of an earlier one may be addressed to.    *)
FreshPorts == StalePorts \cap Ports = {} /\ ~PortsReused

LEMMA LoadedInit == NoWrap /\ FreshPorts /\ Init => IInv
  <1> SUFFICES ASSUME NoWrap, FreshPorts, Init PROVE IInv
    OBVIOUS
  <1>1. PICK p \in Ports : used = {p} /\ TftpOurPort = p /\ net = StaleData \cup {RRQ(p)}
    BY DEF Init
  <1>2. DOMAIN mem = {} /\ DOMAIN server = {} /\ Stored = {}
    BY DEF Init, Stored
  <1>3. \A m \in net : m.port \in used \cup StalePorts
                       /\ (m.type = "DATA" => m.port \in StalePorts) /\ m.type # "ACK"
    BY <1>1 DEF StaleData, DATA, RRQ
  <1>4. SentInv
    BY <1>1, <1>2, <1>3 DEF SentInv, FreshPorts
  <1>5. SessionInv
    BY <1>1, <1>2, <1>3 DEF SessionInv, FreshPorts
  <1>6. MemInv
    BY <1>2, TftpAssumption DEF MemInv, Init, FileSize, FullLen
  <1>7. ClientInv /\ Loaded
    BY DEF Init, ClientInv, Loaded
  <1> QED
    BY <1>4, <1>5, <1>6, <1>7, TypeInit, CountInit DEF IInv

(* store_block puts a block of the file where it belongs. *)
LEMMA StoreLemma ==
  ASSUME TypeOK, MemInv, NEW m, NEW n \in 1..FileBlocks, m.block = n, m.len = BlockLen(n),
         StoreBlock(n, 0, m), TftpBlockWrapOffset' = 0
  PROVE  /\ MemInv'
         /\ Stored' = Stored \cup {n}
         /\ n = FileBlocks => NetBootFileXferSize' = FileSize
         /\ m.len < FullLen <=> n = FileBlocks
  <1>1. mem' = [b \in DOMAIN mem \cup {n} |-> IF b = n THEN n ELSE mem[b]]
    BY DEF StoreBlock, Place
  <1>2. DOMAIN mem' = Stored \cup {n} /\ Stored' = Stored \cup {n}
    BY <1>1 DEF MemInv, Stored
  <1>3. m.len < FullLen <=> n = FileBlocks
    BY TftpAssumption DEF BlockLen, FullLen
  <1> DEFINE newsize == (n - 1) * FullLen + m.len
  <1>4. newsize <= FileSize /\ (n = FileBlocks => newsize = FileSize)
    BY TftpAssumption DEF FileSize, BlockLen, FullLen
  <1>5. NetBootFileXferSize' = IF NetBootFileXferSize < newsize THEN newsize ELSE NetBootFileXferSize
    BY DEF StoreBlock, Place
  <1>6. newsize \in Int /\ FileSize \in Int /\ NetBootFileXferSize \in Nat
    BY TftpAssumption DEF TypeOK, FileSize, BlockLen, FullLen
  <1>7. NetBootFileXferSize' <= FileSize /\ (n = FileBlocks => NetBootFileXferSize' = FileSize)
    BY <1>4, <1>5, <1>6 DEF MemInv
  <1> QED
    BY <1>2, <1>3, <1>7 DEF MemInv

(* A step that sends nothing but acknowledges or requests of this start,    *)
(* leaving image and sessions alone, preserves what is said of packets.     *)
LEMMA QuietLemma ==
  ASSUME TypeOK, SentInv, SessionInv, again' = again \/ again' = TRUE,
         UNCHANGED <<mem, used, server, TftpOurPort>>,
         \/ net' = net
         \/ net' = net \cup {RRQ(TftpOurPort)}
         \/ \E t, n : /\ net' = net \cup {ACK(TftpOurPort, t, n)}
                      /\ ~again' => 1..n \subseteq Stored
  PROVE  SentInv' /\ SessionInv' /\ Stored' = Stored
  <1>1. Stored' = Stored
    BY DEF Stored
  <1>2. \A m \in net' \ net : m.port = TftpOurPort /\ m.type # "DATA"
                              /\ (m.type = "ACK" /\ ~again' => 1..m.num \subseteq Stored)
    BY DEF RRQ, ACK
  <1> QED
    BY <1>1, <1>2 DEF SentInv, SessionInv

LEMMA LoadedStep == NoWrap /\ FreshPorts /\ IInv /\ [Next]_vars => IInv'
  <1> SUFFICES ASSUME NoWrap, FreshPorts, IInv, [Next]_vars PROVE IInv'
    OBVIOUS
  <1> USE TftpAssumption
  <1>a. TypeOK /\ CountInv /\ MemInv /\ SentInv /\ SessionInv /\ ClientInv /\ Loaded
    BY DEF IInv
  <1>b. TypeOK' /\ CountInv'
    BY <1>a, TypeStep, CountStep
  <1> SUFFICES MemInv' /\ SentInv' /\ SessionInv' /\ ClientInv' /\ Loaded'
    BY <1>b DEF IInv
  <1>1. ASSUME NEW m \in net, ReceiveOACK(m)
        PROVE  MemInv' /\ SentInv' /\ SessionInv' /\ ClientInv' /\ Loaded'
    <2>1. /\ net' = net \cup {ACK(TftpOurPort, m.tid, TftpBlock)}
          /\ UNCHANGED <<mem, used, server, again, TftpOurPort, TftpBlock, TftpLastBlock, NetState,
                         TftpBlockWrapOffset, NetBootFileXferSize>>
          /\ TftpState' = "OACK"
      BY <1>1 DEF ReceiveOACK, TftpSend, loop, image
    <2>2. SentInv' /\ SessionInv' /\ Stored' = Stored
      BY <1>a, <2>1, QuietLemma DEF ClientInv
    <2> QED
      BY <1>a, <2>1, <2>2 DEF MemInv, ClientInv, Loaded, Complete
  <1>2. ASSUME NEW m \in net, ReceiveDATA(m)
        PROVE  MemInv' /\ SentInv' /\ SessionInv' /\ ClientInv' /\ Loaded'
    <2>1. m.port = TftpOurPort /\ m.type = "DATA"
      BY <1>2 DEF ReceiveDATA, Accepts
    <2>2. m.num = m.block /\ m.num \in 1..FileBlocks /\ m.len = BlockLen(m.num)
      BY <1>a, <2>1 DEF SentInv
    <2>3. ~again => 1..(m.num - 1) \subseteq Stored
      BY <1>a, <2>1 DEF SessionInv
    <2> DEFINE first == TftpState \in {"RRQ", "OACK"}
               last == IF first THEN 0 ELSE TftpLastBlock
    <2>4. /\ UNCHANGED <<TftpOurPort, server, used>>
          /\ TftpBlock' = m.num /\ TftpState' = "DATA" /\ TftpBlockWrapOffset' = 0
      BY <1>a, <1>2, <2>2 DEF ReceiveDATA, MemInv
    <2>5. CASE first /\ m.num # 1
      <3>1. /\ again' = TRUE
            /\ UNCHANGED <<NetBootFileXferSize, mem, net>>
        BY <1>2, <2>5, StartAgainLemma DEF ReceiveDATA
      <3>2. SentInv' /\ SessionInv' /\ Stored' = Stored
        BY <1>a, <2>4, <3>1, QuietLemma
      <3> QED
        BY <1>a, <2>4, <3>1, <3>2 DEF MemInv, ClientInv, Loaded
    <2>6. CASE ~(first /\ m.num # 1) /\ m.num = last
      <3>1. /\ TftpLastBlock' = m.num
            /\ UNCHANGED <<NetState, again, NetBootFileXferSize, mem, net>>
        BY <1>2, <2>6 DEF ReceiveDATA
      <3>2. SentInv' /\ SessionInv' /\ Stored' = Stored
        BY <1>a, <2>4, <3>1, QuietLemma
      <3>3. TftpState = "DATA" /\ TftpLastBlock = m.num
        BY <1>a, <2>2, <2>6 DEF TypeOK
      <3> QED
        BY <1>a, <2>4, <3>1, <3>2, <3>3 DEF MemInv, ClientInv, Loaded, Complete
    <2>7. CASE ~(first /\ m.num # 1) /\ m.num # last
      <3>1. /\ TftpLastBlock' = m.num
            /\ StoreBlock(m.num, 0, m)
            /\ net' = net \cup {ACK(TftpOurPort, m.tid, m.num)}
            /\ NetState' = IF m.len < FullLen THEN "SUCCESS" ELSE NetState
            /\ again' = again
        BY <1>a, <1>2, <2>2, <2>7 DEF ReceiveDATA, MemInv, TftpSend
      <3>2. /\ MemInv' /\ Stored' = Stored \cup {m.num}
            /\ m.num = FileBlocks => NetBootFileXferSize' = FileSize
            /\ m.len < FullLen <=> m.num = FileBlocks
        BY <1>a, <2>2, <2>4, <3>1, StoreLemma
      <3>3. ~again => 1..m.num \subseteq Stored'
        BY <2>2, <2>3, <3>2
      <3>4. SentInv'
        BY <1>a, <2>4, <3>1 DEF SentInv, ACK
      <3>5. SessionInv'
        BY <1>a, <2>4, <3>1, <3>2, <3>3 DEF SessionInv, ACK
      <3>6. ClientInv'
        BY <2>4, <3>1, <3>3 DEF ClientInv
      <3>7. Loaded'
        <4>1. CASE m.num = FileBlocks
          BY <3>1, <3>2, <3>3, <4>1 DEF Loaded, Complete
        <4>2. CASE m.num # FileBlocks
          <5>1. SUFFICES ASSUME NetState = "SUCCESS", ~again PROVE Complete'
            BY <3>1, <3>2, <4>2 DEF Loaded
          <5>2. 1..FileBlocks \subseteq Stored /\ NetBootFileXferSize = FileSize
            BY <1>a, <5>1 DEF Loaded, Complete
          <5>3. NetBootFileXferSize' >= NetBootFileXferSize /\ NetBootFileXferSize' \in Nat
            BY <1>a, <1>b, <3>1, <2>2 DEF StoreBlock, Place, TypeOK, BlockLen, FullLen
          <5>4. NetBootFileXferSize' <= FileSize /\ FileSize \in Int
            BY <3>2 DEF MemInv, FileSize, FullLen
          <5> QED
            BY <1>a, <3>2, <5>2, <5>3, <5>4 DEF Complete, TypeOK
        <4> QED
          BY <4>1, <4>2
      <3> QED
        BY <3>2, <3>4, <3>5, <3>6, <3>7
    <2> QED
      BY <2>5, <2>6, <2>7
  <1>3. ASSUME NEW m \in net, ReceiveERROR(m)
        PROVE  MemInv' /\ SentInv' /\ SessionInv' /\ ClientInv' /\ Loaded'
    <2>1. again' = TRUE /\ UNCHANGED <<client, image, net, server, used>>
      BY <1>3, StartAgainLemma DEF ReceiveERROR
    <2>2. SentInv' /\ SessionInv' /\ Stored' = Stored
      BY <1>a, <2>1, QuietLemma DEF client, image
    <2> QED
      BY <1>a, <2>1, <2>2 DEF MemInv, ClientInv, Loaded, client, image
  <1>4. ASSUME RxDone \/ Abort \/ StartAgainTimeout \/ NoTimeout \/ Continue \/ Return
        PROVE  MemInv' /\ SentInv' /\ SessionInv' /\ ClientInv' /\ Loaded'
    <2>1. /\ UNCHANGED <<again, client, image, net, server, used>>
          /\ NetState' \in {NetState, "RESTART"}
      BY <1>4 DEF RxDone, Abort, StartAgainTimeout, NoTimeout, Continue, Return
    <2>2. SentInv' /\ SessionInv' /\ Stored' = Stored
      BY <1>a, <2>1, QuietLemma DEF client, image
    <2> QED
      BY <1>a, <2>1, <2>2 DEF MemInv, ClientInv, Loaded, Complete, client, image
  <1>5. ASSUME TftpTimeout
        PROVE  MemInv' /\ SentInv' /\ SessionInv' /\ ClientInv' /\ Loaded'
    <2>1. UNCHANGED <<image, server, used, TftpOurPort, TftpState, TftpBlock>>
      BY <1>5 DEF TftpTimeout
    <2>2. CASE TftpTimeoutCount + 1 > TimeoutCount
      <3>1. again' = TRUE /\ net' = net
        BY <1>5, <2>2, StartAgainLemma DEF TftpTimeout
      <3>2. SentInv' /\ SessionInv' /\ Stored' = Stored
        BY <1>a, <2>1, <3>1, QuietLemma DEF image
      <3> QED
        BY <1>a, <2>1, <3>1, <3>2 DEF MemInv, ClientInv, Loaded, image
    <2>3. CASE ~(TftpTimeoutCount + 1 > TimeoutCount)
      <3>1. /\ \/ net' = net \cup {RRQ(TftpOurPort)}
               \/ net' = net \cup {ACK(TftpOurPort, TftpServerPort, TftpBlock)}
            /\ UNCHANGED <<NetState, again>>
        BY <1>5, <2>3 DEF TftpTimeout, TftpSend
      <3>2. SentInv' /\ SessionInv' /\ Stored' = Stored
        BY <1>a, <2>1, <3>1, QuietLemma DEF image, ClientInv
      <3> QED
        BY <1>a, <2>1, <3>1, <3>2 DEF MemInv, ClientInv, Loaded, Complete, image
    <2> QED
      BY <2>2, <2>3
  <1>6. ASSUME Restart
        PROVE  MemInv' /\ SentInv' /\ SessionInv' /\ ClientInv' /\ Loaded'
    <2>1. PICK p \in NextPorts : TftpStart(p)
      BY <1>6 DEF Restart
    <2>2. /\ TftpBlock' = 0 /\ NetBootFileXferSize' = 0 /\ TftpState' = "RRQ"
          /\ NetState' = "CONTINUE" /\ TftpOurPort' = p /\ used' = used \cup {p}
          /\ net' = net \cup {RRQ(p)}
      BY <2>1 DEF TftpStart, TftpSend
    <2>3. UNCHANGED <<TftpBlockWrapOffset, mem, server>>
      BY <1>6 DEF Restart
    <2>4. Stored' = Stored
      BY <2>3 DEF Stored
    <2>5. MemInv'
      BY <1>a, <2>2, <2>3, <2>4 DEF MemInv, FileSize, FullLen
    <2>6. p \notin used \cup StalePorts
      BY <2>1 DEF FreshPorts, NextPorts
    <2>7. SentInv'
      BY <1>a, <2>2, <2>3, <2>6 DEF SentInv, RRQ
    <2>8. SessionInv'
      BY <1>a, <2>2, <2>3, <2>6 DEF SentInv, SessionInv, RRQ
    <2>9. ClientInv' /\ Loaded'
      BY <2>2 DEF ClientInv, Loaded
    <2> QED
      BY <2>5, <2>7, <2>8, <2>9
  <1>7. ASSUME NEW m \in net, NEW t \in Tids, ServerAccept(m, t)
        PROVE  MemInv' /\ SentInv' /\ SessionInv' /\ ClientInv' /\ Loaded'
    <2>1. PICK sent \in {0, 1} :
            /\ server' = [u \in DOMAIN server \cup {t} |->
                            IF u = t THEN [port |-> m.port, sent |-> sent] ELSE server[u]]
            /\ net' = net \cup {IF sent = 0 THEN OACK(m.port, t) ELSE FileData(m.port, t, 1)}
      BY <1>7 DEF ServerAccept
    <2>2. UNCHANGED <<loop, client, image, used>> /\ m.type = "RRQ"
      BY <1>7 DEF ServerAccept
    <2>3. m.port \in used
      BY <1>a, <2>2 DEF SentInv, TypeOK, Messages, FreshPorts
    <2>4. \A n \in net' \ net :
            /\ n.port = m.port /\ n.type # "ACK"
            /\ n.type = "DATA" => n.num = 1 /\ n.block = 1 /\ n.len = BlockLen(1)
      BY <2>1 DEF OACK, FileData, DATA, NoWrap
    <2>5. Stored' = Stored
      BY <2>2 DEF Stored, image
    <2>6. SentInv'
      BY <1>a, <2>1, <2>2, <2>3, <2>4 DEF SentInv, client
    <2>7. SessionInv'
      BY <1>a, <2>1, <2>2, <2>4, <2>5 DEF SessionInv, loop, client
    <2> QED
      BY <1>a, <2>2, <2>5, <2>6, <2>7 DEF MemInv, ClientInv, Loaded, Complete, loop, client, image
  <1>8. ASSUME NEW m \in net, ServerSend(m)
        PROVE  MemInv' /\ SentInv' /\ SessionInv' /\ ClientInv' /\ Loaded'
    <2> DEFINE s == server[m.tid]
    <2>1. /\ m.tid \in DOMAIN server /\ m.port = s.port /\ m.type = "ACK"
          /\ m.num = s.sent % SeqSize /\ s.sent < FileBlocks
          /\ server' = [server EXCEPT ![m.tid].sent = s.sent + 1]
          /\ net' = net \cup {FileData(s.port, m.tid, s.sent + 1)}
      BY <1>8 DEF ServerSend
    <2>2. UNCHANGED <<loop, client, image, used>>
      BY <1>8 DEF ServerSend
    <2>3. s.sent \in 0..FileBlocks /\ s.port \in used
      BY <1>a, <2>1 DEF TypeOK, SentInv
    <2>4. m.num = s.sent /\ (s.sent + 1) % SeqSize = s.sent + 1
      BY <2>1, <2>3 DEF NoWrap
    <2>5. \A n \in net' \ net :
            /\ n.port = s.port /\ n.type = "DATA" /\ n.num = s.sent + 1 /\ n.block = s.sent + 1
            /\ n.len = BlockLen(s.sent + 1)
      BY <2>1, <2>4 DEF FileData, DATA
    <2>6. Stored' = Stored
      BY <2>2 DEF Stored, image
    <2>7. SentInv'
      <3>1. TftpOurPort' = TftpOurPort /\ used' = used
        BY <2>2 DEF client
      <3>2. \A t \in DOMAIN server' : t \in DOMAIN server /\ server'[t].port = server[t].port
        BY <1>a, <2>1 DEF TypeOK
      <3>3. s.sent + 1 \in 1..FileBlocks
        BY <2>1, <2>3
      <3> QED
        BY <1>a, <2>3, <2>5, <3>1, <3>2, <3>3 DEF SentInv
    <2>8. ~again /\ s.port = TftpOurPort => 1..s.sent \subseteq Stored
      BY <1>a, <2>1, <2>4 DEF SessionInv
    <2>9. SessionInv'
      <3>1. UNCHANGED <<again, TftpOurPort>>
        BY <2>2 DEF loop, client
      <3>2. (s.sent + 1) - 1 = s.sent
        BY <2>3
      <3>3. \A t \in DOMAIN server' :
              server'[t].port = server[t].port
              /\ server'[t].sent = IF t = m.tid THEN s.sent + 1 ELSE server[t].sent
        BY <1>a, <2>1 DEF TypeOK
      <3>4. DOMAIN server' = DOMAIN server
        BY <2>1
      <3>5. SUFFICES ASSUME ~again PROVE
              /\ \A n \in net' : n.port = TftpOurPort /\ n.type = "DATA" =>
                   1..(n.num - 1) \subseteq Stored
              /\ \A n \in net' : n.port = TftpOurPort /\ n.type = "ACK" => 1..n.num \subseteq Stored
              /\ \A t \in DOMAIN server' :
                   server'[t].port = TftpOurPort => 1..(server'[t].sent - 1) \subseteq Stored
        BY <2>6, <3>1 DEF SessionInv
      <3>6. \A n \in net' : n.port = TftpOurPort /\ n.type = "DATA" => 1..(n.num - 1) \subseteq Stored
        BY <1>a, <2>5, <2>8, <3>2, <3>5 DEF SessionInv
      <3>7. \A n \in net' : n.port = TftpOurPort /\ n.type = "ACK" => 1..n.num \subseteq Stored
        BY <1>a, <2>5, <3>5 DEF SessionInv
      <3>8. \A t \in DOMAIN server' :
              server'[t].port = TftpOurPort => 1..(server'[t].sent - 1) \subseteq Stored
        BY <1>a, <2>8, <3>2, <3>3, <3>4, <3>5 DEF SessionInv
      <3> QED
        BY <3>6, <3>7, <3>8
    <2> QED
      BY <1>a, <2>2, <2>6, <2>7, <2>9 DEF MemInv, ClientInv, Loaded, Complete, loop, client, image
  <1>9. ASSUME NEW t \in Tids, ServerError(t)
        PROVE  MemInv' /\ SentInv' /\ SessionInv' /\ ClientInv' /\ Loaded'
    <2>1. /\ net' = net \cup {ERROR(server[t].port, t)} /\ t \in DOMAIN server
          /\ UNCHANGED <<loop, client, image, server, used>>
      BY <1>9 DEF ServerError
    <2>2. Stored' = Stored
      BY <2>1 DEF Stored, image
    <2>3. SentInv' /\ SessionInv'
      BY <1>a, <2>1, <2>2 DEF SentInv, SessionInv, ERROR, loop, client
    <2> QED
      BY <1>a, <2>1, <2>2, <2>3 DEF MemInv, ClientInv, Loaded, Complete, loop, client, image
  <1>10. ASSUME UNCHANGED vars
         PROVE  MemInv' /\ SentInv' /\ SessionInv' /\ ClientInv' /\ Loaded'
    BY <1>10, <1>a DEF vars, MemInv, SentInv, SessionInv, ClientInv, Loaded, Complete, Stored
  <1> QED
    BY <1>1, <1>2, <1>3, <1>4, <1>5, <1>6, <1>7, <1>8, <1>9, <1>10
       DEF Next, Receive, Timers, Switch, Server

(* A load NetLoop reports as successful has every block of the file in its  *)
(* place and the size of the file, whatever the network loses, repeats,     *)
(* delays or reorders and however often the transfer restarts.              *)
THEOREM TftpLoaded ==
  ASSUME NoWrap, FreshPorts
  PROVE  Spec => []Loaded
  <1>1. IInv => Loaded
    BY DEF IInv
  <1> QED
    BY <1>1, LoadedInit, LoadedStep, PTL DEF Spec

(* The client acknowledges a block only when it and all before it are in    *)
(* memory.                                                                  *)
THEOREM TftpAckedAreStored ==
  ASSUME NoWrap, FreshPorts
  PROVE  Spec => []AckedAreStored
  <1>1. IInv => AckedAreStored
    BY DEF IInv, SessionInv, AckedAreStored
  <1> QED
    BY <1>1, LoadedInit, LoadedStep, PTL DEF Spec

(* A DATA packet stores its block, with all before it there, or nothing.    *)
LEMMA ReceiveStores ==
  ASSUME IInv, NEW m \in net, ReceiveDATA(m)
  PROVE  /\ phase = "rx" /\ phase' = "rx" /\ (again => again')
         /\ \/ Stored' = Stored
            \/ /\ m.num \in 1..FileBlocks /\ Stored' = Stored \cup {m.num}
               /\ ~again => 1..(m.num - 1) \subseteq Stored
  <1>1. m.num = m.block /\ m.num \in 1..FileBlocks /\ m.len = BlockLen(m.num)
    BY DEF IInv, SentInv, ReceiveDATA, Accepts
  <1>2. ~again => 1..(m.num - 1) \subseteq Stored
    BY DEF IInv, SessionInv, ReceiveDATA, Accepts
  <1>3. Stored' = Stored \/ Stored' = Stored \cup {m.num}
    <2>1. CASE mem' = mem
      BY <2>1 DEF Stored
    <2>2. CASE mem' # mem
      <3>1. StoreBlock(m.num, 0, m) /\ TftpBlockWrapOffset' = 0
        BY <1>1, <2>2 DEF ReceiveDATA, IInv, MemInv
      <3> QED
        BY <1>1, <3>1, StoreLemma DEF IInv
    <2> QED
      BY <2>1, <2>2
  <1>4. again => again'
    <2>1. NetStartAgain(timeHandler) \/ again' = again
      BY DEF ReceiveDATA
    <2> QED
      BY <2>1 DEF NetStartAgain
  <1>5. phase = "rx" /\ phase' = "rx"
    BY DEF ReceiveDATA
  <1> QED
    BY <1>1, <1>2, <1>3, <1>4, <1>5

(* Nothing else touches memory.                                            *)
LEMMA OthersStoreNothing ==
  ASSUME [Next]_vars, ~\E m \in net : ReceiveDATA(m)
  PROVE  Stored' = Stored
  <1>1. mem' = mem
    BY DEF Next, Receive, ReceiveOACK, ReceiveERROR, RxDone, Abort, Timers, TftpTimeout,
       StartAgainTimeout, NoTimeout, Switch, Continue, Restart, Return, Server, ServerAccept,
       ServerSend, ServerError, image, vars
  <1> QED
    BY <1>1 DEF Stored

LEMMA StoredGrows == IInv /\ [Next]_vars => Stored \subseteq Stored'
  BY ReceiveStores, OthersStoreNothing

(* What is in its place stays there, whatever arrives late or twice and     *)
(* however often the transfer restarts (store_block).                       *)
THEOREM TftpNeverOverwritten ==
  ASSUME NoWrap, FreshPorts
  PROVE  Spec => NeverOverwritten
  <1>1. IInv /\ [Next]_vars => [Stored \subseteq Stored']_vars
    BY StoredGrows
  <1> QED
    BY <1>1, LoadedInit, LoadedStep, PTL DEF Spec, NeverOverwritten

-----------------------------------------------------------------------------
(* The refinement of Load.                                                 *)

LEMMA TransferInit == Init => Transfer!Init
  BY DEF Init, Transfer!Init, Stored, LoadStatus

LEMMA TransferStep == IInv /\ IInv' /\ [Next]_vars => [Transfer!Next]_(Transfer!loadVars)
  <1> SUFFICES ASSUME IInv, IInv', [Next]_vars
               PROVE  Transfer!Next \/ UNCHANGED <<Stored, LoadStatus>>
    BY DEF Transfer!loadVars
  <1>1. Transfer!Scattered
    BY StoredGrows DEF IInv, MemInv, Transfer!Scattered, Transfer!AllBlocks
  <1> DEFINE Running == IF again THEN "disturbed" ELSE "loading"
  <1>2. /\ phase \in {"rx", "timers", "switch"} => LoadStatus = Running
        /\ phase' \in {"rx", "timers", "switch"} => LoadStatus' = Running'
    BY DEF LoadStatus
  <1>3. ASSUME phase \in {"rx", "timers", "switch"}, phase' \in {"rx", "timers", "switch"},
               Stored' = Stored, again => again'
        PROVE  Transfer!Next \/ UNCHANGED <<Stored, LoadStatus>>
    <2>1. CASE again' = again
      BY <1>2, <1>3, <2>1
    <2>2. CASE again' # again
      <3>1. LoadStatus = "loading" /\ LoadStatus' = "disturbed"
        BY <1>2, <1>3, <2>2 DEF IInv, TypeOK
      <3>2. Transfer!Disturb
        BY <1>1, <3>1 DEF Transfer!Disturb
      <3> QED
        BY <3>2 DEF Transfer!Next
    <2> QED
      BY <2>1, <2>2
  <1>4. ASSUME NEW m \in net, ReceiveDATA(m)
        PROVE  Transfer!Next \/ UNCHANGED <<Stored, LoadStatus>>
    <2>1. /\ phase = "rx" /\ phase' = "rx" /\ (again => again')
          /\ \/ Stored' = Stored
             \/ /\ m.num \in 1..FileBlocks /\ Stored' = Stored \cup {m.num}
                /\ ~again => 1..(m.num - 1) \subseteq Stored
      BY <1>4, ReceiveStores
    <2>2. LoadStatus = Running /\ LoadStatus' = Running'
      BY <1>2, <2>1
    <2>3. CASE again
      <3>1. LoadStatus = "disturbed" /\ LoadStatus' = "disturbed"
        BY <2>1, <2>2, <2>3
      <3>2. Transfer!Straggle
        BY <1>1, <3>1 DEF Transfer!Straggle
      <3> QED
        BY <3>2 DEF Transfer!Next
    <2>4. CASE ~again /\ again'
      <3>1. LoadStatus = "loading" /\ LoadStatus' = "disturbed"
        BY <2>2, <2>4
      <3>2. Transfer!Disturb
        BY <1>1, <3>1 DEF Transfer!Disturb
      <3> QED
        BY <3>2 DEF Transfer!Next
    <2>5. CASE ~again /\ ~again' /\ Stored' # Stored
      <3>1. LoadStatus = "loading" /\ LoadStatus' = "loading"
        BY <2>2, <2>5
      <3>2. /\ m.num \in 1..FileBlocks /\ Stored' = Stored \cup {m.num}
            /\ 1..(m.num - 1) \subseteq Stored
        BY <2>1, <2>5
      <3>3. Transfer!Store
        BY <3>1, <3>2 DEF Transfer!Store, Transfer!AllBlocks
      <3> QED
        BY <3>3 DEF Transfer!Next
    <2>6. CASE ~again /\ ~again' /\ Stored' = Stored
      BY <2>2, <2>6
    <2> QED
      BY <2>3, <2>4, <2>5, <2>6
  <1>5. CASE \E m \in net : ReceiveOACK(m) \/ ReceiveERROR(m)
    <2>1. PICK m \in net : ReceiveOACK(m) \/ ReceiveERROR(m)
      BY <1>5
    <2>2. NetStartAgain(timeHandler) \/ again' = again
      BY <2>1 DEF ReceiveOACK, ReceiveERROR, loop
    <2>3. phase = "rx" /\ phase' = "rx" /\ UNCHANGED image
      BY <2>1 DEF ReceiveOACK, ReceiveERROR, loop
    <2>4. again => again'
      BY <2>2 DEF NetStartAgain
    <2> QED
      BY <1>3, <2>3, <2>4 DEF image, Stored
  <1>6. CASE RxDone \/ StartAgainTimeout \/ NoTimeout \/ Continue
    <2>1. /\ phase \in {"rx", "timers", "switch"} /\ phase' \in {"rx", "timers", "switch"}
          /\ UNCHANGED image /\ again' = again
      BY <1>6 DEF RxDone, StartAgainTimeout, NoTimeout, Continue
    <2> QED
      BY <1>3, <2>1 DEF image, Stored
  <1>7. CASE TftpTimeout
    <2>1. phase = "timers" /\ phase' = "switch" /\ UNCHANGED image /\ (again => again')
      BY <1>7, StartAgainLemma DEF TftpTimeout
    <2> QED
      BY <1>3, <2>1 DEF image, Stored
  <1>8. CASE Abort
    <2>1. phase = "rx" /\ phase' = "aborted" /\ UNCHANGED image
      BY <1>8 DEF Abort
    <2>2. LoadStatus \in {"loading", "disturbed"} /\ LoadStatus' = "ended" /\ Stored' = Stored
      BY <1>2, <2>1 DEF LoadStatus, image, Stored
    <2>3. Transfer!Fail \/ Transfer!Straggle
      BY <1>1, <2>2 DEF Transfer!Fail, Transfer!Straggle
    <2> QED
      BY <2>3 DEF Transfer!Next
  <1>9. CASE Restart
    <2>1. phase = "switch" /\ phase' = "rx" /\ again' = FALSE /\ mem' = mem
      BY <1>9 DEF Restart, TftpStart
    <2>2. Stored' = Stored /\ LoadStatus' = "loading"
      BY <1>2, <2>1 DEF Stored
    <2>3. CASE again
      <3>1. LoadStatus = "disturbed"
        BY <1>2, <2>1, <2>3
      <3>2. Transfer!Restart
        BY <2>2, <3>1 DEF Transfer!Restart
      <3> QED
        BY <3>2 DEF Transfer!Next
    <2>4. CASE ~again
      BY <1>2, <2>1, <2>2, <2>4
    <2> QED
      BY <2>3, <2>4
  <1>10. CASE Return
    <2>1. /\ phase = "switch" /\ phase' = "done" /\ again' = again /\ NetState' = NetState
          /\ UNCHANGED image
      BY <1>10 DEF Return
    <2>2. Stored' = Stored /\ LoadStatus = Running
      BY <1>2, <2>1 DEF image, Stored
    <2>3. CASE NetState = "SUCCESS" /\ ~again
      <3>1. LoadStatus = "loading" /\ LoadStatus' = "loaded"
        BY <2>1, <2>2, <2>3 DEF LoadStatus
      <3>2. Stored = 1..FileBlocks
        BY <2>3 DEF IInv, Loaded, Complete, MemInv
      <3>3. Transfer!Report
        BY <2>2, <3>1, <3>2 DEF Transfer!Report, Transfer!AllBlocks
      <3> QED
        BY <3>3 DEF Transfer!Next
    <2>4. CASE ~(NetState = "SUCCESS" /\ ~again)
      <3>1. LoadStatus \in {"loading", "disturbed"} /\ LoadStatus' = "ended"
        BY <2>1, <2>2, <2>4 DEF LoadStatus
      <3>2. Transfer!Fail \/ Transfer!Straggle
        BY <1>1, <2>2, <3>1 DEF Transfer!Fail, Transfer!Straggle
      <3> QED
        BY <3>2 DEF Transfer!Next
    <2> QED
      BY <2>3, <2>4
  <1>11. CASE Server \/ (\E t \in Tids : ServerError(t)) \/ UNCHANGED vars
    <2>1. UNCHANGED <<phase, NetState, again, mem>>
      BY <1>11 DEF Server, ServerAccept, ServerSend, ServerError, loop, image, vars
    <2> QED
      BY <2>1 DEF Stored, LoadStatus
  <1> QED
    BY <1>4, <1>5, <1>6, <1>7, <1>8, <1>9, <1>10, <1>11 DEF Next, Receive, Timers, Switch

(* The TFTP client implements Load: blocks come to memory in their order,   *)
(* no retry or restart takes one away, and success is reported with all of  *)
(* them there (TftpHandler, NetLoop).                                       *)
THEOREM TftpImplementsLoad ==
  ASSUME NoWrap, FreshPorts
  PROVE  Spec => ImplementsLoad
  BY LoadedInit, LoadedStep, TransferInit, TransferStep, PTL
     DEF Spec, ImplementsLoad, Transfer!Spec

=============================================================================
