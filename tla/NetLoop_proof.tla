---------------------------- MODULE NetLoop_proof ---------------------------
(***************************************************************************)
(* Proofs about NetLoop, for any hosts, subnet and gateway, any timers and *)
(* retry counts and any number of starts: types, that packets go where     *)
(* they have to, and that the slot of ARP does not undo a success.         *)
(***************************************************************************)
EXTENDS NetLoop, TLAPS

(* Whom ArpRequest asks is on the subnet, or nobody. *)
LEMMA HopLemma ==
  ASSUME NEW d \in Hosts
  PROVE  NextHop(d) \in Local \cup {NoAddr} /\ ReplyIP(d) \in Local \cup {NoAddr}
  BY NetLoopAssumption DEF NextHop, ReplyIP

LEMMA LaterLemma ==
  ASSUME NEW n \in 0..Longest
  PROVE  Later(n) \in 0..Longest
  BY NetLoopAssumption DEF Later

(* What NetStartAgain leaves. *)
LEMMA StartAgainLemma ==
  ASSUME TypeOK, NEW handler \in {timeHandler, "none"}, NetStartAgain(handler)
  PROVE  /\ elapsed' \in 0..Longest
         /\ NetState' \in {NetState, "FAIL"}
         /\ \/ packetHandler' = packetHandler /\ timeHandler' \in {timeHandler, "none"}
            \/ /\ packetHandler' = "startAgainHandler" /\ timeHandler' = "startAgainTimeout"
               /\ netretry = "yes"
  <1>1. 0 \in 0..Longest
    BY NetLoopAssumption
  <1>2. CASE netretry = "yes"
    BY <1>1, <1>2 DEF NetStartAgain, NetSetTimeout
  <1>3. CASE netretry # "yes"
    BY <1>3 DEF NetStartAgain, TypeOK
  <1> QED
    BY <1>2, <1>3

(* A step that sends nothing, leaves what waits, and at most gives up.      *)
LEMMA QuietLemma ==
  ASSUME IInv, TypeOK',
         UNCHANGED <<protocol, peer, netretry, NetOurIP, NetServerIP, NetServerEther>>,
         UNCHANGED <<NetArpWaitPacketIP, NetArpWaitTxPacket, start, frames>>,
         NetArpWaitReplyIP' = NetArpWaitReplyIP
           \/ (NetOurIP = Me => NetArpWaitReplyIP' = NextHop(NetArpWaitPacketIP)),
         \/ packetHandler' = packetHandler /\ timeHandler' \in {timeHandler, "none"}
         \/ /\ packetHandler' = "startAgainHandler" /\ timeHandler' = "startAgainTimeout"
            /\ netretry = "yes",
         NetState' \in {NetState, "FAIL"} \/ (NetState' = "RESTART" /\ netretry = "yes")
  PROVE  IInv'
  <1>0. TypeOK /\ HandlerInv /\ SlotInv /\ FrameInv /\ RightNextHop /\ AbandonedNotSent
    BY DEF IInv
  <1>1. HandlerInv'
    BY <1>0 DEF HandlerInv
  <1>2. SlotInv'
    BY <1>0 DEF SlotInv, NextHop
  <1>3. FrameInv'
    BY <1>0 DEF FrameInv
  <1>4. RightNextHop' /\ AbandonedNotSent'
    BY <1>0 DEF RightNextHop, AbandonedNotSent, NextHop
  <1> QED
    BY <1>1, <1>2, <1>3, <1>4 DEF IInv

(* NetSendUDPPacket to the server of this start: the packet waits, or goes  *)
(* where the server is reached.                                            *)
LEMMA SendLemma ==
  ASSUME IInv, packetHandler = "TftpHandler", NetSendUDPPacket,
         UNCHANGED <<protocol, peer, netretry, packetHandler, NetOurIP, NetServerIP,
                     NetServerEther, BootpTry, start>>,
         NetSetTimeout("TftpTimeout"),
         phase' \in {"rx", "switch"}, TftpTimeoutCount' \in Nat,
         NetState' \in {NetState, "SUCCESS"},
         NetState' # NetState => \E f \in frames : f.start = start
  PROVE  IInv'
  <1>0. TypeOK /\ HandlerInv /\ SlotInv /\ FrameInv /\ RightNextHop /\ AbandonedNotSent
    BY DEF IInv
  <1>1. NetOurIP = Me /\ Me # NoAddr
    BY <1>0 DEF HandlerInv, Me, NoAddr
  <1>2. /\ NetServerIP \in Hosts /\ NetServerIP # NoAddr /\ start \in 1..MaxStarts
        /\ MaxStarts \in Nat
    BY <1>0, NetLoopAssumption DEF TypeOK
  <1>3. timeHandler' = "TftpTimeout" /\ elapsed' \in 0..Longest
    BY NetLoopAssumption DEF NetSetTimeout
  <1>4. HandlerInv'
    BY <1>0, <1>3 DEF HandlerInv
  <1>5. TypeOK' = (/\ NetArpWaitPacketIP' \in Hosts \cup {NoAddr}
                   /\ NetArpWaitReplyIP' \in Local \cup {NoAddr}
                   /\ NetArpWaitTxPacket' \in 1..MaxStarts
                   /\ NetArpWaitTry' \in 0..(ArpCount - 1)
                   /\ arpElapsed' \in 0..Longest
                   /\ asked' \subseteq Local /\ frames' \subseteq Frames)
    BY <1>0, <1>3 DEF TypeOK, Timers
  <1>6. CASE NetServerEther = NoAddr
    <2>1. /\ NetArpWaitPacketIP' = NetServerIP /\ NetArpWaitTxPacket' = start
          /\ NetArpWaitTry' = 1 /\ UNCHANGED frames
          /\ NetArpWaitReplyIP' = NextHop(NetServerIP)
          /\ asked' = asked \cup ({NextHop(NetServerIP)} \ {NoAddr}) /\ arpElapsed' = 0
      BY <1>1, <1>6 DEF NetSendUDPPacket, Wait, ArpRequest, ReplyIP
    <2>2. NextHop(NetServerIP) \in Local \cup {NoAddr}
      BY <1>2, HopLemma
    <2>3. 1 \in 0..(ArpCount - 1) /\ 0 \in 0..Longest
      BY NetLoopAssumption
    <2>4. asked' \subseteq Local /\ frames' \subseteq Frames
      BY <1>0, <2>1, <2>2 DEF TypeOK
    <2>5. TypeOK'
      BY <1>2, <1>5, <2>1, <2>2, <2>3, <2>4
    <2>6. SlotInv'
      BY <1>0, <1>1, <1>2, <1>6, <2>1 DEF SlotInv, NextHop
    <2>7. \A f \in frames : f.start <= start /\ f.start # start
      BY <1>0, <1>6 DEF FrameInv
    <2>8. FrameInv'
      BY <1>0, <2>1, <2>7 DEF FrameInv
    <2>9. RightNextHop' /\ AbandonedNotSent'
      BY <1>0, <2>1 DEF RightNextHop, AbandonedNotSent, NextHop
    <2> QED
      BY <1>4, <2>5, <2>6, <2>8, <2>9 DEF IInv
  <1>7. CASE NetServerEther # NoAddr
    <2> DEFINE g == Frame(NetServerIP, start, NetServerEther, start)
    <2>1. /\ frames' = frames \cup {g}
          /\ UNCHANGED <<NetArpWaitPacketIP, NetArpWaitReplyIP, NetArpWaitTxPacket, NetArpWaitTry,
                         arpElapsed, asked>>
      BY <1>7 DEF NetSendUDPPacket, arp
    <2>2. /\ NetServerEther = NextHop(NetServerIP) /\ NetServerEther \in Hosts
          /\ NetArpWaitPacketIP = NoAddr
      BY <1>0, <1>7, NetLoopAssumption DEF SlotInv, TypeOK
    <2>3. /\ g \in Frames /\ g.dest = NetServerIP /\ g.to = NetServerEther
          /\ g.start = start /\ g.at = start
      BY <1>2, <2>2 DEF Frame, Frames
    <2> HIDE DEF g
    <2>4. TypeOK'
      <3>1. frames' \subseteq Frames
        BY <1>0, <2>1, <2>3 DEF TypeOK
      <3> QED
        BY <1>0, <1>5, <2>1, <3>1 DEF TypeOK
    <2>5. SlotInv'
      BY <1>0, <2>1 DEF SlotInv, NextHop
    <2>6. \A f \in frames' : f.start <= start
      BY <1>0, <1>2, <2>1, <2>3 DEF FrameInv
    <2>7. FrameInv'
      BY <1>0, <1>7, <2>1, <2>2, <2>3, <2>6 DEF FrameInv
    <2>8. RightNextHop' /\ AbandonedNotSent'
      BY <1>0, <2>1, <2>2, <2>3 DEF RightNextHop, AbandonedNotSent, NextHop
    <2> QED
      BY <1>4, <2>4, <2>5, <2>7, <2>8 DEF IInv
  <1> QED
    BY <1>6, <1>7

(* The start of a load, or of a ping: the packet of the new start waits.    *)
LEMMA WaitLemma ==
  ASSUME TypeOK, NEW d \in Hosts, NEW s \in 1..MaxStarts, NetOurIP = Me, Wait(d, s)
  PROVE  /\ NetArpWaitPacketIP' = d /\ d # NoAddr /\ NetArpWaitTxPacket' = s
         /\ NetArpWaitTry' \in 0..(ArpCount - 1) /\ arpElapsed' \in 0..Longest
         /\ NetArpWaitReplyIP' = NextHop(d) /\ NetArpWaitReplyIP' \in Local \cup {NoAddr}
         /\ asked' \subseteq Local /\ frames' = frames
  <1>1. NextHop(d) \in Local \cup {NoAddr} /\ Me # NoAddr
    BY HopLemma DEF Me, NoAddr
  <1>2. 1 \in 0..(ArpCount - 1) /\ 0 \in 0..Longest /\ d # NoAddr
    BY NetLoopAssumption
  <1>3. /\ NetArpWaitReplyIP' = NextHop(d) /\ arpElapsed' = 0
        /\ asked' = asked \cup ({NextHop(d)} \ {NoAddr})
    BY <1>1 DEF Wait, ArpRequest, ReplyIP
  <1>4. asked' \subseteq Local
    BY <1>1, <1>3 DEF TypeOK
  <1> QED
    BY <1>1, <1>2, <1>3, <1>4 DEF Wait

LEMMA InitLemma == Init => IInv
  <1> SUFFICES ASSUME Init PROVE IInv
    OBVIOUS
  <1>0. /\ 0 \in 0..Longest /\ 1 \in 1..MaxStarts /\ 1 \in 0..(ArpCount - 1)
        /\ 0 \in Nat /\ peer \in Hosts /\ peer # NoAddr
    BY NetLoopAssumption DEF Init
  <1>1. NextHop(peer) \in Local \cup {NoAddr}
    BY <1>0, HopLemma
  <1>2. asked \subseteq Local /\ NetArpWaitReplyIP \in Local \cup {NoAddr}
    <2>1. CASE protocol = "DHCP"
      BY <2>1 DEF Init
    <2>2. CASE protocol # "DHCP"
      BY <1>1, <2>2 DEF Init
    <2> QED
      BY <2>1, <2>2
  <1>3. TypeOK
    BY <1>0, <1>2 DEF Init, TypeOK, Timers, Protocols
  <1>4. HandlerInv
    BY DEF Init, HandlerInv, Protocols
  <1>5. SlotInv
    BY DEF Init, SlotInv, Protocols, Me, NoAddr
  <1>6. FrameInv /\ RightNextHop /\ AbandonedNotSent
    BY DEF Init, FrameInv, RightNextHop, AbandonedNotSent
  <1> QED
    BY <1>3, <1>4, <1>5, <1>6 DEF IInv

(* The packet that waits is sent to the host that was asked for. *)
LEMMA ArpReplyLemma ==
  ASSUME IInv, NEW h \in Hosts, ArpReply(h)
  PROVE  IInv'
  <1> DEFINE g == Frame(NetArpWaitPacketIP, NetArpWaitTxPacket, h, start)
  <1>0. TypeOK /\ HandlerInv /\ SlotInv /\ FrameInv /\ RightNextHop /\ AbandonedNotSent
    BY DEF IInv
  <1>1. /\ h \in Local /\ h # NoAddr
        /\ NetArpWaitPacketIP \in Hosts /\ NetArpWaitPacketIP # NoAddr /\ h = NetArpWaitReplyIP
        /\ NetArpWaitTxPacket \in 1..MaxStarts /\ start \in 1..MaxStarts /\ MaxStarts \in Nat
    BY <1>0, NetLoopAssumption DEF ArpReply, TypeOK
  <1>2. /\ frames' = frames \cup {g}
        /\ NetServerEther' = (IF protocol = "PING" THEN NetServerEther ELSE h)
        /\ NetArpWaitPacketIP' = NoAddr
        /\ UNCHANGED <<phase, protocol, peer, netretry, NetState, packetHandler, timeHandler, elapsed,
                       NetOurIP, NetServerIP, TftpTimeoutCount, BootpTry, NetArpWaitReplyIP,
                       NetArpWaitTxPacket, NetArpWaitTry, arpElapsed, start, asked>>
    BY DEF ArpReply, command, timer, tries
  <1>3. /\ g \in Frames /\ g.dest = NetArpWaitPacketIP /\ g.to = h
        /\ g.start = NetArpWaitTxPacket /\ g.at = start
    BY <1>1 DEF Frame, Frames
  <1> HIDE DEF g
  <1>4. NetServerEther' \in Local \cup {NoAddr} /\ (protocol # "PING" => NetServerEther' = h)
    BY <1>0, <1>1, <1>2 DEF TypeOK
  <1>5. TypeOK'
    <2>1. frames' \subseteq Frames
      BY <1>0, <1>2, <1>3 DEF TypeOK
    <2> QED
      BY <1>0, <1>2, <1>4, <2>1 DEF TypeOK
  <1>6. HandlerInv'
    BY <1>0, <1>2 DEF HandlerInv
  <1>7. packetHandler = "TftpHandler" =>
          NetServerEther' = NextHop(NetServerIP) /\ NetServerEther' # NoAddr
    BY <1>0, <1>1, <1>4 DEF HandlerInv, SlotInv
  <1>8. SlotInv'
    BY <1>0, <1>2, <1>7 DEF SlotInv, NextHop
  <1>9. FrameInv'
    <2>1. \A f \in frames' : f.start <= start
      BY <1>0, <1>1, <1>2, <1>3 DEF FrameInv, SlotInv
    <2>2. \A f \in frames' : f.start = start => packetHandler \notin {"Selecting", "Requesting"}
      BY <1>0, <1>1, <1>2, <1>3 DEF FrameInv, SlotInv
    <2> QED
      BY <1>0, <1>2, <1>7, <2>1, <2>2 DEF FrameInv
  <1>10. RightNextHop'
    BY <1>0, <1>1, <1>2, <1>3 DEF RightNextHop, SlotInv, NextHop
  <1>11. AbandonedNotSent'
    BY <1>0, <1>1, <1>2, <1>3 DEF AbandonedNotSent, SlotInv
  <1> QED
    BY <1>5, <1>6, <1>8, <1>9, <1>10, <1>11 DEF IInv

LEMMA TftpHandlerLemma ==
  ASSUME IInv, TftpHandler
  PROVE  IInv'
  <1>0. TypeOK
    BY DEF IInv
  <1>1. PICK f \in frames : f.start = start
    BY DEF TftpHandler, Reached
  <1>2. /\ phase = "rx" /\ packetHandler = "TftpHandler"
        /\ UNCHANGED <<phase, protocol, peer, netretry, NetOurIP, NetServerIP, NetServerEther,
                       TftpTimeoutCount, BootpTry, start>>
    BY DEF TftpHandler, command, address, tries
  <1>3. CASE /\ NetSetTimeout("TftpTimeout") /\ NetSendUDPPacket
             /\ NetState' \in {NetState, "SUCCESS"} /\ UNCHANGED packetHandler
    <2>1. phase' \in {"rx", "switch"} /\ TftpTimeoutCount' \in Nat
      BY <1>0, <1>2 DEF TypeOK
    <2> QED
      BY <1>1, <1>2, <1>3, <2>1, SendLemma
  <1>4. CASE NetStartAgain(timeHandler) /\ UNCHANGED <<arp, asked, frames>>
    <2>1. /\ elapsed' \in 0..Longest
          /\ NetState' \in {NetState, "FAIL"}
          /\ \/ packetHandler' = packetHandler /\ timeHandler' \in {timeHandler, "none"}
             \/ /\ packetHandler' = "startAgainHandler" /\ timeHandler' = "startAgainTimeout"
                /\ netretry = "yes"
      BY <1>0, <1>4, StartAgainLemma
    <2>2. UNCHANGED <<NetArpWaitPacketIP, NetArpWaitReplyIP, NetArpWaitTxPacket, NetArpWaitTry,
                      arpElapsed, asked, frames>>
      BY <1>4 DEF arp
    <2>3. TypeOK'
      BY <1>0, <1>2, <2>1, <2>2 DEF TypeOK, Timers
    <2> QED
      BY <1>2, <2>1, <2>2, <2>3, QuietLemma
  <1> QED
    BY <1>3, <1>4 DEF TftpHandler

LEMMA PingHandlerLemma ==
  ASSUME IInv, PingHandler
  PROVE  IInv'
  <1>0. TypeOK /\ HandlerInv /\ SlotInv /\ FrameInv /\ RightNextHop /\ AbandonedNotSent
    BY DEF IInv
  <1>1. /\ NetState' = "SUCCESS"
        /\ UNCHANGED <<phase, protocol, peer, netretry, packetHandler, timeHandler, elapsed,
                       NetOurIP, NetServerIP, NetServerEther, TftpTimeoutCount, BootpTry,
                       NetArpWaitPacketIP, NetArpWaitReplyIP, NetArpWaitTxPacket, NetArpWaitTry,
                       arpElapsed, start, asked, frames>>
    BY DEF PingHandler, command, timer, address, tries, arp
  <1>2. netretry # "yes" => \E f \in frames : f.start = start
    <2>1. PICK s \in 1..start : \E f \in frames : f.start = s
      BY DEF PingHandler, Reached
    <2>2. start \in Nat /\ (netretry # "yes" => start = 1)
      BY <1>0, NetLoopAssumption DEF TypeOK, HandlerInv
    <2> QED
      BY <2>1, <2>2
  <1>3. TypeOK'
    BY <1>0, <1>1 DEF TypeOK
  <1>4. HandlerInv'
    BY <1>0, <1>1 DEF HandlerInv
  <1>5. SlotInv'
    BY <1>0, <1>1 DEF SlotInv, NextHop
  <1>6. FrameInv'
    BY <1>0, <1>1, <1>2 DEF FrameInv
  <1>7. RightNextHop' /\ AbandonedNotSent'
    BY <1>0, <1>1 DEF RightNextHop, AbandonedNotSent, NextHop
  <1> QED
    BY <1>3, <1>4, <1>5, <1>6, <1>7 DEF IInv

LEMMA OfferLemma ==
  ASSUME IInv, Offer
  PROVE  IInv'
  <1>0. TypeOK /\ HandlerInv /\ SlotInv /\ FrameInv /\ RightNextHop /\ AbandonedNotSent
    BY DEF IInv
  <1>1. /\ packetHandler = "Selecting" /\ packetHandler' = "Requesting"
        /\ NetOurIP' = Me /\ NetServerIP' \in Hosts /\ NetServerEther' \in Local
        /\ timeHandler' = "BootpTimeout" /\ elapsed' \in 0..Longest
        /\ UNCHANGED <<phase, protocol, peer, netretry, NetState, TftpTimeoutCount, BootpTry,
                       NetArpWaitPacketIP, NetArpWaitReplyIP, NetArpWaitTxPacket,
                       NetArpWaitTry, arpElapsed, start, asked, frames>>
    BY NetLoopAssumption DEF Offer, NetSetTimeout, command, tries, arp
  <1>2. TypeOK'
    BY <1>0, <1>1 DEF TypeOK, Timers
  <1>3. HandlerInv'
    BY <1>0, <1>1 DEF HandlerInv
  <1>4. SlotInv'
    BY <1>0, <1>1 DEF SlotInv, NextHop
  <1>5. FrameInv'
    BY <1>0, <1>1 DEF FrameInv
  <1>6. RightNextHop' /\ AbandonedNotSent'
    BY <1>0, <1>1 DEF RightNextHop, AbandonedNotSent, NextHop
  <1> QED
    BY <1>2, <1>3, <1>4, <1>5, <1>6 DEF IInv

(* dhcp ends in a load of the same start: its packet takes the slot.        *)
LEMMA AckLemma ==
  ASSUME IInv, Ack
  PROVE  IInv'
  <1>0. TypeOK /\ HandlerInv /\ SlotInv /\ FrameInv /\ RightNextHop /\ AbandonedNotSent
    BY DEF IInv
  <1>1. /\ packetHandler = "Requesting" /\ packetHandler' = "TftpHandler"
        /\ NetServerIP' \in Hosts /\ NetServerEther' = NoAddr
        /\ timeHandler' = "TftpTimeout" /\ elapsed' \in 0..Longest /\ TftpTimeoutCount' = 0
        /\ Wait(NetServerIP', start)
        /\ UNCHANGED <<phase, protocol, peer, netretry, NetState, NetOurIP, BootpTry, start>>
    BY NetLoopAssumption DEF Ack, TftpStart, NetSetTimeout, command
  <1>2. NetOurIP = Me /\ start \in 1..MaxStarts /\ protocol = "DHCP"
    BY <1>0, <1>1 DEF TypeOK, HandlerInv
  <1>3. /\ NetArpWaitPacketIP' = NetServerIP' /\ NetArpWaitTxPacket' = start
        /\ NetArpWaitTry' \in 0..(ArpCount - 1) /\ arpElapsed' \in 0..Longest
        /\ NetArpWaitReplyIP' = NextHop(NetServerIP') /\ NetArpWaitReplyIP' \in Local \cup {NoAddr}
        /\ asked' \subseteq Local /\ frames' = frames
    BY <1>0, <1>1, <1>2, WaitLemma
  <1>4. TypeOK'
    <2>1. 0 \in Nat
      BY NetLoopAssumption
    <2> QED
      BY <1>0, <1>1, <1>3, <2>1 DEF TypeOK, Timers
  <1>5. HandlerInv'
    BY <1>0, <1>1, <1>2 DEF HandlerInv
  <1>6. SlotInv'
    <2>1. start <= start
      BY <1>2, NetLoopAssumption
    <2> QED
      BY <1>1, <1>2, <1>3, <2>1 DEF SlotInv, NextHop
  <1>7. FrameInv'
    BY <1>0, <1>1, <1>3 DEF FrameInv
  <1>8. RightNextHop' /\ AbandonedNotSent'
    BY <1>0, <1>1, <1>3 DEF RightNextHop, AbandonedNotSent, NextHop
  <1> QED
    BY <1>4, <1>5, <1>6, <1>7, <1>8 DEF IInv

(* Steps that only move NetLoop on, count time, ask again or give up. *)
LEMMA TickLemma ==
  ASSUME IInv, Tick
  PROVE  IInv'
  <1>0. TypeOK
    BY DEF IInv
  <1>1. /\ elapsed' = Later(elapsed) /\ arpElapsed' \in {arpElapsed, Later(arpElapsed)}
        /\ UNCHANGED <<phase, protocol, peer, netretry, NetState, packetHandler, timeHandler,
                       NetOurIP, NetServerIP, NetServerEther, TftpTimeoutCount, BootpTry,
                       NetArpWaitPacketIP, NetArpWaitReplyIP, NetArpWaitTxPacket,
                       NetArpWaitTry, start, asked, frames>>
    BY DEF Tick, command, address, tries
  <1>2. elapsed' \in 0..Longest /\ arpElapsed' \in 0..Longest
    BY <1>0, <1>1, LaterLemma DEF TypeOK
  <1>3. TypeOK'
    BY <1>0, <1>1, <1>2 DEF TypeOK
  <1> QED
    BY <1>1, <1>3, QuietLemma

LEMMA PassLemma ==
  ASSUME IInv, RxDone \/ ArpNotDue \/ NoTimeout \/ Continue \/ Return
  PROVE  IInv'
  <1>0. TypeOK
    BY DEF IInv
  <1>1. /\ phase' \in {"rx", "arp", "timer", "switch", "done", "aborted"}
        /\ UNCHANGED <<protocol, peer, netretry, NetState, packetHandler, timeHandler,
                       elapsed, NetOurIP, NetServerIP, NetServerEther, TftpTimeoutCount,
                       BootpTry, NetArpWaitPacketIP, NetArpWaitReplyIP, NetArpWaitTxPacket,
                       NetArpWaitTry, arpElapsed, start, asked, frames>>
    BY DEF RxDone, ArpNotDue, NoTimeout, Continue, Return, command, timer, address, tries, arp
  <1>2. TypeOK'
    BY <1>0, <1>1 DEF TypeOK
  <1> QED
    BY <1>1, <1>2, QuietLemma

LEMMA TimeoutLemma ==
  ASSUME IInv, PingTimeout \/ StartAgainTimeout
  PROVE  IInv'
  <1>0. TypeOK /\ HandlerInv
    BY DEF IInv
  <1>1. /\ phase' = "switch" /\ timeHandler' = "none"
        /\ NetState' = "FAIL" \/ (NetState' = "RESTART" /\ timeHandler = "startAgainTimeout")
        /\ UNCHANGED <<protocol, peer, netretry, packetHandler, elapsed, NetOurIP,
                       NetServerIP, NetServerEther, TftpTimeoutCount, BootpTry,
                       NetArpWaitPacketIP, NetArpWaitReplyIP, NetArpWaitTxPacket,
                       NetArpWaitTry, arpElapsed, start, asked, frames>>
    BY DEF PingTimeout, StartAgainTimeout, Expired, command, address, tries, arp
  <1>2. NetState' = "FAIL" \/ (NetState' = "RESTART" /\ netretry = "yes")
    BY <1>0, <1>1 DEF HandlerInv
  <1>3. TypeOK'
    BY <1>0, <1>1 DEF TypeOK
  <1> QED
    BY <1>1, <1>2, <1>3, QuietLemma

LEMMA ArpRetryLemma ==
  ASSUME IInv, ArpRetry
  PROVE  IInv'
  <1>0. TypeOK
    BY DEF IInv
  <1>1. /\ NetArpWaitTry' = NetArpWaitTry + 1 /\ NetArpWaitTry + 1 < ArpCount
        /\ NetArpWaitReplyIP' = ReplyIP(NetArpWaitPacketIP)
        /\ asked' \subseteq asked \cup ({ReplyIP(NetArpWaitPacketIP)} \ {NoAddr})
        /\ arpElapsed' = 0 /\ phase' = "timer" /\ NetArpWaitPacketIP # NoAddr
        /\ UNCHANGED <<protocol, peer, netretry, NetState, packetHandler, timeHandler,
                       elapsed, NetOurIP, NetServerIP, NetServerEther, TftpTimeoutCount,
                       BootpTry, NetArpWaitPacketIP, NetArpWaitTxPacket, start, frames>>
    BY DEF ArpRetry, ArpExpired, ArpRequest, command, timer, address, tries
  <1>2. NetArpWaitTry' \in 0..(ArpCount - 1) /\ arpElapsed' \in 0..Longest
    BY <1>0, <1>1, NetLoopAssumption DEF TypeOK
  <1>3. ReplyIP(NetArpWaitPacketIP) \in Local \cup {NoAddr}
    BY <1>0, <1>1, HopLemma DEF TypeOK
  <1>4. asked' \subseteq Local /\ NetArpWaitReplyIP' \in Local \cup {NoAddr}
    BY <1>0, <1>1, <1>3 DEF TypeOK
  <1>5. TypeOK'
    BY <1>0, <1>1, <1>2, <1>4 DEF TypeOK
  <1>6. NetOurIP = Me => NetArpWaitReplyIP' = NextHop(NetArpWaitPacketIP)
    BY <1>1 DEF ReplyIP, Me, NoAddr
  <1> QED
    BY <1>1, <1>5, <1>6, QuietLemma

LEMMA ArpGivesUpLemma ==
  ASSUME IInv, ArpGivesUp
  PROVE  IInv'
  <1>0. TypeOK
    BY DEF IInv
  <1>1. /\ NetArpWaitTry' = 0 /\ phase' = "timer" /\ NetStartAgain(timeHandler)
        /\ UNCHANGED <<protocol, peer, netretry, NetOurIP, NetServerIP, NetServerEther,
                       TftpTimeoutCount, BootpTry, NetArpWaitPacketIP, NetArpWaitReplyIP,
                       NetArpWaitTxPacket, arpElapsed, start, asked, frames>>
    BY DEF ArpGivesUp, command, address, tries
  <1>2. /\ elapsed' \in 0..Longest
        /\ NetState' \in {NetState, "FAIL"}
        /\ \/ packetHandler' = packetHandler /\ timeHandler' \in {timeHandler, "none"}
           \/ /\ packetHandler' = "startAgainHandler" /\ timeHandler' = "startAgainTimeout"
              /\ netretry = "yes"
    BY <1>0, <1>1, StartAgainLemma
  <1>3. 0 \in 0..(ArpCount - 1)
    BY NetLoopAssumption
  <1>4. TypeOK'
    BY <1>0, <1>1, <1>2, <1>3 DEF TypeOK, Timers
  <1> QED
    BY <1>1, <1>2, <1>4, QuietLemma

LEMMA TftpTimeoutLemma ==
  ASSUME IInv, TftpTimeout
  PROVE  IInv'
  <1>0. TypeOK /\ HandlerInv
    BY DEF IInv
  <1>1. /\ packetHandler = "TftpHandler" /\ phase' = "switch"
        /\ TftpTimeoutCount' = TftpTimeoutCount + 1
        /\ UNCHANGED <<protocol, peer, netretry, NetOurIP, NetServerIP, NetServerEther, BootpTry, start>>
    BY <1>0 DEF TftpTimeout, Expired, HandlerInv, command, address
  <1>2. CASE TftpTimeoutCount' > TftpCount
    <2>1. /\ NetStartAgain("none")
          /\ UNCHANGED <<NetArpWaitPacketIP, NetArpWaitReplyIP, NetArpWaitTxPacket, NetArpWaitTry,
                         arpElapsed, asked, frames>>
      BY <1>2 DEF TftpTimeout, arp
    <2>2. /\ elapsed' \in 0..Longest
          /\ NetState' \in {NetState, "FAIL"}
          /\ \/ packetHandler' = packetHandler /\ timeHandler' \in {timeHandler, "none"}
             \/ /\ packetHandler' = "startAgainHandler" /\ timeHandler' = "startAgainTimeout"
                /\ netretry = "yes"
      BY <1>0, <2>1, StartAgainLemma
    <2>3. TypeOK'
      BY <1>0, <1>1, <2>1, <2>2 DEF TypeOK, Timers
    <2> QED
      BY <1>1, <2>1, <2>2, <2>3, QuietLemma
  <1>3. CASE ~(TftpTimeoutCount' > TftpCount)
    <2>1. /\ NetSetTimeout("TftpTimeout") /\ NetSendUDPPacket /\ UNCHANGED <<NetState, packetHandler>>
      BY <1>3 DEF TftpTimeout
    <2>2. TftpTimeoutCount' \in Nat
      BY <1>0, <1>1, <1>3, NetLoopAssumption DEF TypeOK
    <2> QED
      BY <1>1, <2>1, <2>2, SendLemma
  <1> QED
    BY <1>2, <1>3

LEMMA BootpTimeoutLemma ==
  ASSUME IInv, BootpTimeout
  PROVE  IInv'
  <1>0. TypeOK /\ HandlerInv /\ SlotInv /\ FrameInv /\ RightNextHop /\ AbandonedNotSent
    BY DEF IInv
  <1>1. /\ packetHandler \in {"Selecting", "Requesting"} /\ protocol = "DHCP" /\ phase' = "switch"
        /\ UNCHANGED <<protocol, peer, netretry, NetOurIP, NetServerIP, NetServerEther,
                       TftpTimeoutCount, NetArpWaitPacketIP, NetArpWaitReplyIP,
                       NetArpWaitTxPacket, NetArpWaitTry, arpElapsed, start, asked, frames>>
    BY <1>0 DEF BootpTimeout, Expired, HandlerInv, command, address, arp
  <1>2. CASE BootpTry >= BootpCount
    <2>1. NetStartAgain("none") /\ UNCHANGED BootpTry
      BY <1>2 DEF BootpTimeout
    <2>2. /\ elapsed' \in 0..Longest
          /\ NetState' \in {NetState, "FAIL"}
          /\ \/ packetHandler' = packetHandler /\ timeHandler' \in {timeHandler, "none"}
             \/ /\ packetHandler' = "startAgainHandler" /\ timeHandler' = "startAgainTimeout"
                /\ netretry = "yes"
      BY <1>0, <2>1, StartAgainLemma
    <2>3. TypeOK'
      BY <1>0, <1>1, <2>1, <2>2 DEF TypeOK, Timers
    <2> QED
      BY <1>1, <2>2, <2>3, QuietLemma
  <1>3. CASE ~(BootpTry >= BootpCount)
    <2>1. /\ packetHandler' = "Selecting" /\ timeHandler' = "BootpTimeout"
          /\ elapsed' \in 0..Longest /\ BootpTry' = BootpTry + 1 /\ NetState' = NetState
      BY <1>3, NetLoopAssumption DEF BootpTimeout, BootpRequest, NetSetTimeout
    <2>2. BootpTry' \in Nat
      BY <1>0, <2>1 DEF TypeOK
    <2>3. TypeOK'
      BY <1>0, <1>1, <2>1, <2>2 DEF TypeOK, Timers
    <2>4. HandlerInv'
      BY <1>0, <1>1, <2>1 DEF HandlerInv
    <2>5. SlotInv'
      BY <1>0, <1>1, <2>1 DEF SlotInv, NextHop
    <2>6. FrameInv'
      BY <1>0, <1>1, <2>1 DEF FrameInv
    <2>7. RightNextHop' /\ AbandonedNotSent'
      BY <1>0, <1>1, <2>1 DEF RightNextHop, AbandonedNotSent, NextHop
    <2> QED
      BY <2>3, <2>4, <2>5, <2>6, <2>7 DEF IInv
  <1> QED
    BY <1>2, <1>3

(* A new start.  What the last one left in the slot is overwritten, or now  *)
(* belongs to an earlier start.                                            *)
LEMMA RestartLemma ==
  ASSUME IInv, Restart
  PROVE  IInv'
  <1>0. TypeOK /\ HandlerInv /\ SlotInv /\ FrameInv /\ RightNextHop /\ AbandonedNotSent
    BY DEF IInv
  <1>1. /\ phase' = "rx" /\ NetState' = "CONTINUE" /\ start' = start + 1
        /\ NetServerIP' = peer /\ UNCHANGED <<protocol, peer, netretry>>
        /\ netretry = "yes"
    BY <1>0 DEF Restart, HandlerInv, command
  <1>2. start' \in 1..MaxStarts /\ start < start' /\ start \in Nat /\ peer \in Hosts
    BY <1>0, <1>1, NetLoopAssumption DEF Restart, TypeOK
  <1>3. 0 \in 0..Longest /\ 0 \in Nat
    BY NetLoopAssumption
  <1>4. \A f \in frames : f.start <= start' /\ f.start # start'
    <2> SUFFICES ASSUME NEW f \in frames PROVE f.start <= start' /\ f.start # start'
      OBVIOUS
    <2>1. f.start \in 1..MaxStarts /\ f.start <= start
      BY <1>0 DEF TypeOK, Frames, FrameInv
    <2> QED
      BY <1>2, <2>1, NetLoopAssumption
  <1>5. NetArpWaitTxPacket <= start' /\ NetArpWaitTxPacket # start'
    BY <1>0, <1>2, NetLoopAssumption DEF TypeOK, SlotInv
  <1>6. CASE /\ protocol \in {"TFTP", "PING"} /\ Wait(peer, start')
             /\ packetHandler' = (IF protocol = "TFTP" THEN "TftpHandler" ELSE "PingHandler")
             /\ timeHandler' = (IF protocol = "TFTP" THEN "TftpTimeout" ELSE "PingTimeout")
             /\ elapsed' = 0 /\ TftpTimeoutCount' \in {0, TftpTimeoutCount}
             /\ NetServerEther' \in {NoAddr, NetServerEther}
             /\ (protocol = "TFTP" => NetServerEther' = NoAddr)
             /\ UNCHANGED <<NetOurIP, BootpTry>>
    <2>1. NetOurIP = Me
      BY <1>0, <1>6 DEF HandlerInv
    <2>2. /\ NetArpWaitPacketIP' = peer /\ NetArpWaitTxPacket' = start'
          /\ NetArpWaitTry' \in 0..(ArpCount - 1) /\ arpElapsed' \in 0..Longest
          /\ NetArpWaitReplyIP' = NextHop(peer) /\ NetArpWaitReplyIP' \in Local \cup {NoAddr}
          /\ asked' \subseteq Local /\ frames' = frames
      BY <1>0, <1>2, <1>6, <2>1, WaitLemma
    <2>3. TypeOK'
      BY <1>0, <1>1, <1>2, <1>3, <1>6, <2>2 DEF TypeOK, Timers
    <2>4. HandlerInv'
      BY <1>0, <1>1, <1>6, <2>1 DEF HandlerInv
    <2>5. SlotInv'
      <3>1. start' <= start'
        BY <1>2, NetLoopAssumption
      <3> QED
        BY <1>1, <1>6, <2>1, <2>2, <3>1 DEF SlotInv, NextHop
    <2>6. FrameInv'
      BY <1>1, <1>4, <2>2 DEF FrameInv
    <2>7. RightNextHop' /\ AbandonedNotSent'
      BY <1>0, <1>1, <2>2 DEF RightNextHop, AbandonedNotSent, NextHop
    <2> QED
      BY <2>3, <2>4, <2>5, <2>6, <2>7 DEF IInv
  <1>7. CASE /\ protocol = "DHCP" /\ NetOurIP' = NoAddr /\ BootpRequest
             /\ UNCHANGED <<NetServerEther, TftpTimeoutCount, arp, asked, frames>>
    <2>1. /\ packetHandler' = "Selecting" /\ timeHandler' = "BootpTimeout"
          /\ elapsed' = 0 /\ BootpTry' = BootpTry + 1
          /\ UNCHANGED <<NetServerEther, TftpTimeoutCount, NetArpWaitPacketIP, NetArpWaitReplyIP,
                         NetArpWaitTxPacket, NetArpWaitTry, arpElapsed, asked, frames>>
      BY <1>7 DEF BootpRequest, NetSetTimeout, arp
    <2>2. BootpTry' \in Nat
      BY <1>0, <2>1 DEF TypeOK
    <2>3. TypeOK'
      BY <1>0, <1>1, <1>2, <1>3, <1>7, <2>1, <2>2 DEF TypeOK, Timers
    <2>4. HandlerInv'
      BY <1>0, <1>1, <1>7, <2>1 DEF HandlerInv
    <2>5. SlotInv'
      BY <1>1, <1>5, <1>7, <2>1 DEF SlotInv, NextHop
    <2>6. FrameInv'
      BY <1>1, <1>4, <2>1 DEF FrameInv
    <2>7. RightNextHop' /\ AbandonedNotSent'
      BY <1>0, <1>1, <1>7, <2>1 DEF RightNextHop, AbandonedNotSent, NextHop
    <2> QED
      BY <2>3, <2>4, <2>5, <2>6, <2>7 DEF IInv
  <1> QED
    BY <1>6, <1>7 DEF Restart, TftpStart, PingStart, NetSetTimeout, tries

LEMMA StutterLemma ==
  ASSUME IInv, UNCHANGED vars
  PROVE  IInv'
  BY DEF IInv, TypeOK, HandlerInv, SlotInv, FrameInv, RightNextHop, AbandonedNotSent, NextHop, vars

LEMMA StepLemma == IInv /\ [Next]_vars => IInv'
  <1> SUFFICES ASSUME IInv, [Next]_vars PROVE IInv'
    OBVIOUS
  <1>1. CASE Receive
    BY <1>1, ArpReplyLemma, TftpHandlerLemma, PingHandlerLemma, OfferLemma, AckLemma DEF Receive
  <1>2. CASE Tick
    BY <1>2, TickLemma
  <1>3. CASE RxDone \/ ArpTimeoutCheck
    BY <1>3, PassLemma, ArpRetryLemma, ArpGivesUpLemma DEF ArpTimeoutCheck
  <1>4. CASE Timeout
    BY <1>4, PassLemma, TftpTimeoutLemma, BootpTimeoutLemma, TimeoutLemma DEF Timeout
  <1>5. CASE Switch
    BY <1>5, PassLemma, RestartLemma DEF Switch
  <1>6. CASE UNCHANGED vars
    BY <1>6, StutterLemma
  <1> QED
    BY <1>1, <1>2, <1>3, <1>4, <1>5, <1>6 DEF Next

(* The inductive invariant of the loop and its ARP slot holds throughout. *)
THEOREM NetLoopInvariant == Spec => []IInv
  BY InitLemma, StepLemma, PTL DEF Spec

(* The state keeps its types, and one MAC is asked for at most              *)
(* ARP_TIMEOUT_COUNT times in a row (ArpTimeoutCheck).                     *)
THEOREM NetLoopTyping == Spec => []TypeOK
  <1>1. IInv => TypeOK
    BY DEF IInv
  <1> QED
    BY <1>1, NetLoopInvariant, PTL

(* A packet of this start goes to its receiver or to the gateway, whatever  *)
(* replies to ARP requests come, and when (NetReceive, ArpRequest).        *)
THEOREM NetLoopRightNextHop == Spec => []RightNextHop
  <1>1. IInv => RightNextHop
    BY DEF IInv
  <1> QED
    BY <1>1, NetLoopInvariant, PTL

(* A load or a ping that starts again never sends the packet its last start *)
(* left waiting (TftpStart, PingStart).                                    *)
THEOREM NetLoopAbandonedNotSent == Spec => []AbandonedNotSent
  <1>1. IInv => AbandonedNotSent
    BY DEF IInv
  <1> QED
    BY <1>1, NetLoopInvariant, PTL

(* A success is not undone by giving up a wait for ARP in the same pass     *)
(* (ArpTimeoutCheck).                                                      *)
THEOREM NetLoopSuccessKept == Spec => SuccessKept
  <1>1. IInv /\ [Next]_vars =>
          [ArpTimeoutCheck /\ netretry # "yes" /\ NetState = "SUCCESS" => UNCHANGED NetState]_vars
    <2> SUFFICES ASSUME IInv, ArpTimeoutCheck, netretry # "yes", NetState = "SUCCESS"
                 PROVE  UNCHANGED NetState
      OBVIOUS
    <2>1. NetArpWaitPacketIP = NoAddr
      BY DEF IInv, FrameInv
    <2>2. ArpNotDue
      BY <2>1 DEF ArpTimeoutCheck, ArpRetry, ArpGivesUp, ArpExpired
    <2> QED
      BY <2>2 DEF ArpNotDue
  <1> QED
    BY <1>1, NetLoopInvariant, PTL DEF Spec, SuccessKept

(* Timer and handler change together. *)
LEMMA TimedStep == WaitIsTimed /\ [Next]_vars => WaitIsTimed'
  <1> SUFFICES ASSUME WaitIsTimed, [Next]_vars, NetState' = "CONTINUE"
               PROVE  timeHandler' = TimerOf[packetHandler']
    BY DEF WaitIsTimed
  <1> USE DEF WaitIsTimed
  <1>1. ASSUME NEW h, NetStartAgain(h) PROVE timeHandler' = TimerOf[packetHandler']
    BY <1>1 DEF NetStartAgain, NetSetTimeout, TimerOf
  <1>2. ASSUME UNCHANGED <<NetState, packetHandler, timeHandler>>
        PROVE  timeHandler' = TimerOf[packetHandler']
    BY <1>2
  <1>3. CASE Receive
    <2>1. CASE \E h \in Hosts : ArpReply(h)
      BY <1>2, <2>1 DEF ArpReply, timer
    <2>2. CASE TftpHandler
      <3>1. \/ packetHandler' = "TftpHandler" /\ timeHandler' = "TftpTimeout"
            \/ NetStartAgain(timeHandler)
        BY <2>2 DEF TftpHandler, NetSetTimeout
      <3> QED
        BY <1>1, <3>1 DEF TimerOf
    <2>3. CASE PingHandler
      BY <2>3 DEF PingHandler
    <2>4. CASE Offer \/ Ack
      BY <2>4 DEF Offer, Ack, TftpStart, NetSetTimeout, TimerOf
    <2> QED
      BY <1>3, <2>1, <2>2, <2>3, <2>4 DEF Receive
  <1>4. CASE Tick \/ RxDone \/ ArpNotDue \/ ArpRetry
    BY <1>2, <1>4 DEF Tick, RxDone, ArpNotDue, ArpRetry, timer
  <1>5. CASE ArpGivesUp
    BY <1>1, <1>5 DEF ArpGivesUp
  <1>6. CASE Timeout
    <2>1. CASE NoTimeout
      BY <1>2, <2>1 DEF NoTimeout, timer
    <2>2. CASE TftpTimeout
      <3>1. \/ NetStartAgain("none")
            \/ /\ UNCHANGED <<NetState, packetHandler>>
               /\ timeHandler = "TftpTimeout" /\ timeHandler' = "TftpTimeout"
        BY <2>2 DEF TftpTimeout, NetSetTimeout, Expired
      <3> QED
        BY <1>1, <1>2, <3>1
    <2>3. CASE PingTimeout \/ StartAgainTimeout
      BY <2>3 DEF PingTimeout, StartAgainTimeout
    <2>4. CASE BootpTimeout
      <3>1. NetStartAgain("none") \/ BootpRequest
        BY <2>4 DEF BootpTimeout
      <3> QED
        BY <1>1, <3>1 DEF BootpRequest, NetSetTimeout, TimerOf
    <2> QED
      BY <1>6, <2>1, <2>2, <2>3, <2>4 DEF Timeout
  <1>7. CASE Continue \/ Return \/ UNCHANGED vars
    BY <1>2, <1>7 DEF Continue, Return, timer, vars
  <1>8. CASE Restart
    BY <1>8 DEF Restart, TftpStart, PingStart, BootpRequest, NetSetTimeout, TimerOf
  <1> QED
    BY <1>3, <1>4, <1>5, <1>6, <1>7, <1>8 DEF Next, ArpTimeoutCheck, Switch

(* Whatever falls together, what NetLoop waits for has its own timer armed  *)
(* (NetSetTimeout, NetSetHandler).                                         *)
THEOREM NetLoopWaitIsTimed == Spec => []WaitIsTimed
  <1>1. Init => WaitIsTimed
    BY DEF Init, WaitIsTimed, TimerOf, Protocols
  <1> QED
    BY <1>1, TimedStep, PTL DEF Spec

=============================================================================
