------------------------------- MODULE NetLoop ------------------------------
(***************************************************************************)
(* NetLoop with the slot for the one packet that waits for ARP (net/net.c), *)
(* on a board with one ethernet device, for one command: a TFTP load, a    *)
(* ping, or dhcp followed by the load.  The handlers of TFTP and DHCP are   *)
(* reduced to what they do to NetLoop's state.                             *)
(*                                                                         *)
(* A pass is eth_rx, ctrlc, ArpTimeoutCheck, timeHandler, switch.  Time is  *)
(* counted in ticks; the two timers run independently.  The MAC address of  *)
(* a host is the host; the network loses, delays and duplicates.           *)
(***************************************************************************)
EXTENDS Integers

CONSTANTS
  Hosts,         \* the other machines
  Local,         \* those on the subnet of the board
  Gateway,       \* one of Local, or NoAddr when gatewayip is not set
  ArpTimeout,    \* ARP_TIMEOUT
  ArpCount,      \* ARP_TIMEOUT_COUNT
  Delta,         \* ticks of the other timers, for each timeHandler
  TftpCount,     \* TIMEOUT_COUNT of tftp.c
  BootpCount,    \* TIMEOUT_COUNT of bootp.c
  Longest,       \* bound: ticks are counted up to it
  MaxStarts      \* bound: how often the protocol is started

NoAddr == 0
Me == 1
Protocols == {"TFTP", "PING", "DHCP"}
Timers == {"TftpTimeout", "PingTimeout", "BootpTimeout", "startAgainTimeout"}

ASSUME NetLoopAssumption ==
  /\ NoAddr \notin Hosts /\ Me \notin Hosts
  /\ Local \subseteq Hosts
  /\ Gateway \in Local \cup {NoAddr}
  /\ ArpTimeout \in Nat \ {0}
  /\ ArpCount \in Nat \ {0, 1}
  /\ Delta \in [Timers -> Nat \ {0}]
  /\ TftpCount \in Nat /\ BootpCount \in Nat
  /\ Longest \in Nat /\ Longest > ArpTimeout /\ \A h \in Timers : Longest > Delta[h]
  /\ MaxStarts \in Nat \ {0}

VARIABLES
  phase,               \* where NetLoop is
  protocol,            \* its argument
  peer,                \* environment variable serverip, or the address to ping
  netretry,            \* environment variable of that name; "no" is "once" too
  NetState,
  packetHandler,
  timeHandler,
  elapsed,             \* get_timer(0) - timeStart
  NetOurIP,
  NetServerIP,
  NetServerEther,      \* NoAddr when not known
  TftpTimeoutCount,
  BootpTry,
  NetArpWaitPacketIP,  \* NoAddr: nothing waits
  NetArpWaitReplyIP,
  NetArpWaitTxPacket,  \* the start that wrote the packet
  NetArpWaitTry,
  arpElapsed,          \* get_timer(0) - NetArpWaitTimerStart
  start,               \* number of this start
  asked,               \* hosts asked for their MAC, by earlier commands too
  frames               \* unicast frames sent

command == <<protocol, peer, netretry>>
timer == <<timeHandler, elapsed>>
address == <<NetOurIP, NetServerIP, NetServerEther>>
tries == <<TftpTimeoutCount, BootpTry>>
arp == <<NetArpWaitPacketIP, NetArpWaitReplyIP, NetArpWaitTxPacket, NetArpWaitTry, arpElapsed>>
vars == <<phase, protocol, peer, netretry, NetState, packetHandler, timeHandler, elapsed,
          NetOurIP, NetServerIP, NetServerEther, TftpTimeoutCount, BootpTry,
          NetArpWaitPacketIP, NetArpWaitReplyIP, NetArpWaitTxPacket, NetArpWaitTry,
          arpElapsed, start, asked, frames>>

(* A packet of a start for an address, sent to a host during a start.       *)
Frames == [dest : Hosts, start : 1..MaxStarts, to : Hosts, at : 1..MaxStarts]
Frame(d, s, h, t) == [dest |-> d, start |-> s, to |-> h, at |-> t]

Later(n) == IF n < Longest THEN n + 1 ELSE n

-----------------------------------------------------------------------------
NetSetTimeout(handler) == timeHandler' = handler /\ elapsed' = 0

(* Where a packet for d has to be sent. *)
NextHop(d) == IF d \in Local THEN d ELSE Gateway

(* ArpRequest, whom it asks: while NetOurIP is 0 no host is on our subnet.  *)
ReplyIP(d) == IF NetOurIP = NoAddr THEN Gateway ELSE NextHop(d)

(* ArpRequest.  A request sent without an address of ours is answered to    *)
(* address 0, and the answer is dropped.                                   *)
ArpRequest(d) ==
  /\ NetArpWaitReplyIP' = ReplyIP(d)
  /\ asked' = asked \cup (IF NetOurIP = NoAddr THEN {} ELSE {ReplyIP(d)} \ {NoAddr})
  /\ arpElapsed' = 0

(* Mutant of Wait: a packet that waits is not overwritten. *)
WaitUnlessBusy(d, s) ==
  /\ IF NetArpWaitPacketIP = NoAddr
     THEN NetArpWaitPacketIP' = d /\ NetArpWaitTxPacket' = s
     ELSE UNCHANGED <<NetArpWaitPacketIP, NetArpWaitTxPacket>>
  /\ NetArpWaitTry' = 1
  /\ ArpRequest(d)
  /\ UNCHANGED frames

(* The packet is put into the slot, over one that waits, and its receiver   *)
(* asked for.  s is the start it belongs to.                               *)
Wait(d, s) ==
  /\ NetArpWaitPacketIP' = d
  /\ NetArpWaitTxPacket' = s
  /\ NetArpWaitTry' = 1
  /\ ArpRequest(d)
  /\ UNCHANGED frames

(* NetSendUDPPacket to the server *)
NetSendUDPPacket ==
  IF NetServerEther = NoAddr
  THEN Wait(NetServerIP, start)
  ELSE /\ frames' = frames \cup {Frame(NetServerIP, start, NetServerEther, start)}
       /\ UNCHANGED <<arp, asked>>

(* TftpStart, when our address is known *)
TftpStart(server, s) ==
  /\ NetSetTimeout("TftpTimeout")
  /\ packetHandler' = "TftpHandler"
  /\ TftpTimeoutCount' = 0
  /\ NetServerEther' = NoAddr
  /\ Wait(server, s)

PingStart(s) ==
  /\ NetSetTimeout("PingTimeout")
  /\ packetHandler' = "PingHandler"
  /\ Wait(peer, s)

(* DhcpRequest, BootpRequest: the packet is a broadcast. *)
BootpRequest ==
  /\ NetSetTimeout("BootpTimeout")
  /\ packetHandler' = "Selecting"
  /\ BootpTry' = BootpTry + 1

(* Mutant of NetStartAgain: netretry is not looked at. *)
NetStartAgainAlways(handler) ==
  /\ NetSetTimeout("startAgainTimeout")
  /\ packetHandler' = "startAgainHandler"
  /\ UNCHANGED NetState

(* NetStartAgain: with one device every start is the end of a round.        *)
(* handler is timeHandler when it is called.  The slot is left as it is.    *)
NetStartAgain(handler) ==
  IF netretry = "yes"
  THEN /\ NetSetTimeout("startAgainTimeout")
       /\ packetHandler' = "startAgainHandler"
       /\ UNCHANGED NetState
  ELSE /\ NetState' = "FAIL"
       /\ timeHandler' = handler
       /\ UNCHANGED <<elapsed, packetHandler>>

(* NetLoop, once it has started the protocol.  Replies to the ARP requests  *)
(* of earlier commands may still come.                                     *)
Init ==
  /\ phase = "rx"
  /\ protocol \in Protocols
  /\ peer \in Hosts
  /\ netretry \in {"no", "yes"}
  /\ NetState = "CONTINUE"
  /\ elapsed = 0 /\ arpElapsed = 0
  /\ NetServerIP = peer
  /\ NetServerEther = NoAddr
  /\ TftpTimeoutCount = 0
  /\ BootpTry = 1
  /\ NetArpWaitTxPacket = 1
  /\ NetArpWaitTry = 1
  /\ start = 1
  /\ frames = {}
  /\ IF protocol = "DHCP"
     THEN /\ packetHandler = "Selecting" /\ timeHandler = "BootpTimeout"
          /\ NetOurIP = NoAddr
          /\ NetArpWaitPacketIP = NoAddr /\ NetArpWaitReplyIP = NoAddr
          /\ asked \in SUBSET Local
     ELSE /\ packetHandler = (IF protocol = "TFTP" THEN "TftpHandler" ELSE "PingHandler")
          /\ timeHandler = (IF protocol = "TFTP" THEN "TftpTimeout" ELSE "PingTimeout")
          /\ NetOurIP = Me
          /\ NetArpWaitPacketIP = peer /\ NetArpWaitReplyIP = NextHop(peer)
          /\ asked \in {old \cup ({NextHop(peer)} \ {NoAddr}) : old \in SUBSET Local}

-----------------------------------------------------------------------------
(* Mutant of ArpReply: the sender is not compared. *)
ArpReplyAny(h) ==
  /\ phase = "rx" /\ NetOurIP # NoAddr /\ h \in asked
  /\ NetArpWaitPacketIP # NoAddr
  /\ frames' = frames \cup {Frame(NetArpWaitPacketIP, NetArpWaitTxPacket, h, start)}
  /\ NetServerEther' = IF protocol = "PING" THEN NetServerEther ELSE h
  /\ NetArpWaitPacketIP' = NoAddr
  /\ UNCHANGED <<phase, command, NetState, packetHandler, timer, NetOurIP, NetServerIP, tries,
                 NetArpWaitReplyIP, NetArpWaitTxPacket, NetArpWaitTry, arpElapsed, start, asked>>

(* Mutant of ArpReply: the slot is not emptied. *)
ArpReplyKeeps(h) ==
  /\ phase = "rx" /\ NetOurIP # NoAddr /\ h \in asked
  /\ NetArpWaitPacketIP # NoAddr /\ h = NetArpWaitReplyIP
  /\ frames' = frames \cup {Frame(NetArpWaitPacketIP, NetArpWaitTxPacket, h, start)}
  /\ NetServerEther' = IF protocol = "PING" THEN NetServerEther ELSE h
  /\ UNCHANGED <<phase, command, NetState, packetHandler, timer, NetOurIP, NetServerIP, tries,
                 arp, start, asked>>

(* NetReceive: a reply to an ARP request.  The packet that waits is sent to *)
(* the address it brings.                                                  *)
ArpReply(h) ==
  /\ phase = "rx" /\ NetOurIP # NoAddr /\ h \in asked
  /\ NetArpWaitPacketIP # NoAddr /\ h = NetArpWaitReplyIP
  /\ frames' = frames \cup {Frame(NetArpWaitPacketIP, NetArpWaitTxPacket, h, start)}
  /\ NetServerEther' = IF protocol = "PING" THEN NetServerEther ELSE h
  /\ NetArpWaitPacketIP' = NoAddr
  /\ UNCHANGED <<phase, command, NetState, packetHandler, timer, NetOurIP, NetServerIP, tries,
                 NetArpWaitReplyIP, NetArpWaitTxPacket, NetArpWaitTry, arpElapsed, start, asked>>

(* The packets of start s for the peer that have found their way to it.     *)
Reached(d, s) == \E f \in frames : f.dest = d /\ f.start = s /\ f.to = NextHop(d)

(* TftpHandler: DATA is acknowledged, and may be the last; or the transfer  *)
(* is given up.                                                            *)
TftpHandler ==
  /\ phase = "rx" /\ packetHandler = "TftpHandler" /\ Reached(NetServerIP, start)
  /\ \/ /\ NetSetTimeout("TftpTimeout")
        /\ NetSendUDPPacket
        /\ NetState' \in {NetState, "SUCCESS"}
        /\ UNCHANGED packetHandler
     \/ NetStartAgain(timeHandler) /\ UNCHANGED <<arp, asked, frames>>
  /\ UNCHANGED <<phase, command, address, tries, start>>

(* PingHandler: the reply to any ping of this command. *)
PingHandler ==
  /\ phase = "rx" /\ packetHandler = "PingHandler"
  /\ \E s \in 1..start : Reached(peer, s)
  /\ NetState' = "SUCCESS"
  /\ UNCHANGED <<phase, command, packetHandler, timer, address, tries, arp, start, asked, frames>>

(* DhcpHandler, SELECTING: the reply brings addresses and a MAC.            *)
Offer ==
  /\ phase = "rx" /\ packetHandler = "Selecting"
  /\ packetHandler' = "Requesting"
  /\ NetOurIP' = Me
  /\ NetServerIP' \in Hosts
  /\ NetServerEther' \in Local
  /\ NetSetTimeout("BootpTimeout")
  /\ UNCHANGED <<phase, command, NetState, tries, arp, start, asked, frames>>

(* DhcpHandler, REQUESTING *)
Ack ==
  /\ phase = "rx" /\ packetHandler = "Requesting"
  /\ NetServerIP' \in Hosts
  /\ TftpStart(NetServerIP', start)
  /\ UNCHANGED <<phase, command, NetState, NetOurIP, BootpTry, start>>

Tick ==
  /\ phase = "rx"
  /\ elapsed' = Later(elapsed)
  /\ arpElapsed' = IF NetArpWaitPacketIP = NoAddr THEN arpElapsed ELSE Later(arpElapsed)
  /\ UNCHANGED <<phase, command, NetState, packetHandler, timeHandler, address, tries,
                 NetArpWaitPacketIP, NetArpWaitReplyIP, NetArpWaitTxPacket, NetArpWaitTry,
                 start, asked, frames>>

(* The end of eth_rx; ctrlc() says no, or yes.                              *)
RxDone ==
  /\ phase = "rx"
  /\ phase' \in {"arp", "aborted"}
  /\ UNCHANGED <<command, NetState, packetHandler, timer, address, tries, arp, start, asked, frames>>

-----------------------------------------------------------------------------
(* ArpTimeoutCheck, in four cases.  When it gives up the time of the last   *)
(* request stays: the next pass asks again.                                *)
ArpExpired == NetArpWaitPacketIP # NoAddr /\ arpElapsed > ArpTimeout

ArpNotDue ==
  /\ phase = "arp" /\ ~ArpExpired
  /\ phase' = "timer"
  /\ UNCHANGED <<command, NetState, packetHandler, timer, address, tries, arp, start, asked, frames>>

(* Mutant of ArpRetry: one request more. *)
ArpRetryOnceMore ==
  /\ phase = "arp" /\ ArpExpired /\ NetArpWaitTry < ArpCount
  /\ NetArpWaitTry' = NetArpWaitTry + 1
  /\ ArpRequest(NetArpWaitPacketIP)
  /\ phase' = "timer"
  /\ UNCHANGED <<command, NetState, packetHandler, timer, address, tries,
                 NetArpWaitPacketIP, NetArpWaitTxPacket, start, frames>>

ArpRetry ==
  /\ phase = "arp" /\ ArpExpired /\ NetArpWaitTry + 1 < ArpCount
  /\ NetArpWaitTry' = NetArpWaitTry + 1
  /\ ArpRequest(NetArpWaitPacketIP)
  /\ phase' = "timer"
  /\ UNCHANGED <<command, NetState, packetHandler, timer, address, tries,
                 NetArpWaitPacketIP, NetArpWaitTxPacket, start, frames>>

(* Mutant of ArpGivesUp: the count is not reset. *)
ArpGivesUpKeeps ==
  /\ phase = "arp" /\ ArpExpired /\ NetArpWaitTry + 1 >= ArpCount
  /\ NetArpWaitTry' = NetArpWaitTry
  /\ NetStartAgain(timeHandler)
  /\ phase' = "timer"
  /\ UNCHANGED <<command, address, tries, NetArpWaitPacketIP, NetArpWaitReplyIP,
                 NetArpWaitTxPacket, arpElapsed, start, asked, frames>>

ArpGivesUp ==
  /\ phase = "arp" /\ ArpExpired /\ NetArpWaitTry + 1 >= ArpCount
  /\ NetArpWaitTry' = 0
  /\ NetStartAgain(timeHandler)
  /\ phase' = "timer"
  /\ UNCHANGED <<command, address, tries, NetArpWaitPacketIP, NetArpWaitReplyIP,
                 NetArpWaitTxPacket, arpElapsed, start, asked, frames>>

-----------------------------------------------------------------------------
(* timeHandler is taken out before it is called. *)
Expired(handler) ==
  phase = "timer" /\ timeHandler = handler /\ elapsed > Delta[handler]

NoTimeout ==
  /\ phase = "timer" /\ \A h \in Timers : ~Expired(h)
  /\ phase' = "switch"
  /\ UNCHANGED <<command, NetState, packetHandler, timer, address, tries, arp, start, asked, frames>>

TftpTimeout ==
  /\ Expired("TftpTimeout")
  /\ TftpTimeoutCount' = TftpTimeoutCount + 1
  /\ IF TftpTimeoutCount' > TftpCount
     THEN NetStartAgain("none") /\ UNCHANGED <<arp, asked, frames>>
     ELSE /\ NetSetTimeout("TftpTimeout")
          /\ NetSendUDPPacket
          /\ UNCHANGED <<NetState, packetHandler>>
  /\ phase' = "switch"
  /\ UNCHANGED <<command, address, BootpTry, start>>

PingTimeout ==
  /\ Expired("PingTimeout")
  /\ timeHandler' = "none"
  /\ NetState' = "FAIL"
  /\ phase' = "switch"
  /\ UNCHANGED <<command, packetHandler, elapsed, address, tries, arp, start, asked, frames>>

BootpTimeout ==
  /\ Expired("BootpTimeout")
  /\ IF BootpTry >= BootpCount
     THEN NetStartAgain("none") /\ UNCHANGED BootpTry
     ELSE BootpRequest /\ UNCHANGED NetState
  /\ phase' = "switch"
  /\ UNCHANGED <<command, address, TftpTimeoutCount, arp, start, asked, frames>>

StartAgainTimeout ==
  /\ Expired("startAgainTimeout")
  /\ timeHandler' = "none"
  /\ NetState' = "RESTART"
  /\ phase' = "switch"
  /\ UNCHANGED <<command, packetHandler, elapsed, address, tries, arp, start, asked, frames>>

-----------------------------------------------------------------------------
(* switch (NetState) *)
Continue ==
  /\ phase = "switch" /\ NetState = "CONTINUE"
  /\ phase' = "rx"
  /\ UNCHANGED <<command, NetState, packetHandler, timer, address, tries, arp, start, asked, frames>>

(* From "restart:" to the loop.  The slot is emptied by neither.            *)
Restart ==
  /\ phase = "switch" /\ NetState = "RESTART" /\ start < MaxStarts
  /\ phase' = "rx"
  /\ NetState' = "CONTINUE"
  /\ start' = start + 1
  /\ NetServerIP' = peer
  /\ \/ /\ protocol = "TFTP"
        /\ TftpStart(peer, start')
        /\ UNCHANGED <<NetOurIP, BootpTry>>
     \/ /\ protocol = "PING"
        /\ PingStart(start')
        /\ UNCHANGED <<NetOurIP, NetServerEther, tries>>
     \/ /\ protocol = "DHCP"
        /\ NetOurIP' = NoAddr
        /\ BootpRequest
        /\ UNCHANGED <<NetServerEther, TftpTimeoutCount, arp, asked, frames>>
  /\ UNCHANGED command

Return ==
  /\ phase = "switch" /\ NetState \in {"SUCCESS", "FAIL"}
  /\ phase' = "done"
  /\ UNCHANGED <<command, NetState, packetHandler, timer, address, tries, arp, start, asked, frames>>

-----------------------------------------------------------------------------
Receive == (\E h \in Hosts : ArpReply(h)) \/ TftpHandler \/ PingHandler \/ Offer \/ Ack
ArpTimeoutCheck == ArpNotDue \/ ArpRetry \/ ArpGivesUp
Timeout == NoTimeout \/ TftpTimeout \/ PingTimeout \/ BootpTimeout \/ StartAgainTimeout
Switch == Continue \/ Restart \/ Return

Next == Receive \/ Tick \/ RxDone \/ ArpTimeoutCheck \/ Timeout \/ Switch

Spec == Init /\ [][Next]_vars

(* The loop keeps running, bursts of packets end, and time passes.          *)
FairSpec ==
  /\ Spec
  /\ SF_vars(Tick) /\ WF_vars(RxDone) /\ WF_vars(ArpTimeoutCheck) /\ WF_vars(Timeout)
  /\ WF_vars(Switch)

-----------------------------------------------------------------------------
(* Types of all variables; the requests for one MAC stay below the limit. *)
TypeOK ==
  /\ phase \in {"rx", "arp", "timer", "switch", "done", "aborted"}
  /\ protocol \in Protocols /\ peer \in Hosts /\ netretry \in {"no", "yes"}
  /\ NetState \in {"CONTINUE", "RESTART", "SUCCESS", "FAIL"}
  /\ packetHandler \in {"TftpHandler", "PingHandler", "Selecting", "Requesting", "startAgainHandler"}
  /\ timeHandler \in Timers \cup {"none"}
  /\ elapsed \in 0..Longest /\ arpElapsed \in 0..Longest
  /\ NetOurIP \in {NoAddr, Me}
  /\ NetServerIP \in Hosts
  /\ NetServerEther \in Local \cup {NoAddr}
  /\ TftpTimeoutCount \in Nat
  /\ BootpTry \in Nat
  /\ NetArpWaitPacketIP \in Hosts \cup {NoAddr}
  /\ NetArpWaitReplyIP \in Local \cup {NoAddr}
  /\ NetArpWaitTxPacket \in 1..MaxStarts
  /\ NetArpWaitTry \in 0..(ArpCount - 1)
  /\ start \in 1..MaxStarts
  /\ asked \subseteq Local
  /\ frames \subseteq Frames

(* Whatever replies come late or twice, a packet goes to the machine its    *)
(* receiver is reached through: itself, or the gateway (NetSendUDPPacket,   *)
(* PingSend, ArpRequest, NetReceive).  Only what an abandoned start left in *)
(* the slot may go elsewhere.                                              *)
RightNextHop == \A f \in frames : f.start = f.at => f.to = NextHop(f.dest)

(* What an abandoned start left in the slot is overwritten by the next one, *)
(* unless that begins with broadcasts (TftpStart, PingStart).              *)
AbandonedNotSent == protocol # "DHCP" => \A f \in frames : f.start = f.at

(* Giving up a wait never turns a success of the same pass into a failure:  *)
(* the slot is empty before an answer can come (NetReceive,                *)
(* ArpTimeoutCheck).                                                       *)
SuccessKept == [][ArpTimeoutCheck /\ netretry # "yes" /\ NetState = "SUCCESS" => UNCHANGED NetState]_vars

(* While the command goes on, the timer that is armed is the one of the     *)
(* handler packets go to: however packets, ARP and timeouts fall together,  *)
(* what is waited for can time out, and nothing else can (NetSetTimeout,    *)
(* NetSetHandler; NetLoop takes the timer out before it calls it).          *)
TimerOf == [TftpHandler |-> "TftpTimeout", PingHandler |-> "PingTimeout",
            Selecting |-> "BootpTimeout", Requesting |-> "BootpTimeout",
            startAgainHandler |-> "startAgainTimeout"]

WaitIsTimed == NetState = "CONTINUE" => timeHandler = TimerOf[packetHandler]

(* The ten seconds before a new start end, although ArpTimeoutCheck goes on *)
(* asking for the abandoned packet and each time it gives up they begin     *)
(* anew (NetStartAgain).                                                   *)
StartsAgain ==
  timeHandler = "startAgainTimeout" ~>
    timeHandler # "startAgainTimeout" \/ phase \in {"done", "aborted"}

(* Unless netretry is "yes" a command that nobody answers comes back, a     *)
(* ping always (TftpTimeout, PingTimeout, BootpTimeout, NetStartAgain).     *)
Returns ==
  netretry # "yes" ~>
    phase \in {"done", "aborted"} \/ (protocol # "PING" /\ frames # {})

-----------------------------------------------------------------------------
(* Which timer goes with which handler, and who has an address.             *)
HandlerInv ==
  /\ timeHandler = "TftpTimeout" => packetHandler = "TftpHandler"
  /\ timeHandler = "BootpTimeout" => packetHandler \in {"Selecting", "Requesting"}
  /\ packetHandler \in {"Selecting", "Requesting"} => protocol = "DHCP"
  /\ packetHandler = "TftpHandler" => protocol # "PING"
  /\ protocol # "DHCP" \/ packetHandler \in {"TftpHandler", "Requesting"} => NetOurIP = Me
  /\ NetState = "RESTART" \/ timeHandler = "startAgainTimeout" => netretry = "yes"
  /\ netretry # "yes" => start = 1

(* What waits in the slot, and for whom; what is known of the server.       *)
SlotInv ==
  /\ NetArpWaitTxPacket <= start
  /\ NetArpWaitPacketIP # NoAddr /\ NetArpWaitTxPacket = start =>
       /\ NetOurIP = Me
       /\ NetArpWaitReplyIP = NextHop(NetArpWaitPacketIP)
       /\ packetHandler \notin {"Selecting", "Requesting"}
  /\ NetArpWaitPacketIP # NoAddr /\ packetHandler = "TftpHandler" =>
       NetArpWaitTxPacket = start /\ NetArpWaitPacketIP = NetServerIP
  /\ NetArpWaitPacketIP # NoAddr /\ protocol # "DHCP" => NetArpWaitTxPacket = start
  /\ packetHandler = "TftpHandler" /\ NetServerEther # NoAddr =>
       NetServerEther = NextHop(NetServerIP) /\ NetArpWaitPacketIP = NoAddr

(* Once a packet of this start is sent nothing waits, and an answer to it   *)
(* is what success takes.                                                  *)
FrameInv ==
  /\ \A f \in frames : f.start <= start
  /\ \A f \in frames : f.start = start =>
       /\ NetArpWaitPacketIP = NoAddr
       /\ packetHandler \notin {"Selecting", "Requesting"}
       /\ packetHandler = "TftpHandler" => NetServerEther # NoAddr
  /\ NetState = "SUCCESS" /\ netretry # "yes" => \E f \in frames : f.start = start

(* The inductive invariant behind the three invariants and SuccessKept.     *)
IInv == TypeOK /\ HandlerInv /\ SlotInv /\ FrameInv /\ RightNextHop /\ AbandonedNotSent
=============================================================================
