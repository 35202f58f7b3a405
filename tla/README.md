# U-Boot 1.2 for the ASM9260T: a TLA+ development

Models, model checking and machine-checked proofs for the parts of this boot
loader whose correctness depends on the order in which things happen: the
environment in flash while power can fail at any moment, the network loads while
packets are lost, duplicated, delayed and reordered, the ethernet driver beside
its DMA engines, and the serial load over a noisy line. Paths below are relative
to `src/u-boot-v1.2/`.

## The system

U-Boot runs one thread, without interrupts in the parts described here. What
makes it hard is outside: power, flash, the network, the servers, the devices.

| component | state | operations | modelled in |
|---|---|---|---|
| environment in flash (`common/env_flash.c`, `common/env_common.c`) | two sectors with CRC, flags and data; `env_ptr`; `gd->env_addr`, `gd->env_valid`; `flash_addr` | `env_init`, `env_relocate`, `saveenv` | `EnvStore`, `EnvFlash` |
| environment commands (`common/cmd_nvedit.c`) | `env_ptr` | `setenv`, `saveenv` | `EnvFlash`, `EnvOverflow` |
| network loop (`net/net.c`) | `NetState`, `packetHandler`, `timeHandler`, the ARP slot | `NetLoop`, `NetStartAgain`, `NetReceive`, `ArpTimeoutCheck`, ping | `NetLoop`; its passes also in the protocols' modules |
| device ring (`net/eth.c`) | `eth_current`, `first_failed`, `NetRestartWrap` | `eth_init`, `eth_halt`, `eth_try_another`, `eth_set_current` | `EthDevices` |
| TFTP (`net/tftp.c`) | `TftpState`, ports, block numbers, wrap offset, image | `TftpStart`, `TftpHandler`, `TftpTimeout`, `TftpSend` | `Load`, `Tftp` |
| NFS (`net/nfs.c`) | `NfsState`, `rpc_id`, ports, file handle, offset, image | `NfsStart`, `NfsHandler`, `NfsTimeout`, `NfsSend` | `Load`, `Nfs` |
| DHCP (`net/bootp.c`) | `dhcp_state`, `BootpID`, `BootpTry`, `NetOurIP`, server identifier | `BootpRequest`, `DhcpHandler`, `BootpTimeout` | `Dhcp` |
| MAC driver (`drivers/mac9260.c`) | two descriptor rings, positions, the engines' flags | `mac9260_send`, `mac9260_recv` | `FrameRing`, `Mac` |
| serial load (`common/cmd_load.c`) | address, escape, checkpoint, sequence numbers | `k_recv`, `load_serial_bin` | `Load`, `Kermit` |
| board timer (`cpu/arm926ejs/interrupts.c`) | `timestamp`, `lastdec` | `get_timer`, `udelay` | one constant of `Tftp` |
| NAND driver and ECC (`board/as3310/flash.c`, `ecc.c`) | pages, controller buffer | page program, read, erase; encode, decode | not modelled |
| shell, image and memory commands, start-up, allocator, console, host tools | | | not modelled |

How they interact. A network command calls `NetLoop`. It initialises a device
of the ring, starts a protocol and runs passes: `eth_rx` takes frames from the
driver's ring and hands every packet to `packetHandler`, then ctrl-c is looked
at, then the wait for ARP, then the one timer of the protocol. Handlers run to
completion and write `NetState`, which is looked at only at the end of a pass, so
a burst of packets may overwrite what one of them decided. `NetStartAgain` gives
up a device: it changes the ring, `NetState` and, to wait, the handlers. Many
variables are static and outlive the command: the ports, `rpc_id`, `fs_mounted`,
`first_failed`, `NetRestartWrap`, `BootpTry`, the DHCP server, the ARP slot, the
handlers. The serial load and the environment share nothing with these but
environment variables (`filesize`, `netretry`, `autoload`).

What makes each part correct, and hard:

* *Environment.* A reset at any moment comes up with what was saved last or is
  being saved; a recovery that is itself interrupted changes nothing; flash
  operations may be refused half way. Several steps of two sectors and two
  pointers are involved, and the only test of it is to pull the plug.
* *TFTP.* Success means the whole file, each block in its place; nothing is
  acknowledged before it is stored; a command comes back. Against it: late
  packets of another session or command, retransmitted requests, restarts.
* *NFS.* The same for a chain of remote calls, each answered late, twice or by
  an error, with links that may go round in a circle.
* *Network loop.* One slot for the packet that waits for ARP, with a timer and a
  retry count of its own beside those of the protocol: a late reply to an
  earlier request, a wait given up in the pass the answer came in, a slot that
  outlives the start that filled it.
* *DHCP.* The address is the one a server leased in this transaction, although
  any reply of the transaction counts as an offer, several servers answer, and
  the timer may strike in the pass the lease came in.
* *Device ring.* Every device is tried before a command fails, and it fails.
* *MAC driver.* Frames are handled and sent whole, once and in order, although
  buffers go back to the engine before they are read; an engine that stopped is
  set going again, however its stopping falls between the driver's test and poll.
* *Serial load.* Data are in memory before the packet is known to be good: what a
  damaged packet stored must be taken back, and no more than that.

## The modules

* `EnvStore`: the promise, three variables: the running environment, the
  environment of the last `saveenv` that returned 0, and those of later calls
  that did not return 0. A reset comes back with the second or one of the third.
* `EnvFlash`: one action per flash operation of `saveenv` (erase, data, CRC,
  obsolete flag, active flag) and of `env_relocate_spec`, `EnvInit`,
  `RelocateDefault`, `Setenv` and `PowerFail`, which is possible between any two.
  Data is a value and the CRC is whether it matches. An interrupted or refused
  erase leaves the sector as it was or without contents. A field is programmed
  in one step: a data or CRC field written in part leaves a CRC that does not
  match, as between the two writes. A torn flag byte is not modelled. `worn` says
  whether operations may be refused. `larger` says that the sector holds more than
  the environment: `saveenv` then copies the rest of the sector to RAM and writes it
  back after the active flag and before the two copies change roles (`SaveRest`),
  which `RestFails` lets be refused. What the rest holds is left out. `INSTANCE EnvStore` maps `env` to
  `env_ptr.data`. Builds that define `CFG_ENV_ADDR_REDUND` have this code; the AS3310 board
  itself is configured for one copy, which has no recovery to model.
* `EnvOverflow`: the environment of `EnvFlash` with the exit of `_do_setenv` at line 304.
* `Load`: the promise of a load, two variables: the blocks that are in their place
  and what can be said of the load. A block is stored after all before it, none that
  is there is lost, and "loaded" is said with all there. A load that something
  has disturbed may end in any way, or begin again on another device with what it
  stored. `Tftp`, `Nfs` and `Kermit` instantiate it, and say what disturbs them: giving
  up a device (`again`), a late reply or an error (`refused`), and damage beyond a
  packet not acknowledged yet (`noise`). With Kermit the last block may be taken back,
  which was stored before its check characters were read.
* `Tftp`: the client, one pass of `NetLoop` (`phase`: rx, timers, switch), the
  server and the network. `net` is the set of packets ever sent; delivering one
  does not remove it, so loss, duplication, delay and reordering need no actions
  of their own. A packet waiting for ARP is one not delivered yet. `Ports` are the
  values of `TftpOurPort`; `PortsReused` says whether two starts may take the same
  (`NextPorts`), as they can and on this board always do: the port is
  `1024 + get_timer(0) % 3072`. `StalePorts` are those of earlier commands.
  Sizes are half blocks. `TimerRuns` is FALSE for the timer of this board.
* `Nfs`: `NfsHandler` with an action per state; requests and replies carry an
  id, and the server (external) answers each call once. `Links` and `LinkTo` are
  the symbolic links. `Joined` is the path `nfs_readlink_reply` makes of one: for a
  relative target shorter than the name of the link (`ShortLinks`) it is a file
  nobody has (`NoFile`). `refused` records that the handler met a late reply or an
  error, which is what the unconditional properties are separated by.
* `NetLoop`: the loop with the ARP slot for one command: a load, a ping, or
  `dhcp` followed by a load. `elapsed` and `arpElapsed` are the two timers, in
  ticks. `Wait` fills the slot, `ArpReply` empties it and sends, `ArpRetry` and
  `ArpGivesUp` are `ArpTimeoutCheck`. `asked` holds the hosts that were ever asked
  for their address, whose replies may come at any time later. `frames` is a
  history: the packets sent, for whom, to whom, by which start and during which.
  The handlers of TFTP, ping and DHCP are reduced to what they do to the state of
  the loop; their own modules have the rest.
* `Dhcp`: the client with several servers. `Replies` is everything the network may
  deliver: offers in any transaction, with or without the DHCP options,
  acknowledgements and refusals of requests, and those of an earlier command. `Init` leaves
  `BootpTry` and the server identifier as earlier commands left them: nothing sets
  the count back for DHCP, so it may begin below, at or above the limit, up to the
  bound `MaxTry`. What
  follows a lease (`Transfer`) is reduced to its end.
* `EthDevices`: the ring and `NetStartAgain`; a protocol is reduced to its end.
  `NetStartAgain` contains the loop of `eth_init`: `k` is how many devices fail
  to come up. `tangled` records two situations that spoil a round, see below;
  `tried` and `started` are histories of the devices a round has been to and has
  started the protocol on.
* `FrameRing`: the promise of a ring of buffers to a reader that gives a buffer
  back before it has read it.
* `Mac`: `mac9260_recv` in the steps in which it touches what it shares (`GetSize`,
  `GiveBack`, `Resume`, `Handled`), `mac9260_send` likewise, and an engine for each
  ring: it fetches a descriptor, works on it if it owns it, or stops and raises
  its flag, some time later. Frames are numbers. `INSTANCE FrameRing` maps
  the frames stored, those taken and the one being read.
* `Kermit`: `k_recv` packet by packet. `data` is what lies below `os_data_addr`, as
  the blocks of the file, and the escape; `saved` the checkpoint. `Good` is a
  packet that comes whole, `Damaged` one found damaged after its number was read
  (as `m`, right or wrong), `DamagedHeader` one found damaged before. `k_state` is
  left out: each packet sets it before it is looked at. `line` and `replies` are
  queues that lose. The sender is the environment, a Kermit program that sends
  one packet at a time and repeats it when it likes. `got` and `noise` are histories.

`MC*` modules hold the values for TLC, `*_proof` modules the proofs. Definitions
whose names end in what is wrong with them (`RelocateSwapInverted`,
`WentRoundEarly`) are mutants: they stand beside the definition they distort
and a property of a run has to notice the exchange.

## The runs

| run | checks | bounds | states |
|---|---|---|---|
| `envflash` | `TypeOK`, `Recoverable`, `OneCurrentCopy`, `BootsAgree`, `ImplementsStore` | three environments and the default, both kinds of sector | 448,710 |
| `env_overflow` | `SavedIsPersistent` is violated | two environments | |
| `tftp` | `TypeOK`, `Loaded`, `AckedAreStored`, `ImplementsLoad`, `Returns` | three blocks, two starts with a port each, two sessions, one retry | 1,308,112 |
| `tftp_no_timer` | `Returns` is violated | one block, `TimerRuns` FALSE, one port for every start | |
| `nfs` | `TypeOK`, `Prefix`, `Loaded`, `ImplementsLoad`, `Returns` | two chunks, a link, a relative and short one, a circle, 13 calls, one earlier id | 146,022 |
| `nfs_truncated` | `TruncatedNotReported` is violated | the same | |
| `netloop` | `TypeOK`, `RightNextHop`, `AbandonedNotSent`, `SuccessKept`, `StartsAgain`, `Returns` | a host near, a gateway, a host beyond; two starts | 714,876 |
| `dhcp` | `TypeOK`, `BoundToGrant`, `SuccessHasLease`, `Returns` | two servers, an address each, three transactions, `MaxTry` 5 | 61,342 |
| `ethdevices` | `WrapAfterAll`, `StartedOnce`, `OnceReturns` | three devices, two calls of `NetStartAgain` in a pass | 44,535 |
| `mac` | `TypeOK`, `ReadsItsFrame`, `NeverStarved`, `SentInOrder`, `RxResumes`, `TxResumes`, `ImplementsRing` | rings of two, four frames each way | 22,392 |
| `kermit` | `TypeOK`, `InOrder`, `NoneTwice`, `Loaded`, `ImplementsLoad` | three blocks, four sequence numbers, two packets and two replies on their way | 222,344 |
| `kermit_damaged` | `NumberedFileLoaded` is violated | the same | |

Why the bounds are enough to be interesting. Three environments let the one
reported, the one in flight and the one before differ, and any number of saves
and resets follow each other. Three blocks have a first, a middle and a last
one with two acknowledgements between; two ports and two sessions give a
restart and a doubled session each; one stale port brings in packets of another
file. `SeqSize` of TFTP is above the number of blocks, as it is for files below
32 MB. Thirteen calls let a transfer follow the link, read the file and unmount, and
let the circle go round several times. In `netloop` five seconds are one tick, so
that the five of an ARP request and the ten of the protocol differ; one peer is
reached directly and one through the gateway, the gateway may be the peer itself,
and two starts let the slot survive one; `Longest` stops the count of ticks above
every delay. `TimeoutCount` 2 and three transactions let DHCP fail, retry and
start again, and with `MaxTry` 5 a command begins with `BootpTry` 1 to 5: below the limit,
at it, and beyond it as after several that failed. Three devices have one that is neither the first nor the last;
`Command` repeats, so stale flags of earlier commands are there. Rings of two
descriptors wrap after two frames, and four frames wrap them twice. Kermit's seven
packets use four sequence numbers, so that numbers come round.

Deadlock is checked for the environment, the ring of devices and the driver. In
`Tftp`, `Nfs`, `Dhcp`, `NetLoop` and `Kermit` it is not: a behaviour ends when the
command has returned, or at a bound (`NextPorts`, `MaxId`, `MaxID`,
`MaxStarts`, `MaxImage`, `MaxLine`, `MaxReplies`).

Fairness. The loop is a `for (;;)` that does nothing but call the next
thing, so its steps are weakly fair. A timer that is armed long enough expires
in some pass whatever arrives in the passes between: the timeout actions are
strongly fair, and in `NetLoop`, where time is explicit, it is `Tick` that is
strongly fair. This is an assumption about the timer of the processor, and
`tftp_no_timer` shows what becomes of it on this board. In `Dhcp` and
`EthDevices` a started protocol comes to an end, strongly fair since its handler is
called in one phase only. In `Mac` the processor keeps calling `eth_rx` and the
engines go on with their work; an engine that has met a descriptor it does not
own raises its flag before `NetReceive` has returned (`Handled` waits for it), which
takes the engine nanoseconds, and an engine that has stopped moves only when it is
polled. The server, the network and the serial line are never assumed fair.

## What the violated properties show

Each is listed in `PROJECT.json` with the line of the documentation it
contradicts.

* `SavedIsPersistent`: `setenv` that overflows deletes the variable and leaves the
  CRC stale; `saveenv` then writes an environment no reset will accept, obsoletes
  the good one, and reports success.
* `Returns` without a timer: `get_timer` of this board is constant, so nothing that waits
  ever gives up.
* `TruncatedNotReported`: a duplicated READ reply ends an NFS load as a success.
* `NumberedFileLoaded`: damage to the length of a packet takes back the data of
  the packet before, which was acknowledged; so does damage to a second copy of
  an acknowledged packet. `loadb` then reports a file with a block missing.

Met while modelling, and left to the text because no sentence of the
repository is contradicted or no run is spent on it: with `RestFails` TRUE
`Recoverable` is violated, since a `saveenv` that cannot write back the rest of its
sector returns 0 with `flash_addr` still at the obsolete copy (line 218), and the next
one erases what was just saved, power failing then bringing back the environment
before it; a duplicate of the TFTP block that wraps the
sequence number adds 32 MB once more; with `PortsReused` TRUE `Loaded` and
`AckedAreStored` are violated: an OACK repeated between blocks 1 and 2 makes the DATA
packet of block 2 look wrong, the handler starts again, and the timer, due in the same
pass, acknowledges block 2, which was not stored; the next start on the same port follows
that session, whose server goes on with block 3. A relative link shorter than
its own name keeps a letter of that name (`nfs.c:532` puts the 0 one byte too far): the file
is not found, and `nfs` reports the unmount as a success with nothing loaded. The packet an abandoned load leaves in the ARP slot can make
`ArpTimeoutCheck` give up the DHCP exchange of the next start; with
`CONFIG_NET_RETRY_COUNT` 2 that packet arms the ten seconds before a new start
anew for ever (`StartsAgain` needs four); a second NFS or TFTP packet of the burst in which
the protocol gave up, or flags of an earlier command, make `netretry=once` fail
without trying each device (`tangled`); such a second packet may also turn the FAIL
of the first into a RESTART, and where that happens round after round a command with
`netretry=once` never comes back, which is why `OnceReturns` leaves out passes with two calls of
`NetStartAgain` (README:2298 says the command will fail when all interfaces are tried
once without success); `PingTimeout` in the pass of the reply
turns success into failure; a sequence number damaged into another valid one makes
`k_recv` store a packet twice.

## What is proved

With TLAPS, for every value of the constants that meets the `ASSUME` of the
module. Each component has an inductive invariant `IInv` stated in its module,
checked with TLC before it was proved.

* `EnvFlash_proof`: `TypeOK`, `Recoverable`, `OneCurrentCopy`, `BootsAgree`, and `Store!Spec` as
  refinement. `Recoverable` alone is not inductive: it says nothing of the copy that is not
  chosen. `GoodCopies` says what every good copy may hold: a value a reset may
  come up with, or one superseded by the other copy, whose flags make `env_init`
  prefer it. `CurrentCopy` says what `flash_addr` points to at each step and
  `NewCopy` how far the other has got. Each action changes one field of one copy.
  For the two about agreement, `ToldApart` adds that on flash without errors the flags of two
  good copies tell them apart, or `env_init` picks one by position and the
  repair under way is the one that keeps the choice.
  All are proved under `~RestFails`, which matters in larger sectors only: in others
  nothing is written back. Between the last write and the exchange the copy in use
  is the one `flash_addr` does not point to, whole and active, and the other is
  obsolete (`NewCopy`, for "write_rest").
* `Tftp_proof`: `TypeOK` without further assumptions; `Loaded`, `AckedAreStored` and
  `NeverOverwritten` under `NoWrap` (fewer blocks than sequence numbers: 32 MB) and `FreshPorts`
  (no start uses a port of an earlier start, or one that stale packets are addressed
  to). The first is needed because of the duplicate at the wrap, the second because a
  port used again lets packets of an earlier session in; no run shows either. On this
  board, where the port is always 1024, the second fails, and these theorems say nothing. The argument: every
  DATA packet of a start is of a block whose predecessors are stored, because the
  server sends it only after an acknowledgement, which is sent only after a
  store (`SessionInv`, `ClientInv`); a doubled session does not disturb this.
  `CountInv` keeps the timeout count at the limit. Under the same two assumptions
  `Load!Spec` as refinement: a packet that is accepted is the block after those in
  their place, or one of these again. `NeverOverwritten` is the step of it in which
  `stored` never shrinks; the run checks it as part of `ImplementsLoad`.
* `Nfs_proof`: `TypeOK`, `Prefix`, `Loaded`. An id is used for one call, and a reply answers the
  call with its id (`RpcInv`); the call with the current id is the one the state
  waits for (`CallInv`); hence a READ reply that passes the id test is the chunk at
  `nfs_offset`, which is the length of what is stored (`ImageInv`). From the same
  invariant `Load!Spec` as refinement.
* `NetLoop_proof`: `TypeOK`, `RightNextHop`, `AbandonedNotSent`, `WaitIsTimed`, `SuccessKept`, for any hosts,
  subnet, gateway, delays and counts. `SlotInv` says for whom the slot waits: a
  packet of this start waits for its own next hop, and one of an abandoned start is left
  over only while DHCP broadcasts. `FrameInv` says that once a packet of this start
  has been sent the slot is empty, so that a success, which takes an answer, cannot be
  followed by giving up. `WaitIsTimed` is inductive as it stands, and no run repeats it: each handler that
  leaves the command waiting arms the timer of the handler packets go to, or leaves both.
* `Dhcp_proof`: `TypeOK`, `BoundToGrant`, `SuccessHasLease`, for any servers and pools and
  whatever `BootpTry` earlier commands left. `TypeOK` has the limit as a command keeps
  it: unless `netretry` is "yes", a DISCOVER after the first is sent only below it. One request
  at most is sent in a transaction and its address is the client's
  (`RequestInv`); an acknowledgement that passes `BootpCheckPkt` is of that request,
  whoever was named in it.
* `EthDevices_proof`: `TypeOK`, `WrapAfterAll`, `StartedOnce`, for any number of devices.
  `OnTheWay` says that `eth_current` is `n` places after `first_failed` and the
  `n` devices before it have been tried; `NetStartAgain` moves `1 + k` places
  further and reports a wrap exactly if that reaches `first_failed` again. `StartedInv`
  adds that what was started lies behind `eth_current`, less than once round the ring:
  this bounds the restarts of a command that is not tangled; `OnceReturns` has the tangled ones too. `TypeOK`
  is proved for any number and not repeated in the run.
* `Mac_proof`: `TypeOK`, `ReadsItsFrame`, `NeverStarved`, `SentInOrder` for rings of any size, and that every step is one of
  `FrameRing` or a stutter. The invariant relates counts to positions: each side is at
  its count modulo the size of the ring, and the descriptors the engine owns are those from
  its own position to the driver's. `StopInv` says where the driver is when the engine
  has stopped: about to look at the flag, or with a frame to give back first.
  `RxResumes` needs fairness besides.
* `Kermit_proof`: `TypeOK`, `InOrder`, `NoneTwice`, `Loaded` and `Load!Spec` as refinement for any file, any bounds and more than two
  sequence numbers. Whatever is damaged, the line is in the order of the file and
  nothing stored is ahead of it (`OrderInv`). With numbers read correctly, a block
  whose packet may still come lies above the checkpoint of its own number
  (`NumberInv`). Without the three kinds of damage sender and receiver are at most one packet apart
  (`InStep`), the checkpoint is that of the last packet or of the next one, which came damaged
  (`CheckpointInv`), and replies are about the sender's packet or the one
  before (`RepliesInv`); that three successive numbers differ is where the
  assumption is used.

Only model-checked are the liveness properties, which are beyond the prover:
`Returns` of four modules, `StartsAgain`, `OnceReturns`, `RxResumes`, `TxResumes` and the fairness part
of `ImplementsRing`.

## Not modelled, and why

* The NAND driver and its ECC (`board/as3310`): most of it is set-up of registers
  in a fixed order. Its splitting of writes over pages and the decoding of the
  hardware's report are listed as hazards.
* The shell and the image and memory commands (sequential text and format
  processing), start-up code, allocator and console (run once or without
  ordering hazards), host tools, and the many boards and drivers this board does
  not build.
* Network loop: ARP requests of others (answered on the spot), VLAN tags, CDP,
  RARP, the ICMP case that calls the handler once more, the tests that end a
  command before it starts (`net_check_prereq`). `SELECT_TIMEOUT` and `TIMEOUT` of
  BOOTP are one tick; netmask and gateway do not change.
* DHCP: `BootpHandler` (the build without DHCP), the contents of the options.
* MAC driver: clock, pin, PHY and register set-up in `mac_init`; frames with
  errors or over two descriptors, which the driver never gives back
  (`BadFrames` lets them in; the run and the proofs of order do not).
* Environment: the single-copy build, the contents of the rest of a larger sector,
  torn flag bytes.
* Serial loads: `loads` and `saves` have no acknowledgement or retry; the change of the baud
  rate waits for a key; the check characters are taken to find every damage.
* TFTP: `CFG_DIRECT_FLASH_TFTP`. Everywhere: what is only printed.

## What could come next

1. `NandFlash` and `Ecc`: splitting of writes over pages and the controller's
   buffer; the corrections `EccDecodeCheck` makes, with the report arbitrary when
   its wait runs out.
2. An abstract specification of a lease that `Dhcp` implements, as `Load` is one of a load.
3. `NetLoop` composed with the ring of devices, and with frames from `Mac`.
