-------------------------------- MODULE Nfs ---------------------------------
(***************************************************************************)
(* An NFS load: net/nfs.c driven by the reception loop of NetLoop          *)
(* (net/net.c), with the server's portmapper, mount and NFS programs and a *)
(* network that loses, duplicates, delays and reorders packets.            *)
(*                                                                         *)
(* The network is the set of packets ever sent: a packet in it may be      *)
(* delivered any number of times, or never.  ARP is not modelled: a packet *)
(* waiting for an ARP reply is one not delivered yet.  NfsOurPort is the   *)
(* same in every command, so packets of earlier commands arrive too; their *)
(* ids are lower, rpc_id being static.  (It starts again at 0 after a      *)
(* reset: replies that survive one are left out.)                          *)
(*                                                                         *)
(* The image is cut into the chunks of NFS_READ_SIZE the server sends.     *)
(***************************************************************************)
EXTENDS Integers

CONSTANTS
  Chunks,     \* READ replies with data the file takes
  Links,      \* the names of symbolic links
  File,       \* the name of the file
  LinkTo,     \* what each link names
  ShortLinks, \* the relative links that are shorter than their own name
  NoFile,     \* a name the server does not have
  OldId,      \* rpc_id when the command starts
  MaxId       \* bound: the calls of a command

ASSUME NfsAssumption ==
  /\ Chunks \in Nat
  /\ File \notin Links
  /\ LinkTo \in [Links -> Links \cup {File}]
  /\ ShortLinks \subseteq Links
  /\ NoFile \notin Links \cup {File}
  /\ OldId \in Nat

VARIABLES
  phase,                \* where NetLoop is, see Phases
  NetState,
  timeHandler,
  NfsState,
  rpc_id,
  NfsSrvMountPort,      \* 0, or 1 for the port of the server's program
  NfsSrvNfsPort,
  fs_mounted,
  nfs_filename,
  filefh,               \* the name whose file handle it is
  nfs_offset,           \* in chunks
  NetBootFileXferSize,
  mem,                  \* the chunks stored from load_addr on, by their place
  net,                  \* the packets sent
  refused               \* history: NfsHandler met a late reply or an error

loop == <<phase, NetState, timeHandler>>
ports == <<NfsSrvMountPort, NfsSrvNfsPort>>
files == <<nfs_filename, filefh>>
image == <<NetBootFileXferSize, mem>>
client == <<NfsState, rpc_id, ports, fs_mounted, files, nfs_offset, image>>
vars == <<phase, NetState, timeHandler, NfsState, rpc_id, NfsSrvMountPort,
          NfsSrvNfsPort, fs_mounted, nfs_filename, filefh, nfs_offset,
          NetBootFileXferSize, mem, net, refused>>

Names == Links \cup {File, NoFile}
Phases == {"rx", "timers", "switch", "done", "aborted"}
States == {"PRCLOOKUP_PROG_MOUNT", "PRCLOOKUP_PROG_NFS", "MOUNT", "UMOUNT",
           "LOOKUP", "READ", "READLINK"}

(* A call carries the procedure, named by the state that calls it, the name *)
(* or file handle it is about and the offset.                               *)
Call(id, state, name, offset) ==
  [type |-> "call", id |-> id, proc |-> state, name |-> name, offset |-> offset]

(* A reply carries what the client looks at: the result, the name or handle *)
(* in it and the chunk in it.  A denied one has rstatus, verifier or astatus *)
(* set, an error is in data[0] (for the portmapper: port 0).                *)
Reply(id, res, name, chunk) ==
  [type |-> "reply", id |-> id, res |-> res, name |-> name, chunk |-> chunk]

Results == {"data", "eof", "not_a_file", "ok", "error", "denied"}

Messages ==
  [type : {"call"}, id : Nat, proc : States, name : Names, offset : Int]
    \cup [type : {"reply"}, id : Nat, res : Results, name : Names, chunk : Int]

Calls == {m \in net : m.type = "call"}
Replies == {m \in net : m.type = "reply"}

(* The replies of earlier commands, of whatever procedure, with the data of *)
(* another file: chunk -1 is none of this one's.                            *)
OldReplies == {Reply(i, res, File, -1) : i \in 1..OldId, res \in {"data", "eof"}}

-----------------------------------------------------------------------------
(* NfsSend of the state just entered: rpc_req with the next id.  UMOUNTALL  *)
(* is not called when nothing is mounted.  A call to port 0 reaches nobody. *)
NfsSend ==
  LET portmap == NfsState' \in {"PRCLOOKUP_PROG_MOUNT", "PRCLOOKUP_PROG_NFS"}
      port == IF NfsState' \in {"MOUNT", "UMOUNT"} THEN NfsSrvMountPort' ELSE NfsSrvNfsPort'
      name == IF NfsState' \in {"READ", "READLINK"} THEN filefh' ELSE nfs_filename'
  IN IF NfsState' = "UMOUNT" /\ ~fs_mounted
     THEN UNCHANGED <<rpc_id, net>>
     ELSE /\ rpc_id' = rpc_id + 1
          /\ net' = IF portmap \/ port # 0
                    THEN net \cup {Call(rpc_id + 1, NfsState', name, nfs_offset')}
                    ELSE net

(* NetLoop up to the end of NfsStart.  The boot file is any name; the       *)
(* ports, the mount and the offset are what earlier commands left.          *)
Init ==
  /\ phase = "rx"
  /\ NetState = "CONTINUE"
  /\ timeHandler = "NfsTimeout"
  /\ NfsState = "PRCLOOKUP_PROG_MOUNT"
  /\ rpc_id = OldId + 1
  /\ NfsSrvMountPort \in {0, 1}
  /\ NfsSrvNfsPort \in {0, 1}
  /\ fs_mounted \in BOOLEAN
  /\ nfs_filename \in Names
  /\ filefh = File
  /\ nfs_offset = -1
  /\ NetBootFileXferSize = 0
  /\ mem = [c \in {} |-> 0]
  /\ net = OldReplies \cup {Call(OldId + 1, "PRCLOOKUP_PROG_MOUNT", nfs_filename, -1)}
  /\ refused = FALSE

-----------------------------------------------------------------------------
(* NfsHandler, one action for each of its states.                           *)
Handles(r, state) ==
  /\ phase = "rx" /\ r.type = "reply" /\ NfsState = state
  /\ rpc_id < OldId + MaxId
  /\ refused' = (refused \/ r.id # rpc_id \/ r.res \in {"error", "denied"})

(* The tests every *_reply begins with. *)
Good(r) == r.id = rpc_id /\ r.res \notin {"error", "denied"}

Umount == NfsState' = "UMOUNT" /\ NfsSend

(* rpc_lookup_reply leaves the port alone if the reply is late or denied;   *)
(* the result is not looked at.                                             *)
LookedUp(r, port) ==
  IF r.id # rpc_id \/ r.res = "denied" THEN port ELSE IF r.res = "error" THEN 0 ELSE 1

MountPortReply(r) ==
  /\ Handles(r, "PRCLOOKUP_PROG_MOUNT")
  /\ NfsSrvMountPort' = LookedUp(r, NfsSrvMountPort)
  /\ NfsState' = "PRCLOOKUP_PROG_NFS"
  /\ UNCHANGED <<loop, NfsSrvNfsPort, fs_mounted, files, nfs_offset, image>>
  /\ NfsSend

NfsPortReply(r) ==
  /\ Handles(r, "PRCLOOKUP_PROG_NFS")
  /\ NfsSrvNfsPort' = LookedUp(r, NfsSrvNfsPort)
  /\ NfsState' = "MOUNT"
  /\ UNCHANGED <<loop, NfsSrvMountPort, fs_mounted, files, nfs_offset, image>>
  /\ NfsSend

MountReply(r) ==
  /\ Handles(r, "MOUNT")
  /\ UNCHANGED <<loop, ports, files, nfs_offset, image>>
  /\ IF Good(r)
     THEN fs_mounted' = TRUE /\ NfsState' = "LOOKUP" /\ NfsSend
     ELSE UNCHANGED fs_mounted /\ Umount

LookupReply(r) ==
  /\ Handles(r, "LOOKUP")
  /\ UNCHANGED <<loop, ports, fs_mounted, nfs_filename, image>>
  /\ IF Good(r)
     THEN filefh' = r.name /\ nfs_offset' = 0 /\ NfsState' = "READ" /\ NfsSend
     ELSE UNCHANGED <<filefh, nfs_offset>> /\ Umount

(* store_block *)
StoreBlock(place, chunk) ==
  /\ mem' = [c \in DOMAIN mem \cup {place} |-> IF c = place THEN chunk ELSE mem[c]]
  /\ NetBootFileXferSize' =
       IF NetBootFileXferSize < place + 1 THEN place + 1 ELSE NetBootFileXferSize

(* Mutants of ReadReply: nfs_read_reply does not compare the id; a symbolic *)
(* link is not told from an error.                                          *)
ReadReplyAnyId(r) ==
  /\ Handles(r, "READ")
  /\ UNCHANGED <<loop, ports, fs_mounted, files>>
  /\ IF r.res = "data"
     THEN /\ StoreBlock(nfs_offset, r.chunk)
          /\ nfs_offset' = nfs_offset + 1
          /\ UNCHANGED NfsState
          /\ NfsSend
     ELSE /\ UNCHANGED <<nfs_offset, image>>
          /\ NfsState' = IF r.res = "not_a_file" THEN "READLINK" ELSE "UMOUNT"
          /\ NfsSend

ReadReplyNoLinks(r) ==
  /\ Handles(r, "READ")
  /\ UNCHANGED <<loop, ports, fs_mounted, files>>
  /\ IF r.id = rpc_id /\ r.res = "data"
     THEN /\ StoreBlock(nfs_offset, r.chunk)
          /\ nfs_offset' = nfs_offset + 1
          /\ UNCHANGED NfsState
          /\ NfsSend
     ELSE /\ UNCHANGED <<nfs_offset, image>>
          /\ NfsState' = "UMOUNT"
          /\ NfsSend

(* Anything but data or a link ends the transfer: a late reply does, too.   *)
ReadReply(r) ==
  /\ Handles(r, "READ")
  /\ UNCHANGED <<loop, ports, fs_mounted, files>>
  /\ IF r.id = rpc_id /\ r.res = "data"
     THEN /\ StoreBlock(nfs_offset, r.chunk)
          /\ nfs_offset' = nfs_offset + 1
          /\ UNCHANGED NfsState
          /\ NfsSend
     ELSE /\ UNCHANGED <<nfs_offset, image>>
          /\ NfsState' = IF r.id = rpc_id /\ r.res = "not_a_file"
                         THEN "READLINK" ELSE "UMOUNT"
          /\ NfsSend

(* nfs_readlink_reply puts an absolute target in place of nfs_path and a     *)
(* relative one behind it, over the name of the link, with the 0 one byte   *)
(* too far: after a target shorter than that name a letter of it is left.   *)
Joined(target) == IF filefh \in ShortLinks THEN NoFile ELSE target

ReadlinkReply(r) ==
  /\ Handles(r, "READLINK")
  /\ UNCHANGED <<loop, ports, fs_mounted, filefh, nfs_offset, image>>
  /\ IF Good(r)
     THEN nfs_filename' = Joined(r.name) /\ NfsState' = "MOUNT" /\ NfsSend
     ELSE UNCHANGED nfs_filename /\ Umount

(* nfs_umountall_reply looks at no error code.                              *)
UmountReply(r) ==
  /\ Handles(r, "UMOUNT")
  /\ IF r.id = rpc_id /\ r.res # "denied"
     THEN fs_mounted' = FALSE /\ NetState' = "SUCCESS"
     ELSE UNCHANGED fs_mounted /\ NetState' = "FAIL"
  /\ UNCHANGED <<phase, timeHandler, NfsState, rpc_id, ports, files, nfs_offset, image, net>>

-----------------------------------------------------------------------------
(* One pass of NetLoop: eth_rx, ctrlc, the timer, the switch.               *)
RxDone ==
  /\ phase = "rx"
  /\ phase' \in {"timers", "aborted"}
  /\ UNCHANGED <<NetState, timeHandler, client, net, refused>>

(* Mutant of NfsTimeout: the call is sent again and waited for again. *)
NfsTimeoutResends ==
  /\ phase = "timers" /\ timeHandler = "NfsTimeout"
  /\ phase' = "switch"
  /\ UNCHANGED <<NetState, timeHandler, client, net, refused>>

(* Armed once, by NfsStart. *)
NfsTimeout ==
  /\ phase = "timers" /\ timeHandler = "NfsTimeout"
  /\ timeHandler' = "none"
  /\ NetState' = "FAIL"
  /\ phase' = "switch"
  /\ UNCHANGED <<client, net, refused>>

NoTimeout ==
  /\ phase = "timers"
  /\ phase' = "switch"
  /\ UNCHANGED <<NetState, timeHandler, client, net, refused>>

Switch ==
  /\ phase = "switch"
  /\ phase' = IF NetState = "CONTINUE" THEN "rx" ELSE "done"
  /\ UNCHANGED <<NetState, timeHandler, client, net, refused>>

-----------------------------------------------------------------------------
(* The server (external) answers a call, or not; one delivered twice is     *)
(* answered alike.                                                          *)
Answers(c) ==
  LET Answer(res, name, chunk) == Reply(c.id, res, name, chunk)
  IN {Answer("denied", File, -1)}
       \cup (IF c.proc # "UMOUNT" THEN {Answer("error", File, -1)} ELSE {})
       \cup CASE c.proc = "READ" ->
                   (IF c.name # File THEN {Answer("not_a_file", File, -1)}
                    ELSE IF c.offset < Chunks THEN {Answer("data", File, c.offset)}
                    ELSE {Answer("eof", File, -1)})
              [] c.proc = "READLINK" ->
                   {Answer("ok", LinkTo[l], -1) : l \in Links \cap {c.name}}
              [] c.proc = "LOOKUP" -> {Answer("ok", n, -1) : n \in {c.name} \ {NoFile}}
              [] OTHER -> {Answer("ok", c.name, -1)}

ServerAnswers ==
  /\ \E c \in Calls :
       /\ \A r \in Replies : r.id # c.id
       /\ \E r \in Answers(c) : net' = net \cup {r}
  /\ UNCHANGED <<loop, client, refused>>

-----------------------------------------------------------------------------
NfsHandler(r) ==
  MountPortReply(r) \/ NfsPortReply(r) \/ MountReply(r) \/ LookupReply(r)
    \/ ReadReply(r) \/ ReadlinkReply(r) \/ UmountReply(r)

Next ==
  \/ \E r \in net : NfsHandler(r)
  \/ RxDone \/ NfsTimeout \/ NoTimeout \/ Switch
  \/ ServerAnswers

Spec == Init /\ [][Next]_vars

(* The loop keeps running and the timer armed at the start expires.         *)
FairSpec ==
  /\ Spec
  /\ WF_vars(RxDone) /\ WF_vars(NfsTimeout \/ NoTimeout) /\ WF_vars(Switch)
  /\ SF_vars(NfsTimeout)

-----------------------------------------------------------------------------
(* Types of all variables.  The offset does not run past the file. *)
TypeOK ==
  /\ phase \in Phases
  /\ NetState \in {"CONTINUE", "SUCCESS", "FAIL"}
  /\ timeHandler \in {"NfsTimeout", "none"}
  /\ NfsState \in States
  /\ rpc_id \in Nat
  /\ NfsSrvMountPort \in {0, 1}
  /\ NfsSrvNfsPort \in {0, 1}
  /\ fs_mounted \in BOOLEAN
  /\ nfs_filename \in Names
  /\ filefh \in Names
  /\ nfs_offset \in -1..Chunks
  /\ NetBootFileXferSize \in 0..Chunks
  /\ DOMAIN mem \subseteq Nat
  /\ \A c \in DOMAIN mem : mem[c] \in Int
  /\ net \subseteq Messages
  /\ refused \in BOOLEAN

(* What is in memory is the beginning of the file, each chunk in its place, *)
(* and filesize says how much: no reply of another call, an older command   *)
(* or another file is ever stored (nfs_read_reply, store_block).            *)
Prefix ==
  /\ DOMAIN mem = 0..(NetBootFileXferSize - 1)
  /\ \A c \in DOMAIN mem : mem[c] = c

(* If no reply came late and none carried an error, "done" means that the   *)
(* whole file is in memory and the server was asked to unmount (NfsHandler).*)
Loaded ==
  NetState = "SUCCESS" /\ ~refused =>
    /\ NetBootFileXferSize = Chunks /\ Prefix
    /\ \E c \in Calls : c.proc = "UMOUNT" /\ c.id = rpc_id

(* A transfer that NetLoop reports as a success with something in memory    *)
(* has loaded the file (NfsHandler; "We want: - load the boot file").       *)
TruncatedNotReported ==
  NetState = "SUCCESS" /\ NetBootFileXferSize > 0 => NetBootFileXferSize = Chunks

(* The command comes back, whatever the server answers and even if links    *)
(* name each other in a circle (NfsTimeout).                                *)
Returns == <>(phase \in {"done", "aborted"})

-----------------------------------------------------------------------------
(* The inductive invariant behind Prefix and Loaded.                        *)

(* A reply with an id of this command answers the call with that id, and    *)
(* each id is used for one call.                                            *)
RpcInv ==
  /\ rpc_id > OldId
  /\ \A m \in net : m.id <= rpc_id
  /\ \A c, d \in Calls : c.id = d.id => c = d
  /\ \A c \in Calls : c.id > OldId
  /\ \A r \in Replies : r.id > OldId => \E c \in Calls : r \in Answers(c)

(* The call with the current id is the one of the current state, unless     *)
(* there was nothing to unmount.                                            *)
CallInv ==
  \A c \in Calls :
    c.id = rpc_id /\ (NfsState = "UMOUNT" => ~refused) =>
      /\ c.proc = NfsState
      /\ NfsState = "READ" => c.name = filefh /\ c.offset = nfs_offset

ImageInv ==
  /\ Prefix
  /\ NfsState = "READ" => nfs_offset = NetBootFileXferSize
  /\ NfsState \notin {"READ", "UMOUNT"} => NetBootFileXferSize = 0
  /\ NfsState = "READ" /\ filefh # File => NetBootFileXferSize = 0
  /\ NfsState = "UMOUNT" /\ ~refused => NetBootFileXferSize = Chunks

MountInv ==
  /\ NfsState \in {"LOOKUP", "READ", "READLINK"} => fs_mounted
  /\ NfsState # "UMOUNT" => NetState # "SUCCESS"

IInv == TypeOK /\ RpcInv /\ CallInv /\ ImageInv /\ MountInv /\ Loaded

-----------------------------------------------------------------------------
(* The load, as the user of the command sees it.  A late reply or an error  *)
(* disturbs it.  Blocks are counted from 1.                                *)
LoadStatus ==
  IF phase = "aborted" \/ (phase = "done" /\ (refused \/ NetState # "SUCCESS")) THEN "ended"
  ELSE IF refused THEN "disturbed"
  ELSE IF phase = "done" THEN "loaded" ELSE "loading"

InPlace == {c + 1 : c \in {d \in DOMAIN mem : mem[d] = d}}

Transfer == INSTANCE Load WITH
  Size <- Chunks, TakesBack <- FALSE, stored <- InPlace, status <- LoadStatus

(* Chunks come to memory in order and stay there, whatever the server       *)
(* answers, and "done" is reported undisturbed only with all of them there  *)
(* (NfsHandler, NetLoop).                                                  *)
ImplementsLoad == Transfer!Spec
=============================================================================
