----------------------------- MODULE Nfs_proof ------------------------------
(***************************************************************************)
(* Proofs about Nfs, for every file, every set of symbolic links and every *)
(* number of calls: types, that what is in memory is always the beginning  *)
(* of the file, and that an undisturbed load reported as done is complete. *)
(***************************************************************************)
EXTENDS Nfs, TLAPS

(* What the handlers can conclude from a reply of the server. *)
LEMMA AnswersLemma ==
  ASSUME NEW c \in Messages, c.type = "call", NEW r \in Answers(c)
  PROVE  /\ r \in Messages /\ r.type = "reply" /\ r.id = c.id
         /\ r.res = "data" =>
              c.proc = "READ" /\ c.name = File /\ c.offset < Chunks /\ r.chunk = c.offset
         /\ r.res = "eof" => c.proc = "READ" /\ c.name = File /\ ~(c.offset < Chunks)
         /\ r.res = "not_a_file" => c.proc = "READ" /\ c.name # File
         /\ r.res = "ok" => c.proc # "READ"
  <1> DEFINE Answer(res, name, chunk) == Reply(c.id, res, name, chunk)
  <1>1. c.id \in Nat /\ c.proc \in States /\ c.name \in Names /\ c.offset \in Int
    BY DEF Messages
  <1>2. \A res \in Results, name \in Names, chunk \in Int :
          /\ Answer(res, name, chunk) \in Messages
          /\ Answer(res, name, chunk).type = "reply"
          /\ Answer(res, name, chunk).id = c.id
          /\ Answer(res, name, chunk).res = res
          /\ Answer(res, name, chunk).chunk = chunk
    BY <1>1 DEF Reply, Messages
  <1>3. \A l \in Links : LinkTo[l] \in Names
    BY NfsAssumption DEF Names
  <1>4. File \in Names /\ -1 \in Int
    BY DEF Names
  <1>5. \/ r = Answer("denied", File, -1)
        \/ r = Answer("error", File, -1)
        \/ c.proc = "READ" /\ c.name # File /\ r = Answer("not_a_file", File, -1)
        \/ c.proc = "READ" /\ c.name = File /\ c.offset < Chunks /\ r = Answer("data", File, c.offset)
        \/ c.proc = "READ" /\ c.name = File /\ ~(c.offset < Chunks) /\ r = Answer("eof", File, -1)
        \/ c.proc # "READ" /\ \E l \in Links : r = Answer("ok", LinkTo[l], -1)
        \/ c.proc # "READ" /\ r = Answer("ok", c.name, -1)
    <2>1. CASE c.proc = "READ"
      BY <2>1 DEF Answers
    <2>2. CASE c.proc = "READLINK"
      BY <2>2 DEF Answers
    <2>3. CASE c.proc # "READ" /\ c.proc # "READLINK"
      BY <2>3 DEF Answers
    <2> QED
      BY <2>1, <2>2, <2>3
  <1> HIDE DEF Answer
  <1> QED
    BY <1>1, <1>2, <1>3, <1>4, <1>5 DEF Results

(* A reply with the current id answers the current call. *)
LEMMA CurrentReply ==
  ASSUME TypeOK, RpcInv, NEW r \in net, r.type = "reply", r.id = rpc_id
  PROVE  \E c \in Calls : c.id = rpc_id /\ c \in Messages /\ c.type = "call" /\ r \in Answers(c)
  <1>1. PICK c \in Calls : r \in Answers(c)
    BY DEF RpcInv, Replies
  <1>2. c \in Messages /\ c.type = "call"
    BY DEF TypeOK, Calls
  <1> QED
    BY <1>1, <1>2, AnswersLemma

(* After NfsSend the newest call is that of the state just entered. *)
LEMMA SendLemma ==
  ASSUME TypeOK, RpcInv, NfsSend,
         NfsState' \in States, nfs_filename' \in Names, filefh' \in Names, nfs_offset' \in Int
  PROVE  /\ net' \subseteq Messages
         /\ rpc_id' \in Nat
         /\ RpcInv'
         /\ (NfsState' = "UMOUNT" => fs_mounted) =>
              \A c \in Calls' :
                c.id = rpc_id' =>
                  /\ c.proc = NfsState'
                  /\ NfsState' = "READ" => c.name = filefh' /\ c.offset = nfs_offset'
  <1> DEFINE name == IF NfsState' \in {"READ", "READLINK"} THEN filefh' ELSE nfs_filename'
             new == Call(rpc_id + 1, NfsState', name, nfs_offset')
  <1>1. /\ new \in Messages /\ new.type = "call" /\ new.id = rpc_id + 1
        /\ new.proc = NfsState' /\ new.name = name /\ new.offset = nfs_offset'
    BY DEF Call, Messages, TypeOK
  <1> HIDE DEF new
  <1>2. CASE NfsState' = "UMOUNT" /\ ~fs_mounted
    BY <1>2 DEF NfsSend, RpcInv, TypeOK, Calls, Replies
  <1>3. CASE ~(NfsState' = "UMOUNT" /\ ~fs_mounted)
    <2>1. rpc_id' = rpc_id + 1 /\ (net' = net \/ net' = net \cup {new})
      BY <1>3 DEF NfsSend, new
    <2>2. rpc_id \in Nat /\ OldId \in Nat /\ net \subseteq Messages
      BY NfsAssumption DEF TypeOK
    <2>3. \A m \in net : m.id \in Nat /\ m.id <= rpc_id
      BY <2>2 DEF RpcInv, Messages
    <2>4. /\ Calls' = Calls \/ Calls' = Calls \cup {new}
          /\ Calls \subseteq Calls'
          /\ Replies' = Replies
      BY <2>1, <1>1 DEF Calls, Replies
    <2>5. Calls \subseteq net /\ Replies \subseteq net
      BY DEF Calls, Replies
    <2>6. RpcInv'
      <3>1. rpc_id' > OldId /\ \A m \in net' : m.id <= rpc_id'
        BY <1>1, <2>1, <2>2, <2>3 DEF RpcInv
      <3>2. \A c, d \in Calls' : c.id = d.id => c = d
        BY <1>1, <2>2, <2>3, <2>4, <2>5 DEF RpcInv
      <3>3. \A c \in Calls' : c.id > OldId
        BY <1>1, <2>2, <2>4 DEF RpcInv
      <3>4. \A r \in Replies' : r.id > OldId => \E c \in Calls' : r \in Answers(c)
        BY <2>4 DEF RpcInv
      <3> QED
        BY <3>1, <3>2, <3>3, <3>4 DEF RpcInv
    <2>7. \A c \in Calls' : c.id = rpc_id' => c = new
      BY <2>1, <2>2, <2>3, <2>4, <2>5
    <2> QED
      BY <1>1, <2>1, <2>2, <2>6, <2>7
  <1> QED
    BY <1>2, <1>3

LEMMA InitLemma == Init => IInv
  <1> SUFFICES ASSUME Init PROVE IInv
    OBVIOUS
  <1> DEFINE first == Call(OldId + 1, "PRCLOOKUP_PROG_MOUNT", nfs_filename, -1)
  <1>1. /\ phase = "rx" /\ NetState = "CONTINUE" /\ timeHandler = "NfsTimeout"
        /\ NfsState = "PRCLOOKUP_PROG_MOUNT" /\ rpc_id = OldId + 1
        /\ NfsSrvMountPort \in {0, 1} /\ NfsSrvNfsPort \in {0, 1} /\ fs_mounted \in BOOLEAN
        /\ nfs_filename \in Names /\ filefh = File /\ nfs_offset = -1
        /\ NetBootFileXferSize = 0 /\ DOMAIN mem = {} /\ refused = FALSE
        /\ net = OldReplies \cup {first}
    BY DEF Init
  <1>2. /\ first \in Messages /\ first.type = "call" /\ first.id = OldId + 1
        /\ first.proc = "PRCLOOKUP_PROG_MOUNT"
    BY <1>1, NfsAssumption DEF Call, Messages, States
  <1>3. \A r \in OldReplies : r \in Messages /\ r.type = "reply" /\ r.id \in 1..OldId
    BY NfsAssumption DEF OldReplies, Reply, Messages, Results, Names
  <1>4. Calls = {first} /\ Replies = OldReplies
    BY <1>1, <1>2, <1>3 DEF Calls, Replies
  <1> HIDE DEF first
  <1>5. TypeOK
    <2>1. net \subseteq Messages
      BY <1>1, <1>2, <1>3
    <2>2. nfs_offset \in -1..Chunks /\ NetBootFileXferSize \in 0..Chunks /\ rpc_id \in Nat
      BY <1>1, NfsAssumption
    <2> QED
      BY <1>1, <2>1, <2>2 DEF TypeOK, Phases, States, Names
  <1>6. RpcInv
    BY <1>1, <1>2, <1>3, <1>4, NfsAssumption DEF RpcInv
  <1>7. CallInv
    BY <1>1, <1>2, <1>4 DEF CallInv
  <1>8. ImageInv /\ MountInv /\ Loaded
    BY <1>1 DEF ImageInv, MountInv, Loaded, Prefix
  <1> QED
    BY <1>5, <1>6, <1>7, <1>8 DEF IInv

(* A reply that makes the client call again, without touching the image:    *)
(* all of NfsHandler but READ data and UMOUNT.                              *)
LEMMA CallAgain ==
  ASSUME IInv, NfsSend, UNCHANGED <<loop, image>>, refused' \in BOOLEAN, refused => refused',
         NfsSrvMountPort' \in {0, 1}, NfsSrvNfsPort' \in {0, 1}, fs_mounted' \in BOOLEAN,
         NfsState' \in States, nfs_filename' \in Names, filefh' \in Names,
         nfs_offset' \in -1..Chunks, NfsState # "UMOUNT",
         NfsState' = "READ" => nfs_offset' = NetBootFileXferSize,
         NfsState' \notin {"READ", "UMOUNT"} => NetBootFileXferSize = 0,
         NfsState' = "READ" /\ filefh' # File => NetBootFileXferSize = 0,
         NfsState' \in {"LOOKUP", "READ", "READLINK"} => fs_mounted',
         NfsState' = "UMOUNT" /\ ~refused' => fs_mounted /\ NetBootFileXferSize = Chunks
  PROVE  IInv'
  <1>1. nfs_offset' \in Int /\ TypeOK /\ RpcInv
    BY DEF IInv
  <1>2. /\ net' \subseteq Messages /\ rpc_id' \in Nat /\ RpcInv'
        /\ (NfsState' = "UMOUNT" => fs_mounted) =>
              \A c \in Calls' :
                c.id = rpc_id' =>
                  /\ c.proc = NfsState'
                  /\ NfsState' = "READ" => c.name = filefh' /\ c.offset = nfs_offset'
    BY <1>1, SendLemma
  <1>3. TypeOK'
    BY <1>1, <1>2 DEF TypeOK, loop, image
  <1>4. CallInv'
    BY <1>2 DEF CallInv
  <1>5. ImageInv' /\ MountInv'
    BY DEF IInv, ImageInv, MountInv, Prefix, loop, image
  <1>6. Loaded'
    BY DEF IInv, MountInv, Loaded, loop
  <1> QED
    BY <1>2, <1>3, <1>4, <1>5, <1>6 DEF IInv

(* nfs_read_reply stores the chunk asked for at the offset it was asked for. *)
LEMMA ReadLemma ==
  ASSUME IInv, NEW r \in net, ReadReply(r)
  PROVE  IInv'
  <1>1. /\ NfsState = "READ" /\ r.type = "reply"
        /\ refused' = (refused \/ r.id # rpc_id \/ r.res \in {"error", "denied"})
        /\ UNCHANGED <<loop, ports, fs_mounted, files>>
    BY DEF ReadReply, Handles
  <1>2. /\ TypeOK /\ RpcInv /\ fs_mounted /\ nfs_offset = NetBootFileXferSize
        /\ nfs_offset \in 0..Chunks /\ NetState # "SUCCESS" /\ r \in Messages
    BY <1>1 DEF IInv, TypeOK, ImageInv, MountInv
  <1>3. refused' \in BOOLEAN
    BY <1>1, <1>2 DEF TypeOK
  <1>4. r.id = rpc_id =>
          /\ r.res = "data" => nfs_offset < Chunks /\ r.chunk = nfs_offset /\ filefh = File
          /\ r.res = "eof" => nfs_offset = Chunks
          /\ r.res # "ok"
    <2> SUFFICES ASSUME r.id = rpc_id
                 PROVE  /\ r.res = "data" => nfs_offset < Chunks /\ r.chunk = nfs_offset /\ filefh = File
                        /\ r.res = "eof" => nfs_offset = Chunks
                        /\ r.res # "ok"
      OBVIOUS
    <2>1. PICK c \in Calls : c.id = rpc_id /\ c \in Messages /\ c.type = "call" /\ r \in Answers(c)
      BY <1>1, <1>2, CurrentReply
    <2>2. c.proc = "READ" /\ c.name = filefh /\ c.offset = nfs_offset
      BY <1>1, <2>1 DEF IInv, CallInv
    <2> QED
      BY <1>2, <2>1, <2>2, AnswersLemma, NfsAssumption
  <1>5. CASE r.id = rpc_id /\ r.res = "data"
    <2>1. /\ StoreBlock(nfs_offset, r.chunk) /\ nfs_offset' = nfs_offset + 1
          /\ NfsState' = "READ" /\ NfsSend
      BY <1>1, <1>5 DEF ReadReply
    <2>2. nfs_offset' \in 1..Chunks /\ nfs_filename' \in Names /\ filefh' \in Names
      BY <1>1, <1>2, <1>4, <1>5, <2>1, NfsAssumption DEF TypeOK, files
    <2>3. /\ NetBootFileXferSize' = nfs_offset'
          /\ DOMAIN mem' = 0..(NetBootFileXferSize' - 1)
          /\ \A c \in DOMAIN mem' : mem'[c] = c
      <3>1. DOMAIN mem = 0..(nfs_offset - 1) /\ \A c \in DOMAIN mem : mem[c] = c
        BY <1>2 DEF IInv, ImageInv, Prefix
      <3>2. mem' = [c \in DOMAIN mem \cup {nfs_offset} |-> IF c = nfs_offset THEN nfs_offset ELSE mem[c]]
        BY <1>4, <1>5, <2>1 DEF StoreBlock
      <3>3. NetBootFileXferSize' = nfs_offset'
        BY <1>2, <2>1 DEF StoreBlock
      <3> QED
        BY <1>2, <2>1, <3>1, <3>2, <3>3
    <2>4. /\ net' \subseteq Messages /\ rpc_id' \in Nat /\ RpcInv'
          /\ \A c \in Calls' : c.id = rpc_id' =>
                c.proc = "READ" /\ c.name = filefh' /\ c.offset = nfs_offset'
      <3>1. NfsState' \in States /\ nfs_offset' \in Int
        BY <2>1, <2>2 DEF States
      <3> QED
        BY <1>2, <2>1, <2>2, <3>1, SendLemma
    <2>5. TypeOK'
      BY <1>1, <1>2, <1>3, <2>1, <2>2, <2>3, <2>4 DEF TypeOK, loop, ports, files, States
    <2>6. CallInv' /\ ImageInv' /\ MountInv' /\ Loaded'
      BY <1>1, <1>2, <1>4, <1>5, <2>1, <2>3, <2>4
         DEF CallInv, ImageInv, MountInv, Loaded, Prefix, loop, files
    <2> QED
      BY <2>4, <2>5, <2>6 DEF IInv
  <1>6. CASE ~(r.id = rpc_id /\ r.res = "data")
    <2>1. /\ UNCHANGED <<nfs_offset, image>> /\ NfsSend
          /\ NfsState' = IF r.id = rpc_id /\ r.res = "not_a_file" THEN "READLINK" ELSE "UMOUNT"
      BY <1>1, <1>6 DEF ReadReply
    <2>2. r.id = rpc_id /\ r.res = "not_a_file" => NetBootFileXferSize = 0
      <3> SUFFICES ASSUME r.id = rpc_id, r.res = "not_a_file" PROVE NetBootFileXferSize = 0
        OBVIOUS
      <3>1. PICK c \in Calls :
              c.id = rpc_id /\ c \in Messages /\ c.type = "call" /\ r \in Answers(c)
        BY <1>1, <1>2, CurrentReply
      <3>2. c.proc = "READ" /\ c.name = filefh
        BY <1>1, <3>1 DEF IInv, CallInv
      <3>3. c.name # File
        BY <3>1, <3>2, AnswersLemma
      <3> QED
        BY <1>1, <1>2, <3>2, <3>3 DEF IInv, ImageInv
    <2>3. NfsState' = "UMOUNT" /\ ~refused' => NetBootFileXferSize = Chunks
      <3> SUFFICES ASSUME NfsState' = "UMOUNT", ~refused' PROVE NetBootFileXferSize = Chunks
        OBVIOUS
      <3>1. r.id = rpc_id /\ r.res \notin {"error", "denied", "not_a_file", "data"}
        BY <1>1, <1>6, <2>1
      <3>2. r.res \in Results
        BY <1>1, <1>2 DEF Messages
      <3> QED
        BY <1>2, <1>4, <3>1, <3>2 DEF Results
    <2>4. /\ NfsState' \in States /\ NfsState' \in {"READLINK", "UMOUNT"}
          /\ nfs_offset' \in -1..Chunks /\ UNCHANGED <<loop, image>>
          /\ NfsSrvMountPort' \in {0, 1} /\ NfsSrvNfsPort' \in {0, 1}
          /\ fs_mounted' \in BOOLEAN /\ fs_mounted'
          /\ nfs_filename' \in Names /\ filefh' \in Names
      BY <1>1, <1>2, <2>1 DEF TypeOK, ports, files, States
    <2> QED
      BY <1>1, <1>2, <1>3, <2>1, <2>2, <2>3, <2>4, CallAgain
  <1> QED
    BY <1>5, <1>6

LEMMA UmountLemma ==
  ASSUME IInv, NEW r \in net, UmountReply(r)
  PROVE  IInv'
  <1>1. /\ NfsState = "UMOUNT" /\ r.type = "reply"
        /\ refused' = (refused \/ r.id # rpc_id \/ r.res \in {"error", "denied"})
        /\ UNCHANGED <<phase, timeHandler, NfsState, rpc_id, ports, files, nfs_offset, image, net>>
        /\ fs_mounted' \in {fs_mounted, FALSE}
        /\ NetState' \in {"SUCCESS", "FAIL"}
        /\ NetState' = "SUCCESS" => r.id = rpc_id
    BY DEF UmountReply, Handles
  <1>2. TypeOK /\ RpcInv
    BY DEF IInv
  <1>3. TypeOK'
    BY <1>1, <1>2 DEF TypeOK, ports, files, image
  <1>4. RpcInv' /\ CallInv' /\ ImageInv' /\ MountInv'
    BY <1>1 DEF IInv, RpcInv, CallInv, ImageInv, MountInv, Prefix, Calls, Replies,
       files, image
  <1>5. Loaded'
    <2> SUFFICES ASSUME NetState' = "SUCCESS", ~refused' PROVE Loaded'
      BY DEF Loaded
    <2>1. PICK c \in Calls : c.id = rpc_id /\ c \in Messages /\ c.type = "call" /\ r \in Answers(c)
      BY <1>1, <1>2, CurrentReply
    <2>2. c.proc = "UMOUNT" /\ NetBootFileXferSize = Chunks /\ Prefix
      BY <1>1, <2>1 DEF IInv, CallInv, ImageInv
    <2> QED
      BY <1>1, <2>1, <2>2 DEF Loaded, Prefix, Calls, image
  <1> QED
    BY <1>3, <1>4, <1>5 DEF IInv

LEMMA StepLemma == IInv /\ [Next]_vars => IInv'
  <1> SUFFICES ASSUME IInv, [Next]_vars PROVE IInv'
    OBVIOUS
  <1>a. TypeOK /\ RpcInv /\ CallInv /\ ImageInv /\ MountInv /\ Loaded
    BY DEF IInv
  <1>b. \A r \in net : r.type = "reply" => r.name \in Names
    BY <1>a DEF TypeOK, Messages
  <1> USE DEF loop, ports, files, image, States
  <1>1. ASSUME NEW r \in net, MountPortReply(r) PROVE IInv'
    <2>1. /\ NfsSrvMountPort' \in {0, 1} /\ refused' \in BOOLEAN /\ (refused => refused')
      BY <1>a, <1>1 DEF MountPortReply, Handles, LookedUp, TypeOK
    <2> QED
      BY <1>a, <1>1, <2>1, CallAgain DEF MountPortReply, Handles, TypeOK, ImageInv
  <1>2. ASSUME NEW r \in net, NfsPortReply(r) PROVE IInv'
    <2>1. /\ NfsSrvNfsPort' \in {0, 1} /\ refused' \in BOOLEAN /\ (refused => refused')
      BY <1>a, <1>2 DEF NfsPortReply, Handles, LookedUp, TypeOK
    <2> QED
      BY <1>a, <1>2, <2>1, CallAgain DEF NfsPortReply, Handles, TypeOK, ImageInv
  <1>3. ASSUME NEW r \in net, MountReply(r) PROVE IInv'
    <2>1. /\ refused' \in BOOLEAN /\ (refused => refused') /\ (~Good(r) => refused')
      BY <1>a, <1>3 DEF MountReply, Handles, Good, TypeOK
    <2> QED
      BY <1>a, <1>3, <2>1, CallAgain DEF MountReply, Umount, Handles, TypeOK, ImageInv
  <1>4. ASSUME NEW r \in net, LookupReply(r) PROVE IInv'
    <2>1. /\ refused' \in BOOLEAN /\ (refused => refused') /\ (~Good(r) => refused')
      BY <1>a, <1>4 DEF LookupReply, Handles, Good, TypeOK
    <2>2. /\ NfsState = "LOOKUP" /\ r.name \in Names /\ NetBootFileXferSize = 0 /\ fs_mounted
      BY <1>a, <1>b, <1>4 DEF LookupReply, Handles, ImageInv, MountInv
    <2>3. 0 \in -1..Chunks
      BY NfsAssumption
    <2> QED
      BY <1>a, <1>4, <2>1, <2>2, <2>3, CallAgain DEF LookupReply, Umount, TypeOK
  <1>5. ASSUME NEW r \in net, ReadReply(r) PROVE IInv'
    BY <1>5, ReadLemma
  <1>6. ASSUME NEW r \in net, ReadlinkReply(r) PROVE IInv'
    <2>1. /\ refused' \in BOOLEAN /\ (refused => refused') /\ (~Good(r) => refused')
      BY <1>a, <1>6 DEF ReadlinkReply, Handles, Good, TypeOK
    <2>2. NfsState = "READLINK" /\ Joined(r.name) \in Names /\ NetBootFileXferSize = 0
      BY <1>a, <1>b, <1>6 DEF ReadlinkReply, Handles, ImageInv, Joined, Names
    <2> QED
      BY <1>a, <1>6, <2>1, <2>2, CallAgain DEF ReadlinkReply, Umount, TypeOK
  <1>7. ASSUME NEW r \in net, UmountReply(r) PROVE IInv'
    BY <1>7, UmountLemma
  <1>8. ASSUME RxDone \/ NfsTimeout \/ NoTimeout \/ Switch PROVE IInv'
    <2>1. /\ UNCHANGED <<client, net, refused>>
          /\ NetState' \in {NetState, "FAIL"}
          /\ timeHandler' \in {timeHandler, "none"}
          /\ phase' \in Phases
      BY <1>8 DEF RxDone, NfsTimeout, NoTimeout, Switch, Phases
    <2> QED
      BY <1>a, <2>1 DEF client, IInv, TypeOK, RpcInv, CallInv, ImageInv, MountInv, Loaded,
         Prefix, Calls, Replies
  <1>9. ASSUME ServerAnswers PROVE IInv'
    <2>1. PICK c \in Calls : \E r \in Answers(c) : net' = net \cup {r}
      BY <1>9 DEF ServerAnswers
    <2>2. PICK r \in Answers(c) : net' = net \cup {r}
      BY <2>1
    <2>3. c \in Messages /\ c.type = "call" /\ c.id <= rpc_id
      BY <1>a, <2>1 DEF TypeOK, Calls, RpcInv
    <2>4. r \in Messages /\ r.type = "reply" /\ r.id = c.id
      BY <2>2, <2>3, AnswersLemma
    <2>5. UNCHANGED <<loop, client, refused>>
      BY <1>9 DEF ServerAnswers
    <2>6. Calls' = Calls /\ Replies' = Replies \cup {r}
      BY <2>2, <2>4 DEF Calls, Replies
    <2>7. TypeOK'
      BY <1>a, <2>2, <2>4, <2>5 DEF TypeOK, client
    <2>8. RpcInv'
      BY <1>a, <2>1, <2>2, <2>3, <2>4, <2>5, <2>6 DEF RpcInv, client
    <2> QED
      BY <1>a, <2>5, <2>6, <2>7, <2>8 DEF client, IInv, CallInv, ImageInv, MountInv, Loaded, Prefix
  <1>10. ASSUME UNCHANGED vars PROVE IInv'
    BY <1>a, <1>10 DEF vars, IInv, TypeOK, RpcInv, CallInv, ImageInv, MountInv, Loaded,
       Prefix, Calls, Replies
  <1> QED
    BY <1>1, <1>2, <1>3, <1>4, <1>5, <1>6, <1>7, <1>8, <1>9, <1>10 DEF Next, NfsHandler

THEOREM NfsInvariant == Spec => []IInv
  BY InitLemma, StepLemma, PTL DEF Spec

(* Types of all variables; the offset of a READ never runs past the file.   *)
THEOREM NfsTyping == Spec => []TypeOK
  BY NfsInvariant, PTL DEF IInv

(* What is in memory is the beginning of the file, whatever replies come    *)
(* late, twice or from earlier commands.                                    *)
THEOREM NfsPrefix == Spec => []Prefix
  BY NfsInvariant, PTL DEF IInv, ImageInv

(* A load none of whose replies was late or an error is complete when it is *)
(* reported as done, and the server has been asked to unmount.              *)
THEOREM NfsLoaded == Spec => []Loaded
  BY NfsInvariant, PTL DEF IInv

-----------------------------------------------------------------------------
(* The refinement of Load.                                                 *)

LEMMA Counted ==
  ASSUME NEW x \in Nat, NEW m, DOMAIN m = 0..(x - 1), \A c \in DOMAIN m : m[c] = c
  PROVE  {c + 1 : c \in {d \in DOMAIN m : m[d] = d}} = 1..x
  <1>1. {d \in DOMAIN m : m[d] = d} = 0..(x - 1)
    OBVIOUS
  <1>2. ASSUME NEW b \in 1..x
        PROVE  b \in {c + 1 : c \in 0..(x - 1)}
    <2>1. b - 1 \in 0..(x - 1) /\ (b - 1) + 1 = b
      OBVIOUS
    <2> QED
      BY <2>1
  <1>3. ASSUME NEW c \in 0..(x - 1)
        PROVE  c + 1 \in 1..x
    OBVIOUS
  <1> QED
    BY <1>1, <1>2, <1>3

(* A reply stores one chunk at most, after those that are there.           *)
LEMMA HandlerLemma ==
  ASSUME IInv, NEW r, NfsHandler(r)
  PROVE  /\ phase = "rx" /\ phase' = "rx" /\ (refused => refused')
         /\ NetBootFileXferSize' \in {NetBootFileXferSize, NetBootFileXferSize + 1}
  <1>1. CASE ReadReply(r)
    <2>1. /\ phase = "rx" /\ phase' = phase /\ (refused => refused') /\ NfsState = "READ"
          /\ StoreBlock(nfs_offset, r.chunk) \/ UNCHANGED image
      BY <1>1 DEF ReadReply, Handles, loop
    <2>2. nfs_offset = NetBootFileXferSize /\ NetBootFileXferSize \in Int
      BY <2>1 DEF IInv, ImageInv, TypeOK
    <2>3. StoreBlock(nfs_offset, r.chunk) =>
            NetBootFileXferSize' \in {NetBootFileXferSize, NetBootFileXferSize + 1}
      BY <2>2 DEF StoreBlock
    <2> QED
      BY <2>1, <2>3 DEF image
  <1>2. CASE ~ReadReply(r)
    <2>1. phase = "rx" /\ phase' = phase /\ (refused => refused') /\ UNCHANGED image
      BY <1>2 DEF NfsHandler, MountPortReply, NfsPortReply, MountReply, LookupReply,
                  ReadlinkReply, UmountReply, Handles, loop
    <2> QED
      BY <2>1 DEF image
  <1> QED
    BY <1>1, <1>2

LEMMA TransferInit == Init => Transfer!Init
  BY DEF Init, Transfer!Init, InPlace, LoadStatus

LEMMA TransferStep == IInv /\ IInv' /\ [Next]_vars => [Transfer!Next]_(Transfer!loadVars)
  <1> SUFFICES ASSUME IInv, IInv', [Next]_vars
               PROVE  Transfer!Next \/ UNCHANGED <<InPlace, LoadStatus>>
    BY DEF Transfer!loadVars
  <1>1. /\ InPlace = 1..NetBootFileXferSize /\ NetBootFileXferSize \in 0..Chunks
        /\ InPlace' = 1..NetBootFileXferSize' /\ NetBootFileXferSize' \in 0..Chunks
    <2>1. TypeOK /\ Prefix /\ TypeOK' /\ Prefix'
      BY DEF IInv, ImageInv
    <2>2. NetBootFileXferSize \in 0..Chunks /\ NetBootFileXferSize' \in 0..Chunks
      BY <2>1 DEF TypeOK
    <2>3. NetBootFileXferSize \in Nat /\ NetBootFileXferSize' \in Nat
      BY <2>2, NfsAssumption
    <2>4. InPlace = 1..NetBootFileXferSize
      BY <2>1, <2>3, Counted DEF Prefix, InPlace
    <2>5. InPlace' = 1..NetBootFileXferSize'
      BY <2>1, <2>3, Counted DEF Prefix, InPlace
    <2> QED
      BY <2>2, <2>4, <2>5
  <1>2. CASE \E r \in net : NfsHandler(r)
    <2>1. /\ phase = "rx" /\ phase' = "rx" /\ (refused => refused')
          /\ NetBootFileXferSize' \in {NetBootFileXferSize, NetBootFileXferSize + 1}
      BY <1>2, HandlerLemma
    <2>2. /\ LoadStatus = IF refused THEN "disturbed" ELSE "loading"
          /\ LoadStatus' = IF refused' THEN "disturbed" ELSE "loading"
      BY <2>1 DEF LoadStatus
    <2>3. Transfer!Scattered
      BY <1>1, <2>1, NfsAssumption DEF Transfer!Scattered, Transfer!AllBlocks
    <2>4. CASE refused
      <3>1. Transfer!Straggle
        BY <2>1, <2>2, <2>3, <2>4 DEF Transfer!Straggle
      <3> QED
        BY <3>1 DEF Transfer!Next
    <2>5. CASE ~refused /\ refused'
      <3>1. Transfer!Disturb
        BY <2>2, <2>3, <2>5 DEF Transfer!Disturb
      <3> QED
        BY <3>1 DEF Transfer!Next
    <2>6. CASE ~refused /\ ~refused' /\ NetBootFileXferSize' = NetBootFileXferSize + 1
      <3>1. /\ NetBootFileXferSize + 1 \in 1..Chunks
            /\ 1..((NetBootFileXferSize + 1) - 1) \subseteq InPlace
            /\ InPlace' = InPlace \cup {NetBootFileXferSize + 1}
        BY <1>1, <2>6, NfsAssumption
      <3>2. LoadStatus = "loading" /\ LoadStatus' = "loading"
        BY <2>2, <2>6
      <3>3. Transfer!Store
        BY <3>1, <3>2 DEF Transfer!Store, Transfer!AllBlocks
      <3> QED
        BY <3>3 DEF Transfer!Next
    <2>7. CASE ~refused /\ ~refused' /\ NetBootFileXferSize' = NetBootFileXferSize
      BY <1>1, <2>2, <2>7
    <2> QED
      BY <2>1, <2>4, <2>5, <2>6, <2>7
  <1>3. CASE RxDone
    <2>1. /\ phase = "rx" /\ phase' \in {"timers", "aborted"}
          /\ UNCHANGED <<NetState, refused, NetBootFileXferSize>>
      BY <1>3 DEF RxDone, client, image
    <2>2. InPlace' = InPlace
      BY <1>1, <2>1
    <2>3. CASE phase' = "timers"
      BY <2>1, <2>2, <2>3 DEF LoadStatus
    <2>4. CASE phase' = "aborted"
      <3>1. LoadStatus' = "ended" /\ LoadStatus = IF refused THEN "disturbed" ELSE "loading"
        BY <2>1, <2>4 DEF LoadStatus
      <3>2. Transfer!Scattered
        BY <1>1, <2>2, NfsAssumption DEF Transfer!Scattered, Transfer!AllBlocks
      <3>3. Transfer!Fail \/ Transfer!Straggle
        BY <2>2, <3>1, <3>2 DEF Transfer!Fail, Transfer!Straggle
      <3> QED
        BY <3>3 DEF Transfer!Next
    <2> QED
      BY <2>1, <2>3, <2>4
  <1>4. CASE NfsTimeout \/ NoTimeout
    <2>1. phase = "timers" /\ phase' = "switch" /\ UNCHANGED <<refused, NetBootFileXferSize>>
      BY <1>4 DEF NfsTimeout, NoTimeout, client, image
    <2> QED
      BY <1>1, <2>1 DEF LoadStatus
  <1>5. CASE Switch
    <2>1. /\ phase = "switch" /\ phase' = IF NetState = "CONTINUE" THEN "rx" ELSE "done"
          /\ UNCHANGED <<NetState, refused, NetBootFileXferSize>>
      BY <1>5 DEF Switch, client, image
    <2>2. InPlace' = InPlace /\ LoadStatus = IF refused THEN "disturbed" ELSE "loading"
      BY <1>1, <2>1 DEF LoadStatus
    <2>3. CASE NetState = "CONTINUE"
      BY <2>1, <2>2, <2>3 DEF LoadStatus
    <2>4. CASE NetState = "SUCCESS" /\ ~refused
      <3>1. LoadStatus' = "loaded"
        BY <2>1, <2>4 DEF LoadStatus
      <3>2. NetBootFileXferSize = Chunks
        BY <2>4 DEF IInv, Loaded
      <3>3. Transfer!Report
        BY <1>1, <2>2, <2>4, <3>1, <3>2 DEF Transfer!Report, Transfer!AllBlocks
      <3> QED
        BY <3>3 DEF Transfer!Next
    <2>5. CASE NetState # "CONTINUE" /\ (NetState # "SUCCESS" \/ refused)
      <3>1. LoadStatus' = "ended"
        BY <2>1, <2>5 DEF LoadStatus
      <3>2. Transfer!Scattered
        BY <1>1, <2>2, NfsAssumption DEF Transfer!Scattered, Transfer!AllBlocks
      <3>3. Transfer!Fail \/ Transfer!Straggle
        BY <2>2, <3>1, <3>2 DEF Transfer!Fail, Transfer!Straggle
      <3> QED
        BY <3>3 DEF Transfer!Next
    <2> QED
      BY <2>3, <2>4, <2>5
  <1>6. CASE ServerAnswers \/ UNCHANGED vars
    <2>1. UNCHANGED <<phase, NetState, refused, NetBootFileXferSize>>
      BY <1>6 DEF ServerAnswers, loop, client, image, vars
    <2> QED
      BY <1>1, <2>1 DEF LoadStatus
  <1> QED
    BY <1>2, <1>3, <1>4, <1>5, <1>6 DEF Next

(* The NFS client implements Load: chunks come to memory in their order, no *)
(* reply takes one away, and an undisturbed success has them all.           *)
THEOREM NfsImplementsLoad == Spec => ImplementsLoad
  BY NfsInvariant, TransferInit, TransferStep, PTL DEF Spec, ImplementsLoad, Transfer!Spec

=============================================================================
