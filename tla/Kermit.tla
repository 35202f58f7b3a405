------------------------------- MODULE Kermit -------------------------------
(***************************************************************************)
(* The command loadb: a file received over the serial line by k_recv in    *)
(* common/cmd_load.c, which writes the data to memory as the characters    *)
(* come in.  A packet that turns out damaged has therefore been stored     *)
(* already, so k_recv keeps a checkpoint, taken when a packet with a new   *)
(* sequence number begins, and goes back to it when a packet is damaged or *)
(* the number comes again.                                                 *)
(*                                                                         *)
(* A packet is its index in the transfer: the send initiation S, the file  *)
(* header F, one D for each block of data, the end of file Z and the break *)
(* B.  The line and the way back keep their order; both lose, and a packet *)
(* may arrive damaged.  The program at the other end is the environment:   *)
(* it sends one packet at a time, and again when it likes.  The check      *)
(* characters are taken to find every damage.                              *)
(***************************************************************************)
EXTENDS Integers, Sequences

CONSTANTS Blocks,       \* blocks of the file, one D packet each
          SeqSize,      \* sequence numbers, 64 on the line
          MaxLine,      \* bound: packets on the line
          MaxReplies,   \* bound: replies on their way
          MaxImage      \* bound: blocks stored

ASSUME BlocksAssumption  == Blocks \in Nat
ASSUME SeqSizeAssumption == SeqSize \in Nat /\ SeqSize > 2

VARIABLES
  data,     \* os_data_addr and k_data_escape: the blocks below the address
            \* (0: one spoilt by an escape left over) and the escape
  saved,    \* os_data_addr_saved, as a count of blocks, and k_data_escape_saved
  n,        \* the sequence number read last
  last_n,   \* the one the checkpoint was taken for
  status,   \* "receiving", "done" (a B packet came) or "aborted" (^C)
  filesize, \* the variable filesize, in blocks
  cur,      \* the packet the sender is at
  line,     \* packets on the line
  replies,  \* acknowledgements and refusals on their way back
  got,      \* history: packets received undamaged, up to this one, less one
            \* taken back since
  noise     \* history: damage of the kinds k_recv does not survive

recv == <<data, saved, n, last_n>>
vars == <<data, saved, n, last_n, status, filesize, cur, line, replies, got,
          noise>>

Break == Blocks + 4
Number(p) == (p - 1) % SeqSize
IsData(p) == p > 2 /\ p < Blocks + 3

\* Blocks of the packets up to p.
BlocksUpTo(p) == IF p < 3 THEN 0 ELSE IF p > Blocks + 2 THEN Blocks ELSE p - 2

Ack(m) == [type |-> "ACK", n |-> m]
Nack(m) == [type |-> "NAK", n |-> m]

Kinds == {"header", "number", "again"}

-----------------------------------------------------------------------------
(* What is stored.                                                          *)

k_data_init == [image |-> <<>>, escape |-> FALSE]

\* Mutant of k_data_save: the escape is saved, the address is not.
k_data_saveEscapeOnly(d) == [addr |-> saved.addr, escape |-> d.escape]

\* Mutant of k_data_save: the address of the next character, one too far.
k_data_saveOneFurther(d) == [addr |-> Len(d.image) + 1, escape |-> d.escape]

k_data_save(d) == [addr |-> Len(d.image), escape |-> d.escape]

\* Mutant of k_data_restore: the escape stays as the damaged packet left it.
k_data_restoreKeepsEscape(d, s) ==
  [image |-> SubSeq(d.image, 1, s.addr), escape |-> d.escape]

k_data_restore(d, s) ==
  [image |-> SubSeq(d.image, 1, s.addr), escape |-> s.escape]

\* A whole packet stored at d: an escape left over changes its first
\* character.  A sender never ends a packet with an escape.
Stored(d, p) ==
  IF IsData(p)
  THEN [image |-> Append(d.image, IF d.escape THEN 0 ELSE p - 2),
        escape |-> FALSE]
  ELSE d

\* Part of a packet stored before the damage is found.
Spoilt(d, e) == [d EXCEPT !.escape = e]

-----------------------------------------------------------------------------
Init ==
  /\ data = k_data_init
  /\ saved = [addr |-> 0, escape |-> FALSE]
  /\ n = 0
  /\ last_n = -1
  /\ status = "receiving"
  /\ filesize = 0
  /\ cur = 1
  /\ line = <<>>
  /\ replies = <<>>
  /\ got = 0
  /\ noise = {}

(***************************************************************************)
(* k_recv.                                                                 *)
(***************************************************************************)

\* Mutant of SameNumber: every packet is taken for a new one.
SameNumberNever(m) == m < 0

SameNumber(m) == m = last_n

\* The checkpoint and the place the data of a packet numbered m go to.
Checkpoint(m) == IF SameNumber(m) THEN saved ELSE k_data_save(data)
Begun(m) == IF SameNumber(m) THEN k_data_restore(data, saved) ELSE data

Receiving ==
  /\ status = "receiving"
  /\ line /= <<>>
  /\ Len(replies) < MaxReplies
  /\ line' = Tail(line)

\* A packet with nothing wrong: stored and acknowledged; B ends the transfer.
Good ==
  /\ Receiving
  /\ Len(data.image) < MaxImage
  /\ LET p == Head(line)
         m == Number(p)
     IN /\ n' = m
        /\ last_n' = m
        /\ saved' = Checkpoint(m)
        /\ data' = Stored(Begun(m), p)
        /\ replies' = Append(replies, Ack(m))
        /\ got' = IF p > got THEN p ELSE got
        /\ \/ p = Break /\ status' = "done" /\ filesize' = Len(data'.image)
           \/ p /= Break /\ UNCHANGED <<status, filesize>>
  /\ UNCHANGED <<cur, noise>>

\* The sender has or will get an acknowledgement of packet p.
Acknowledged(p) ==
  p < cur \/ \E i \in 1 .. Len(replies) : replies[i] = Ack(Number(p))

\* A packet found damaged after its number was read, as m.
Damaged(m, e) ==
  /\ Receiving
  /\ n' = m
  /\ last_n' = m
  /\ saved' = Checkpoint(m)
  /\ data' = k_data_restore(Spoilt(Begun(m), e), Checkpoint(m))
  /\ replies' = Append(replies, Nack(m))
  /\ noise' = noise \cup (IF m /= Number(Head(line)) THEN {"number"} ELSE {})
                    \cup (IF Acknowledged(Head(line)) THEN {"again"} ELSE {})
  /\ got' = IF Head(line) = got THEN got - 1 ELSE got
  /\ UNCHANGED <<status, filesize, cur>>

\* A packet damaged in its length or its number: packet_error comes before
\* the number is compared, so the checkpoint is still that of the packet before.
DamagedHeader ==
  /\ Receiving
  /\ data' = k_data_restore(data, saved)
  /\ replies' = Append(replies, Nack(n))
  /\ noise' = noise \cup {"header"}
  /\ UNCHANGED <<saved, n, last_n, status, filesize, cur, got>>

\* The user types ^C between two packets: k_recv returns 0, and that is what
\* load_serial_bin puts into filesize.
CtrlC ==
  /\ status = "receiving"
  /\ status' = "aborted"
  /\ filesize' = 0
  /\ UNCHANGED <<recv, cur, line, replies, got, noise>>

(***************************************************************************)
(* The line and the sender.                                                *)
(***************************************************************************)

\* A packet whose START character is lost, or that is lost whole.
LosePacket ==
  /\ line /= <<>>
  /\ line' = Tail(line)
  /\ UNCHANGED <<recv, status, filesize, cur, replies, got, noise>>

LoseReply ==
  /\ replies /= <<>>
  /\ replies' = Tail(replies)
  /\ UNCHANGED <<recv, status, filesize, cur, line, got, noise>>

\* The sender sends its packet, for the first time or again after a time-out.
Send ==
  /\ Len(line) < MaxLine
  /\ line' = Append(line, cur)
  /\ UNCHANGED <<recv, status, filesize, cur, replies, got, noise>>

\* A packet is acknowledged by its number, or by a refusal of the next one.
Acknowledges(r) == r = Ack(Number(cur)) \/ r = Nack(Number(cur + 1))

SendNext ==
  /\ replies /= <<>>
  /\ Acknowledges(Head(replies))
  /\ cur < Break
  /\ Len(line) < MaxLine
  /\ cur' = cur + 1
  /\ line' = Append(line, cur + 1)
  /\ replies' = Tail(replies)
  /\ UNCHANGED <<recv, status, filesize, got, noise>>

SendAgain ==
  /\ replies /= <<>>
  /\ Head(replies) = Nack(Number(cur))
  /\ Len(line) < MaxLine
  /\ line' = Append(line, cur)
  /\ replies' = Tail(replies)
  /\ UNCHANGED <<recv, status, filesize, cur, got, noise>>

-----------------------------------------------------------------------------
Next ==
  \/ Good
  \/ \E m \in 0 .. SeqSize - 1, e \in BOOLEAN : Damaged(m, e)
  \/ DamagedHeader
  \/ CtrlC
  \/ LosePacket
  \/ LoseReply
  \/ Send
  \/ SendNext
  \/ SendAgain

Spec == Init /\ [][Next]_vars

-----------------------------------------------------------------------------
\* The types.  The checkpoint of k_data_save never lies above os_data_addr, so
\* k_data_restore only ever goes back.
TypeOK ==
  /\ data \in [image : Seq(0 .. Blocks), escape : BOOLEAN]
  /\ saved \in [addr : Nat, escape : BOOLEAN]
  /\ saved.addr <= Len(data.image)
  /\ n \in 0 .. SeqSize - 1
  /\ last_n \in -1 .. SeqSize - 1
  /\ status \in {"receiving", "done", "aborted"}
  /\ filesize \in Nat
  /\ cur \in 1 .. Break
  /\ line \in Seq(1 .. Break)
  /\ replies \in Seq([type : {"ACK", "NAK"}, n : 0 .. SeqSize - 1])
  /\ got \in 0 .. Break
  /\ noise \in SUBSET Kinds

\* Whatever is damaged and wherever, what k_recv has stored below os_data_addr
\* is undamaged and in the order of the file: a packet that is found damaged
\* after part of it was stored leaves nothing behind, not even an escape.
InOrder ==
  /\ \A i \in 1 .. Len(data.image) : data.image[i] > 0
  /\ \A i, j \in 1 .. Len(data.image) : i < j => data.image[i] <= data.image[j]

\* A packet sent again because its acknowledgement was late or lost is stored
\* over itself, never a second time, as long as the sequence number is read
\* correctly (the assumption k_recv states under NEW CODE).
NoneTwice ==
  "number" \notin noise =>
    \A i, j \in 1 .. Len(data.image) : i < j => data.image[i] < data.image[j]

WholeFile ==
  /\ Len(data.image) = Blocks
  /\ \A b \in 1 .. Blocks : data.image[b] = b

\* When loadb reports a file after losses both ways, packets sent again early
\* or late, and damage to packets that are not acknowledged yet, then the file
\* is there as a whole and filesize is its size.  The three kinds of damage
\* k_recv takes no care of are left out: to the length or the number of a
\* packet, and to one sent again although its acknowledgement is on its way.
Loaded == status = "done" /\ noise = {} => WholeFile /\ filesize = Blocks

\* Violated.  What the commands of the board promise (README line 2152: "loadb -
\* load binary file over serial line (kermit mode)") under the assumption
\* k_recv states at its line 870, that sequence numbers are correctly received.
NumberedFileLoaded == status = "done" /\ "number" \notin noise => WholeFile

-----------------------------------------------------------------------------
(* The inductive invariant: TypeOK and the three parts below.               *)

\* Whatever is damaged: the line is in order, nothing stored is ahead of it,
\* and no escape is left over between packets.
OrderInv ==
  /\ \A i, j \in 1 .. Len(line) : i < j => line[i] <= line[j]
  /\ \A j \in 1 .. Len(line) : line[j] <= cur
  /\ \A i \in 1 .. Len(data.image), j \in 1 .. Len(line) :
       data.image[i] + 2 <= line[j]
  /\ \A i \in 1 .. Len(data.image) : data.image[i] + 2 <= cur
  /\ data.escape = FALSE
  /\ saved.escape = FALSE
  /\ InOrder

\* With numbers read correctly: the block of a packet that may still come was
\* stored since the checkpoint, and the checkpoint is the one of its number.
NumberInv ==
  "number" \notin noise =>
    /\ NoneTwice
    /\ \A i \in 1 .. Len(data.image) :
         data.image[i] + 2 = cur => last_n = Number(cur) /\ saved.addr < i
    /\ \A i \in 1 .. Len(data.image), j \in 1 .. Len(line) :
         data.image[i] + 2 = line[j] =>
           last_n = Number(line[j]) /\ saved.addr < i

\* The receiver stands at the packet before the sender's or at the sender's.
InStep ==
  /\ got \in {cur - 1, cur}
  /\ \A j \in 1 .. Len(line) : line[j] >= got /\ line[j] >= cur - 1

\* The checkpoint is that of the last packet received, or of the next one,
\* which came damaged; then nothing older is on the line.
CheckpointInv ==
  \/ /\ last_n = IF got = 0 THEN -1 ELSE Number(got)
     /\ saved.addr = BlocksUpTo(got - 1)
  \/ /\ got = cur - 1
     /\ last_n = Number(cur)
     /\ saved.addr = BlocksUpTo(got)
     /\ \A j \in 1 .. Len(line) : line[j] = cur

\* Replies are about the sender's packet or the one before, in this order, and
\* what is acknowledged stands.
RepliesInv ==
  /\ \A i \in 1 .. Len(replies) : replies[i].n \in {Number(cur - 1), Number(cur)}
  /\ \A i, j \in 1 .. Len(replies) :
       i < j /\ replies[i].n = Number(cur) => replies[j].n = Number(cur)
  /\ \A i \in 1 .. Len(replies) : replies[i].n = Number(cur) => last_n = Number(cur)
  /\ \A i \in 1 .. Len(replies) : replies[i] = Ack(Number(cur)) => got = cur

QuietInv ==
  noise = {} =>
    /\ InStep
    /\ Len(data.image) = BlocksUpTo(got)
    /\ \A b \in 1 .. Len(data.image) : data.image[b] = b
    /\ CheckpointInv
    /\ RepliesInv
    /\ status = "done" => got = Break /\ filesize = Blocks

IInv == TypeOK /\ OrderInv /\ NumberInv /\ QuietInv

-----------------------------------------------------------------------------
(* The load, as the user of the command sees it.  The kinds of damage       *)
(* k_recv does not survive disturb it.                                     *)
LoadStatus ==
  CASE status = "receiving" -> IF noise = {} THEN "loading" ELSE "disturbed"
    [] status = "done" -> IF noise = {} THEN "loaded" ELSE "ended"
    [] OTHER -> "ended"

InPlace == {b \in 1 .. Len(data.image) : data.image[b] = b}

Transfer == INSTANCE Load WITH
  Size <- Blocks, TakesBack <- TRUE, stored <- InPlace, status <- LoadStatus

\* Block by block in order, at most the last one taken back at a time, and
\* a file reported undisturbed is the whole file.
ImplementsLoad == Transfer!Spec
=============================================================================
