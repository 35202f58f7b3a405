---------------------------- MODULE Kermit_proof ----------------------------
(***************************************************************************)
(* Proofs about Kermit, for a file of any length, any number of sequence   *)
(* numbers above two and any bounds: what is stored is undamaged and in    *)
(* order whatever happens on the line, nothing is stored twice while       *)
(* numbers are read correctly, and without the damage k_recv takes no care *)
(* of a reported file is the whole file.                                   *)
(***************************************************************************)
EXTENDS Kermit, SequenceTheorems, TLAPS

-----------------------------------------------------------------------------
(* Sequence numbers and sequences.                                          *)

(* The numbers of packets at most two apart differ. *)
LEMMA Neighbours ==
  ASSUME NEW a \in Int, NEW b \in Int, a < b, b <= a + 2
  PROVE  Number(a) /= Number(b)
  <1>1. SeqSize \in Nat /\ SeqSize > 2
    BY SeqSizeAssumption
  <1> DEFINE q == (a - 1) \div SeqSize
             r == (b - 1) \div SeqSize
  <1>2. q \in Int /\ r \in Int
    BY <1>1
  <1>3. a - 1 = SeqSize * q + Number(a)
    BY <1>1 DEF Number
  <1>4. b - 1 = SeqSize * r + Number(b)
    BY <1>1 DEF Number
  <1>5. Number(a) \in Int /\ Number(b) \in Int
    BY <1>1 DEF Number
  <1> HIDE DEF q, r
  <1>6. SUFFICES ASSUME Number(a) = Number(b) PROVE FALSE
    OBVIOUS
  <1>7. b - a = SeqSize * r - SeqSize * q
    BY <1>1, <1>2, <1>3, <1>4, <1>5, <1>6
  <1>8. SeqSize * r - SeqSize * q = SeqSize * (r - q)
    BY <1>1, <1>2
  <1>9. CASE r - q <= 0
    <2>1. SeqSize * (r - q) <= 0
      BY <1>1, <1>2, <1>9
    <2> QED
      BY <2>1, <1>7, <1>8
  <1>10. CASE r - q >= 1
    <2>1. SeqSize * (r - q) >= SeqSize
      BY <1>1, <1>2, <1>10
    <2> QED
      BY <2>1, <1>1, <1>7, <1>8
  <1> QED
    BY <1>2, <1>9, <1>10

LEMMA NumberType ==
  ASSUME NEW a \in Int
  PROVE  Number(a) \in 0 .. SeqSize - 1
  BY SeqSizeAssumption DEF Number

LEMMA TailLemma ==
  ASSUME NEW S, NEW s \in Seq(S), s /= <<>>
  PROVE  /\ Tail(s) \in Seq(S)
         /\ Len(s) \in Nat /\ Len(s) > 0
         /\ Len(Tail(s)) = Len(s) - 1
         /\ Head(s) = s[1]
         /\ Head(s) \in S
         /\ \A i \in 1 .. Len(Tail(s)) : i + 1 \in 1 .. Len(s) /\ Tail(s)[i] = s[i + 1]
  OBVIOUS

LEMMA AppendLemma ==
  ASSUME NEW S, NEW s \in Seq(S), NEW x \in S
  PROVE  /\ Append(s, x) \in Seq(S)
         /\ Len(Append(s, x)) = Len(s) + 1
         /\ Len(s) \in Nat
         /\ Append(s, x)[Len(s) + 1] = x
         /\ \A i \in 1 .. Len(s) : Append(s, x)[i] = s[i]
  OBVIOUS

LEMMA PrefixLemma ==
  ASSUME NEW S, NEW s \in Seq(S), NEW k \in Nat, k <= Len(s)
  PROVE  /\ SubSeq(s, 1, k) \in Seq(S)
         /\ Len(SubSeq(s, 1, k)) = k
         /\ \A i \in 1 .. k : SubSeq(s, 1, k)[i] = s[i]
  OBVIOUS

-----------------------------------------------------------------------------
(* What k_recv does to the data.                                            *)

(* Going back to the checkpoint leaves the blocks below it. *)
LEMMA RestoreLemma ==
  ASSUME TypeOK
  PROVE  LET d == k_data_restore(data, saved)
         IN /\ d \in [image : Seq(0 .. Blocks), escape : BOOLEAN]
            /\ Len(d.image) = saved.addr
            /\ \A i \in 1 .. saved.addr : d.image[i] = data.image[i]
            /\ d.escape = saved.escape
  <1>1. /\ data.image \in Seq(0 .. Blocks) /\ saved.addr \in Nat /\ saved.escape \in BOOLEAN
        /\ saved.addr <= Len(data.image)
    BY DEF TypeOK
  <1>2. /\ SubSeq(data.image, 1, saved.addr) \in Seq(0 .. Blocks)
        /\ Len(SubSeq(data.image, 1, saved.addr)) = saved.addr
        /\ \A i \in 1 .. saved.addr : SubSeq(data.image, 1, saved.addr)[i] = data.image[i]
    BY <1>1, PrefixLemma
  <1> QED
    BY <1>1, <1>2 DEF k_data_restore

(* When the number of a packet has been read, the checkpoint is at the place *)
(* where its data go. *)
LEMMA BegunLemma ==
  ASSUME TypeOK, OrderInv, NEW m
  PROVE  /\ Begun(m) \in [image : Seq(0 .. Blocks), escape : BOOLEAN]
         /\ Checkpoint(m) \in [addr : Nat, escape : BOOLEAN]
         /\ Checkpoint(m).addr = Len(Begun(m).image)
         /\ Len(Begun(m).image) = IF m = last_n THEN saved.addr ELSE Len(data.image)
         /\ Len(Begun(m).image) <= Len(data.image)
         /\ \A i \in 1 .. Len(Begun(m).image) : Begun(m).image[i] = data.image[i]
         /\ Begun(m).escape = FALSE
         /\ Checkpoint(m).escape = FALSE
  <1>1. /\ data \in [image : Seq(0 .. Blocks), escape : BOOLEAN]
        /\ saved \in [addr : Nat, escape : BOOLEAN]
        /\ saved.addr <= Len(data.image)
        /\ Len(data.image) \in Nat
    BY DEF TypeOK
  <1>2. data.escape = FALSE /\ saved.escape = FALSE
    BY DEF OrderInv
  <1>3. CASE m = last_n
    <2>1. Begun(m) = k_data_restore(data, saved) /\ Checkpoint(m) = saved
      BY <1>3 DEF Begun, Checkpoint, SameNumber
    <2> QED
      BY <1>1, <1>2, <1>3, <2>1, RestoreLemma
  <1>4. CASE m /= last_n
    <2>1. Begun(m) = data /\ Checkpoint(m) = [addr |-> Len(data.image), escape |-> FALSE]
      BY <1>2, <1>4 DEF Begun, Checkpoint, SameNumber, k_data_save
    <2> QED
      BY <1>1, <1>2, <1>4, <2>1
  <1> QED
    BY <1>3, <1>4

(* A damaged packet leaves the data as they were when it began. *)
LEMMA DamagedData ==
  ASSUME TypeOK, OrderInv, NEW m, NEW e \in BOOLEAN
  PROVE  LET d == k_data_restore(Spoilt(Begun(m), e), Checkpoint(m))
         IN /\ d \in [image : Seq(0 .. Blocks), escape : BOOLEAN]
            /\ Len(d.image) = Len(Begun(m).image)
            /\ \A i \in 1 .. Len(d.image) : d.image[i] = data.image[i]
            /\ d.escape = FALSE
  <1> DEFINE b == Begun(m)
             c == Checkpoint(m)
  <1>1. /\ b \in [image : Seq(0 .. Blocks), escape : BOOLEAN]
        /\ c.addr = Len(b.image)
        /\ \A i \in 1 .. Len(b.image) : b.image[i] = data.image[i]
        /\ c.escape = FALSE
    BY BegunLemma
  <1>2. Spoilt(b, e).image = b.image
    BY <1>1 DEF Spoilt
  <1>3. /\ SubSeq(b.image, 1, c.addr) \in Seq(0 .. Blocks)
        /\ Len(SubSeq(b.image, 1, c.addr)) = c.addr
        /\ \A i \in 1 .. c.addr : SubSeq(b.image, 1, c.addr)[i] = b.image[i]
    <2>1. b.image \in Seq(0 .. Blocks) /\ c.addr \in Nat /\ c.addr <= Len(b.image)
      BY <1>1
    <2> HIDE DEF b, c
    <2> QED
      BY <2>1, PrefixLemma
  <1>4. k_data_restore(Spoilt(b, e), c) =
          [image |-> SubSeq(b.image, 1, c.addr), escape |-> FALSE]
    BY <1>1, <1>2 DEF k_data_restore
  <1> QED
    BY <1>1, <1>3, <1>4

(* A packet stored whole. *)
LEMMA StoredData ==
  ASSUME TypeOK, OrderInv, NEW m, NEW p \in 1 .. Break
  PROVE  LET d == Stored(Begun(m), p)
             k == Len(Begun(m).image)
         IN /\ d \in [image : Seq(0 .. Blocks), escape : BOOLEAN]
            /\ d.escape = FALSE
            /\ k \in Nat
            /\ Len(d.image) = IF IsData(p) THEN k + 1 ELSE k
            /\ \A i \in 1 .. k : d.image[i] = data.image[i]
            /\ IsData(p) => d.image[k + 1] = p - 2
  <1> DEFINE b == Begun(m)
  <1>0. Blocks \in Nat
    BY BlocksAssumption
  <1>1. /\ b \in [image : Seq(0 .. Blocks), escape : BOOLEAN]
        /\ \A i \in 1 .. Len(b.image) : b.image[i] = data.image[i]
        /\ b.escape = FALSE
    BY BegunLemma
  <1>2. CASE IsData(p)
    <2>1. p - 2 \in 0 .. Blocks
      BY <1>0, <1>2 DEF IsData, Break
    <2>2. Stored(b, p) = [image |-> Append(b.image, p - 2), escape |-> FALSE]
      BY <1>1, <1>2 DEF Stored
    <2>3. b.image \in Seq(0 .. Blocks)
      BY <1>1
    <2> HIDE DEF b
    <2>4. /\ Append(b.image, p - 2) \in Seq(0 .. Blocks)
          /\ Len(Append(b.image, p - 2)) = Len(b.image) + 1
          /\ Len(b.image) \in Nat
          /\ Append(b.image, p - 2)[Len(b.image) + 1] = p - 2
          /\ \A i \in 1 .. Len(b.image) : Append(b.image, p - 2)[i] = b.image[i]
      BY <2>1, <2>3, AppendLemma
    <2>5. /\ Stored(b, p) \in [image : Seq(0 .. Blocks), escape : BOOLEAN]
          /\ Len(Stored(b, p).image) = Len(b.image) + 1
          /\ \A i \in 1 .. Len(b.image) : Stored(b, p).image[i] = data.image[i]
          /\ Stored(b, p).image[Len(b.image) + 1] = p - 2
          /\ Stored(b, p).escape = FALSE
      BY <1>1, <2>2, <2>4
    <2> QED
      BY <1>2, <2>4, <2>5 DEF b
  <1>3. CASE ~ IsData(p)
    <2>1. Stored(b, p) = b
      BY <1>3 DEF Stored
    <2>2. Len(b.image) \in Nat
      BY <1>1
    <2> QED
      BY <1>1, <1>3, <2>1, <2>2
  <1> QED
    BY <1>2, <1>3

-----------------------------------------------------------------------------
(* Types.                                                                   *)

LEMMA TypeInit == Init => TypeOK
  <1> SUFFICES ASSUME Init PROVE TypeOK
    OBVIOUS
  <1>1. Blocks \in Nat /\ SeqSize \in Nat /\ SeqSize > 2
    BY BlocksAssumption, SeqSizeAssumption
  <1>2. <<>> \in Seq(0 .. Blocks) /\ Len(<<>>) = 0
    OBVIOUS
  <1>3. data \in [image : Seq(0 .. Blocks), escape : BOOLEAN] /\ Len(data.image) = 0
    BY <1>2 DEF Init, k_data_init
  <1>4. line \in Seq(1 .. Break) /\ replies \in Seq([type : {"ACK", "NAK"}, n : 0 .. SeqSize - 1])
    BY DEF Init
  <1>5. cur \in 1 .. Break /\ got \in 0 .. Break
    BY <1>1 DEF Init, Break
  <1> QED
    BY <1>1, <1>3, <1>4, <1>5 DEF Init, TypeOK

(* What a step of the receiver takes from the line. *)
LEMMA ReceivingLemma ==
  ASSUME TypeOK, Receiving
  PROVE  /\ status = "receiving"
         /\ Head(line) \in 1 .. Break
         /\ Head(line) = line[1] /\ Len(line) \in Nat /\ Len(line) > 0
         /\ line' \in Seq(1 .. Break)
         /\ Len(line') = Len(line) - 1
         /\ \A i \in 1 .. Len(line') : i + 1 \in 1 .. Len(line) /\ line'[i] = line[i + 1]
         /\ Number(Head(line)) \in 0 .. SeqSize - 1
  <1>1. line \in Seq(1 .. Break) /\ line /= <<>> /\ line' = Tail(line)
    BY DEF TypeOK, Receiving
  <1>2. Head(line) \in 1 .. Break
    BY <1>1, TailLemma
  <1>3. Number(Head(line)) \in 0 .. SeqSize - 1
    BY <1>2, NumberType
  <1> QED
    BY <1>1, <1>2, <1>3, TailLemma DEF Receiving

(* A reply put on its way. *)
LEMMA ReplyLemma ==
  ASSUME TypeOK, NEW t \in {"ACK", "NAK"}, NEW m \in 0 .. SeqSize - 1,
         replies' = Append(replies, [type |-> t, n |-> m])
  PROVE  /\ replies' \in Seq([type : {"ACK", "NAK"}, n : 0 .. SeqSize - 1])
         /\ Len(replies) \in Nat
         /\ Len(replies') = Len(replies) + 1
         /\ replies'[Len(replies) + 1] = [type |-> t, n |-> m]
         /\ \A i \in 1 .. Len(replies) : replies'[i] = replies[i]
  <1> DEFINE R == [type : {"ACK", "NAK"}, n : 0 .. SeqSize - 1]
             x == [type |-> t, n |-> m]
  <1>1. replies \in Seq(R)
    BY DEF TypeOK
  <1>2. x \in R
    OBVIOUS
  <1> HIDE DEF R, x
  <1>3. /\ Append(replies, x) \in Seq(R)
        /\ Len(Append(replies, x)) = Len(replies) + 1
        /\ Len(replies) \in Nat
        /\ Append(replies, x)[Len(replies) + 1] = x
        /\ \A i \in 1 .. Len(replies) : Append(replies, x)[i] = replies[i]
    BY <1>1, <1>2, AppendLemma
  <1> QED
    BY <1>3 DEF R, x

LEMMA GoodLemma ==
  ASSUME TypeOK, OrderInv, Good
  PROVE  LET p == Head(line)
             m == Number(p)
             k == Len(Begun(m).image)
         IN /\ data' \in [image : Seq(0 .. Blocks), escape : BOOLEAN]
            /\ data'.escape = FALSE
            /\ k \in Nat
            /\ k = IF m = last_n THEN saved.addr ELSE Len(data.image)
            /\ k <= Len(data.image)
            /\ Len(data'.image) = IF IsData(p) THEN k + 1 ELSE k
            /\ \A i \in 1 .. k : data'.image[i] = data.image[i]
            /\ IsData(p) => data'.image[k + 1] = p - 2
            /\ saved' \in [addr : Nat, escape : BOOLEAN]
            /\ saved'.addr = k
            /\ saved'.escape = FALSE
            /\ n' = m /\ last_n' = m
  <1> DEFINE p == Head(line)
             m == Number(p)
  <1>1. Receiving /\ saved' = Checkpoint(m) /\ data' = Stored(Begun(m), p) /\ n' = m /\ last_n' = m
    BY DEF Good
  <1>2. p \in 1 .. Break
    BY <1>1, ReceivingLemma
  <1>3. /\ Checkpoint(m) \in [addr : Nat, escape : BOOLEAN]
        /\ Checkpoint(m).addr = Len(Begun(m).image)
        /\ Len(Begun(m).image) = IF m = last_n THEN saved.addr ELSE Len(data.image)
        /\ Len(Begun(m).image) <= Len(data.image)
        /\ Checkpoint(m).escape = FALSE
    BY BegunLemma
  <1> HIDE DEF p, m
  <1> QED
    BY <1>1, <1>2, <1>3, StoredData DEF p, m

LEMMA DamagedLemma ==
  ASSUME TypeOK, OrderInv, NEW m \in 0 .. SeqSize - 1, NEW e \in BOOLEAN, Damaged(m, e)
  PROVE  LET k == Len(data'.image)
         IN /\ data' \in [image : Seq(0 .. Blocks), escape : BOOLEAN]
            /\ data'.escape = FALSE
            /\ k \in Nat
            /\ k = IF m = last_n THEN saved.addr ELSE Len(data.image)
            /\ k <= Len(data.image)
            /\ \A i \in 1 .. k : data'.image[i] = data.image[i]
            /\ saved' \in [addr : Nat, escape : BOOLEAN]
            /\ saved'.addr = k
            /\ saved'.escape = FALSE
            /\ n' = m /\ last_n' = m
  <1>1. /\ saved' = Checkpoint(m) /\ n' = m /\ last_n' = m
        /\ data' = k_data_restore(Spoilt(Begun(m), e), Checkpoint(m))
    BY DEF Damaged
  <1>2. /\ data' \in [image : Seq(0 .. Blocks), escape : BOOLEAN]
        /\ Len(data'.image) = Len(Begun(m).image)
        /\ \A i \in 1 .. Len(data'.image) : data'.image[i] = data.image[i]
        /\ data'.escape = FALSE
    BY <1>1, DamagedData
  <1>3. Len(data'.image) \in Nat
    BY <1>2
  <1>4. /\ Checkpoint(m) \in [addr : Nat, escape : BOOLEAN]
        /\ Checkpoint(m).addr = Len(Begun(m).image)
        /\ Len(Begun(m).image) = IF m = last_n THEN saved.addr ELSE Len(data.image)
        /\ Len(Begun(m).image) <= Len(data.image)
        /\ Checkpoint(m).escape = FALSE
    BY BegunLemma
  <1> QED
    BY <1>1, <1>2, <1>3, <1>4

LEMMA HeaderLemma ==
  ASSUME TypeOK, OrderInv, DamagedHeader
  PROVE  LET k == saved.addr
         IN /\ data' \in [image : Seq(0 .. Blocks), escape : BOOLEAN]
            /\ data'.escape = FALSE
            /\ k \in Nat
            /\ k <= Len(data.image)
            /\ Len(data'.image) = k
            /\ \A i \in 1 .. k : data'.image[i] = data.image[i]
  <1>1. data' = k_data_restore(data, saved)
    BY DEF DamagedHeader
  <1>2. saved.escape = FALSE /\ saved.addr \in Nat /\ saved.addr <= Len(data.image)
    BY DEF OrderInv, TypeOK
  <1> QED
    BY <1>1, <1>2, RestoreLemma

LEMMA TypeStep ==
  ASSUME TypeOK, OrderInv, [Next]_vars
  PROVE  TypeOK'
  <1>0. /\ Blocks \in Nat /\ SeqSize \in Nat /\ SeqSize > 2
        /\ Break \in Nat
    BY BlocksAssumption, SeqSizeAssumption DEF Break
  <1>1. CASE Good
    <2> DEFINE p == Head(line)
               m == Number(p)
    <2>1. p \in 1 .. Break /\ line' \in Seq(1 .. Break) /\ m \in 0 .. SeqSize - 1
      BY <1>1, ReceivingLemma DEF Good
    <2>2. /\ data' \in [image : Seq(0 .. Blocks), escape : BOOLEAN]
          /\ saved' \in [addr : Nat, escape : BOOLEAN]
          /\ saved'.addr <= Len(data'.image)
          /\ Len(data'.image) \in Nat
          /\ n' = m /\ last_n' = m
      BY <1>1, GoodLemma
    <2>3. replies' \in Seq([type : {"ACK", "NAK"}, n : 0 .. SeqSize - 1])
      BY <1>1, <2>1, ReplyLemma DEF Good, Ack
    <2>4. got' \in 0 .. Break
      BY <1>0, <1>1, <2>1 DEF Good, TypeOK
    <2>5. status' \in {"receiving", "done", "aborted"} /\ filesize' \in Nat
      BY <1>1, <2>2 DEF Good, TypeOK
    <2>6. cur' = cur /\ noise' = noise
      BY <1>1 DEF Good
    <2> QED
      BY <1>0, <2>1, <2>2, <2>3, <2>4, <2>5, <2>6 DEF TypeOK
  <1>2. ASSUME NEW m \in 0 .. SeqSize - 1, NEW e \in BOOLEAN, Damaged(m, e)
        PROVE  TypeOK'
    <2>1. Head(line) \in 1 .. Break /\ line' \in Seq(1 .. Break)
      BY <1>2, ReceivingLemma DEF Damaged
    <2>2. /\ data' \in [image : Seq(0 .. Blocks), escape : BOOLEAN]
          /\ saved' \in [addr : Nat, escape : BOOLEAN]
          /\ saved'.addr = Len(data'.image) /\ Len(data'.image) \in Nat
          /\ n' = m /\ last_n' = m
      <3>1. Damaged(m, e)
        BY <1>2
      <3> QED
        BY <3>1, DamagedLemma
    <2>3. replies' \in Seq([type : {"ACK", "NAK"}, n : 0 .. SeqSize - 1])
      BY <1>2, ReplyLemma DEF Damaged, Nack
    <2>4. got' \in 0 .. Break
      BY <1>0, <1>2, <2>1 DEF Damaged, TypeOK
    <2>5. noise' \in SUBSET Kinds
      BY <1>2 DEF Damaged, TypeOK, Kinds
    <2>6. UNCHANGED <<status, filesize, cur>>
      BY <1>2 DEF Damaged
    <2> QED
      BY <1>0, <2>1, <2>2, <2>3, <2>4, <2>5, <2>6 DEF TypeOK
  <1>3. CASE DamagedHeader
    <2>1. line' \in Seq(1 .. Break)
      BY <1>3, ReceivingLemma DEF DamagedHeader
    <2>2. /\ data' \in [image : Seq(0 .. Blocks), escape : BOOLEAN]
          /\ saved.addr <= Len(data'.image)
      BY <1>3, HeaderLemma
    <2>3. replies' \in Seq([type : {"ACK", "NAK"}, n : 0 .. SeqSize - 1])
      BY <1>3, ReplyLemma DEF DamagedHeader, Nack, TypeOK
    <2>4. noise' \in SUBSET Kinds
      BY <1>3 DEF DamagedHeader, TypeOK, Kinds
    <2>5. UNCHANGED <<saved, n, last_n, status, filesize, cur, got>>
      BY <1>3 DEF DamagedHeader
    <2> QED
      BY <2>1, <2>2, <2>3, <2>4, <2>5 DEF TypeOK
  <1>4. CASE CtrlC
    BY <1>4 DEF CtrlC, TypeOK, recv
  <1>5. CASE LosePacket
    <2>1. line' \in Seq(1 .. Break)
      BY <1>5 DEF LosePacket, TypeOK
    <2> QED
      BY <1>5, <2>1 DEF LosePacket, TypeOK, recv
  <1>6. CASE LoseReply
    <2>1. replies' \in Seq([type : {"ACK", "NAK"}, n : 0 .. SeqSize - 1])
      BY <1>6 DEF LoseReply, TypeOK
    <2> QED
      BY <1>6, <2>1 DEF LoseReply, TypeOK, recv
  <1>7. CASE Send
    <2>1. line' \in Seq(1 .. Break)
      BY <1>7 DEF Send, TypeOK
    <2> QED
      BY <1>7, <2>1 DEF Send, TypeOK, recv
  <1>8. CASE SendNext
    <2>1. cur' \in 1 .. Break
      BY <1>0, <1>8 DEF SendNext, TypeOK
    <2>2. line' \in Seq(1 .. Break)
      BY <1>0, <1>8, <2>1 DEF SendNext, TypeOK
    <2>3. replies' \in Seq([type : {"ACK", "NAK"}, n : 0 .. SeqSize - 1])
      BY <1>8 DEF SendNext, TypeOK
    <2> QED
      BY <1>8, <2>1, <2>2, <2>3 DEF SendNext, TypeOK, recv
  <1>9. CASE SendAgain
    <2>1. line' \in Seq(1 .. Break)
      BY <1>9 DEF SendAgain, TypeOK
    <2>2. replies' \in Seq([type : {"ACK", "NAK"}, n : 0 .. SeqSize - 1])
      BY <1>9 DEF SendAgain, TypeOK
    <2> QED
      BY <1>9, <2>1, <2>2 DEF SendAgain, TypeOK, recv
  <1>10. CASE UNCHANGED vars
    BY <1>10 DEF vars, recv, TypeOK
  <1> QED
    BY <1>1, <1>2, <1>3, <1>4, <1>5, <1>6, <1>7, <1>8, <1>9, <1>10 DEF Next

-----------------------------------------------------------------------------
(* The order of what is stored and of what is on the line.                  *)

(* The packet at the head of the line is gone, and at most the end of what  *)
(* was stored. *)
TailOf(s, t) ==
  /\ Len(s) \in Nat
  /\ Len(t) = Len(s) - 1
  /\ \A i \in 1 .. Len(t) : i + 1 \in 1 .. Len(s) /\ t[i] = s[i + 1]

PrefixOf(s, t) ==
  /\ Len(s) \in Nat /\ Len(t) \in Nat
  /\ Len(t) <= Len(s)
  /\ \A i \in 1 .. Len(t) : t[i] = s[i]

(* One more at the end. *)
Longer(s, t, x) ==
  /\ Len(s) \in Nat
  /\ Len(t) = Len(s) + 1
  /\ t[Len(s) + 1] = x
  /\ \A i \in 1 .. Len(s) : t[i] = s[i]

LEMMA Elements ==
  ASSUME TypeOK
  PROVE  /\ \A i \in 1 .. Len(data.image) : data.image[i] \in 0 .. Blocks
         /\ \A i \in 1 .. Len(line) : line[i] \in 1 .. Break
         /\ \A i \in 1 .. Len(replies) :
              replies[i] \in [type : {"ACK", "NAK"}, n : 0 .. SeqSize - 1]
         /\ Len(data.image) \in Nat /\ Len(line) \in Nat /\ Len(replies) \in Nat
         /\ cur \in 1 .. Break /\ Blocks \in Nat /\ Break = Blocks + 4
  <1>1. Blocks \in Nat /\ Break = Blocks + 4
    BY BlocksAssumption DEF Break
  <1>2. /\ data.image \in Seq(0 .. Blocks) /\ line \in Seq(1 .. Break)
        /\ replies \in Seq([type : {"ACK", "NAK"}, n : 0 .. SeqSize - 1])
    BY DEF TypeOK
  <1>3. \A i \in 1 .. Len(data.image) : data.image[i] \in 0 .. Blocks
    BY <1>2, ElementOfSeq
  <1>4. \A i \in 1 .. Len(line) : line[i] \in 1 .. Break
    BY <1>2, ElementOfSeq
  <1>5. \A i \in 1 .. Len(replies) :
           replies[i] \in [type : {"ACK", "NAK"}, n : 0 .. SeqSize - 1]
    BY <1>2, ElementOfSeq
  <1> QED
    BY <1>1, <1>2, <1>3, <1>4, <1>5 DEF TypeOK

LEMMA TailOrder ==
  ASSUME TypeOK, OrderInv, PrefixOf(data.image, data.image'),
         TailOf(line, line'), cur' = cur,
         data'.escape = FALSE, saved'.escape = FALSE
  PROVE  OrderInv'
  <1>1. \A i, j \in 1 .. Len(line') : i < j => line'[i] <= line'[j]
    <2> TAKE i, j \in 1 .. Len(line')
    <2> HAVE i < j
    <2>1. /\ i + 1 \in 1 .. Len(line) /\ line'[i] = line[i + 1]
          /\ j + 1 \in 1 .. Len(line) /\ line'[j] = line[j + 1]
      BY DEF TailOf
    <2>2. i + 1 < j + 1
      BY Elements DEF TailOf
    <2> QED
      BY <2>1, <2>2 DEF OrderInv
  <1>2. \A j \in 1 .. Len(line') : line'[j] <= cur'
    BY DEF OrderInv, TailOf
  <1>3. \A i \in 1 .. Len(data'.image), j \in 1 .. Len(line') :
          data'.image[i] + 2 <= line'[j]
    <2> TAKE i \in 1 .. Len(data'.image), j \in 1 .. Len(line')
    <2>1. i \in 1 .. Len(data.image) /\ data'.image[i] = data.image[i]
      BY DEF PrefixOf
    <2>2. j + 1 \in 1 .. Len(line) /\ line'[j] = line[j + 1]
      BY DEF TailOf
    <2> QED
      BY <2>1, <2>2 DEF OrderInv
  <1>4. \A i \in 1 .. Len(data'.image) : data'.image[i] + 2 <= cur'
    <2> TAKE i \in 1 .. Len(data'.image)
    <2>1. i \in 1 .. Len(data.image) /\ data'.image[i] = data.image[i]
      BY DEF PrefixOf
    <2> QED
      BY <2>1 DEF OrderInv
  <1>5. InOrder'
    <2>1. \A i \in 1 .. Len(data'.image) :
             i \in 1 .. Len(data.image) /\ data'.image[i] = data.image[i]
      BY DEF PrefixOf
    <2> QED
      BY <2>1 DEF OrderInv, InOrder
  <1> QED
    BY <1>1, <1>2, <1>3, <1>4, <1>5 DEF OrderInv

LEMMA SendOrder ==
  ASSUME TypeOK, OrderInv, data' = data, saved' = saved,
         cur' \in {cur, cur + 1}, Longer(line, line', cur')
  PROVE  OrderInv'
  <1>0. cur \in Int /\ cur' \in Int /\ cur <= cur'
    BY Elements
  <1>1. \A j \in 1 .. Len(line') :
          \/ j \in 1 .. Len(line) /\ line'[j] = line[j] /\ line[j] \in Int
          \/ j = Len(line) + 1 /\ line'[j] = cur'
    BY Elements DEF Longer
  <1>2. \A j \in 1 .. Len(line') : line'[j] <= cur'
    BY <1>0, <1>1 DEF OrderInv
  <1>3. \A i, j \in 1 .. Len(line') : i < j => line'[i] <= line'[j]
    <2> TAKE i, j \in 1 .. Len(line')
    <2> HAVE i < j
    <2>1. CASE j \in 1 .. Len(line)
      <3>1. i \in 1 .. Len(line)
        BY <2>1, Elements
      <3> QED
        BY <2>1, <3>1, Elements DEF OrderInv, Longer
    <2>2. CASE j = Len(line) + 1
      BY <1>2, <2>2 DEF Longer
    <2> QED
      BY <1>1, <2>1, <2>2
  <1>4. \A i \in 1 .. Len(data.image) : data.image[i] + 2 <= cur'
    BY <1>0, Elements DEF OrderInv
  <1>5. \A i \in 1 .. Len(data.image), j \in 1 .. Len(line') :
          data.image[i] + 2 <= line'[j]
    BY <1>1, <1>4 DEF OrderInv
  <1>6. InOrder'
    BY DEF OrderInv, InOrder
  <1>7. data'.escape = FALSE /\ saved'.escape = FALSE
    BY DEF OrderInv
  <1> QED
    BY <1>2, <1>3, <1>4, <1>5, <1>6, <1>7 DEF OrderInv

LEMMA SentLemma ==
  ASSUME TypeOK, TypeOK', line' = Append(line, cur')
  PROVE  Longer(line, line', cur')
  <1>1. line \in Seq(1 .. Break) /\ cur' \in 1 .. Break
    BY DEF TypeOK
  <1> QED
    BY <1>1, AppendLemma DEF Longer

LEMMA OrderStep ==
  ASSUME TypeOK, OrderInv, [Next]_vars
  PROVE  OrderInv'
  <1>0. TypeOK'
    BY TypeStep
  <1>1. CASE Good
    <2> DEFINE p == Head(line)
               k == Len(Begun(Number(p)).image)
    <2>1. /\ Len(line) > 0 /\ p = line[1] /\ p \in 1 .. Break
          /\ TailOf(line, line')
      BY <1>1, ReceivingLemma DEF Good, TailOf
    <2>2. /\ k \in Nat /\ k <= Len(data.image)
          /\ Len(data'.image) = IF IsData(p) THEN k + 1 ELSE k
          /\ \A i \in 1 .. k : data'.image[i] = data.image[i]
          /\ IsData(p) => data'.image[k + 1] = p - 2
          /\ data'.escape = FALSE /\ saved'.escape = FALSE
      BY <1>1, GoodLemma
    <2>3. cur' = cur
      BY <1>1 DEF Good
    <2> HIDE DEF p, k
    <2>4. CASE ~ IsData(p)
      <3>1. PrefixOf(data.image, data.image')
        BY <2>2, <2>4, Elements DEF PrefixOf
      <3> QED
        BY <1>0, <2>1, <2>2, <2>3, <3>1, TailOrder
    <2>5. CASE IsData(p)
      <3>1. Len(data'.image) = k + 1 /\ data'.image[k + 1] = p - 2
        BY <2>2, <2>5
      <3>2. \A i \in 1 .. Len(data.image) :
              data.image[i] + 2 <= p /\ data.image[i] \in Int
        BY <2>1, Elements DEF OrderInv
      <3>3. \A i \in 1 .. Len(data'.image) :
              \/ i \in 1 .. k /\ i \in 1 .. Len(data.image) /\ data'.image[i] = data.image[i]
              \/ i = k + 1 /\ data'.image[i] = p - 2
        <4> TAKE i \in 1 .. Len(data'.image)
        <4>1. i \in 1 .. k + 1
          BY <3>1
        <4>2. CASE i \in 1 .. k
          <5>1. i \in 1 .. Len(data.image)
            BY <2>2, <4>2, Elements
          <5> QED
            BY <2>2, <4>2, <5>1
        <4>3. CASE i = k + 1
          BY <3>1, <4>3
        <4> QED
          BY <2>2, <4>1, <4>2, <4>3
      <3>4. \A j \in 1 .. Len(line') : line'[j] >= p /\ line'[j] <= cur /\ line'[j] \in Int
        <4> TAKE j \in 1 .. Len(line')
        <4>1. j + 1 \in 1 .. Len(line) /\ line'[j] = line[j + 1]
          BY <2>1 DEF TailOf
        <4>2. 1 \in 1 .. Len(line) /\ 1 < j + 1
          BY <2>1, Elements DEF TailOf
        <4>3. line[1] <= line[j + 1] /\ line[j + 1] <= cur /\ line[j + 1] \in Int
          BY <4>1, <4>2, Elements DEF OrderInv
        <4> QED
          BY <2>1, <4>1, <4>3
      <3>5. \A i, j \in 1 .. Len(line') : i < j => line'[i] <= line'[j]
        <4> TAKE i, j \in 1 .. Len(line')
        <4> HAVE i < j
        <4>1. /\ i + 1 \in 1 .. Len(line) /\ line'[i] = line[i + 1]
              /\ j + 1 \in 1 .. Len(line) /\ line'[j] = line[j + 1]
          BY <2>1 DEF TailOf
        <4>2. i + 1 < j + 1
          BY <2>1, Elements DEF TailOf
        <4> QED
          BY <4>1, <4>2 DEF OrderInv
      <3>6. p <= cur
        BY <2>1, Elements DEF OrderInv
      <3>7. \A i \in 1 .. Len(data'.image) : data'.image[i] + 2 <= p /\ data'.image[i] \in Int
        <4> TAKE i \in 1 .. Len(data'.image)
        <4>1. CASE i \in 1 .. Len(data.image) /\ data'.image[i] = data.image[i]
          BY <3>2, <4>1
        <4>2. CASE data'.image[i] = p - 2
          BY <2>1, <4>2
        <4> QED
          BY <3>3, <4>1, <4>2
      <3>8. \A i \in 1 .. Len(data'.image), j \in 1 .. Len(line') :
              data'.image[i] + 2 <= line'[j]
        <4> TAKE i \in 1 .. Len(data'.image), j \in 1 .. Len(line')
        <4> QED
          BY <2>1, <3>4, <3>7
      <3>11. \A i \in 1 .. Len(data'.image) : data'.image[i] + 2 <= cur
        <4> TAKE i \in 1 .. Len(data'.image)
        <4>1. p \in Int /\ cur \in Int
          BY <2>1, Elements
        <4> QED
          BY <3>6, <3>7, <4>1
      <3>9. \A i \in 1 .. Len(data'.image) : data'.image[i] > 0
        <4> TAKE i \in 1 .. Len(data'.image)
        <4>1. CASE i \in 1 .. Len(data.image) /\ data'.image[i] = data.image[i]
          BY <4>1 DEF OrderInv, InOrder
        <4>2. CASE data'.image[i] = p - 2
          BY <2>1, <2>5, <4>2 DEF IsData
        <4> QED
          BY <3>3, <4>1, <4>2
      <3>10. \A i, j \in 1 .. Len(data'.image) :
               i < j => data'.image[i] <= data'.image[j]
        <4> TAKE i, j \in 1 .. Len(data'.image)
        <4> HAVE i < j
        <4>1. CASE j = k + 1
          BY <2>1, <3>1, <3>7, <4>1
        <4>2. CASE j \in 1 .. k /\ j \in 1 .. Len(data.image) /\ data'.image[j] = data.image[j]
          <5>1. i \in 1 .. k
            BY <2>2, <4>2
          <5>2. i \in 1 .. Len(data.image)
            BY <2>2, <5>1, Elements
          <5> QED
            BY <2>2, <4>2, <5>1, <5>2 DEF OrderInv, InOrder
        <4> QED
          BY <3>3, <4>1, <4>2
      <3> QED
        BY <2>2, <2>3, <3>4, <3>5, <3>8, <3>9, <3>10, <3>11 DEF OrderInv, InOrder
    <2> QED
      BY <2>4, <2>5
  <1>2. ASSUME NEW m \in 0 .. SeqSize - 1, NEW e \in BOOLEAN, Damaged(m, e)
        PROVE  OrderInv'
    <2>0. Damaged(m, e)
      BY <1>2
    <2>1. PrefixOf(data.image, data.image') /\ data'.escape = FALSE /\ saved'.escape = FALSE
      BY <2>0, DamagedLemma, Elements DEF PrefixOf
    <2>2. TailOf(line, line') /\ cur' = cur
      BY <2>0, ReceivingLemma DEF Damaged, TailOf
    <2> QED
      BY <1>0, <2>1, <2>2, TailOrder
  <1>3. CASE DamagedHeader
    <2>1. PrefixOf(data.image, data.image') /\ data'.escape = FALSE
      BY <1>3, HeaderLemma, Elements DEF PrefixOf
    <2>2. TailOf(line, line') /\ cur' = cur /\ saved'.escape = FALSE
      BY <1>3, ReceivingLemma DEF DamagedHeader, TailOf, OrderInv
    <2> QED
      BY <1>0, <2>1, <2>2, TailOrder
  <1>4. CASE CtrlC
    BY <1>4 DEF CtrlC, OrderInv, InOrder, recv
  <1>5. CASE LosePacket
    <2>1. UNCHANGED <<data, saved, cur>>
      BY <1>5 DEF LosePacket, recv
    <2>2. TailOf(line, line')
      <3>1. line \in Seq(1 .. Break) /\ line /= <<>> /\ line' = Tail(line)
        BY <1>5 DEF LosePacket, TypeOK
      <3> QED
        BY <3>1, TailLemma DEF TailOf
    <2>3. PrefixOf(data.image, data.image')
      BY <2>1, Elements DEF PrefixOf
    <2> QED
      BY <1>0, <2>1, <2>2, <2>3, TailOrder DEF OrderInv
  <1>6. CASE LoseReply
    BY <1>6 DEF LoseReply, OrderInv, InOrder, recv
  <1>7. CASE Send
    <2>1. UNCHANGED <<data, saved, cur>> /\ line' = Append(line, cur')
      BY <1>7 DEF Send, recv
    <2> QED
      BY <1>0, <2>1, SentLemma, SendOrder
  <1>8. CASE SendNext
    <2>1. UNCHANGED <<data, saved>> /\ cur' = cur + 1 /\ line' = Append(line, cur')
      BY <1>8 DEF SendNext, recv
    <2> QED
      BY <1>0, <2>1, SentLemma, SendOrder
  <1>9. CASE SendAgain
    <2>1. UNCHANGED <<data, saved, cur>> /\ line' = Append(line, cur')
      BY <1>9 DEF SendAgain, recv
    <2> QED
      BY <1>0, <2>1, SentLemma, SendOrder
  <1>10. CASE UNCHANGED vars
    BY <1>10 DEF vars, recv, OrderInv, InOrder
  <1> QED
    BY <1>1, <1>2, <1>3, <1>4, <1>5, <1>6, <1>7, <1>8, <1>9, <1>10 DEF Next

-----------------------------------------------------------------------------
(* Nothing twice.                                                           *)

(* Where the data of the packet at the head of the line go, its block does   *)
(* not lie below already. *)
LEMMA BelowCheckpoint ==
  ASSUME TypeOK, OrderInv, NumberInv, "number" \notin noise,
         line /= <<>>, NEW k \in Nat,
         k = IF Number(line[1]) = last_n THEN saved.addr ELSE Len(data.image),
         NEW i \in 1 .. k
  PROVE  /\ i \in 1 .. Len(data.image)
         /\ data.image[i] \in Int
         /\ data.image[i] + 2 < line[1]
  <1>1. saved.addr \in Nat /\ saved.addr <= Len(data.image)
    BY DEF TypeOK
  <1>2. i \in 1 .. Len(data.image)
    BY <1>1, Elements
  <1>3. 1 \in 1 .. Len(line)
    BY Elements, TailLemma DEF TypeOK
  <1>4. data.image[i] \in Int /\ line[1] \in Int /\ data.image[i] + 2 <= line[1]
    BY <1>2, <1>3, Elements DEF OrderInv
  <1>5. ASSUME data.image[i] + 2 = line[1] PROVE FALSE
    <2>1. last_n = Number(line[1]) /\ saved.addr < i
      BY <1>2, <1>3, <1>5 DEF NumberInv
    <2> QED
      BY <1>1, <2>1
  <1> QED
    BY <1>2, <1>4, <1>5

(* NumberInv once more, for each clause. *)
LEMMA NumberInvNext ==
  ASSUME "number" \notin noise' =>
           /\ \A i, j \in 1 .. Len(data'.image) : i < j => data'.image[i] < data'.image[j]
           /\ \A i \in 1 .. Len(data'.image) :
                data'.image[i] + 2 = cur' => last_n' = Number(cur') /\ saved'.addr < i
           /\ \A i \in 1 .. Len(data'.image), j \in 1 .. Len(line') :
                data'.image[i] + 2 = line'[j] =>
                  last_n' = Number(line'[j]) /\ saved'.addr < i
  PROVE  NumberInv'
  BY DEF NumberInv, NoneTwice

LEMMA SendNumber ==
  ASSUME TypeOK, OrderInv, NumberInv, data' = data, saved' = saved, last_n' = last_n,
         noise' = noise, cur' \in {cur, cur + 1}, Longer(line, line', cur')
  PROVE  NumberInv'
  <1> SUFFICES ASSUME "number" \notin noise
               PROVE  /\ \A i, j \in 1 .. Len(data.image) : i < j => data.image[i] < data.image[j]
                      /\ \A i \in 1 .. Len(data.image) :
                           data.image[i] + 2 = cur' => last_n = Number(cur') /\ saved.addr < i
                      /\ \A i \in 1 .. Len(data.image), j \in 1 .. Len(line') :
                           data.image[i] + 2 = line'[j] =>
                             last_n = Number(line'[j]) /\ saved.addr < i
    BY NumberInvNext
  <1>1. \A i, j \in 1 .. Len(data.image) : i < j => data.image[i] < data.image[j]
    BY DEF NumberInv, NoneTwice
  <1>2. \A i \in 1 .. Len(data.image) :
          data.image[i] + 2 = cur' => last_n = Number(cur') /\ saved.addr < i
    <2>1. CASE cur' = cur
      BY <2>1 DEF NumberInv
    <2>2. CASE cur' = cur + 1
      <3>1. \A i \in 1 .. Len(data.image) : data.image[i] + 2 /= cur + 1
        BY Elements DEF OrderInv
      <3> QED
        BY <2>2, <3>1
    <2> QED
      BY <2>1, <2>2
  <1>3. ASSUME NEW i \in 1 .. Len(data.image), NEW j \in 1 .. Len(line'),
               data.image[i] + 2 = line'[j]
        PROVE  last_n = Number(line'[j]) /\ saved.addr < i
    <2>1. CASE j \in 1 .. Len(line)
      <3>1. line'[j] = line[j]
        BY <2>1 DEF Longer
      <3> QED
        BY <1>3, <2>1, <3>1 DEF NumberInv
    <2>2. CASE j = Len(line) + 1
      <3>1. line'[j] = cur'
        BY <2>2 DEF Longer
      <3> QED
        BY <1>2, <1>3, <3>1
    <2> QED
      BY <2>1, <2>2 DEF Longer
  <1> QED
    BY <1>1, <1>2, <1>3

LEMMA NumberStep ==
  ASSUME TypeOK, OrderInv, NumberInv, [Next]_vars
  PROVE  NumberInv'
  <1>0. TypeOK'
    BY TypeStep
  <1>1. CASE Good
    <2> DEFINE p == line[1]
               k == IF Number(p) = last_n THEN saved.addr ELSE Len(data.image)
    <2>1. /\ line /= <<>> /\ Len(line) > 0 /\ Head(line) = p /\ p \in 1 .. Break
          /\ TailOf(line, line') /\ 1 \in 1 .. Len(line)
      BY <1>1, ReceivingLemma DEF Good, TailOf, Receiving
    <2>2. /\ k \in Nat /\ k <= Len(data.image)
          /\ Len(data'.image) = IF IsData(p) THEN k + 1 ELSE k
          /\ \A i \in 1 .. k : data'.image[i] = data.image[i]
          /\ IsData(p) => data'.image[k + 1] = p - 2
          /\ saved'.addr = k
          /\ last_n' = Number(p)
      BY <1>1, <2>1, GoodLemma
    <2>3. cur' = cur /\ noise' = noise
      BY <1>1 DEF Good
    <2> SUFFICES ASSUME "number" \notin noise
                 PROVE  /\ \A i, j \in 1 .. Len(data'.image) : i < j => data'.image[i] < data'.image[j]
                        /\ \A i \in 1 .. Len(data'.image) :
                             data'.image[i] + 2 = cur => last_n' = Number(cur) /\ saved'.addr < i
                        /\ \A i \in 1 .. Len(data'.image), j \in 1 .. Len(line') :
                             data'.image[i] + 2 = line'[j] =>
                               last_n' = Number(line'[j]) /\ saved'.addr < i
      BY <2>3, NumberInvNext
    <2>4. \A i \in 1 .. k : /\ i \in 1 .. Len(data.image)
                            /\ data'.image[i] = data.image[i]
                            /\ data'.image[i] \in Int
                            /\ data'.image[i] + 2 < p
      BY <2>1, <2>2, BelowCheckpoint
    <2>5. p \in Int /\ cur \in Int /\ p <= cur
      BY <2>1, Elements DEF OrderInv
    <2>6. \A j \in 1 .. Len(line') : line'[j] \in Int /\ line'[j] >= p
      <3> TAKE j \in 1 .. Len(line')
      <3>1. j + 1 \in 1 .. Len(line) /\ line'[j] = line[j + 1] /\ 1 < j + 1
        BY <2>1, Elements DEF TailOf
      <3> QED
        BY <2>1, <2>5, <3>1, Elements DEF OrderInv
    <2> HIDE DEF p, k
    <2>7. \A i \in 1 .. Len(data'.image) :
            i \in 1 .. k \/ (i = k + 1 /\ data'.image[i] = p - 2)
      BY <2>2
    <2>8. \A i, j \in 1 .. Len(data'.image) : i < j => data'.image[i] < data'.image[j]
      <3> TAKE i, j \in 1 .. Len(data'.image)
      <3> HAVE i < j
      <3>1. CASE j \in 1 .. k
        <4>1. i \in 1 .. k
          BY <2>2, <3>1
        <4> QED
          BY <2>4, <3>1, <4>1 DEF NumberInv, NoneTwice
      <3>2. CASE j = k + 1 /\ data'.image[j] = p - 2
        <4>1. i \in 1 .. k
          BY <2>2, <3>2
        <4> QED
          BY <2>4, <2>5, <3>2, <4>1
      <3> QED
        BY <2>7, <3>1, <3>2
    <2>9. ASSUME NEW i \in 1 .. Len(data'.image), NEW q \in Int, q >= p,
                 data'.image[i] + 2 = q
          PROVE  last_n' = Number(q) /\ saved'.addr < i
      <3>1. CASE i \in 1 .. k
        BY <2>4, <2>5, <2>9, <3>1
      <3>2. CASE i = k + 1 /\ data'.image[i] = p - 2
        BY <2>2, <2>5, <2>9, <3>2
      <3> QED
        BY <2>7, <3>1, <3>2
    <2> QED
      BY <2>5, <2>6, <2>8, <2>9
  <1>2. ASSUME NEW m \in 0 .. SeqSize - 1, NEW e \in BOOLEAN, Damaged(m, e)
        PROVE  NumberInv'
    <2> DEFINE p == line[1]
               k == Len(data'.image)
    <2>0. Damaged(m, e)
      BY <1>2
    <2>1. /\ line /= <<>> /\ Len(line) > 0 /\ Head(line) = p /\ p \in 1 .. Break
          /\ TailOf(line, line') /\ 1 \in 1 .. Len(line)
      BY <2>0, ReceivingLemma DEF Damaged, TailOf, Receiving
    <2>2. /\ k \in Nat /\ k <= Len(data.image)
          /\ k = IF m = last_n THEN saved.addr ELSE Len(data.image)
          /\ \A i \in 1 .. k : data'.image[i] = data.image[i]
      BY <2>0, DamagedLemma
    <2>3. /\ cur' = cur
          /\ "number" \notin noise' => "number" \notin noise /\ m = Number(p)
      BY <2>0, <2>1 DEF Damaged
    <2> SUFFICES ASSUME "number" \notin noise, m = Number(p)
                 PROVE  /\ \A i, j \in 1 .. k : i < j => data'.image[i] < data'.image[j]
                        /\ \A i \in 1 .. k :
                             data'.image[i] + 2 = cur => last_n' = Number(cur) /\ saved'.addr < i
                        /\ \A i \in 1 .. k, j \in 1 .. Len(line') :
                             data'.image[i] + 2 = line'[j] =>
                               last_n' = Number(line'[j]) /\ saved'.addr < i
      BY <2>3, NumberInvNext
    <2>4. k = IF Number(line[1]) = last_n THEN saved.addr ELSE Len(data.image)
      BY <2>2
    <2>5. p \in Int /\ cur \in Int /\ p <= cur
      BY <2>1, Elements DEF OrderInv
    <2>6. \A j \in 1 .. Len(line') : line'[j] \in Int /\ line'[j] >= p
      <3> TAKE j \in 1 .. Len(line')
      <3>1. j + 1 \in 1 .. Len(line) /\ line'[j] = line[j + 1] /\ 1 < j + 1
        BY <2>1, Elements DEF TailOf
      <3> QED
        BY <2>1, <2>5, <3>1, Elements DEF OrderInv
    <2> HIDE DEF p, k
    <2>7. \A i \in 1 .. k : /\ i \in 1 .. Len(data.image)
                            /\ data'.image[i] = data.image[i]
                            /\ data'.image[i] \in Int
                            /\ data'.image[i] + 2 < p
      BY <2>1, <2>2, <2>4, BelowCheckpoint DEF p
    <2>8. \A i, j \in 1 .. k : i < j => data'.image[i] < data'.image[j]
      BY <2>7 DEF NumberInv, NoneTwice
    <2>9. \A i \in 1 .. k : data'.image[i] + 2 /= cur
      BY <2>5, <2>7
    <2>10. \A i \in 1 .. k, j \in 1 .. Len(line') : data'.image[i] + 2 /= line'[j]
      BY <2>5, <2>6, <2>7
    <2> QED
      BY <2>8, <2>9, <2>10
  <1>3. CASE DamagedHeader
    <2>1. PrefixOf(data.image, data.image')
      BY <1>3, HeaderLemma, Elements DEF PrefixOf
    <2>2. TailOf(line, line') /\ UNCHANGED <<cur, saved, last_n>>
      BY <1>3, ReceivingLemma DEF DamagedHeader, TailOf
    <2>3. "number" \notin noise' => "number" \notin noise
      BY <1>3 DEF DamagedHeader
    <2>4. \A i \in 1 .. Len(data'.image) : i \in 1 .. Len(data.image) /\ data'.image[i] = data.image[i]
      BY <2>1 DEF PrefixOf
    <2>5. \A j \in 1 .. Len(line') : j + 1 \in 1 .. Len(line) /\ line'[j] = line[j + 1]
      BY <2>2 DEF TailOf
    <2> QED
      BY <2>2, <2>3, <2>4, <2>5, NumberInvNext DEF NumberInv, NoneTwice
  <1>4. CASE CtrlC
    BY <1>4 DEF CtrlC, NumberInv, NoneTwice, recv
  <1>5. CASE LosePacket
    <2>1. UNCHANGED <<data, saved, last_n, cur, noise>>
      BY <1>5 DEF LosePacket, recv
    <2>2. \A j \in 1 .. Len(line') : j + 1 \in 1 .. Len(line) /\ line'[j] = line[j + 1]
      <3>1. line \in Seq(1 .. Break) /\ line /= <<>> /\ line' = Tail(line)
        BY <1>5 DEF LosePacket, TypeOK
      <3> QED
        BY <3>1, TailLemma
    <2> QED
      BY <2>1, <2>2, NumberInvNext DEF NumberInv, NoneTwice
  <1>6. CASE LoseReply
    BY <1>6 DEF LoseReply, NumberInv, NoneTwice, recv
  <1>7. CASE Send
    <2>1. UNCHANGED <<data, saved, last_n, cur, noise>> /\ line' = Append(line, cur')
      BY <1>7 DEF Send, recv
    <2> QED
      BY <1>0, <2>1, SentLemma, SendNumber
  <1>8. CASE SendNext
    <2>1. UNCHANGED <<data, saved, last_n, noise>> /\ cur' = cur + 1 /\ line' = Append(line, cur')
      BY <1>8 DEF SendNext, recv
    <2> QED
      BY <1>0, <2>1, SentLemma, SendNumber
  <1>9. CASE SendAgain
    <2>1. UNCHANGED <<data, saved, last_n, cur, noise>> /\ line' = Append(line, cur')
      BY <1>9 DEF SendAgain, recv
    <2> QED
      BY <1>0, <2>1, SentLemma, SendNumber
  <1>10. CASE UNCHANGED vars
    BY <1>10 DEF vars, recv, NumberInv, NoneTwice
  <1> QED
    BY <1>1, <1>2, <1>3, <1>4, <1>5, <1>6, <1>7, <1>8, <1>9, <1>10 DEF Next

-----------------------------------------------------------------------------
(* Without damage of the three kinds.                                       *)

Whole ==
  /\ Len(data.image) = BlocksUpTo(got)
  /\ \A b \in 1 .. Len(data.image) : data.image[b] = b

Reported == status = "done" => got = Break /\ filesize = Blocks

LEMMA QuietParts ==
  ASSUME QuietInv, noise = {}
  PROVE  InStep /\ Whole /\ CheckpointInv /\ RepliesInv /\ Reported
  BY DEF QuietInv, Whole, Reported

LEMMA QuietNext ==
  ASSUME noise' = {} => InStep' /\ Whole' /\ CheckpointInv' /\ RepliesInv' /\ Reported'
  PROVE  QuietInv'
  BY DEF QuietInv, Whole, Reported

(* The numbers of the packets around the sender's. *)
LEMMA Window ==
  ASSUME TypeOK
  PROVE  /\ cur \in Int /\ got \in Int /\ got >= 0 /\ cur >= 1
         /\ Number(cur) /= Number(cur - 1)
         /\ Number(cur + 1) /= Number(cur - 1)
         /\ Number(cur + 1) /= Number(cur)
         /\ Number(cur) /= -1 /\ Number(cur - 1) /= -1 /\ Number(cur + 1) /= -1
  <1>1. cur \in Int /\ cur >= 1 /\ got \in Int /\ got >= 0
    BY Elements DEF TypeOK, Break
  <1>2. cur - 1 \in Int /\ cur + 1 \in Int
    BY <1>1
  <1>3. Number(cur) /= Number(cur - 1)
    BY <1>1, <1>2, Neighbours
  <1>4. Number(cur + 1) /= Number(cur - 1)
    BY <1>1, <1>2, Neighbours
  <1>5. Number(cur + 1) /= Number(cur)
    BY <1>1, <1>2, Neighbours
  <1>6. /\ Number(cur) \in 0 .. SeqSize - 1 /\ Number(cur - 1) \in 0 .. SeqSize - 1
        /\ Number(cur + 1) \in 0 .. SeqSize - 1
    BY <1>1, <1>2, NumberType
  <1> QED
    BY <1>1, <1>3, <1>4, <1>5, <1>6, SeqSizeAssumption

(* What is received next: the packet received last, again, with the          *)
(* checkpoint before it, or the next one. *)
LEMMA HeadLemma ==
  ASSUME TypeOK, OrderInv, InStep, CheckpointInv, line /= <<>>
  PROVE  /\ line[1] \in {cur - 1, cur}
         /\ line[1] = cur - 1 =>
              /\ got = cur - 1
              /\ last_n = Number(cur - 1)
              /\ saved.addr = BlocksUpTo(got - 1)
         /\ line[1] = cur /\ got = cur =>
              last_n = Number(cur) /\ saved.addr = BlocksUpTo(cur - 1)
         /\ line[1] = cur /\ got = cur - 1 =>
              \/ last_n /= Number(cur)
              \/ last_n = Number(cur) /\ saved.addr = BlocksUpTo(got)
  <1>1. 1 \in 1 .. Len(line)
    BY Elements, TailLemma DEF TypeOK
  <1>2. /\ line[1] \in 1 .. Break /\ line[1] \in Int /\ line[1] >= got
        /\ line[1] >= cur - 1 /\ line[1] <= cur /\ line[1] >= 1
    BY <1>1, Elements DEF InStep, OrderInv
  <1>3. line[1] \in {cur - 1, cur}
    BY <1>2, Window
  <1>4. got \in {cur - 1, cur}
    BY DEF InStep
  <1>5. ASSUME line[1] = cur - 1
        PROVE  /\ got = cur - 1
               /\ last_n = Number(cur - 1)
               /\ saved.addr = BlocksUpTo(got - 1)
    <2>1. got = cur - 1 /\ got /= 0
      BY <1>2, <1>4, <1>5, Window
    <2>2. ~ (\A j \in 1 .. Len(line) : line[j] = cur)
      BY <1>1, <1>5, Window
    <2> QED
      BY <2>1, <2>2 DEF CheckpointInv
  <1>6. ASSUME line[1] = cur, got = cur
        PROVE  last_n = Number(cur) /\ saved.addr = BlocksUpTo(cur - 1)
    BY <1>6, Window DEF CheckpointInv
  <1>7. ASSUME line[1] = cur, got = cur - 1, last_n = Number(cur)
        PROVE  saved.addr = BlocksUpTo(got)
    <2>1. last_n /= (IF got = 0 THEN -1 ELSE Number(got))
      BY <1>7, Window
    <2> QED
      BY <2>1 DEF CheckpointInv
  <1> QED
    BY <1>3, <1>5, <1>6, <1>7

(* A reply about the packet just received joins those on their way. *)
LEMMA RepliesAppend ==
  ASSUME TypeOK, RepliesInv, NEW t, NEW m,
         Longer(replies, replies', [type |-> t, n |-> m]),
         cur' = cur, last_n' = m,
         m \in {Number(cur - 1), Number(cur)},
         m = Number(cur - 1) => last_n /= Number(cur),
         t = "ACK" /\ m = Number(cur) => got' = cur,
         (\E i \in 1 .. Len(replies) : replies[i] = Ack(Number(cur))) => got' = cur
  PROVE  RepliesInv'
  <1>1. \A i \in 1 .. Len(replies') :
          \/ i \in 1 .. Len(replies) /\ replies'[i] = replies[i]
          \/ i = Len(replies) + 1 /\ replies'[i] = [type |-> t, n |-> m]
    BY DEF Longer
  <1>2. \A i \in 1 .. Len(replies) : replies[i].n = Number(cur) => m = Number(cur)
    BY DEF RepliesInv
  <1>3. \A i \in 1 .. Len(replies') : replies'[i].n \in {Number(cur - 1), Number(cur)}
    BY <1>1 DEF RepliesInv
  <1>4. \A i \in 1 .. Len(replies') : replies'[i].n = Number(cur) => m = Number(cur)
    BY <1>1, <1>2
  <1>5. ASSUME NEW i \in 1 .. Len(replies'), NEW j \in 1 .. Len(replies'), i < j,
               replies'[i].n = Number(cur)
        PROVE  replies'[j].n = Number(cur)
    <2>1. CASE j \in 1 .. Len(replies) /\ replies'[j] = replies[j]
      <3>1. i \in 1 .. Len(replies) /\ replies'[i] = replies[i]
        BY <1>5, <2>1 DEF Longer
      <3> QED
        BY <1>5, <2>1, <3>1 DEF RepliesInv
    <2>2. CASE replies'[j] = [type |-> t, n |-> m]
      BY <1>4, <1>5, <2>2
    <2> QED
      BY <1>1, <2>1, <2>2
  <1>6. ASSUME NEW i \in 1 .. Len(replies'), replies'[i] = Ack(Number(cur))
        PROVE  got' = cur
    <2>1. CASE i \in 1 .. Len(replies) /\ replies'[i] = replies[i]
      BY <1>6, <2>1
    <2>2. CASE replies'[i] = [type |-> t, n |-> m]
      BY <1>6, <2>2 DEF Ack
    <2> QED
      BY <1>1, <2>1, <2>2
  <1> QED
    BY <1>3, <1>4, <1>5, <1>6 DEF RepliesInv, Ack

LEMMA GoodQuiet ==
  ASSUME TypeOK, OrderInv, QuietInv, TypeOK', OrderInv', Good
  PROVE  QuietInv'
  <1>0. SUFFICES ASSUME noise = {}
                 PROVE  InStep' /\ Whole' /\ CheckpointInv' /\ RepliesInv' /\ Reported'
    BY QuietNext DEF Good
  <1>1. InStep /\ Whole /\ CheckpointInv /\ RepliesInv
    BY <1>0, QuietParts
  <1> DEFINE p == line[1]
             k == IF Number(p) = last_n THEN saved.addr ELSE Len(data.image)
  <1>2. /\ line /= <<>> /\ Len(line) > 0 /\ Head(line) = p /\ p \in 1 .. Break
        /\ TailOf(line, line') /\ 1 \in 1 .. Len(line) /\ status = "receiving"
        /\ Number(p) \in 0 .. SeqSize - 1
    BY ReceivingLemma DEF Good, TailOf, Receiving
  <1>3. /\ k \in Nat /\ k <= Len(data.image)
        /\ Len(data'.image) = IF IsData(p) THEN k + 1 ELSE k
        /\ \A i \in 1 .. k : data'.image[i] = data.image[i]
        /\ IsData(p) => data'.image[k + 1] = p - 2
        /\ saved'.addr = k
        /\ last_n' = Number(p)
    BY <1>2, GoodLemma
  <1>4. /\ cur' = cur
        /\ got' = IF p > got THEN p ELSE got
        /\ p = Break => filesize' = Len(data'.image)
        /\ p /= Break => status' = status
    BY <1>2 DEF Good
  <1>5. Longer(replies, replies', [type |-> "ACK", n |-> Number(p)])
    BY <1>2, ReplyLemma DEF Good, Ack, Longer
  <1>6. /\ p \in {cur - 1, cur} /\ p \in Int /\ p >= 1
        /\ got \in {cur - 1, cur} /\ cur \in Int
        /\ p = cur - 1 => got = cur - 1
    BY <1>1, <1>2, HeadLemma, Window DEF InStep
  <1>7. got' = p
    BY <1>4, <1>6
  <1>8. k = BlocksUpTo(p - 1)
    <2>1. CASE p = cur - 1
      BY <1>1, <1>2, <2>1, HeadLemma
    <2>2. CASE p = cur /\ got = cur
      BY <1>1, <1>2, <2>2, HeadLemma
    <2>3. CASE p = cur /\ got = cur - 1
      BY <1>1, <1>2, <2>3, HeadLemma DEF Whole
    <2> QED
      BY <1>6, <2>1, <2>2, <2>3
  <1>9. p = cur - 1 => last_n = Number(cur - 1)
    BY <1>1, <1>2, HeadLemma
  <1>10. Blocks \in Nat /\ Break = Blocks + 4
    BY Elements
  <1>11. \A j \in 1 .. Len(line') : line'[j] >= p /\ line'[j] >= cur - 1
    <2> TAKE j \in 1 .. Len(line')
    <2>1. j + 1 \in 1 .. Len(line) /\ line'[j] = line[j + 1] /\ 1 < j + 1
      BY <1>2, Elements DEF TailOf
    <2> QED
      BY <1>1, <1>2, <2>1, Elements DEF OrderInv, InStep
  <1>12. /\ \A i \in 1 .. Len(replies) : replies[i].n = Number(cur) => last_n = Number(cur)
         /\ Number(cur) /= Number(cur - 1)
    BY <1>1, Window DEF RepliesInv
  <1> HIDE DEF p, k
  <1>13. InStep'
    BY <1>4, <1>6, <1>7, <1>11 DEF InStep
  <1>kept. \A b \in 1 .. k : data'.image[b] = b
    <2>1. k \in Nat /\ k <= Len(data.image) /\ Len(data.image) \in Nat
      BY <1>3, Elements
    <2>2. \A i \in 1 .. k : data'.image[i] = data.image[i]
      BY <1>3
    <2>3. \A b \in 1 .. Len(data.image) : data.image[b] = b
      BY <1>1 DEF Whole
    <2> TAKE b \in 1 .. k
    <2>4. b \in 1 .. Len(data.image)
      BY <2>1
    <2> QED
      BY <2>2, <2>3, <2>4, Zenon
  <1>14. Len(data'.image) = BlocksUpTo(p) /\ \A b \in 1 .. Len(data'.image) : data'.image[b] = b
    <2>1. CASE IsData(p)
      <3>1. k + 1 = p - 2 /\ k + 1 = BlocksUpTo(p)
        BY <1>6, <1>8, <1>10, <2>1 DEF IsData, BlocksUpTo
      <3>2. \A b \in 1 .. k : data'.image[b] = b
        BY <1>kept
      <3>3. \A b \in 1 .. k + 1 : b \in 1 .. k \/ b = k + 1
        BY <1>3
      <3> QED
        BY <1>3, <2>1, <3>1, <3>2, <3>3
    <2>2. CASE ~ IsData(p)
      <3>1. k = BlocksUpTo(p)
        BY <1>6, <1>8, <1>10, <2>2 DEF IsData, BlocksUpTo
      <3> QED
        BY <1>3, <1>kept, <2>2, <3>1
    <2> QED
      BY <2>1, <2>2
  <1>15. Whole'
    BY <1>7, <1>14 DEF Whole, BlocksUpTo
  <1>16. CheckpointInv'
    <2>1. last_n' = Number(got') /\ got' /= 0 /\ saved'.addr = BlocksUpTo(p - 1)
      BY <1>3, <1>6, <1>7, <1>8
    <2> QED
      BY <1>7, <2>1 DEF CheckpointInv, BlocksUpTo, Number
  <1>17. RepliesInv'
    <2>1. Number(p) \in {Number(cur - 1), Number(cur)}
      BY <1>6
    <2>2. CASE p = cur
      BY <1>1, <1>3, <1>4, <1>5, <1>7, <1>12, <2>1, <2>2, RepliesAppend
    <2>3. CASE p = cur - 1
      <3>1. last_n /= Number(cur) /\ Number(p) /= Number(cur)
        BY <1>9, <1>12, <2>3
      <3>2. ~ \E i \in 1 .. Len(replies) : replies[i] = Ack(Number(cur))
        BY <1>12, <3>1 DEF Ack
      <3> QED
        BY <1>1, <1>3, <1>4, <1>5, <2>1, <3>1, <3>2, RepliesAppend
    <2> QED
      BY <1>6, <2>2, <2>3
  <1>18. Reported'
    <2>1. CASE p = Break
      <3>1. BlocksUpTo(p) = Blocks
        BY <1>10, <2>1 DEF BlocksUpTo
      <3>2. filesize' = Blocks /\ got' = Break
        BY <1>4, <1>7, <1>14, <2>1, <3>1
      <3> QED
        BY <3>2 DEF Reported, Break
    <2>2. CASE p /= Break
      BY <1>2, <1>4, <2>2 DEF Reported
    <2> QED
      BY <2>1, <2>2
  <1> QED
    BY <1>13, <1>15, <1>16, <1>17, <1>18

LEMMA DamagedQuiet ==
  ASSUME TypeOK, OrderInv, QuietInv, TypeOK', OrderInv',
         NEW m \in 0 .. SeqSize - 1, NEW e \in BOOLEAN, Damaged(m, e)
  PROVE  QuietInv'
  <1> DEFINE p == line[1]
             k == Len(data'.image)
  <1>1. /\ line /= <<>> /\ Len(line) > 0 /\ Head(line) = p /\ p \in 1 .. Break
        /\ TailOf(line, line') /\ 1 \in 1 .. Len(line) /\ status = "receiving"
    BY ReceivingLemma DEF Damaged, TailOf, Receiving
  <1>2. SUFFICES ASSUME noise = {}, m = Number(p), ~ Acknowledged(p)
                 PROVE  InStep' /\ Whole' /\ CheckpointInv' /\ RepliesInv' /\ Reported'
    BY <1>1, QuietNext DEF Damaged
  <1>3. InStep /\ Whole /\ CheckpointInv /\ RepliesInv
    BY <1>2, QuietParts
  <1>4. /\ k \in Nat /\ k <= Len(data.image)
        /\ k = IF m = last_n THEN saved.addr ELSE Len(data.image)
        /\ \A i \in 1 .. k : data'.image[i] = data.image[i]
        /\ saved'.addr = k
        /\ last_n' = m
    BY DamagedLemma
  <1>5. /\ cur' = cur /\ status' = status
        /\ got' = IF p = got THEN got - 1 ELSE got
    BY <1>1 DEF Damaged
  <1>6. Longer(replies, replies', [type |-> "NAK", n |-> m])
    BY ReplyLemma DEF Damaged, Nack, Longer
  <1>7. /\ p = cur /\ p \in Int
        /\ ~ \E i \in 1 .. Len(replies) : replies[i] = Ack(Number(cur))
    BY <1>1, <1>2, <1>3, HeadLemma, Window DEF Acknowledged
  <1>8. got' = cur - 1
    BY <1>3, <1>5, <1>7 DEF InStep
  <1>9. k = BlocksUpTo(cur - 1)
    <2>1. CASE got = cur
      BY <1>1, <1>2, <1>3, <1>4, <1>7, <2>1, HeadLemma
    <2>2. CASE got = cur - 1
      BY <1>1, <1>2, <1>3, <1>4, <1>7, <2>2, HeadLemma DEF Whole
    <2> QED
      BY <1>3, <2>1, <2>2 DEF InStep
  <1>10. \A j \in 1 .. Len(line') : line'[j] = cur
    <2> TAKE j \in 1 .. Len(line')
    <2>1. j + 1 \in 1 .. Len(line) /\ line'[j] = line[j + 1] /\ 1 < j + 1
      BY <1>1, Elements DEF TailOf
    <2>2. line[j + 1] >= line[1] /\ line[j + 1] <= cur /\ line[j + 1] \in Int
      BY <1>1, <2>1, Elements DEF OrderInv
    <2> QED
      BY <1>7, <2>1, <2>2
  <1>11. cur \in Int
    BY Window
  <1> HIDE DEF p, k
  <1>12. InStep'
    BY <1>5, <1>8, <1>10, <1>11 DEF InStep
  <1>13. Whole'
    <2>1. \A b \in 1 .. k : data'.image[b] = b
      <3> TAKE b \in 1 .. k
      <3>1. b \in 1 .. Len(data.image)
        BY <1>4, Elements
      <3> QED
        BY <1>3, <1>4, <3>1 DEF Whole
    <2>2. k = BlocksUpTo(got')
      BY <1>8, <1>9
    <2> QED
      BY <2>1, <2>2 DEF Whole, BlocksUpTo, k
  <1>14. CheckpointInv'
    <2>1. /\ got' = cur' - 1 /\ last_n' = Number(cur') /\ saved'.addr = BlocksUpTo(got')
          /\ \A j \in 1 .. Len(line') : line'[j] = cur'
      BY <1>2, <1>4, <1>5, <1>7, <1>8, <1>9, <1>10
    <2> QED
      BY <2>1 DEF CheckpointInv, BlocksUpTo, Number
  <1>15. RepliesInv'
    <2>1. m = Number(cur) /\ m /= Number(cur - 1)
      BY <1>2, <1>7, Window
    <2>2. m \in {Number(cur - 1), Number(cur)}
      BY <2>1
    <2> QED
      BY <1>3, <1>4, <1>5, <1>6, <1>7, <2>1, <2>2, RepliesAppend
  <1>16. Reported'
    BY <1>1, <1>5 DEF Reported
  <1> QED
    BY <1>12, <1>13, <1>14, <1>15, <1>16

(* A packet sent once more. *)
LEMMA SendQuiet ==
  ASSUME TypeOK, QuietInv, UNCHANGED <<recv, status, filesize, cur, got, noise>>,
         Longer(line, line', cur),
         replies' = replies \/ TailOf(replies, replies')
  PROVE  QuietInv'
  <1>0. SUFFICES ASSUME noise = {}
                 PROVE  InStep' /\ Whole' /\ CheckpointInv' /\ RepliesInv' /\ Reported'
    BY QuietNext
  <1>1. InStep /\ Whole /\ CheckpointInv /\ RepliesInv /\ Reported
    BY <1>0, QuietParts
  <1>2. UNCHANGED <<data, saved, n, last_n>>
    BY DEF recv
  <1>3. \A j \in 1 .. Len(line') :
          (j \in 1 .. Len(line) /\ line'[j] = line[j]) \/ line'[j] = cur
    BY DEF Longer
  <1>4. InStep'
    <2>1. cur >= got /\ cur >= cur - 1
      BY <1>1, Window DEF InStep
    <2> QED
      BY <1>1, <1>3, <2>1 DEF InStep
  <1>5. CheckpointInv'
    BY <1>1, <1>2, <1>3 DEF CheckpointInv, BlocksUpTo, Number
  <1>6. RepliesInv'
    <2>1. CASE replies' = replies
      BY <1>1, <1>2, <2>1 DEF RepliesInv, Ack, Number
    <2>2. CASE TailOf(replies, replies')
      <3>1. \A i \in 1 .. Len(replies') : i + 1 \in 1 .. Len(replies) /\ replies'[i] = replies[i + 1]
        BY <2>2 DEF TailOf
      <3>2. \A i, j \in 1 .. Len(replies') : i < j => i + 1 < j + 1
        BY <2>2 DEF TailOf
      <3> QED
        BY <1>1, <1>2, <3>1, <3>2 DEF RepliesInv, Ack, Number
    <2> QED
      BY <2>1, <2>2
  <1>7. Whole' /\ Reported'
    BY <1>1, <1>2 DEF Whole, Reported, BlocksUpTo
  <1> QED
    BY <1>4, <1>5, <1>6, <1>7

(* The sender goes on: the packet is received, and stays so. *)
LEMMA SendNextQuiet ==
  ASSUME TypeOK, TypeOK', QuietInv, SendNext
  PROVE  QuietInv'
  <1>0. SUFFICES ASSUME noise = {}
                 PROVE  InStep' /\ Whole' /\ CheckpointInv' /\ RepliesInv' /\ Reported'
    BY QuietNext DEF SendNext
  <1>1. InStep /\ Whole /\ CheckpointInv /\ RepliesInv /\ Reported
    BY <1>0, QuietParts
  <1>2. /\ UNCHANGED <<data, saved, n, last_n, status, filesize, got>>
        /\ cur' = cur + 1 /\ cur \in Int
    BY Window DEF SendNext, recv
  <1>3. /\ replies /= <<>> /\ replies' = Tail(replies) /\ Acknowledges(Head(replies))
        /\ line' = Append(line, cur')
    BY DEF SendNext
  <1>4. Longer(line, line', cur')
    BY <1>3, SentLemma
  <1>5. /\ 1 \in 1 .. Len(replies) /\ Head(replies) = replies[1]
        /\ TailOf(replies, replies')
    <2>1. replies \in Seq([type : {"ACK", "NAK"}, n : 0 .. SeqSize - 1])
      BY DEF TypeOK
    <2> QED
      BY <1>3, <2>1, TailLemma DEF TailOf
  <1>6. replies[1] = Ack(Number(cur))
    <2>1. replies[1].n \in {Number(cur - 1), Number(cur)}
      BY <1>1, <1>5 DEF RepliesInv
    <2>2. replies[1] /= Nack(Number(cur + 1))
      BY <2>1, Window DEF Nack
    <2> QED
      BY <1>3, <1>5, <2>2 DEF Acknowledges
  <1>7. got = cur /\ last_n = Number(cur)
    BY <1>1, <1>5, <1>6 DEF RepliesInv, Ack
  <1>8. \A i \in 1 .. Len(replies') : replies'[i].n = Number(cur)
    <2> TAKE i \in 1 .. Len(replies')
    <2>1. i + 1 \in 1 .. Len(replies) /\ replies'[i] = replies[i + 1] /\ 1 < i + 1
      BY <1>5 DEF TailOf
    <2>2. replies[1].n = Number(cur)
      BY <1>6 DEF Ack
    <2> QED
      BY <1>1, <1>5, <2>1, <2>2 DEF RepliesInv
  <1>9. \A j \in 1 .. Len(line') :
          (j \in 1 .. Len(line) /\ line'[j] = line[j]) \/ line'[j] = cur + 1
    BY <1>2, <1>4 DEF Longer
  <1>10. InStep'
    <2>1. \A j \in 1 .. Len(line') : line'[j] >= cur
      BY <1>1, <1>2, <1>7, <1>9 DEF InStep
    <2>2. cur' - 1 = cur
      BY <1>2
    <2> QED
      BY <1>2, <1>7, <2>1, <2>2 DEF InStep
  <1>11. CheckpointInv'
    <2>1. got /= cur - 1 /\ got /= 0
      BY <1>7, Window
    <2>2. last_n = Number(got) /\ saved.addr = BlocksUpTo(got - 1)
      BY <1>1, <2>1 DEF CheckpointInv
    <2> QED
      BY <1>2, <2>1, <2>2 DEF CheckpointInv, BlocksUpTo, Number
  <1>12. RepliesInv'
    <2>1. Number(cur') /= Number(cur) /\ Number(cur' - 1) = Number(cur)
      BY <1>2, Window
    <2>2. /\ \A i \in 1 .. Len(replies') :
                replies'[i].n = Number(cur' - 1) /\ replies'[i].n /= Number(cur')
          /\ \A i \in 1 .. Len(replies') : replies'[i] /= Ack(Number(cur'))
      BY <1>8, <2>1 DEF Ack
    <2> HIDE DEF TailOf
    <2> QED
      BY <2>2 DEF RepliesInv, Ack, Number
  <1>13. Whole' /\ Reported'
    BY <1>1, <1>2 DEF Whole, Reported, BlocksUpTo
  <1> QED
    BY <1>10, <1>11, <1>12, <1>13

LEMMA QuietStep ==
  ASSUME TypeOK, OrderInv, QuietInv, [Next]_vars
  PROVE  QuietInv'
  <1>0. TypeOK' /\ OrderInv'
    BY TypeStep, OrderStep
  <1>1. CASE Good
    BY <1>0, <1>1, GoodQuiet
  <1>2. ASSUME NEW m \in 0 .. SeqSize - 1, NEW e \in BOOLEAN, Damaged(m, e)
        PROVE  QuietInv'
    BY <1>0, <1>2, DamagedQuiet
  <1>3. CASE DamagedHeader
    BY <1>3, QuietNext DEF DamagedHeader
  <1>4. CASE CtrlC
    <2>1. UNCHANGED <<data, saved, n, last_n, cur, line, replies, got, noise>> /\ status' = "aborted"
      BY <1>4 DEF CtrlC, recv
    <2> QED
      BY <2>1 DEF QuietInv, InStep, CheckpointInv, RepliesInv, BlocksUpTo, Number, Ack
  <1>5. CASE LosePacket
    <2>1. UNCHANGED <<data, saved, n, last_n, status, filesize, cur, replies, got, noise>>
      BY <1>5 DEF LosePacket, recv
    <2>2. \A j \in 1 .. Len(line') : j + 1 \in 1 .. Len(line) /\ line'[j] = line[j + 1]
      <3>1. line \in Seq(1 .. Break) /\ line /= <<>> /\ line' = Tail(line)
        BY <1>5 DEF LosePacket, TypeOK
      <3> QED
        BY <3>1, TailLemma
    <2>3. InStep => InStep'
      BY <2>1, <2>2 DEF InStep
    <2>4. CheckpointInv => CheckpointInv'
      BY <2>1, <2>2 DEF CheckpointInv, BlocksUpTo, Number
    <2>5. RepliesInv => RepliesInv'
      BY <2>1 DEF RepliesInv
    <2> QED
      BY <2>1, <2>3, <2>4, <2>5 DEF QuietInv, BlocksUpTo
  <1>6. CASE LoseReply
    <2>1. UNCHANGED <<data, saved, n, last_n, status, filesize, cur, line, got, noise>>
      BY <1>6 DEF LoseReply, recv
    <2>2. /\ \A j \in 1 .. Len(replies') : j + 1 \in 1 .. Len(replies) /\ replies'[j] = replies[j + 1]
          /\ \A i, j \in 1 .. Len(replies') : i < j => i + 1 < j + 1
      <3>1. /\ replies \in Seq([type : {"ACK", "NAK"}, n : 0 .. SeqSize - 1])
            /\ replies /= <<>> /\ replies' = Tail(replies)
        BY <1>6 DEF LoseReply, TypeOK
      <3> QED
        BY <3>1, TailLemma
    <2>3. RepliesInv => RepliesInv'
      BY <2>1, <2>2 DEF RepliesInv
    <2>4. InStep => InStep'
      BY <2>1 DEF InStep
    <2>5. CheckpointInv => CheckpointInv'
      BY <2>1 DEF CheckpointInv, BlocksUpTo, Number
    <2> QED
      BY <2>1, <2>3, <2>4, <2>5 DEF QuietInv, BlocksUpTo
  <1>7. CASE Send
    <2>1. /\ UNCHANGED <<recv, status, filesize, cur, replies, got, noise>>
          /\ line' = Append(line, cur')
      BY <1>7 DEF Send
    <2> QED
      BY <1>0, <2>1, SentLemma, SendQuiet
  <1>8. CASE SendNext
    BY <1>0, <1>8, SendNextQuiet
  <1>9. CASE SendAgain
    <2>1. /\ UNCHANGED <<recv, status, filesize, cur, got, noise>>
          /\ line' = Append(line, cur')
          /\ replies /= <<>> /\ replies' = Tail(replies)
      BY <1>9 DEF SendAgain
    <2>2. TailOf(replies, replies')
      BY <2>1, TailLemma DEF TailOf, TypeOK
    <2> QED
      BY <1>0, <2>1, <2>2, SentLemma, SendQuiet
  <1>10. CASE UNCHANGED vars
    <2>1. UNCHANGED <<data, saved, n, last_n, status, filesize, cur, line, replies, got, noise>>
      BY <1>10 DEF vars, recv
    <2> QED
      BY <2>1 DEF QuietInv, InStep, CheckpointInv, RepliesInv, BlocksUpTo, Number, Ack
  <1> QED
    BY <1>1, <1>2, <1>3, <1>4, <1>5, <1>6, <1>7, <1>8, <1>9, <1>10 DEF Next

-----------------------------------------------------------------------------
(* The invariant and what follows from it.                                  *)

LEMMA InvInit == Init => IInv
  <1> SUFFICES ASSUME Init PROVE IInv
    OBVIOUS
  <1>1. TypeOK
    BY TypeInit
  <1>2. Len(data.image) = 0 /\ Len(line) = 0 /\ Len(replies) = 0
    BY DEF Init, k_data_init
  <1>3. OrderInv
    BY <1>2 DEF Init, k_data_init, OrderInv, InOrder
  <1>4. NumberInv
    BY <1>2 DEF NumberInv, NoneTwice
  <1>5. QuietInv
    <2>1. InStep /\ RepliesInv
      BY <1>2 DEF Init, InStep, RepliesInv
    <2>2. CheckpointInv
      BY DEF Init, CheckpointInv, BlocksUpTo
    <2> QED
      BY <1>2, <2>1, <2>2 DEF Init, QuietInv, BlocksUpTo
  <1> QED
    BY <1>1, <1>3, <1>4, <1>5 DEF IInv

THEOREM KermitInvariant == Spec => []IInv
  <1>1. Init => IInv
    BY InvInit
  <1>2. IInv /\ [Next]_vars => IInv'
    BY TypeStep, OrderStep, NumberStep, QuietStep DEF IInv
  <1> QED
    BY <1>1, <1>2, PTL DEF Spec

(* The types of receiver, line and sender, and the checkpoint never above    *)
(* os_data_addr: k_data_restore only goes back. *)
THEOREM KermitTyping == Spec => []TypeOK
  <1>1. IInv => TypeOK
    BY DEF IInv
  <1> QED
    BY <1>1, KermitInvariant, PTL

(* Whatever is damaged, what k_recv has stored is undamaged and in the order *)
(* of the file. *)
THEOREM KermitInOrder == Spec => []InOrder
  <1>1. IInv => InOrder
    BY DEF IInv, OrderInv
  <1> QED
    BY <1>1, KermitInvariant, PTL

(* No packet is stored twice while sequence numbers are read correctly. *)
THEOREM KermitNoneTwice == Spec => []NoneTwice
  <1>1. IInv => NoneTwice
    BY DEF IInv, NumberInv, NoneTwice
  <1> QED
    BY <1>1, KermitInvariant, PTL

(* A file loadb reports is whole, without the damage k_recv takes no care    *)
(* of. *)
THEOREM KermitLoaded == Spec => []Loaded
  <1>1. IInv => Loaded
    <2> SUFFICES ASSUME IInv, status = "done", noise = {} PROVE WholeFile /\ filesize = Blocks
      BY DEF Loaded
    <2>1. /\ got = Break /\ filesize = Blocks
          /\ Len(data.image) = BlocksUpTo(got)
          /\ \A b \in 1 .. Len(data.image) : data.image[b] = b
      BY DEF IInv, QuietInv
    <2>2. BlocksUpTo(Break) = Blocks
      BY BlocksAssumption DEF BlocksUpTo, Break
    <2> QED
      BY <2>1, <2>2 DEF WholeFile
  <1> QED
    BY <1>1, KermitInvariant, PTL

-----------------------------------------------------------------------------
(* The refinement of Load.                                                  *)

LEMMA PlacesOf ==
  ASSUME NEW s \in Seq(0 .. Blocks)
  PROVE  /\ {b \in 1 .. Len(s) : s[b] = b} \subseteq 1 .. Blocks
         /\ (\A b \in 1 .. Len(s) : s[b] = b) =>
              {b \in 1 .. Len(s) : s[b] = b} = 1 .. Len(s)
  <1>1. \A b \in 1 .. Len(s) : s[b] \in 0 .. Blocks
    BY ElementOfSeq
  <1>2. Len(s) \in Nat /\ Blocks \in Nat
    BY BlocksAssumption
  <1> QED
    BY <1>1, <1>2

(* Blocks come and go one at a time. *)
LEMMA UpToNext ==
  ASSUME NEW p \in 0 .. Break
  PROVE  /\ BlocksUpTo(p) \in 0 .. Blocks
         /\ BlocksUpTo(p + 1) \in {BlocksUpTo(p), BlocksUpTo(p) + 1}
         /\ p >= 1 => BlocksUpTo(p) \in {BlocksUpTo(p - 1), BlocksUpTo(p - 1) + 1}
         /\ p >= Break - 1 => BlocksUpTo(p) = Blocks
  BY BlocksAssumption DEF BlocksUpTo, Break

(* A packet that comes whole is the one received last or the next; damage   *)
(* takes back one packet at most. *)
LEMMA GotStep ==
  ASSUME TypeOK, OrderInv, QuietInv, noise = {}, [Next]_vars
  PROVE  /\ got \in 0 .. Break
         /\ \/ got' = got
            \/ got < Break /\ got' = got + 1
            \/ got >= 1 /\ got' = got - 1
         /\ Good => got' = IF Head(line) > got THEN Head(line) ELSE got
  <1>1. got \in {cur - 1, cur} /\ got \in 0 .. Break /\ cur \in 1 .. Break /\ Break \in Int
    BY Elements DEF QuietInv, InStep, TypeOK, Break
  <1>2. CASE Good
    <2>1. got' = IF Head(line) > got THEN Head(line) ELSE got
      BY <1>2 DEF Good
    <2>2. Head(line) \in 1 .. Break /\ Head(line) <= cur
      <3>1. /\ Head(line) \in 1 .. Break /\ Head(line) = line[1]
            /\ Len(line) \in Nat /\ Len(line) > 0
        BY <1>2, ReceivingLemma DEF Good
      <3> QED
        BY <3>1 DEF OrderInv
    <2> QED
      BY <1>1, <2>1, <2>2
  <1>3. ASSUME NEW m \in 0 .. SeqSize - 1, NEW e \in BOOLEAN, Damaged(m, e)
        PROVE  got' = got \/ (got >= 1 /\ got' = got - 1)
    <2>1. got' = IF Head(line) = got THEN got - 1 ELSE got
      BY <1>3 DEF Damaged
    <2>2. Head(line) \in 1 .. Break
      BY <1>3, ReceivingLemma DEF Damaged
    <2> QED
      BY <1>1, <2>1, <2>2
  <1>4. ASSUME \/ DamagedHeader \/ CtrlC \/ LosePacket \/ LoseReply \/ Send \/ SendNext
               \/ SendAgain \/ UNCHANGED vars
        PROVE  got' = got
    BY <1>4 DEF DamagedHeader, CtrlC, LosePacket, LoseReply, Send, SendNext, SendAgain, vars
  <1>5. ~ Good => got' = got \/ (got >= 1 /\ got' = got - 1)
    BY <1>3, <1>4 DEF Next
  <1> QED
    BY <1>1, <1>2, <1>5 DEF Good

LEMMA TransferInit == Init => Transfer!Init
  <1> SUFFICES ASSUME Init PROVE Transfer!Init
    OBVIOUS
  <1>1. data.image = <<>> /\ status = "receiving" /\ noise = {}
    BY DEF Init, k_data_init
  <1>2. InPlace = {}
    BY <1>1 DEF InPlace
  <1> QED
    BY <1>1, <1>2 DEF Transfer!Init, LoadStatus

(* What every step does to the outcome. *)
LEMMA StatusStep ==
  ASSUME TypeOK, [Next]_vars
  PROVE  \/ UNCHANGED <<data, status, noise>>
         \/ /\ status = "receiving" /\ noise \subseteq noise'
            /\ \/ status' = "receiving"
               \/ Good /\ status' = "done" /\ Head(line) = Break /\ noise' = noise
               \/ status' = "aborted" /\ UNCHANGED <<data, noise>>
  <1>1. CASE Good
    BY <1>1 DEF Good, Receiving
  <1>2. ASSUME NEW m \in 0 .. SeqSize - 1, NEW e \in BOOLEAN, Damaged(m, e)
        PROVE  status = "receiving" /\ status' = "receiving" /\ noise \subseteq noise'
    BY <1>2 DEF Damaged, Receiving
  <1>3. CASE DamagedHeader
    BY <1>3 DEF DamagedHeader, Receiving
  <1>4. CASE CtrlC
    BY <1>4 DEF CtrlC, recv
  <1>5. CASE LosePacket \/ LoseReply \/ Send \/ SendNext \/ SendAgain \/ UNCHANGED vars
    BY <1>5 DEF LosePacket, LoseReply, Send, SendNext, SendAgain, recv, vars
  <1> QED
    BY <1>1, <1>2, <1>3, <1>4, <1>5 DEF Next

LEMMA TransferStep == IInv /\ IInv' /\ [Next]_vars => [Transfer!Next]_(Transfer!loadVars)
  <1> SUFFICES ASSUME IInv, IInv', [Next]_vars
               PROVE  Transfer!Next \/ UNCHANGED <<InPlace, LoadStatus>>
    BY DEF Transfer!loadVars
  <1>0. TypeOK /\ OrderInv /\ QuietInv /\ TypeOK' /\ QuietInv'
    BY DEF IInv
  <1>1. /\ InPlace' \subseteq 1 .. Blocks
        /\ noise = {} => InPlace = 1 .. BlocksUpTo(got)
        /\ noise' = {} => InPlace' = 1 .. BlocksUpTo(got')
    <2>1. data.image \in Seq(0 .. Blocks) /\ data'.image \in Seq(0 .. Blocks)
      BY <1>0 DEF TypeOK
    <2>2. InPlace' = {b \in 1 .. Len(data'.image) : data'.image[b] = b}
      BY DEF InPlace
    <2>3. noise = {} => /\ Len(data.image) = BlocksUpTo(got)
                        /\ \A b \in 1 .. Len(data.image) : data.image[b] = b
      BY <1>0 DEF QuietInv
    <2>4. noise' = {} => /\ Len(data'.image) = BlocksUpTo(got')
                         /\ \A b \in 1 .. Len(data'.image) : data'.image[b] = b
      BY <1>0 DEF QuietInv
    <2>5. noise = {} => InPlace = 1 .. BlocksUpTo(got)
      BY <2>1, <2>3, PlacesOf DEF InPlace
    <2>6. noise' = {} => InPlace' = 1 .. BlocksUpTo(got')
      BY <2>1, <2>2, <2>4, PlacesOf
    <2> QED
      BY <2>1, <2>2, <2>5, <2>6, PlacesOf
  <1>2. Transfer!Scattered
    BY <1>1 DEF Transfer!Scattered, Transfer!AllBlocks
  <1>3. CASE UNCHANGED <<data, status, noise>>
    BY <1>3 DEF InPlace, LoadStatus
  <1>4. CASE status = "receiving" /\ noise # {} /\ noise \subseteq noise'
    <2>1. status' \in {"receiving", "done", "aborted"} /\ noise' # {}
      BY <1>0, <1>4 DEF TypeOK
    <2>2. LoadStatus = "disturbed"
      BY <1>4 DEF LoadStatus
    <2>3. LoadStatus' \in {"disturbed", "ended"}
      BY <2>1 DEF LoadStatus
    <2>4. Transfer!Straggle
      BY <1>2, <2>2, <2>3 DEF Transfer!Straggle
    <2> QED
      BY <2>4 DEF Transfer!Next
  <1>5. CASE status = "receiving" /\ status' = "receiving" /\ noise = {} /\ noise' # {}
    <2>1. LoadStatus = "loading" /\ LoadStatus' = "disturbed"
      BY <1>5 DEF LoadStatus
    <2>2. Transfer!Disturb
      BY <1>2, <2>1 DEF Transfer!Disturb
    <2> QED
      BY <2>2 DEF Transfer!Next
  <1>6. CASE status = "receiving" /\ status' = "receiving" /\ noise = {} /\ noise' = {}
    <2>1. LoadStatus = "loading" /\ LoadStatus' = "loading"
      BY <1>6 DEF LoadStatus
    <2> DEFINE x == BlocksUpTo(got)
               y == BlocksUpTo(got')
    <2>2. InPlace = 1 .. x /\ InPlace' = 1 .. y
      BY <1>1, <1>6
    <2>3. x \in 0 .. Blocks /\ y \in 0 .. Blocks /\ y \in {x, x + 1, x - 1}
      <3>1. /\ got \in 0 .. Break
            /\ \/ got' = got
               \/ got < Break /\ got' = got + 1
               \/ got >= 1 /\ got' = got - 1
        BY <1>0, <1>6, GotStep
      <3>2. got' \in 0 .. Break
        BY <1>0 DEF TypeOK
      <3>3. x \in 0 .. Blocks /\ y \in 0 .. Blocks
        BY <3>1, <3>2, UpToNext
      <3>4. CASE got' = got
        <4>1. y = x
          BY <3>4
        <4> QED
          BY <3>3, <4>1
      <3>5. CASE got' = got + 1
        <4>1. y \in {x, x + 1}
          BY <3>1, <3>5, UpToNext
        <4> QED
          BY <3>3, <4>1
      <3>6. CASE got >= 1 /\ got' = got - 1
        <4>1. x \in {y, y + 1}
          BY <3>1, <3>6, UpToNext
        <4> QED
          BY <3>3, <4>1
      <3> QED
        BY <3>1, <3>3, <3>4, <3>5, <3>6
    <2> HIDE DEF x, y
    <2>4. CASE y = x
      BY <2>1, <2>2, <2>4
    <2>5. CASE y = x + 1
      <3>1. x + 1 \in 1 .. Blocks /\ 1 .. ((x + 1) - 1) \subseteq InPlace /\ InPlace' = InPlace \cup {x + 1}
        BY <2>2, <2>3, <2>5
      <3>2. Transfer!Store
        BY <2>1, <3>1 DEF Transfer!Store, Transfer!AllBlocks
      <3> QED
        BY <3>2 DEF Transfer!Next
    <2>6. CASE y = x - 1
      <3>1. x \in InPlace /\ InPlace = 1 .. x /\ InPlace' = 1 .. (x - 1)
        BY <2>2, <2>3, <2>6
      <3>2. Transfer!TakeBack
        BY <2>1, <3>1 DEF Transfer!TakeBack
      <3> QED
        BY <3>2 DEF Transfer!Next
    <2> QED
      BY <2>3, <2>4, <2>5, <2>6
  <1>7. CASE status = "receiving" /\ noise = {} /\ Good /\ status' = "done" /\ Head(line) = Break /\ noise' = noise
    <2>1. LoadStatus = "loading" /\ LoadStatus' = "loaded"
      BY <1>7 DEF LoadStatus
    <2>2. got \in 0 .. Break /\ got >= Break - 1 /\ got' = Break /\ Break \in Nat
      <3>1. got \in {cur - 1, cur} /\ got \in 0 .. Break /\ cur \in 1 .. Break
        BY <1>0, <1>7 DEF QuietInv, InStep, TypeOK
      <3>2. Break \in Nat
        BY BlocksAssumption DEF Break
      <3>3. /\ Head(line) = line[1] /\ Len(line) \in Nat /\ Len(line) > 0
        BY <1>0, <1>7, ReceivingLemma DEF Good
      <3>4. Break <= cur
        BY <1>0, <1>7, <3>3 DEF OrderInv
      <3>5. got' = IF Head(line) > got THEN Head(line) ELSE got
        BY <1>7 DEF Good
      <3> QED
        BY <1>7, <3>1, <3>2, <3>4, <3>5
    <2>3. BlocksUpTo(got) = Blocks /\ BlocksUpTo(Break) = Blocks
      BY <2>2, UpToNext
    <2>4. InPlace = 1 .. Blocks /\ InPlace' = InPlace
      BY <1>1, <1>7, <2>2, <2>3
    <2>5. Transfer!Report
      BY <2>1, <2>4 DEF Transfer!Report, Transfer!AllBlocks
    <2> QED
      BY <2>5 DEF Transfer!Next
  <1>8. CASE status = "receiving" /\ noise = {} /\ status' = "aborted" /\ UNCHANGED <<data, noise>>
    <2>1. LoadStatus = "loading" /\ LoadStatus' = "ended" /\ InPlace' = InPlace
      BY <1>8 DEF LoadStatus, InPlace
    <2>2. Transfer!Fail
      BY <2>1 DEF Transfer!Fail
    <2> QED
      BY <2>2 DEF Transfer!Next
  <1> QED
    BY <1>0, <1>3, <1>4, <1>5, <1>6, <1>7, <1>8, StatusStep

(* loadb implements Load: blocks come in order, at most the last is taken    *)
(* back at a time, and a file reported without the damage k_recv takes no    *)
(* care of is the whole file. *)
THEOREM KermitImplementsLoad == Spec => ImplementsLoad
  BY KermitInvariant, TransferInit, TransferStep, PTL DEF Spec, ImplementsLoad, Transfer!Spec

=============================================================================
