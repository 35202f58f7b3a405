----------------------------- MODULE Mac_proof -----------------------------
(***************************************************************************)
(* Proofs about Mac, for rings of any size: types, the order of the frames *)
(* on both rings, and that every step of reception is one of FrameRing.    *)
(***************************************************************************)
EXTENDS Mac, TLAPS

LEMMA AfterType ==
  ASSUME NEW n \in Nat, n >= 1, NEW p \in 0..(n - 1), NEW k \in 0..n
  PROVE  After(p, k, n) \in 0..(n - 1)
  BY DEF After

(* One place and k more are k + 1 places. *)
LEMMA AfterAfter ==
  ASSUME NEW n \in Nat, n >= 1, NEW p \in 0..(n - 1), NEW k \in 0..(n - 1)
  PROVE  After(After(p, 1, n), k, n) = After(p, k + 1, n)
  BY DEF After

(* After goes round: n places lead back, and places less than n apart       *)
(* differ.                                                                 *)
LEMMA AfterRound ==
  ASSUME NEW n \in Nat, n >= 1, NEW p \in 0..(n - 1)
  PROVE  /\ After(p, 0, n) = p
         /\ After(p, n, n) = p
         /\ \A j, k \in 0..(n - 1) : After(p, j, n) = After(p, k, n) => j = k
         /\ After(After(p, 1, n), n - 1, n) = p
  BY DEF After

LEMMA Types == TypeOK /\ CopyBound /\ RxInv /\ [Next]_vars => TypeOK' /\ CopyBound'
  <1> SUFFICES ASSUME TypeOK, CopyBound, RxInv, [Next]_vars
               PROVE  TypeOK' /\ CopyBound'
    OBVIOUS
  <1> USE MacAssumption DEF TypeOK, CopyBound, RxSlots, TxSlots, Engine, Points, Partial
  <1>1. CASE Recv \/ GetSize
    <2>1. CASE Recv
      BY <2>1 DEF Recv, rx, tx
    <2>2. CASE GetSize
      BY <2>2 DEF GetSize, rx, tx
    <2> QED
      BY <1>1, <2>1, <2>2
  <1>2. CASE GiveBack
    <2>1. given < stored
      BY <1>2 DEF GiveBack, RxInv, Pending
    <2> QED
      BY <1>2, <2>1 DEF GiveBack, tx
  <1>3. CASE Resume
    <2>1. rxEngine' \in Engine /\ rxFlag' = FALSE /\ pc' = "handle"
      BY <1>3 DEF Resume, Polled
    <2> QED
      BY <1>3, <2>1 DEF Resume, tx
  <1>4. CASE Handled
    <2>1. rx_desc' \in RxSlots
      BY <1>4, AfterType DEF Handled
    <2> QED
      BY <1>4, <2>1 DEF Handled, tx
  <1>5. CASE RxFetch
    BY <1>5 DEF RxFetch, tx
  <1>6. CASE RxStore
    <2>1. rxDma' \in RxSlots
      BY <1>6, AfterType DEF RxStore
    <2>2. stored < MaxFrames
      BY <1>6 DEF RxStore, RxInv
    <2>3. rxBuf' \in [RxSlots -> Int]
      BY <1>6 DEF RxStore
    <2>4. bad' \subseteq RxSlots /\ rxOwn' \subseteq RxSlots
      BY <1>6 DEF RxStore
    <2>5. stored' \in 0..MaxFrames /\ rxEngine' \in Engine
      BY <1>6, <2>2 DEF RxStore
    <2>6. UNCHANGED <<pc, rx_desc, rxFlag, given, tx>>
      BY <1>6 DEF RxStore
    <2> QED
      BY <2>1, <2>3, <2>4, <2>5, <2>6 DEF tx
  <1>7. CASE RxSuspend
    BY <1>7 DEF RxSuspend, tx
  <1>8. CASE SendCopy
    BY <1>8 DEF SendCopy, rx
  <1>9. CASE SendOwn
    <2>1. txBuf' \in [TxSlots -> Int] /\ txOwn' \subseteq TxSlots
      BY <1>9 DEF SendOwn
    <2>2. sent' \in 0..MaxSends /\ txPc' = "resume"
      BY <1>9 DEF SendOwn
    <2> QED
      BY <1>9, <2>1, <2>2 DEF SendOwn, rx
  <1>10. CASE SendResume
    <2>1. tx_desc' \in TxSlots
      BY <1>10, AfterType DEF SendResume
    <2>2. txEngine' \in Engine /\ txFlag' = FALSE /\ txPc' = "idle"
      BY <1>10 DEF SendResume, Polled
    <2> QED
      BY <1>10, <2>1, <2>2 DEF SendResume, rx
  <1>11. CASE TxFetch
    BY <1>11 DEF TxFetch, rx
  <1>12. CASE TxSent
    <2>1. txDma' \in TxSlots
      BY <1>12, AfterType DEF TxSent
    <2>2. onWire' \in Int /\ wired' \in Nat /\ txEngine' \in Engine
      BY <1>12 DEF TxSent
    <2>3. txOwn' \subseteq TxSlots
      BY <1>12 DEF TxSent
    <2> QED
      BY <1>12, <2>1, <2>2, <2>3 DEF TxSent, rx
  <1>13. CASE TxSuspend
    BY <1>13 DEF TxSuspend, rx
  <1>14. CASE UNCHANGED vars
    BY <1>14 DEF vars, rx, tx
  <1> QED
    BY <1>1, <1>2, <1>3, <1>4, <1>5, <1>6, <1>7, <1>8, <1>9, <1>10, <1>11, <1>12, <1>13,
       <1>14 DEF Next, Receiving, RxDma, Sending, TxDma

-----------------------------------------------------------------------------
(* Reception.                                                              *)

LEMMA HeadType ==
  ASSUME TypeOK
  PROVE  Head \in RxSlots
  <1>1. RxN \in Nat /\ RxN >= 2 /\ rx_desc \in 0..(RxN - 1)
    BY MacAssumption DEF TypeOK, RxSlots
  <1>2. After(rx_desc, 1, RxN) \in 0..(RxN - 1)
    BY <1>1, AfterType
  <1> QED
    BY <1>1, <1>2 DEF Head, RxSlots

LEMMA RxUnchanged ==
  ASSUME RxInv, UNCHANGED <<pc, rx>>
  PROVE  RxInv'
  <1>1. /\ Holding' = Holding /\ Pending' = Pending /\ Head' = Head
        /\ UNCHANGED <<pc, rx_desc, rxOwn, rxBuf, rxEngine, rxDma, rxFlag, stored, given>>
    BY DEF rx, Holding, Pending, Head
  <1>2. ReadsItsFrame'
    BY <1>1 DEF RxInv, ReadsItsFrame
  <1> QED
    BY <1>1, <1>2 DEF RxInv

LEMMA RxStep == TypeOK /\ RxInv /\ [Next]_vars => RxInv'
  <1> SUFFICES ASSUME TypeOK, RxInv, [Next]_vars
               PROVE  RxInv'
    OBVIOUS
  <1>0. /\ RxN \in Nat /\ RxN >= 2
        /\ rx_desc \in RxSlots /\ rxDma \in RxSlots /\ Head \in RxSlots
        /\ rxOwn \subseteq RxSlots /\ rxBuf \in [RxSlots -> Int]
        /\ stored \in Nat /\ given \in Nat /\ Pending \in 0..RxN
        /\ RxSlots = 0..(RxN - 1)
    BY MacAssumption, HeadType DEF TypeOK, RxInv, RxSlots
  <1>1. CASE Recv
    <2>1. Head' = Head /\ ~Holding' /\ ~Holding /\ UNCHANGED rx /\ pc' = "test"
      BY <1>1 DEF Recv, Head, Holding, rx
    <2> QED
      BY <2>1 DEF RxInv, rx, Pending, ReadsItsFrame
  <1>2. CASE GetSize
    <2>1. Head' = Head /\ ~Holding' /\ ~Holding /\ UNCHANGED rx
      BY <1>2 DEF GetSize, Head, Holding, rx
    <2>2. pc' = "give" => Pending > 0
      <3>1. pc' = "give" => rx_desc \notin rxOwn
        BY <1>2 DEF GetSize, Complete
      <3>2. Head = After(Head, 0, RxN) /\ Head = rx_desc
        BY <1>0, <2>1, AfterRound DEF Head
      <3>3. Head \in rxOwn <=> 0 >= Pending
        BY <1>0, <3>2 DEF RxInv
      <3> QED
        BY <1>0, <3>1, <3>2, <3>3
    <2> QED
      BY <2>1, <2>2 DEF RxInv, rx, Pending, ReadsItsFrame
  <1>3. CASE GiveBack
    <2>1. /\ rxOwn' = rxOwn \cup {rx_desc} /\ given' = given + 1 /\ pc = "give" /\ pc' = "resume"
          /\ UNCHANGED <<rx_desc, rxBuf, rxEngine, rxDma, rxFlag, stored>>
      BY <1>3 DEF GiveBack
    <2>2. Holding' /\ ~Holding /\ Head = rx_desc /\ Head' = After(rx_desc, 1, RxN)
      BY <2>1 DEF Holding, Head
    <2>3. Pending' = Pending - 1 /\ Pending > 0
      BY <1>0, <2>1 DEF Pending, RxInv
    <2>4. \A k \in 0..(RxN - 1) : After(Head', k, RxN) = After(rx_desc, k + 1, RxN)
      BY <1>0, <2>2, AfterAfter
    <2>5. rxDma' = After(Head', Pending', RxN)
      <3>1. Pending' \in 0..(RxN - 1) /\ Pending' + 1 = Pending
        BY <1>0, <2>3
      <3> QED
        BY <3>1, <2>1, <2>2, <2>4 DEF RxInv
    <2>6. ASSUME NEW k \in 0..(RxN - 1)
          PROVE  /\ After(Head', k, RxN) \in rxOwn' <=> k >= Pending'
                 /\ k < Pending' => rxBuf'[After(Head', k, RxN)] = given' + 1 + k
      <3>1. CASE k = RxN - 1
        <4>1. After(Head', k, RxN) = rx_desc
          BY <1>0, <2>2, <3>1, AfterRound
        <4> QED
          BY <1>0, <2>1, <2>3, <3>1, <4>1
      <3>2. CASE k < RxN - 1
        <4>1. k + 1 \in 0..(RxN - 1) /\ k + 1 # 0
          BY <1>0, <3>2
        <4>2. /\ After(Head, k + 1, RxN) \in rxOwn <=> k + 1 >= Pending
              /\ k + 1 < Pending => rxBuf[After(Head, k + 1, RxN)] = given + 1 + (k + 1)
          BY <4>1 DEF RxInv
        <4>3. After(Head, k + 1, RxN) # rx_desc
          <5>1. After(rx_desc, 0, RxN) = rx_desc /\ 0 \in 0..(RxN - 1)
            BY <1>0, AfterRound
          <5> QED
            BY <1>0, <2>2, <4>1, <5>1, AfterRound
        <4> QED
          BY <1>0, <2>1, <2>2, <2>3, <2>4, <4>1, <4>2, <4>3
      <3> QED
        BY <1>0, <3>1, <3>2
    <2>7. rxEngine' = "busy" => rxDma' \in rxOwn' /\ rxBuf'[rxDma'] = Partial /\ stored' < MaxFrames
      BY <2>1 DEF RxInv
    <2>8. rxBuf'[rx_desc'] = given'
      <3>1. After(Head, 0, RxN) = rx_desc /\ 0 \in 0..(RxN - 1)
        BY <1>0, <2>2, AfterRound
      <3>2. rxBuf[After(Head, 0, RxN)] = given + 1 + 0
        BY <2>3, <3>1 DEF RxInv
      <3> QED
        BY <1>0, <2>1, <3>1, <3>2
    <2>9. Pending' \in 0..RxN /\ given' > 0 /\ pc' # "give"
      BY <1>0, <2>1, <2>3
    <2>10. (rxFlag' => rxEngine' = "suspended") /\ ReadsItsFrame'
      BY <2>1, <2>8 DEF RxInv, ReadsItsFrame
    <2> QED
      BY <2>5, <2>6, <2>7, <2>9, <2>10 DEF RxInv
  <1>4. CASE Resume
    <2>1. /\ Head' = Head /\ Holding' /\ Holding /\ pc' = "handle"
          /\ UNCHANGED <<rx_desc, rxOwn, rxBuf, rxDma, stored, given>>
      BY <1>4 DEF Resume, Head, Holding
    <2>2. rxEngine' = "busy" => rxEngine = "busy"
      BY <1>4 DEF Resume, Polled
    <2>3. ~rxFlag' /\ (rxEngine = "busy" => rxEngine' = "busy")
      BY <1>4 DEF Resume, Polled, RxInv
    <2> QED
      BY <2>1, <2>2, <2>3 DEF RxInv, Pending, ReadsItsFrame
  <1>5. CASE Handled
    <2>1. /\ Head' = Head /\ ~Holding' /\ pc' = "test" /\ rx_desc' = After(rx_desc, 1, RxN)
          /\ UNCHANGED <<rxOwn, rxBuf, rxEngine, rxFlag, rxDma, stored, given>>
      BY <1>5 DEF Handled, Head, Holding
    <2> QED
      BY <2>1 DEF RxInv, Pending, ReadsItsFrame
  <1>6. CASE RxFetch
    <2>1. /\ Head' = Head /\ Holding' = Holding /\ Pending' = Pending
          /\ UNCHANGED <<pc, rx_desc, rxOwn, rxFlag, rxDma, stored, given>>
      BY <1>6 DEF RxFetch, Head, Holding, Pending
    <2>2. rxEngine = "fetch" /\ ~rxFlag
      BY <1>6 DEF RxFetch, RxInv
    <2>3. CASE rxDma \notin rxOwn
      <3>1. rxEngine' = "late" /\ rxBuf' = rxBuf
        BY <1>6, <2>3 DEF RxFetch
      <3> QED
        BY <2>1, <2>2, <3>1 DEF RxInv, ReadsItsFrame
    <2>4. CASE rxDma \in rxOwn
      <3>1. rxEngine' = "busy" /\ stored < MaxFrames /\ rxBuf' = [rxBuf EXCEPT ![rxDma] = Partial]
        BY <1>6, <2>4 DEF RxFetch
      <3>2. Pending < RxN
        <4>1. 0 \in 0..(RxN - 1) /\ (Pending = RxN => rxDma = After(Head, 0, RxN))
          BY <1>0, AfterRound DEF RxInv
        <4> QED
          BY <1>0, <2>4, <4>1 DEF RxInv
      <3>3. ASSUME NEW k \in 0..(RxN - 1), k < Pending
            PROVE  rxBuf'[After(Head, k, RxN)] = given + 1 + k
        <4>1. After(Head, k, RxN) # rxDma
          BY <2>4, <3>3, <1>0 DEF RxInv
        <4> QED
          BY <1>0, <3>1, <3>3, <4>1 DEF RxInv
      <3>4. rxBuf'[rxDma] = Partial
        BY <1>0, <3>1
      <3>5. ReadsItsFrame'
        <4>1. CASE Holding /\ rx_desc = rxDma
          <5>1. Head = After(rx_desc, 1, RxN) /\ rx_desc = After(Head, RxN - 1, RxN)
            BY <1>0, <4>1, AfterRound DEF Head
          <5>2. Pending = RxN - 1
            BY <1>0, <3>2, <4>1, <5>1, AfterRound DEF RxInv
          <5> QED
            BY <1>0, <2>1, <3>1, <5>2 DEF ReadsItsFrame, Pending
        <4>2. CASE ~Holding
          BY <2>1, <4>2 DEF ReadsItsFrame
        <4>3. CASE rx_desc # rxDma
          BY <1>0, <2>1, <2>2, <3>1, <4>3 DEF RxInv, ReadsItsFrame
        <4> QED
          BY <4>1, <4>2, <4>3
      <3> QED
        BY <2>1, <2>2, <2>4, <3>1, <3>3, <3>4, <3>5 DEF RxInv
    <2> QED
      BY <2>3, <2>4
  <1>7. CASE RxStore
    <2>1. /\ Head' = Head /\ Holding' = Holding /\ Pending' = Pending + 1
          /\ rxBuf' = [rxBuf EXCEPT ![rxDma] = stored + 1] /\ rxOwn' = rxOwn \ {rxDma}
          /\ rxDma' = After(rxDma, 1, RxN) /\ stored' = stored + 1 /\ rxEngine' = "fetch"
          /\ UNCHANGED <<pc, rx_desc, rxFlag, given>>
      BY <1>0, <1>7 DEF RxStore, Head, Holding, Pending
    <2>2. rxEngine = "busy" /\ rxDma \in rxOwn /\ rxBuf[rxDma] = Partial /\ ~rxFlag
      BY <1>7 DEF RxStore, RxInv
    <2>3. Pending \in 0..(RxN - 1)
      <3>1. 0 \in 0..(RxN - 1) /\ (Pending = RxN => rxDma = After(Head, 0, RxN))
        BY <1>0, AfterRound DEF RxInv
      <3> QED
        BY <1>0, <2>2, <3>1 DEF RxInv
    <2>4. rxDma = After(Head, Pending, RxN)
      BY DEF RxInv
    <2>5. rxDma' = After(Head, Pending + 1, RxN)
      <3>1. After(After(Head, Pending, RxN), 1, RxN) = After(Head, Pending + 1, RxN)
        BY <1>0, <2>3 DEF After
      <3> QED
        BY <2>1, <2>4, <3>1
    <2>6. ASSUME NEW k \in 0..(RxN - 1)
          PROVE  /\ After(Head, k, RxN) \in rxOwn' <=> k >= Pending + 1
                 /\ k < Pending + 1 => rxBuf'[After(Head, k, RxN)] = given + 1 + k
      <3>1. CASE k = Pending
        <4>1. After(Head, k, RxN) = rxDma /\ stored = given + k
          BY <1>0, <2>4, <3>1 DEF Pending
        <4> QED
          BY <1>0, <2>1, <2>2, <3>1, <4>1
      <3>2. CASE k # Pending
        <4>1. After(Head, k, RxN) # rxDma
          BY <1>0, <2>3, <2>4, <3>2, AfterRound
        <4>2. After(Head, k, RxN) \in RxSlots
          BY <1>0 DEF After
        <4>3. /\ After(Head, k, RxN) \in rxOwn' <=> After(Head, k, RxN) \in rxOwn
              /\ rxBuf'[After(Head, k, RxN)] = rxBuf[After(Head, k, RxN)]
          BY <1>0, <2>1, <4>1, <4>2
        <4>4. /\ After(Head, k, RxN) \in rxOwn <=> k >= Pending
              /\ k < Pending => rxBuf[After(Head, k, RxN)] = given + 1 + k
          BY DEF RxInv
        <4>5. k \in Int /\ Pending \in Int
          BY <1>0
        <4> QED
          BY <3>2, <4>3, <4>4, <4>5
      <3> QED
        BY <3>1, <3>2
    <2>7. ReadsItsFrame'
      <3>1. CASE Holding /\ rx_desc = rxDma
        <4>1. Head = After(rx_desc, 1, RxN) /\ rx_desc = After(Head, RxN - 1, RxN)
          BY <1>0, <3>1, AfterRound DEF Head
        <4>2. Pending = RxN - 1
          BY <1>0, <2>3, <2>4, <3>1, <4>1, AfterRound
        <4> QED
          BY <1>0, <2>1, <4>2 DEF ReadsItsFrame, Pending
      <3>2. CASE ~Holding
        BY <2>1, <3>2 DEF ReadsItsFrame
      <3>3. CASE Holding /\ rx_desc # rxDma
        <4>1. rxBuf'[rx_desc] = rxBuf[rx_desc]
          BY <1>0, <2>1, <3>3
        <4>2. CASE stored = given + RxN - 1
          BY <1>0, <2>1, <4>2 DEF ReadsItsFrame
        <4>3. CASE stored # given + RxN - 1
          BY <1>0, <2>1, <3>3, <4>1, <4>3 DEF ReadsItsFrame, RxInv
        <4> QED
          BY <4>2, <4>3
      <3> QED
        BY <3>1, <3>2, <3>3
    <2>8. Pending' \in 0..RxN /\ (pc' = "give" => Pending' > 0) /\ (Holding' => given' > 0)
      BY <1>0, <2>1, <2>3 DEF RxInv
    <2> QED
      BY <2>1, <2>2, <2>5, <2>6, <2>7, <2>8 DEF RxInv
  <1>8. CASE RxSuspend
    <2>1. /\ Head' = Head /\ Holding' = Holding /\ Pending' = Pending
          /\ rxEngine' = "suspended" /\ rxEngine # "busy"
          /\ UNCHANGED <<pc, rx_desc, rxOwn, rxBuf, rxDma, stored, given>>
      BY <1>8 DEF RxSuspend, Head, Holding, Pending
    <2> QED
      BY <2>1 DEF RxInv, ReadsItsFrame
  <1>9. CASE Sending \/ TxDma \/ UNCHANGED vars
    BY <1>9, RxUnchanged DEF Sending, SendCopy, SendOwn, SendResume, TxDma, TxFetch, TxSent,
                             TxSuspend, vars
  <1> QED
    BY <1>1, <1>2, <1>3, <1>4, <1>5, <1>6, <1>7, <1>8, <1>9 DEF Next, Receiving, RxDma

-----------------------------------------------------------------------------
(* Neither side waits for the other.                                       *)

(* A descriptor at the head is the engine's exactly when no frame waits.   *)
LEMMA HeadComplete ==
  ASSUME TypeOK, RxInv, bad = {}
  PROVE  Complete(Head) <=> Pending > 0
  <1>1. RxN \in Nat /\ RxN >= 2 /\ Head \in 0..(RxN - 1) /\ Pending \in 0..RxN
    BY MacAssumption, HeadType DEF RxSlots, RxInv
  <1>2. After(Head, 0, RxN) = Head /\ 0 \in 0..(RxN - 1)
    BY <1>1, AfterRound
  <1>3. Head \in rxOwn <=> 0 >= Pending
    BY <1>2 DEF RxInv
  <1> QED
    BY <1>1, <1>3 DEF Complete

LEMMA StopStep == TypeOK /\ RxInv /\ StopInv /\ [Next]_vars => StopInv'
  <1> SUFFICES ASSUME TypeOK, RxInv, StopInv, [Next]_vars
               PROVE  StopInv'
    OBVIOUS
  <1>0. RxN \in Int /\ stored \in Int /\ given \in Int /\ Pending \in Int
    BY MacAssumption DEF TypeOK, Pending
  <1>1. CASE Recv
    BY <1>1 DEF Recv, rx, StopInv, Pending
  <1>2. CASE GetSize
    <2>1. pc = "test" /\ pc' \in {"give", "loop"} /\ UNCHANGED rx
      BY <1>2 DEF GetSize
    <2> QED
      BY <2>1 DEF rx, StopInv, Pending
  <1>3. CASE GiveBack
    <2>1. /\ pc = "give" /\ pc' = "resume" /\ Pending' = Pending - 1
          /\ UNCHANGED <<bad, rxEngine, rxFlag>>
      BY <1>0, <1>3 DEF GiveBack, Pending
    <2> QED
      BY <1>0, <2>1 DEF StopInv
  <1>4. CASE Resume
    <2>1. pc = "resume" /\ pc' = "handle" /\ Pending' = Pending /\ bad' = bad /\ ~rxFlag'
      BY <1>4 DEF Resume, Pending
    <2>2. rxEngine' = IF rxFlag THEN "fetch" ELSE IF rxEngine = "late" THEN "overdue" ELSE rxEngine
      BY <1>4 DEF Resume, Polled
    <2> QED
      BY <1>0, <2>1, <2>2 DEF StopInv
  <1>5. CASE Handled
    <2>1. /\ pc = "handle" /\ pc' = "test" /\ rxEngine # "overdue" /\ Pending' = Pending
          /\ UNCHANGED <<bad, rxEngine, rxFlag>>
      BY <1>5 DEF Handled, Pending
    <2> QED
      BY <2>1 DEF StopInv
  <1>6. CASE RxFetch
    <2>1. Pending' = Pending /\ UNCHANGED <<pc, bad, rxFlag>> /\ rxEngine' \in {"busy", "late"}
      BY <1>6 DEF RxFetch, Pending
    <2>2. rxEngine' = "late" => Pending >= RxN
      <3>1. rxEngine' = "late" => rxDma \notin rxOwn
        BY <1>6 DEF RxFetch
      <3>2. Pending \in 0..RxN /\ rxDma = After(Head, Pending, RxN)
        BY DEF RxInv
      <3>3. Pending < RxN => rxDma \in rxOwn
        <4>1. Pending < RxN => Pending \in 0..(RxN - 1) /\ Pending >= Pending
          BY <1>0, <3>2
        <4> QED
          BY <3>2, <4>1 DEF RxInv
      <3> QED
        BY <1>0, <3>1, <3>3
    <2> QED
      BY <1>0, <2>1, <2>2 DEF StopInv
  <1>7. CASE RxStore
    <2>1. rxEngine' = "fetch" /\ (BadFrames \/ bad' = bad \ {rxDma})
      BY <1>7 DEF RxStore
    <2> QED
      BY <2>1 DEF StopInv
  <1>8. CASE RxSuspend
    <2>1. /\ rxEngine \in {"late", "overdue"} /\ rxEngine' = "suspended" /\ rxFlag'
          /\ Pending' = Pending /\ UNCHANGED <<pc, bad>>
      BY <1>8 DEF RxSuspend, Pending
    <2> QED
      BY <1>0, <2>1 DEF StopInv
  <1>9. CASE Sending \/ TxDma \/ UNCHANGED vars
    <2>1. UNCHANGED <<pc, rx>>
      BY <1>9 DEF Sending, SendCopy, SendOwn, SendResume, TxDma, TxFetch, TxSent, TxSuspend, vars
    <2> QED
      BY <2>1 DEF rx, StopInv, Pending
  <1> QED
    BY <1>1, <1>2, <1>3, <1>4, <1>5, <1>6, <1>7, <1>8, <1>9 DEF Next, Receiving, RxDma

-----------------------------------------------------------------------------
(* Transmission.                                                           *)

LEMMA TxUnchanged ==
  ASSUME TxInv, UNCHANGED tx
  PROVE  TxInv'
  <1>1. /\ TxPending' = TxPending /\ TxHead' = TxHead
        /\ UNCHANGED <<txPc, tx_desc, txOwn, txBuf, txEngine, txDma, wired, onWire, overrun>>
    BY DEF tx, TxPending, TxHead
  <1> QED
    BY <1>1 DEF TxInv

LEMMA TxStep == TypeOK /\ TxInv /\ [Next]_vars => TxInv'
  <1> SUFFICES ASSUME TypeOK, TxInv, [Next]_vars, ~overrun'
               PROVE  TxInv'
    BY DEF TxInv
  <1>0. /\ TxN \in Nat /\ TxN >= 1 /\ TxSlots = 0..(TxN - 1)
        /\ tx_desc \in TxSlots /\ txDma \in TxSlots
        /\ txOwn \subseteq TxSlots /\ txBuf \in [TxSlots -> Int]
        /\ sent \in Nat /\ wired \in Nat
    BY MacAssumption DEF TypeOK, TxSlots
  <1>1. CASE SendCopy
    <2>1. /\ ~overrun /\ tx_desc \notin txOwn /\ txPc = "idle" /\ txPc' = "copy"
          /\ txBuf' = [txBuf EXCEPT ![tx_desc] = Partial]
          /\ UNCHANGED <<tx_desc, txOwn, txEngine, txDma, sent, wired, onWire>>
      BY <1>1 DEF SendCopy
    <2>2. TxHead' = TxHead /\ TxPending' = TxPending
      BY <2>1 DEF TxHead, TxPending
    <2>3. ASSUME NEW k \in 0..(TxN - 1), k < TxPending
          PROVE  txBuf'[After(txDma, k, TxN)] = wired + 1 + k
      <3>1. After(txDma, k, TxN) # tx_desc
        BY <2>1, <2>3 DEF TxInv
      <3> QED
        BY <1>0, <2>1, <2>3, <3>1 DEF TxInv
    <2> QED
      BY <2>1, <2>2, <2>3 DEF TxInv
  <1>2. CASE SendOwn
    <2>1. /\ ~overrun /\ txPc = "copy" /\ txPc' = "resume" /\ sent' = sent + 1
          /\ txBuf' = [txBuf EXCEPT ![tx_desc] = sent + 1] /\ txOwn' = txOwn \cup {tx_desc}
          /\ UNCHANGED <<tx_desc, txEngine, txDma, wired, onWire>>
      BY <1>2 DEF SendOwn
    <2>2. tx_desc \notin txOwn /\ tx_desc = After(txDma, TxPending, TxN) /\ TxPending \in 0..TxN
      BY <2>1 DEF TxInv, TxHead
    <2>3. TxPending \in 0..(TxN - 1)
      <3>1. 0 \in 0..(TxN - 1) /\ (TxPending = TxN => tx_desc = After(txDma, 0, TxN))
        BY <1>0, <2>2, AfterRound
      <3>2. After(txDma, 0, TxN) \in txOwn <=> 0 < TxPending
        BY <2>1, <3>1 DEF TxInv
      <3> QED
        BY <1>0, <2>2, <3>1, <3>2
    <2>4. TxPending' = TxPending + 1 /\ TxPending \in Int
      BY <1>0, <2>1 DEF TxPending
    <2>5. TxHead' = After(txDma', TxPending', TxN)
      <3>1. TxHead' = After(tx_desc, 1, TxN)
        BY <2>1 DEF TxHead
      <3>2. After(After(txDma, TxPending, TxN), 1, TxN) = After(txDma, TxPending + 1, TxN)
        BY <1>0, <2>3 DEF After
      <3> QED
        BY <2>1, <2>2, <2>4, <3>1, <3>2
    <2>6. ASSUME NEW k \in 0..(TxN - 1)
          PROVE  /\ After(txDma', k, TxN) \in txOwn' <=> k < TxPending'
                 /\ k < TxPending' => txBuf'[After(txDma', k, TxN)] = wired' + 1 + k
      <3>1. CASE k = TxPending
        <4>1. After(txDma', k, TxN) = tx_desc /\ sent = wired + k
          BY <1>0, <2>1, <2>2, <3>1 DEF TxPending
        <4> QED
          BY <1>0, <2>1, <2>4, <3>1, <4>1
      <3>2. CASE k # TxPending
        <4>1. After(txDma, k, TxN) # tx_desc
          BY <1>0, <2>2, <2>3, <3>2, AfterRound
        <4>2. After(txDma, k, TxN) \in TxSlots
          BY <1>0 DEF After
        <4>3. /\ After(txDma, k, TxN) \in txOwn' <=> After(txDma, k, TxN) \in txOwn
              /\ txBuf'[After(txDma, k, TxN)] = txBuf[After(txDma, k, TxN)]
          BY <1>0, <2>1, <4>1, <4>2
        <4>4. /\ After(txDma, k, TxN) \in txOwn <=> k < TxPending
              /\ k < TxPending => txBuf[After(txDma, k, TxN)] = wired + 1 + k
          BY <2>1 DEF TxInv
        <4>5. k < TxPending' <=> k < TxPending
          BY <2>4, <3>2
        <4> QED
          BY <2>1, <4>3, <4>4, <4>5
      <3> QED
        BY <3>1, <3>2
    <2>7. TxPending' \in 0..TxN
      BY <1>0, <2>3, <2>4
    <2>8. (txEngine' = "busy" => txDma' \in txOwn') /\ onWire' = wired'
      BY <2>1 DEF TxInv
    <2> QED
      BY <2>1, <2>5, <2>6, <2>7, <2>8 DEF TxInv
  <1>3. CASE SendResume
    <2>1. /\ ~overrun /\ txPc = "resume" /\ txPc' = "idle" /\ tx_desc' = After(tx_desc, 1, TxN)
          /\ UNCHANGED <<txOwn, txBuf, txDma, sent, wired, onWire>>
      BY <1>3 DEF SendResume
    <2>2. TxHead' = TxHead /\ TxPending' = TxPending
      BY <2>1 DEF TxHead, TxPending
    <2>3. txEngine' = "busy" => txEngine = "busy"
      BY <1>3 DEF SendResume, Polled
    <2> QED
      BY <2>1, <2>2, <2>3 DEF TxInv
  <1>4. CASE TxFetch \/ TxSuspend
    <2>1. /\ ~overrun /\ (txEngine' = "busy" => txDma \in txOwn)
          /\ UNCHANGED <<txPc, tx_desc, txOwn, txBuf, txDma, sent, wired, onWire>>
      BY <1>4 DEF TxFetch, TxSuspend
    <2>2. TxHead' = TxHead /\ TxPending' = TxPending
      BY <2>1 DEF TxHead, TxPending
    <2> QED
      BY <2>1, <2>2 DEF TxInv
  <1>5. CASE TxSent
    <2>1. /\ ~overrun /\ txDma \in txOwn /\ onWire' = txBuf[txDma] /\ wired' = wired + 1
          /\ txOwn' = txOwn \ {txDma} /\ txDma' = After(txDma, 1, TxN) /\ txEngine' = "fetch"
          /\ UNCHANGED <<txPc, tx_desc, txBuf, sent>>
      BY <1>5 DEF TxSent, TxInv
    <2>2. TxPending' = TxPending - 1 /\ TxHead' = TxHead /\ TxPending \in Int
      BY <1>0, <2>1 DEF TxPending, TxHead
    <2>3. After(txDma, 0, TxN) = txDma /\ 0 \in 0..(TxN - 1)
      BY <1>0, AfterRound
    <2>4. TxPending \in 1..TxN /\ txBuf[txDma] = wired + 1
      <3>1. /\ txDma \in txOwn <=> 0 < TxPending
            /\ 0 < TxPending => txBuf[txDma] = wired + 1 + 0
        BY <2>1, <2>3 DEF TxInv
      <3> QED
        BY <1>0, <2>1, <3>1 DEF TxInv
    <2>5. \A k \in 0..(TxN - 1) : After(txDma', k, TxN) = After(txDma, k + 1, TxN)
      BY <1>0, <2>1, AfterAfter
    <2>6. TxHead' = After(txDma', TxPending', TxN)
      <3>1. TxPending' \in 0..(TxN - 1) /\ TxPending' + 1 = TxPending
        BY <1>0, <2>2, <2>4
      <3> QED
        BY <2>1, <2>2, <2>5, <3>1 DEF TxInv
    <2>7. ASSUME NEW k \in 0..(TxN - 1)
          PROVE  /\ After(txDma', k, TxN) \in txOwn' <=> k < TxPending'
                 /\ k < TxPending' => txBuf'[After(txDma', k, TxN)] = wired' + 1 + k
      <3>1. CASE k = TxN - 1
        <4>1. After(txDma', k, TxN) = txDma
          BY <1>0, <2>1, <3>1, AfterRound
        <4> QED
          BY <1>0, <2>1, <2>2, <2>4, <3>1, <4>1
      <3>2. CASE k < TxN - 1
        <4>1. k + 1 \in 0..(TxN - 1) /\ k + 1 # 0
          BY <1>0, <3>2
        <4>2. After(txDma, k + 1, TxN) # txDma
          BY <1>0, <2>3, <4>1, AfterRound
        <4>3. /\ After(txDma, k + 1, TxN) \in txOwn <=> k + 1 < TxPending
              /\ k + 1 < TxPending => txBuf[After(txDma, k + 1, TxN)] = wired + 1 + (k + 1)
          BY <2>1, <4>1 DEF TxInv
        <4>4. /\ k < TxPending' <=> k + 1 < TxPending
              /\ wired + 1 + (k + 1) = wired' + 1 + k
          BY <1>0, <2>1, <2>2
        <4> QED
          BY <2>1, <2>5, <4>2, <4>3, <4>4
      <3> QED
        BY <1>0, <3>1, <3>2
    <2>8. txPc' = "copy" => tx_desc' \notin txOwn'
      BY <2>1 DEF TxInv
    <2>9. TxPending' \in 0..TxN /\ onWire' = wired'
      BY <1>0, <2>1, <2>2, <2>4
    <2> QED
      BY <2>1, <2>6, <2>7, <2>8, <2>9 DEF TxInv
  <1>6. CASE Receiving \/ RxDma \/ UNCHANGED vars
    BY <1>6, TxUnchanged DEF Receiving, Recv, GetSize, GiveBack, Resume, Handled, RxDma, RxFetch,
                             RxStore, RxSuspend, vars
  <1> QED
    BY <1>1, <1>2, <1>3, <1>4, <1>5, <1>6 DEF Next, Sending, TxDma

-----------------------------------------------------------------------------
LEMMA InitIInv == Init => IInv
  <1> SUFFICES ASSUME Init PROVE IInv
    OBVIOUS
  <1> USE MacAssumption
  <1>1. TypeOK /\ CopyBound
    <2>1. /\ 0 \in RxSlots /\ 0 \in TxSlots
          /\ [s \in RxSlots |-> Nothing] \in [RxSlots -> Int]
          /\ [s \in TxSlots |-> Nothing] \in [TxSlots -> Int]
      BY DEF RxSlots, TxSlots, Nothing
    <2>2. rxBuf \in [RxSlots -> Int] /\ txBuf \in [TxSlots -> Int]
      BY <2>1 DEF Init
    <2>3. MaxFrames \in Nat /\ MaxSends \in Nat
      OBVIOUS
    <2>4. /\ 0 \in 0..MaxFrames /\ 0 \in 0..MaxSends /\ 0 \in Nat /\ 0 \in Int
      BY <2>3
    <2>5. stored \in 0..MaxFrames /\ given \in 0..MaxFrames /\ sent \in 0..MaxSends
      BY <2>4 DEF Init
    <2>6. wired \in Nat /\ onWire \in Int
      BY DEF Init
    <2> QED
      BY <2>1, <2>2, <2>5, <2>6 DEF Init, TypeOK, CopyBound, Points, Engine
  <1>2. RxInv
    <2>1. Pending = 0 /\ Head = 0 /\ ~Holding /\ 0 \in 0..(RxN - 1)
      BY DEF Init, Pending, Head, Holding
    <2>2. After(0, 0, RxN) = 0 /\ \A k \in 0..(RxN - 1) : After(0, k, RxN) \in RxSlots
      BY DEF After, RxSlots
    <2> QED
      BY <2>1, <2>2 DEF Init, RxInv, ReadsItsFrame
  <1>3. TxInv
    <2>1. TxPending = 0 /\ TxHead = 0 /\ After(0, 0, TxN) = 0
      BY DEF Init, TxPending, TxHead, After
    <2> QED
      BY <2>1 DEF Init, TxInv
  <1>4. StopInv
    BY DEF Init, StopInv
  <1> QED
    BY <1>1, <1>2, <1>3, <1>4 DEF IInv

(* The invariant holds, for rings of any size. *)
THEOREM Inductive == Spec => []IInv
  <1>1. IInv /\ [Next]_vars => IInv'
    BY Types, RxStep, StopStep, TxStep DEF IInv
  <1> QED
    BY InitIInv, <1>1, PTL DEF Spec

(* Every variable keeps its type. *)
THEOREM TypeCorrect == Spec => []TypeOK
  BY Inductive, PTL DEF IInv

(* NetReceive is given the n-th frame the n-th time, and its buffer is only *)
(* written over by the frame RxN after it (mac9260_recv).                  *)
THEOREM ReceivesItsFrame == Spec => []ReadsItsFrame
  <1>1. IInv => ReadsItsFrame
    BY DEF IInv, RxInv
  <1> QED
    BY <1>1, Inductive, PTL

(* Frames go on the wire whole and in the order of mac9260_send, unless a   *)
(* frame is sent with the ring full.                                       *)
THEOREM SendsInOrder == Spec => []SentInOrder
  <1>1. IInv => SentInOrder
    BY DEF IInv, TxInv, SentInOrder
  <1> QED
    BY <1>1, Inductive, PTL

(* The receive engine never stops where mac9260_recv finds neither its flag *)
(* to look at nor a frame to give back (mac9260_recv), if no frame is bad. *)
THEOREM EngineNeverStarves == Spec => []NeverStarved
  <1>1. IInv => NeverStarved
    <2> SUFFICES ASSUME TypeOK, RxInv, StopInv, rxEngine = "suspended", ~BadFrames
                 PROVE  rxFlag /\ (pc = "resume" \/ Complete(Head))
      BY DEF IInv, NeverStarved
    <2>1. rxFlag /\ bad = {} /\ (pc # "resume" => Pending >= RxN - 1)
      BY DEF StopInv
    <2>2. pc # "resume" => Pending > 0
      BY <2>1, MacAssumption DEF RxInv
    <2> QED
      BY <2>1, <2>2, HeadComplete
  <1> QED
    BY <1>1, Inductive, PTL

-----------------------------------------------------------------------------
(* The refinement of FrameRing.                                            *)

LEMMA RingInit == Init => Ring!Init
  BY DEF Init, Ring!Init, Held, Holding, Nothing, Ring!None

LEMMA RingStep == IInv /\ IInv' /\ [Next]_vars => [Ring!Next]_(Ring!ringVars)
  <1> SUFFICES ASSUME IInv, IInv', [Next]_vars
               PROVE  Ring!Next \/ UNCHANGED <<stored, given, Held>>
    BY DEF Ring!ringVars
  <1>0. /\ RxN \in Nat /\ RxN >= 2 /\ RxSlots = 0..(RxN - 1)
        /\ rx_desc \in RxSlots /\ rxDma \in RxSlots /\ Head \in RxSlots
        /\ rxBuf \in [RxSlots -> Int]
        /\ stored \in Nat /\ given \in Nat /\ Pending \in 0..RxN
    <2>1. TypeOK /\ Pending \in 0..RxN
      BY DEF IInv, RxInv
    <2>2. Head \in RxSlots
      BY <2>1, HeadType
    <2> QED
      BY <2>1, <2>2, MacAssumption DEF TypeOK, RxSlots
  <1> USE DEF Nothing, Partial, Ring!None, Ring!Spoilt
  <1>1. /\ Holding => Held # Nothing
        /\ ~Holding => Held = Nothing
    BY <1>0 DEF Held, IInv, RxInv
  <1>2. CASE GiveBack
    <2>1. ~Holding /\ given < stored /\ given' = given + 1 /\ stored' = stored
      BY <1>0, <1>2 DEF GiveBack, Holding, IInv, RxInv, Pending
    <2>2. Holding' /\ rx_desc' = rx_desc /\ rxBuf' = rxBuf
      BY <1>2 DEF GiveBack, Holding
    <2>3. rxBuf[rx_desc] = given + 1
      <3>1. After(Head, 0, RxN) = rx_desc /\ 0 \in 0..(RxN - 1)
        BY <1>0, <2>1, AfterRound DEF Head
      <3>2. 0 < Pending
        BY <1>0, <2>1 DEF Pending
      <3>3. rxBuf[After(Head, 0, RxN)] = given + 1 + 0
        BY <3>1, <3>2 DEF IInv, RxInv
      <3> QED
        BY <1>0, <3>1, <3>3
    <2>4. Held' = given + 1
      BY <2>1, <2>2, <2>3 DEF Held
    <2>5. Ring!Take
      BY <1>1, <2>1, <2>4 DEF Ring!Take
    <2> QED
      BY <2>5 DEF Ring!Next
  <1>3. CASE Handled
    <2>1. Holding /\ ~Holding' /\ UNCHANGED <<stored, given>>
      BY <1>3 DEF Handled, Holding
    <2>2. Held # Nothing /\ Held' = Nothing
      BY <1>1, <2>1 DEF Held
    <2>3. Ring!Done
      BY <2>1, <2>2 DEF Ring!Done
    <2> QED
      BY <2>3 DEF Ring!Next
  <1>4. CASE RxFetch
    <2>1. Holding' = Holding /\ UNCHANGED <<rx_desc, rxOwn, stored, given>> /\ rxEngine # "busy"
      BY <1>4 DEF RxFetch, Holding
    <2>2. CASE Holding /\ rxBuf'[rx_desc] # rxBuf[rx_desc]
      <3>1. rxDma \in rxOwn /\ rxBuf' = [rxBuf EXCEPT ![rxDma] = Partial]
        BY <1>4, <2>2 DEF RxFetch
      <3>2. rxDma = rx_desc
        BY <1>0, <2>2, <3>1
      <3>3. Pending = RxN - 1
        <4>1. rx_desc = After(Head, RxN - 1, RxN)
          BY <1>0, <2>2, AfterRound DEF Head
        <4>2. rxDma = After(Head, Pending, RxN)
          BY DEF IInv, RxInv
        <4>3. Pending # RxN
          <5>1. 0 \in 0..(RxN - 1) /\ (Pending = RxN => rxDma = After(Head, 0, RxN))
            BY <1>0, <4>2, AfterRound
          <5>2. After(Head, 0, RxN) \in rxOwn <=> 0 >= Pending
            BY <5>1 DEF IInv, RxInv
          <5> QED
            BY <1>0, <3>1, <5>1, <5>2
        <4> QED
          BY <1>0, <3>2, <4>1, <4>2, <4>3, AfterRound
      <3>4. rxBuf'[rx_desc] = Partial
        BY <1>0, <3>1, <3>2
      <3>5. Held' = Partial
        BY <1>0, <2>1, <2>2, <3>4 DEF Held
      <3>6. Ring!Spoil
        BY <1>0, <1>1, <2>1, <2>2, <3>3, <3>5 DEF Ring!Spoil, Pending
      <3> QED
        BY <3>6 DEF Ring!Next
    <2>3. CASE ~(Holding /\ rxBuf'[rx_desc] # rxBuf[rx_desc])
      BY <2>1, <2>3 DEF Held
    <2> QED
      BY <2>2, <2>3
  <1>5. CASE RxStore
    <2>1. Holding' = Holding /\ UNCHANGED <<rx_desc, given>> /\ stored' = stored + 1
      BY <1>5 DEF RxStore, Holding
    <2>2. rxBuf' = [rxBuf EXCEPT ![rxDma] = stored + 1] /\ rxBuf[rxDma] = Partial
      BY <1>5 DEF RxStore, IInv, RxInv
    <2>3. rxBuf'[rx_desc] = given <=> rxBuf[rx_desc] = given
      <3>1. CASE rx_desc = rxDma
        BY <1>0, <2>2, <3>1 DEF Pending
      <3>2. CASE rx_desc # rxDma
        BY <1>0, <2>2, <3>2
      <3> QED
        BY <3>1, <3>2
    <2>4. Held' = Held
      BY <2>1, <2>3 DEF Held
    <2>5. stored - given < RxN
      <3>1. Pending' \in 0..RxN
        BY DEF IInv, RxInv
      <3> QED
        BY <1>0, <2>1, <3>1 DEF Pending
    <2>6. Ring!Put
      BY <2>1, <2>4, <2>5 DEF Ring!Put
    <2> QED
      BY <2>6 DEF Ring!Next
  <1>6. CASE Recv \/ GetSize \/ Resume \/ RxSuspend \/ Sending \/ TxDma \/ UNCHANGED vars
    <2>1. Holding' = Holding /\ UNCHANGED <<rx_desc, rxBuf, stored, given>>
      BY <1>6 DEF Recv, GetSize, Resume, RxSuspend, Sending, SendCopy, SendOwn, SendResume, TxDma,
                  TxFetch, TxSent, TxSuspend, vars, rx, Holding
    <2> QED
      BY <2>1 DEF Held
  <1> QED
    BY <1>2, <1>3, <1>4, <1>5, <1>6 DEF Next, Receiving, RxDma

(* Reception is a ring of RxN buffers: every step of the driver and of the  *)
(* engine is one of FrameRing or changes nothing there.                    *)
THEOREM ReceptionIsRing == Spec => Ring!Spec
  BY Inductive, RingInit, RingStep, PTL DEF Spec, Ring!Spec
=============================================================================
