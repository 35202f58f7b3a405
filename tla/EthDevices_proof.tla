-------------------------- MODULE EthDevices_proof --------------------------
(***************************************************************************)
(* Proofs about EthDevices, for any number of devices and any number of    *)
(* calls of NetStartAgain in a pass: types, and that the ring is not found *)
(* to have been gone round before every device has been tried, and no      *)
(* device is started on twice.                                             *)
(***************************************************************************)
EXTENDS EthDevices, TLAPS

LEMMA AfterLemma ==
  ASSUME NEW d \in Devices, NEW i \in 0..N
  PROVE  After(d, i) \in Devices
  BY EthAssumption DEF After, Devices

(* NetStartAgain leaves well-typed state. *)
LEMMA StartAgainTypes ==
  ASSUME TypeOK, NEW state \in {"CONTINUE", "RESTART", "SUCCESS", "FAIL"}, NetStartAgain(state)
  PROVE  /\ NetState' \in {"CONTINUE", "RESTART", "SUCCESS", "FAIL"}
         /\ handler' \in {"none", "protocol", "startAgain"}
         /\ eth_current' \in Devices
         /\ first_failed' \in Devices \cup {NoDevice}
         /\ NetRestartWrap' \in BOOLEAN
         /\ tried' \subseteq Devices
  <1>1. CASE netretry = "no"
    BY <1>1 DEF NetStartAgain, TypeOK, eth
  <1>2. CASE netretry # "no"
    <2> DEFINE next == After(eth_current, 1)
    <2>1. PICK k \in 0..N :
            /\ first_failed' = FirstFailed(eth_current)
            /\ eth_current' = After(next, k)
            /\ NetRestartWrap' = FALSE
            /\ tried' = tried \cup {eth_current} \cup Failed(next, k)
            /\ NetState' \in {"RESTART", "FAIL", state}
            /\ handler' \in {"startAgain", handler}
      BY <1>2 DEF NetStartAgain
    <2>2. next \in Devices
      BY AfterLemma, EthAssumption DEF TypeOK
    <2> HIDE DEF next
    <2>3. After(next, k) \in Devices /\ Failed(next, k) \subseteq Devices
      <3>1. k \in 0..N /\ \A i \in 0..(k - 1) : i \in 0..N
        BY <2>1, EthAssumption
      <3>2. \A i \in 0..N : After(next, i) \in Devices
        BY <2>2, AfterLemma
      <3> QED
        BY <3>1, <3>2 DEF Failed
    <2> QED
      BY <2>1, <2>3 DEF TypeOK, FirstFailed
  <1> QED
    BY <1>1, <1>2

(* If NetStartAgain finds the ring gone round every device has been tried;  *)
(* if not, it is on the way.                                                *)
LEMMA StartAgainRound ==
  ASSUME TypeOK, NEW state, NetStartAgain(state), netretry # "no", ~NetRestartWrap,
         NetRestarted => OnTheWay \/ tried = Devices
  PROVE  /\ ~NetRestartWrap'
         /\ tried' = Devices \/ (NetState' = "RESTART" /\ OnTheWay')
         /\ NetState' = "FAIL" => tried' = Devices
         /\ NetState' = state \/ NetState' \in {"RESTART", "FAIL"}
  <1> DEFINE next == After(eth_current, 1)
             first == FirstFailed(eth_current)
  <1>1. PICK k \in 0..N :
          /\ first_failed' = first
          /\ eth_current' = After(next, k)
          /\ NetRestartWrap' = FALSE
          /\ tried' = tried \cup {eth_current} \cup Failed(next, k)
          /\ ~WentRound(first, eth_current, k) => NetState' = "RESTART"
          /\ NetState' \in {"RESTART", "FAIL", state}
    BY DEF NetStartAgain
  <1>2. eth_current \in Devices /\ tried \subseteq Devices /\ N \in Nat \ {0}
    BY EthAssumption DEF TypeOK
  <1>3. tried' \subseteq Devices
    <2>1. next \in Devices
      BY <1>2, AfterLemma
    <2> QED
      BY <1>1, <1>2, <2>1, AfterLemma DEF Failed
  <1>4. CASE tried = Devices
    BY <1>1, <1>3, <1>4
  <1>5. CASE tried # Devices
    <2>1. first \in Devices
      BY <1>2, <1>5 DEF FirstFailed, OnTheWay
    <2>2. PICK n \in 0..(N - 1) :
            /\ eth_current = After(first, n)
            /\ \A j \in 0..(n - 1) : After(first, j) \in tried
      <3>1. CASE NetRestarted
        BY <1>5, <3>1 DEF OnTheWay, FirstFailed
      <3>2. CASE ~NetRestarted
        <4>1. eth_current = After(first, 0)
          BY <1>2, <3>2 DEF FirstFailed, After, Devices
        <4> QED
          BY <1>2, <4>1
      <3> QED
        BY <3>1, <3>2
    <2> HIDE DEF first
    <2>3. \A i \in 0..k : n + 1 + i < N => After(next, i) = After(first, n + 1 + i)
      BY <1>2, <2>1, <2>2 DEF After, Devices
    <2>4. \A j \in 0..(n + k) : j < N => After(first, j) \in tried'
      <3> SUFFICES ASSUME NEW j \in 0..(n + k), j < N PROVE After(first, j) \in tried'
        OBVIOUS
      <3>1. CASE j < n
        BY <1>1, <2>2, <3>1
      <3>2. CASE j = n
        BY <1>1, <2>2, <3>2
      <3>3. CASE j > n
        <4>1. j - n - 1 \in 0..(k - 1) /\ n + 1 + (j - n - 1) = j
          BY <2>2, <3>3
        <4>2. After(next, j - n - 1) = After(first, j)
          BY <1>2, <2>1, <2>2, <3>3, <4>1 DEF After, Devices
        <4>3. After(first, j) \in Failed(next, k)
          BY <4>1, <4>2 DEF Failed
        <4> QED
          BY <1>1, <4>3
      <3> QED
        BY <3>1, <3>2, <3>3
    <2>5. CASE n + 1 + k < N
      <3>1. eth_current' = After(first, n + 1 + k)
        BY <1>1, <2>3, <2>5
      <3>2. \A i \in 0..k : After(next, i) # first
        <4> SUFFICES ASSUME NEW i \in 0..k PROVE After(next, i) # first
          OBVIOUS
        <4>1. After(next, i) = After(first, n + 1 + i) /\ n + 1 + i \in 1..(N - 1)
          <5>1. n + 1 + i < N /\ n + 1 + i \in 1..(N - 1)
            BY <1>1, <1>2, <2>2, <2>5
          <5> QED
            BY <2>3, <5>1
        <4> QED
          BY <1>2, <2>1, <4>1 DEF After, Devices
      <3>3. next = After(next, 0)
        BY <1>2 DEF After, Devices
      <3>4. ~WentRound(first, eth_current, k)
        BY <3>2, <3>3 DEF WentRound, Passed
      <3>5. OnTheWay'
        <4>1. n + 1 + k \in 1..(N - 1) /\ (n + 1 + k) - 1 = n + k
          BY <1>1, <1>2, <2>2, <2>5
        <4>2. \A j \in 0..((n + 1 + k) - 1) : After(first, j) \in tried'
          BY <1>1, <1>2, <2>2, <2>4, <2>5, <4>1
        <4> QED
          BY <1>1, <2>1, <3>1, <4>1, <4>2 DEF OnTheWay
      <3> QED
        BY <1>1, <3>4, <3>5
    <2>6. CASE n + 1 + k >= N
      <3>1. \A e \in Devices : \E j \in 0..(N - 1) : e = After(first, j)
        <4> SUFFICES ASSUME NEW e \in Devices PROVE \E j \in 0..(N - 1) : e = After(first, j)
          OBVIOUS
        <4>1. CASE e >= first
          <5>1. e - first \in 0..(N - 1) /\ e = After(first, e - first)
            BY <1>2, <2>1, <4>1 DEF After, Devices
          <5> QED
            BY <5>1
        <4>2. CASE e < first
          <5>1. e - first + N \in 0..(N - 1) /\ e = After(first, e - first + N)
            BY <1>2, <2>1, <4>2 DEF After, Devices
          <5> QED
            BY <5>1
        <4> QED
          BY <2>1, <4>1, <4>2 DEF Devices
      <3>2. \A j \in 0..(N - 1) : After(first, j) \in tried'
        BY <2>2, <2>4, <2>6, <1>2
      <3> QED
        BY <1>1, <1>3, <3>1, <3>2
    <2> QED
      BY <1>2, <2>2, <2>5, <2>6
  <1> QED
    BY <1>4, <1>5

(* If NetStartAgain has not gone round, eth_current is further from         *)
(* first_failed than all devices S behind it or at it, which come again     *)
(* only after first_failed.                                                 *)
LEMMA StartAgainBehind ==
  ASSUME TypeOK, NEW state \in {"CONTINUE", "SUCCESS"}, NetStartAgain(state),
         netretry # "no", NEW S,
         IF NetRestarted
         THEN /\ first_failed \in Devices
              /\ \E n \in 1..(N - 1) : /\ eth_current = After(first_failed, n)
                                      /\ S \subseteq {After(first_failed, j) : j \in 0..n}
         ELSE S \subseteq {eth_current}
  PROVE  /\ NetState' = "RESTART" =>
              /\ first_failed' \in Devices
              /\ \E n \in 1..(N - 1) : /\ eth_current' = After(first_failed', n)
                                       /\ S \subseteq {After(first_failed', j) : j \in 0..(n - 1)}
         /\ NetState' \in {"RESTART", "FAIL"} \/ handler' = "startAgain"
  <1> DEFINE next == After(eth_current, 1)
             first == FirstFailed(eth_current)
  <1>1. PICK k \in 0..N :
          /\ first_failed' = first
          /\ eth_current' = After(next, k)
          /\ NetState' = "RESTART" => ~WentRound(first, eth_current, k)
          /\ NetState' \in {"RESTART", "FAIL"} \/ handler' = "startAgain"
    BY DEF NetStartAgain
  <1>2. eth_current \in Devices /\ N \in Nat \ {0}
    BY EthAssumption DEF TypeOK
  <1>3. PICK n \in 0..(N - 1) :
          /\ first \in Devices
          /\ eth_current = After(first, n)
          /\ S \subseteq {After(first, j) : j \in 0..n}
    <2>1. CASE NetRestarted
      <3>1. PICK n \in 1..(N - 1) : /\ eth_current = After(first_failed, n)
                                   /\ S \subseteq {After(first_failed, j) : j \in 0..n}
        BY <2>1
      <3> QED
        BY <1>2, <2>1, <3>1 DEF FirstFailed
    <2>2. CASE ~NetRestarted
      <3>1. first = eth_current /\ After(first, 0) = eth_current
        BY <1>2, <2>2 DEF FirstFailed, After, Devices
      <3>2. S \subseteq {After(first, j) : j \in 0..0}
        BY <2>2, <3>1
      <3> QED
        BY <1>2, <3>1, <3>2
    <2> QED
      BY <2>1, <2>2
  <1> HIDE DEF first
  <1>4. \A i \in 0..k : n + 1 + i <= N => 
          After(next, i) = IF n + 1 + i = N THEN first ELSE After(first, n + 1 + i)
    BY <1>2, <1>3 DEF After, Devices
  <1>5. ASSUME NetState' = "RESTART"
        PROVE  /\ first_failed' \in Devices
               /\ \E m \in 1..(N - 1) : /\ eth_current' = After(first_failed', m)
                                        /\ S \subseteq {After(first_failed', j) : j \in 0..(m - 1)}
    <2>1. n + 1 + k < N
      <3> SUFFICES ASSUME n + 1 + k >= N PROVE WentRound(first, eth_current, k)
        BY <1>1, <1>2, <1>3, <1>5
      <3>1. N - n - 1 \in 0..k /\ After(next, N - n - 1) = first
        BY <1>1, <1>2, <1>3, <1>4
      <3>2. CASE N - n - 1 = 0
        <4>1. next = After(next, 0)
          BY <1>2 DEF After, Devices
        <4> QED
          BY <3>1, <3>2, <4>1 DEF WentRound
      <3>3. CASE N - n - 1 # 0
        <4>1. N - n - 1 \in 1..k
          BY <1>2, <1>3, <3>1, <3>3
        <4> QED
          BY <3>1, <4>1 DEF WentRound, Passed
      <3> QED
        BY <3>2, <3>3
    <2>2. n + 1 + k \in 1..(N - 1) /\ n \in 0..((n + 1 + k) - 1)
      BY <1>1, <1>2, <1>3, <2>1
    <2>3. eth_current' = After(first, n + 1 + k)
      BY <1>1, <1>2, <1>3, <1>4, <2>1
    <2>4. S \subseteq {After(first, j) : j \in 0..((n + 1 + k) - 1)}
      <3>1. \A j \in 0..n : j \in 0..((n + 1 + k) - 1)
        BY <1>2, <1>3, <2>2
      <3> QED
        BY <1>3, <3>1
    <2> QED
      BY <1>1, <1>3, <2>2, <2>3, <2>4
  <1> QED
    BY <1>1, <1>5

-----------------------------------------------------------------------------
LEMMA InitLemma == Init => IInv
  <1>0. 0 \in 0..Burst
    BY EthAssumption
  <1>1. Init => TypeOK
    BY <1>0 DEF Init, TypeOK, Phases
  <1>2. Init => RoundInv
    BY DEF Init, RoundInv
  <1>3. Init => StartedInv
    BY DEF Init, StartedInv
  <1> QED
    BY <1>1, <1>2, <1>3 DEF IInv

(* Every step keeps the types. *)
LEMMA TypesLemma == TypeOK /\ [Next]_vars => TypeOK'
  <1> SUFFICES ASSUME TypeOK, [Next]_vars PROVE TypeOK'
    OBVIOUS
  <1> USE DEF TypeOK
  <1>1. CASE Command
    <2>1. PICK act \in Devices, k \in 0..N :
            /\ eth_current' = After(act, k)
            /\ NetRestartWrap' = (NetRestartWrap \/ first_failed \in Passed(act, k))
            /\ tried' = Failed(act, k)
      BY <1>1 DEF Command
    <2>2. \A i \in 0..N : After(act, i) \in Devices
      BY <2>1, AfterLemma
    <2>3. \A i \in 0..(k - 1) : i \in 0..N
      BY <2>1, EthAssumption
    <2>4. eth_current' \in Devices /\ tried' \subseteq Devices
      BY <2>1, <2>2, <2>3 DEF Failed
    <2>5. NetRestartWrap' \in BOOLEAN
      BY <2>1
    <2>6. tangled' \in BOOLEAN
      BY <1>1, <2>5 DEF Command
    <2> QED
      BY <1>1, <2>4, <2>5, <2>6 DEF Command, Phases, env
  <1>2. CASE Start
    <2>1. CASE eth_current \in addressed
      BY <1>2, <2>1, EthAssumption DEF Start, Phases, env, eth
    <2>2. CASE eth_current \notin addressed
      <3>1. NetStartAgain("CONTINUE")
        BY <1>2, <2>2 DEF Start
      <3>2. /\ NetState' \in {"CONTINUE", "RESTART", "SUCCESS", "FAIL"}
            /\ handler' \in {"none", "protocol", "startAgain"}
            /\ eth_current' \in Devices
            /\ first_failed' \in Devices \cup {NoDevice}
            /\ NetRestartWrap' \in BOOLEAN
            /\ tried' \subseteq Devices
        BY <3>1, StartAgainTypes
      <3> QED
        BY <1>2, <2>2, <3>2, EthAssumption DEF Start, Phases, env
    <2> QED
      BY <2>1, <2>2
  <1>3. CASE GiveUp
    <2>1. /\ NetState' \in {"CONTINUE", "RESTART", "SUCCESS", "FAIL"}
          /\ handler' \in {"none", "protocol", "startAgain"}
          /\ eth_current' \in Devices
          /\ first_failed' \in Devices \cup {NoDevice}
          /\ NetRestartWrap' \in BOOLEAN
          /\ tried' \subseteq Devices
      BY <1>3, StartAgainTypes DEF GiveUp
    <2>2. calls' \in 0..Burst
      BY <1>3, EthAssumption DEF GiveUp
    <2> QED
      BY <1>3, <2>1, <2>2 DEF GiveUp, env
  <1>4. CASE Succeed
    BY <1>4 DEF Succeed, env, eth
  <1>5. CASE StartAgainTimeout
    BY <1>5 DEF StartAgainTimeout, Phases, env, eth
  <1>6. CASE PassEnds
    BY <1>6 DEF PassEnds, Phases, env, eth
  <1>7. CASE Switch
    BY <1>7, EthAssumption DEF Switch, Phases, env, eth
  <1>8. CASE UNCHANGED vars
    BY <1>8 DEF vars
  <1> QED
    BY <1>1, <1>2, <1>3, <1>4, <1>5, <1>6, <1>7, <1>8 DEF Next

(* Every step keeps the account of the devices tried. *)
LEMMA RoundLemma == IInv /\ [Next]_vars => RoundInv'
  <1> SUFFICES ASSUME TypeOK, RoundInv, [Next]_vars,
                      (netretry # "no" /\ ~tangled /\ phase # "idle")'
               PROVE  /\ ~NetRestartWrap'
                      /\ GaveUp' => OnTheWay' \/ tried' = Devices
                      /\ phase' \in {"loop", "switch"} /\ (NetState' = "FAIL" \/ Waiting')
                           => tried' = Devices
                      /\ phase' = "loop" /\ NetState' \in {"RESTART", "FAIL"} => calls' > 0
    BY DEF IInv, RoundInv, Devices
  <1>1. CASE Command
    BY <1>1 DEF Command, GaveUp
  <1>2. CASE Start
    <2>1. netretry # "no" /\ ~tangled /\ phase = "start"
      BY <1>2 DEF Start, env
    <2>2. ~NetRestartWrap /\ (NetRestarted => OnTheWay \/ tried = Devices)
      BY <2>1 DEF RoundInv, GaveUp
    <2>3. CASE eth_current \in addressed
      <3>1. tried \subseteq tried' /\ tried' \subseteq Devices
        BY <1>2, <2>3 DEF Start, TypeOK
      <3>2. OnTheWay => OnTheWay'
        BY <1>2, <2>3, <3>1 DEF Start, OnTheWay, eth, After, Devices
      <3>3. tried = Devices => tried' = Devices
        BY <3>1
      <3> QED
        BY <1>2, <2>2, <2>3, <3>2, <3>3 DEF Start, GaveUp, Waiting, eth
    <2>4. CASE eth_current \notin addressed
      <3>1. NetStartAgain("CONTINUE") /\ calls' = 1
        BY <1>2, <2>4 DEF Start
      <3>2. /\ ~NetRestartWrap'
            /\ tried' = Devices \/ (NetState' = "RESTART" /\ OnTheWay')
            /\ NetState' = "FAIL" => tried' = Devices
        BY <2>1, <2>2, <3>1, StartAgainRound
      <3> QED
        BY <3>1, <3>2 DEF Waiting
    <2> QED
      BY <2>3, <2>4
  <1>3. CASE GiveUp
    <2>1. netretry # "no" /\ ~tangled /\ phase = "loop" /\ calls = 0
      <3>1. netretry # "no" /\ ~tangled /\ phase = "loop" /\ ~(calls > 0)
        BY <1>3 DEF GiveUp, env
      <3>2. calls \in 0..Burst
        BY DEF TypeOK
      <3> QED
        BY <3>1, <3>2, EthAssumption
    <2>2. ~NetRestartWrap /\ (NetRestarted => OnTheWay \/ tried = Devices)
      BY <2>1 DEF RoundInv, GaveUp
    <2>3. /\ ~NetRestartWrap'
          /\ tried' = Devices \/ (NetState' = "RESTART" /\ OnTheWay')
          /\ NetState' = "FAIL" => tried' = Devices
      BY <1>3, <2>1, <2>2, StartAgainRound DEF GiveUp
    <2>4. calls' > 0
      BY <1>3, <2>1 DEF GiveUp
    <2> QED
      BY <2>3, <2>4 DEF Waiting
  <1>4. CASE Succeed
    <2>1. netretry # "no" /\ ~tangled /\ phase = "loop" /\ phase' = "loop"
      BY <1>4 DEF Succeed, env
    <2>2. OnTheWay => OnTheWay'
      BY <1>4 DEF Succeed, OnTheWay, eth, After, Devices
    <2> QED
      BY <1>4, <2>1, <2>2 DEF Succeed, RoundInv, GaveUp, Waiting, eth
  <1>5. CASE StartAgainTimeout
    BY <1>5 DEF StartAgainTimeout
  <1>6. CASE PassEnds
    <2>1. netretry # "no" /\ ~tangled /\ phase = "loop" /\ phase' = "switch"
      BY <1>6 DEF PassEnds, env
    <2>2. OnTheWay => OnTheWay'
      BY <1>6 DEF PassEnds, OnTheWay, eth, After, Devices
    <2> QED
      BY <1>6, <2>1, <2>2 DEF PassEnds, RoundInv, GaveUp, Waiting, eth
  <1>7. CASE Switch
    <2>1. netretry # "no" /\ ~tangled /\ phase = "switch"
      BY <1>7 DEF Switch, env
    <2>2. OnTheWay => OnTheWay'
      BY <1>7 DEF Switch, OnTheWay, eth, After, Devices
    <2>3. CASE NetState = "RESTART"
      BY <1>7, <2>1, <2>2, <2>3 DEF Switch, RoundInv, GaveUp, Waiting, eth
    <2>4. CASE NetState = "CONTINUE"
      BY <1>7, <2>1, <2>2, <2>4 DEF Switch, RoundInv, GaveUp, Waiting, eth
    <2>5. CASE NetState \notin {"RESTART", "CONTINUE"}
      BY <1>7, <2>5 DEF Switch
    <2> QED
      BY <2>3, <2>4, <2>5
  <1>8. CASE UNCHANGED vars
    <2>1. OnTheWay => OnTheWay'
      BY <1>8 DEF vars, OnTheWay, After, Devices
    <2> QED
      BY <1>8, <2>1 DEF vars, RoundInv, GaveUp, Waiting
  <1> QED
    BY <1>1, <1>2, <1>3, <1>4, <1>5, <1>6, <1>7, <1>8 DEF Next

(* Every step keeps the account of the devices started on. *)
LEMMA StartedLemma == IInv /\ [Next]_vars => StartedInv'
  <1> SUFFICES ASSUME TypeOK, RoundInv, StartedInv, [Next]_vars,
                      (netretry # "no" /\ ~tangled)'
               PROVE  StartedInv'
    BY DEF IInv, StartedInv
  <1>1. CASE Command
    BY <1>1 DEF Command, StartedInv
  <1>2. CASE Start
    <2>1. netretry # "no" /\ ~tangled /\ phase = "start" /\ phase' = "loop"
      BY <1>2 DEF Start, env
    <2>2. started' = started \cup {eth_current} /\ NetRestarted' = NetRestarted
      BY <1>2 DEF Start
    <2>3. IF NetRestarted THEN \E n \in 1..(N - 1) : BehindFirst(n, n - 1) ELSE started = {}
      BY <2>1 DEF StartedInv
    <2>4. IF NetRestarted
          THEN /\ first_failed \in Devices
               /\ \E n \in 1..(N - 1) : /\ eth_current = After(first_failed, n)
                                       /\ started' \subseteq {After(first_failed, j) : j \in 0..n}
          ELSE started' = {eth_current}
      <3>1. ASSUME NEW n \in 1..(N - 1), BehindFirst(n, n - 1)
            PROVE  /\ first_failed \in Devices
                   /\ eth_current = After(first_failed, n)
                   /\ started' \subseteq {After(first_failed, j) : j \in 0..n}
        <4>1. n \in 0..n /\ \A j \in 0..(n - 1) : j \in 0..n
          BY EthAssumption
        <4> QED
          BY <2>2, <3>1, <4>1 DEF BehindFirst
      <3> QED
        BY <2>2, <2>3, <3>1
    <2>5. CASE eth_current \in addressed
      <3>1. /\ NetState' = "CONTINUE" /\ calls' = 0
            /\ eth_current' = eth_current /\ first_failed' = first_failed
        BY <1>2, <2>5 DEF Start, eth
      <3>2. NetRestarted => \E n \in 1..(N - 1) : BehindFirst(n, n)'
        BY <2>4, <3>1 DEF BehindFirst, After, Devices
      <3> QED
        BY <2>1, <2>2, <2>4, <3>1, <3>2 DEF StartedInv
    <2>6. CASE eth_current \notin addressed
      <3>1. NetStartAgain("CONTINUE") /\ calls' = 1
        BY <1>2, <2>6 DEF Start
      <3>2. /\ NetState' = "RESTART" =>
                 /\ first_failed' \in Devices
                 /\ \E n \in 1..(N - 1) :
                   /\ eth_current' = After(first_failed', n)
                   /\ started' \subseteq {After(first_failed', j) : j \in 0..(n - 1)}
            /\ NetState' \in {"RESTART", "FAIL"} \/ handler' = "startAgain"
        BY <2>1, <2>4, <3>1, StartAgainBehind
      <3>3. NetState' = "RESTART" => \E n \in 1..(N - 1) : BehindFirst(n, n - 1)'
        BY <3>2 DEF BehindFirst, After, Devices
      <3> QED
        BY <2>1, <3>1, <3>2, <3>3 DEF StartedInv
    <2> QED
      BY <2>5, <2>6
  <1>3. CASE GiveUp
    <2>1. /\ netretry # "no" /\ ~tangled /\ phase = "loop" /\ phase' = "loop"
          /\ handler = "protocol" /\ started' = started
      BY <1>3 DEF GiveUp, env
    <2>2. calls = 0 /\ calls' = 1
      <3>1. ~(calls > 0) /\ calls' = calls + 1
        BY <1>3 DEF GiveUp
      <3> QED
        BY <3>1, EthAssumption DEF TypeOK
    <2>3. NetState \in {"CONTINUE", "SUCCESS"}
      BY <2>1, <2>2 DEF TypeOK, RoundInv
    <2>4. IF NetRestarted THEN \E n \in 1..(N - 1) : BehindFirst(n, n) ELSE started = {eth_current}
      BY <2>1, <2>2, <2>3 DEF StartedInv
    <2>5. NetStartAgain(NetState)
      BY <1>3 DEF GiveUp
    <2>6. /\ NetState' = "RESTART" =>
               /\ first_failed' \in Devices
               /\ \E n \in 1..(N - 1) :
                 /\ eth_current' = After(first_failed', n)
                 /\ started \subseteq {After(first_failed', j) : j \in 0..(n - 1)}
          /\ NetState' \in {"RESTART", "FAIL"} \/ handler' = "startAgain"
      BY <2>1, <2>3, <2>4, <2>5, StartAgainBehind DEF BehindFirst
    <2>7. NetState' = "RESTART" => \E n \in 1..(N - 1) : BehindFirst(n, n - 1)'
      BY <2>1, <2>6 DEF BehindFirst, After, Devices
    <2> QED
      BY <2>1, <2>2, <2>6, <2>7 DEF StartedInv
  <1>4. CASE Succeed
    <2>1. /\ netretry # "no" /\ ~tangled /\ phase = "loop" /\ phase' = "loop"
          /\ NetState' = "SUCCESS" /\ handler = "protocol"
          /\ UNCHANGED <<handler, calls, NetRestarted, started, eth_current, first_failed>>
      BY <1>4 DEF Succeed, env, eth
    <2>2. calls = 0 => NetState \in {"CONTINUE", "SUCCESS"}
      BY <2>1 DEF TypeOK, RoundInv
    <2>3. \A n \in 1..(N - 1) : BehindFirst(n, n) => BehindFirst(n, n)'
      BY <2>1 DEF BehindFirst, After, Devices
    <2> QED
      BY <2>1, <2>2, <2>3 DEF StartedInv
  <1>5. CASE StartAgainTimeout
    BY <1>5 DEF StartAgainTimeout
  <1>6. CASE PassEnds \/ Switch \/ UNCHANGED vars
    <2>1. /\ netretry # "no" /\ ~tangled
          /\ UNCHANGED <<handler, NetState, started, eth_current, first_failed>>
      BY <1>6 DEF PassEnds, Switch, vars, env, eth
    <2>2. \A n, m \in Int : BehindFirst(n, m) => BehindFirst(n, m)'
      BY <2>1 DEF BehindFirst, After, Devices
    <2>3. \A n \in 1..(N - 1) : /\ BehindFirst(n, n) => BehindFirst(n, n)'
                                /\ BehindFirst(n, n - 1) => BehindFirst(n, n - 1)'
      BY <2>2, EthAssumption
    <2>4. CASE PassEnds \/ UNCHANGED vars
      <3>1. UNCHANGED <<calls, NetRestarted>>
            /\ (phase' = phase \/ (phase = "loop" /\ phase' \in {"switch", "idle"}))
        BY <2>4 DEF PassEnds, vars
      <3> QED
        BY <2>1, <2>3, <3>1 DEF StartedInv
    <2>5. CASE Switch
      <3>1. phase = "switch" /\ calls' = 0
        BY <2>5 DEF Switch
      <3>2. CASE NetState = "RESTART"
        <4>1. phase' = "start" /\ NetRestarted'
          BY <2>5, <3>2 DEF Switch
        <4> QED
          BY <2>1, <2>3, <3>1, <3>2, <4>1 DEF StartedInv
      <3>3. CASE NetState = "CONTINUE"
        <4>1. phase' = "loop" /\ NetRestarted' = NetRestarted
          BY <2>5, <3>3 DEF Switch, TypeOK
        <4> QED
          BY <2>1, <2>3, <3>1, <3>3, <4>1 DEF StartedInv
      <3>4. CASE NetState \notin {"RESTART", "CONTINUE"}
        <4>1. phase' = "idle"
          BY <2>5, <3>4 DEF Switch
        <4> QED
          BY <4>1 DEF StartedInv
      <3> QED
        BY <3>2, <3>3, <3>4
    <2> QED
      BY <1>6, <2>4, <2>5
  <1> QED
    BY <1>1, <1>2, <1>3, <1>4, <1>5, <1>6 DEF Next

-----------------------------------------------------------------------------
(* The inductive invariant holds of every behaviour of NetLoop. *)
THEOREM EthInvariant == Spec => []IInv
  <1>1. IInv /\ [Next]_vars => IInv'
    BY TypesLemma, RoundLemma, StartedLemma DEF IInv
  <1> QED
    BY InitLemma, <1>1, PTL DEF Spec

(* However many devices there are and whichever drivers fail, eth_current   *)
(* and first_failed are devices of the ring (eth_try_another).              *)
THEOREM EthTyping == Spec => []TypeOK
  <1>1. IInv => TypeOK
    BY DEF IInv
  <1> QED
    BY EthInvariant, <1>1, PTL

(* NetLoop neither fails nor waits for a second round before every device   *)
(* of the ring has been tried, when nothing tangled the round               *)
(* (NetStartAgain, eth_try_another).                                        *)
THEOREM EthWrapAfterAll == Spec => []WrapAfterAll
  <1>1. IInv => WrapAfterAll
    BY DEF IInv, RoundInv, WrapAfterAll
  <1> QED
    BY EthInvariant, <1>1, PTL

(* However many devices there are, a command starts its protocol on none of *)
(* them twice before the round is over: with netretry=once it cannot go     *)
(* round for ever (eth_try_another, NetStartAgain).                         *)
THEOREM EthStartedOnce == Spec => []StartedOnce
  <1>1. ASSUME IInv, netretry # "no", ~tangled, phase = "start" PROVE eth_current \notin started
    <2>1. CASE ~NetRestarted
      BY <1>1, <2>1 DEF IInv, StartedInv
    <2>2. CASE NetRestarted
      <3>1. PICK n \in 1..(N - 1) : BehindFirst(n, n - 1)
        BY <1>1, <2>2 DEF IInv, StartedInv
      <3>2. N \in Nat \ {0} /\ first_failed \in 0..(N - 1)
        BY <3>1, EthAssumption DEF BehindFirst, Devices
      <3>3. \A j \in 0..(n - 1) : After(first_failed, j) # After(first_failed, n)
        <4> SUFFICES ASSUME NEW j \in 0..(n - 1)
                     PROVE  After(first_failed, j) # After(first_failed, n)
          OBVIOUS
        <4>1. j \in Nat /\ j < n /\ n < N
          BY <3>2
        <4> QED
          BY <3>2, <4>1 DEF After
      <3> QED
        BY <3>1, <3>3 DEF BehindFirst
    <2> QED
      BY <2>1, <2>2
  <1>2. IInv => StartedOnce
    BY <1>1 DEF StartedOnce
  <1> QED
    BY EthInvariant, <1>2, PTL

=============================================================================
