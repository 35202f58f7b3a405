--------------------------- MODULE EnvFlash_proof ---------------------------
(***************************************************************************)
(* Proofs about EnvFlash, for every set of environments: its inductive     *)
(* invariant, that a reset at any moment finds a saved environment, and    *)
(* that it implements EnvStore.  Where saveenv has to write back the rest  *)
(* of a larger sector, that write is assumed not to be refused.            *)
(***************************************************************************)
EXTENDS EnvFlash, TLAPS

(* env_init takes a good copy when there is one, and never a superseded one; *)
(* with no good copy it takes the default environment.                      *)
LEMMA ChoiceLemma ==
  ASSUME TypeOK, GoodCopies
  PROVE  /\ EnvInitResult(flash)[2] = 0 =>
              /\ EnvInitResult(flash)[1] = DefaultAddr
              /\ \A c \in Copies : ~flash[c].crc
              /\ DefaultEnv \in Allowed
         /\ EnvInitResult(flash)[2] # 0 =>
              /\ EnvInitResult(flash)[1] \in Copies
              /\ flash[EnvInitResult(flash)[1]].crc
              /\ flash[EnvInitResult(flash)[1]].data \in Allowed
         /\ EnvInitResult(flash)[2] \in 0..2
  <1> USE DEF Copies, Flags, ACTIVE_FLAG, OBSOLETE_FLAG, ERASED_FLAG
  <1>1. /\ flash[1].crc \in BOOLEAN /\ flash[1].flags \in Flags
        /\ flash[2].crc \in BOOLEAN /\ flash[2].flags \in Flags
    BY DEF TypeOK, EnvT
  <1>2. /\ flash[1].crc => flash[1].data \in Allowed \/ Superseded(1)
        /\ flash[2].crc => flash[2].data \in Allowed \/ Superseded(2)
        /\ ~flash[1].crc /\ ~flash[2].crc => DefaultEnv \in Allowed
    BY DEF GoodCopies
  <1>3. Other(1) = 2 /\ Other(2) = 1
    BY DEF Other
  <1> DEFINE r == EnvInitResult(flash)
  <1>4. CASE ~flash[1].crc /\ ~flash[2].crc
    <2>1. r = <<DefaultAddr, 0>>
      BY <1>4 DEF EnvInitResult
    <2> QED
      BY <2>1, <1>2, <1>4 DEF DefaultAddr
  <1>5. CASE flash[1].crc /\ ~flash[2].crc
    <2>1. r = <<1, 1>>
      BY <1>5 DEF EnvInitResult
    <2> QED
      BY <2>1, <1>2, <1>3, <1>5 DEF Superseded
  <1>6. CASE ~flash[1].crc /\ flash[2].crc
    <2>1. r = <<2, 1>>
      BY <1>6 DEF EnvInitResult
    <2> QED
      BY <2>1, <1>2, <1>3, <1>6 DEF Superseded
  <1>7. CASE flash[1].crc /\ flash[2].crc
    <2>1. CASE flash[1].flags = ACTIVE_FLAG /\ flash[2].flags = OBSOLETE_FLAG
      <3>1. r = <<1, 1>>
        BY <1>7, <2>1 DEF EnvInitResult
      <3> QED
        BY <3>1, <1>2, <1>3, <1>7, <2>1 DEF Superseded
    <2>2. CASE flash[1].flags = OBSOLETE_FLAG /\ flash[2].flags = ACTIVE_FLAG
      <3>1. r = <<2, 1>>
        BY <1>7, <2>2 DEF EnvInitResult
      <3> QED
        BY <3>1, <1>2, <1>3, <1>7, <2>2 DEF Superseded
    <2>3. CASE flash[1].flags = flash[2].flags
      <3>1. r = <<1, 2>>
        BY <1>7, <2>3 DEF EnvInitResult
      <3> QED
        BY <3>1, <1>2, <1>3, <1>7, <2>3 DEF Superseded
    <2>4. CASE flash[1].flags = ERASED_FLAG /\ flash[2].flags # ERASED_FLAG
      <3>1. r = <<1, 2>>
        BY <1>7, <2>4 DEF EnvInitResult
      <3> QED
        BY <3>1, <1>2, <1>3, <1>7, <2>4 DEF Superseded
    <2>5. CASE flash[1].flags # ERASED_FLAG /\ flash[2].flags = ERASED_FLAG
      <3>1. r = <<2, 2>>
        BY <1>7, <2>5 DEF EnvInitResult
      <3> QED
        BY <3>1, <1>2, <1>3, <1>7, <2>5 DEF Superseded
    <2> QED
      BY <1>1, <2>1, <2>2, <2>3, <2>4, <2>5
  <1> QED
    BY <1>1, <1>4, <1>5, <1>6, <1>7

(* What a reset would come up with in any state of the invariant. *)
LEMMA RecoverableLemma == IInv => Recoverable
  BY ChoiceLemma DEF IInv, Recoverable, BootEnv, Copies, DefaultAddr, NotSet

LEMMA InitLemma == Init => IInv
  <1> SUFFICES ASSUME Init PROVE IInv
    OBVIOUS
  <1>1. TypeOK
    <2>1. \A f \in Flags : Blank(f) \in EnvT
      BY DEF Blank, EnvT
    <2>2. flash \in [Copies -> EnvT]
      BY <2>1 DEF Init
    <2>3. env_ptr \in [data : Envs, crc : BOOLEAN]
      BY DEF Init, Envs
    <2> QED
      BY <2>2, <2>3 DEF Init, TypeOK, Envs, Copies, Saving, NotSet, NoBoot
  <1>2. \A c \in Copies : ~flash[c].crc
    BY DEF Init, Blank
  <1>3. GoodCopies
    BY <1>2 DEF Init, GoodCopies, Allowed
  <1>4. CurrentCopy /\ NewCopy
    BY DEF Init, CurrentCopy, NewCopy, Saving
  <1> QED
    BY <1>1, <1>3, <1>4 DEF IInv

(* One step of the code or a power failure preserves the invariant.         *)
LEMMA StepLemma == ~RestFails /\ IInv /\ [Next]_vars => IInv'
  <1> SUFFICES ASSUME ~RestFails, IInv, [Next]_vars PROVE IInv'
    OBVIOUS
  <1> USE DEF IInv, Copies
  <1>1. CASE EnvInit
    <2>1. TypeOK'
      BY <1>1, ChoiceLemma DEF EnvInit, TypeOK, history, Saving
    <2>2. GoodCopies'
      BY <1>1 DEF EnvInit, GoodCopies, Superseded, Allowed, history
    <2>3. CurrentCopy' /\ NewCopy'
      BY <1>1 DEF EnvInit, CurrentCopy, NewCopy, Saving, history
    <2> QED
      BY <2>1, <2>2, <2>3
  <1>2. CASE RelocateDefault
    <2>1. TypeOK'
      BY <1>2 DEF RelocateDefault, TypeOK, Envs, Saving
    <2>2. GoodCopies'
      BY <1>2 DEF RelocateDefault, GoodCopies, Superseded, Allowed
    <2>3. ~flash[flash_addr].crc /\ DefaultEnv \in Allowed
      BY <1>2, ChoiceLemma DEF RelocateDefault, CurrentCopy, TypeOK
    <2>4. CurrentCopy' /\ NewCopy'
      BY <1>2, <2>3 DEF RelocateDefault, CurrentCopy, NewCopy, Saving, Allowed
    <2> QED
      BY <2>1, <2>2, <2>4
  <1>3. CASE RelocateSwap
    <2>1. flash_addr' = env_addr /\ flash' = flash /\ Allowed' = Allowed
      BY <1>3, ChoiceLemma DEF RelocateSwap, CurrentCopy, flash_addr_new, Other, TypeOK,
         Allowed, history
    <2>2. flash[flash_addr'].crc /\ flash[flash_addr'].data \in Allowed
      BY <1>3, <2>1, ChoiceLemma DEF RelocateSwap, CurrentCopy
    <2>3. TypeOK'
      BY <1>3, <2>1, ChoiceLemma DEF RelocateSwap, TypeOK, CurrentCopy, history, gdVars, Saving
    <2>4. GoodCopies'
      BY <2>1, <1>3 DEF RelocateSwap, GoodCopies, Superseded, Allowed, history
    <2>5. CurrentCopy' /\ NewCopy'
      BY <1>3, <2>1, <2>2 DEF RelocateSwap, CurrentCopy, NewCopy, Saving
    <2> QED
      BY <2>3, <2>4, <2>5
  <1>4. CASE RecoverObsolete
    <2>1. CASE flash' = flash
      <3>1. TypeOK'
        BY <1>4, <2>1 DEF RecoverObsolete, TypeOK, history, Saving
      <3>2. GoodCopies'
        BY <1>4, <2>1 DEF RecoverObsolete, GoodCopies, Superseded, Allowed, history
      <3>3. CurrentCopy' /\ NewCopy'
        BY <1>4, <2>1 DEF RecoverObsolete, CurrentCopy, NewCopy, Saving, Allowed, history
      <3> QED
        BY <3>1, <3>2, <3>3
    <2>2. CASE /\ flash[flash_addr_new].flags # OBSOLETE_FLAG /\ flash[flash_addr_new].crc
               /\ flash' = [flash EXCEPT ![flash_addr_new].flags = OBSOLETE_FLAG]
      <3>1. TypeOK'
        BY <1>4, <2>2 DEF RecoverObsolete, TypeOK, EnvT, Flags, Saving, history,
           flash_addr_new, Other
      <3>2. GoodCopies'
        BY <1>4, <2>2 DEF RecoverObsolete, GoodCopies, CurrentCopy, Superseded, Allowed,
           history, flash_addr_new, Other, TypeOK, EnvT
      <3>3. CurrentCopy' /\ NewCopy'
        BY <1>4, <2>2 DEF RecoverObsolete, CurrentCopy, NewCopy, Saving, Allowed, history,
           flash_addr_new, Other, TypeOK, EnvT
      <3> QED
        BY <3>1, <3>2, <3>3
    <2> QED
      BY <1>4, <2>1, <2>2 DEF RecoverObsolete, FlagWrite
  <1>5. CASE RecoverActive
    <2>1. CASE flash' = flash
      <3>1. TypeOK'
        BY <1>5, <2>1 DEF RecoverActive, TypeOK, EnvT, Saving, CurrentCopy, Allowed, Envs
      <3>2. GoodCopies'
        BY <1>5, <2>1 DEF RecoverActive, GoodCopies, Superseded, Allowed
      <3>3. CurrentCopy' /\ NewCopy'
        BY <1>5, <2>1 DEF RecoverActive, CurrentCopy, NewCopy, Saving, Allowed
      <3> QED
        BY <3>1, <3>2, <3>3
    <2>2. CASE /\ flash[flash_addr].flags = ERASED_FLAG
               /\ flash' = [flash EXCEPT ![flash_addr].flags = ACTIVE_FLAG]
      <3>1. TypeOK'
        BY <1>5, <2>2 DEF RecoverActive, TypeOK, EnvT, Flags, Saving, CurrentCopy, Allowed, Envs
      <3>2. GoodCopies'
        BY <1>5, <2>2 DEF RecoverActive, GoodCopies, CurrentCopy, Superseded, Allowed,
           Other, TypeOK, EnvT, ERASED_FLAG, ACTIVE_FLAG, OBSOLETE_FLAG
      <3>3. CurrentCopy' /\ NewCopy'
        BY <1>5, <2>2 DEF RecoverActive, CurrentCopy, NewCopy, Saving, Allowed, TypeOK, EnvT
      <3> QED
        BY <3>1, <3>2, <3>3
    <2> QED
      BY <1>5, <2>1, <2>2 DEF RecoverActive, FlagWrite
  <1>6. CASE \E v \in Values : Setenv(v)
    <2>1. PICK v \in Values : Setenv(v)
      BY <1>6
    <2>2. TypeOK'
      BY <2>1 DEF Setenv, TypeOK, Envs, history, gdVars
    <2>3. GoodCopies'
      BY <2>1 DEF Setenv, GoodCopies, Superseded, Allowed, history
    <2>4. CurrentCopy' /\ NewCopy'
      BY <2>1 DEF Setenv, CurrentCopy, NewCopy, Saving, Allowed, history
    <2> QED
      BY <2>2, <2>3, <2>4
  <1>7. CASE SaveStart
    <2>1. TypeOK'
      BY <1>7 DEF SaveStart, TypeOK, Saving, gdVars
    <2>2. Allowed \subseteq Allowed' /\ flash' = flash
      BY <1>7 DEF SaveStart, Allowed
    <2>3. GoodCopies'
      BY <2>2 DEF GoodCopies, Superseded
    <2>4. CurrentCopy' /\ NewCopy'
      BY <1>7, <2>2 DEF SaveStart, CurrentCopy, NewCopy, Saving
    <2> QED
      BY <2>1, <2>3, <2>4
  <1>8. CASE SaveErase
    <2>1. PICK f \in Flags : flash' = flash \/ flash' = [flash EXCEPT ![flash_addr_new] = Blank(f)]
      BY <1>8 DEF SaveErase, Erased, HalfErased, Flags
    <2>2. TypeOK'
      <3>1. Blank(f) \in EnvT
        BY DEF Blank, EnvT
      <3>2. flash' \in [Copies -> EnvT]
        BY <2>1, <3>1 DEF TypeOK
      <3>3. pc' \in Saving \cup {"idle"}
        BY <1>8 DEF SaveErase, Saving
      <3> QED
        BY <1>8, <3>2, <3>3 DEF SaveErase, TypeOK, history, gdVars
    <2>3. GoodCopies'
      BY <1>8, <2>1 DEF SaveErase, GoodCopies, CurrentCopy, Superseded, Allowed, Blank,
         Saving, history, flash_addr_new, Other, TypeOK, EnvT
    <2>4. CurrentCopy'
      BY <1>8, <2>1 DEF SaveErase, CurrentCopy, Allowed, Blank, Saving, history,
         flash_addr_new, Other, TypeOK, EnvT
    <2>5. NewCopy'
      BY <1>8 DEF SaveErase, NewCopy, Erased, Blank, Saving, history,
         flash_addr_new, Other, TypeOK
    <2> QED
      BY <2>2, <2>3, <2>4, <2>5
  <1>9. CASE SaveData
    <2>1. flash' = [flash EXCEPT ![flash_addr_new].data = env_ptr.data] /\ pc = "write_data"
      BY <1>9 DEF SaveData
    <2>2. TypeOK'
      BY <1>9, <2>1 DEF SaveData, NextOrDone, TypeOK, EnvT, Saving, history, gdVars,
         flash_addr_new, Other
    <2>3. GoodCopies'
      BY <1>9, <2>1 DEF SaveData, GoodCopies, CurrentCopy, NewCopy, Superseded, Allowed,
         Saving, history, flash_addr_new, Other, TypeOK, EnvT
    <2>4. CurrentCopy'
      BY <1>9, <2>1 DEF SaveData, NextOrDone, CurrentCopy, Allowed, Saving, history,
         flash_addr_new, Other, TypeOK, EnvT
    <2>5. NewCopy'
      BY <1>9, <2>1 DEF SaveData, NextOrDone, NewCopy, Saving, history,
         flash_addr_new, Other, TypeOK, EnvT
    <2> QED
      BY <2>2, <2>3, <2>4, <2>5
  <1>10. CASE SaveCrc
    <2>1. /\ pc = "write_crc"
          /\ \/ flash' = [flash EXCEPT ![flash_addr_new].crc = TRUE] /\ pc' \in {"write_obsolete", "idle"}
             \/ flash' = flash /\ pc' = "idle"
      BY <1>10 DEF SaveCrc, NextOrDone, CurrentCopy, Saving
    <2>2. TypeOK'
      BY <1>10, <2>1 DEF SaveCrc, TypeOK, EnvT, Saving, history, gdVars, flash_addr_new, Other
    <2>3. env_ptr.data \in Allowed
      BY <2>1 DEF NewCopy, Saving, Allowed
    <2>4. GoodCopies'
      BY <1>10, <2>1, <2>3 DEF SaveCrc, GoodCopies, CurrentCopy, NewCopy, Superseded, Allowed,
         Saving, history, flash_addr_new, Other, TypeOK, EnvT
    <2>5. CurrentCopy'
      BY <1>10, <2>1 DEF SaveCrc, CurrentCopy, Allowed, Saving, history,
         flash_addr_new, Other, TypeOK, EnvT
    <2>6. NewCopy'
      BY <1>10, <2>1 DEF SaveCrc, NewCopy, Saving, history,
         flash_addr_new, Other, TypeOK, EnvT
    <2> QED
      BY <2>2, <2>4, <2>5, <2>6
  <1>11. CASE SaveObsolete
    <2>1. /\ pc = "write_obsolete"
          /\ \/ flash' = [flash EXCEPT ![flash_addr].flags = OBSOLETE_FLAG] /\ pc' \in {"write_active", "idle"}
             \/ flash' = flash /\ pc' = "idle"
      BY <1>11 DEF SaveObsolete, FlagWrite, NextOrDone
    <2>2. TypeOK'
      BY <1>11, <2>1 DEF SaveObsolete, TypeOK, EnvT, Flags, Saving, history, gdVars
    <2>3. env_ptr.data \in Allowed
      BY <2>1 DEF NewCopy, Saving, Allowed
    <2>4. GoodCopies'
      BY <1>11, <2>1, <2>3 DEF SaveObsolete, GoodCopies, CurrentCopy, NewCopy, Superseded, Allowed,
         Saving, history, flash_addr_new, Other, TypeOK, EnvT
    <2>5. CurrentCopy'
      BY <1>11, <2>1 DEF SaveObsolete, CurrentCopy, Allowed, Saving, history,
         flash_addr_new, Other, TypeOK, EnvT
    <2>6. NewCopy'
      BY <1>11, <2>1 DEF SaveObsolete, NewCopy, Saving, history,
         flash_addr_new, Other, TypeOK, EnvT
    <2> QED
      BY <2>2, <2>4, <2>5, <2>6
  <1>12. CASE SaveActive
    <2>1. PICK ok \in BOOLEAN :
            /\ \/ flash' = [flash EXCEPT ![flash_addr_new].flags = ACTIVE_FLAG]
               \/ ~ok /\ flash' = flash
            /\ pc' = IF ok /\ larger THEN "write_rest" ELSE "idle"
            /\ flash_addr' = IF ok /\ ~larger THEN flash_addr_new ELSE flash_addr
            /\ committed' = IF ok THEN env_ptr.data ELSE committed
            /\ uncertain' = IF ok THEN {} ELSE uncertain
      BY <1>12 DEF SaveActive, Results, FlagWrite, NextOrDone
    <2>2. /\ pc = "write_active"
          /\ UNCHANGED <<env_ptr, env_addr, env_valid, worn, larger, booted>>
      BY <1>12 DEF SaveActive, gdVars
    <2>3. \/ flash' = [flash EXCEPT ![flash_addr_new].flags = ACTIVE_FLAG]
          \/ ~ok /\ flash' = flash
      BY <2>1
    <2>4. /\ flash[flash_addr].flags = OBSOLETE_FLAG
          /\ flash[flash_addr_new].crc
          /\ flash[flash_addr_new].data = env_ptr.data
          /\ env_ptr.data \in uncertain /\ env_ptr.crc
      BY <2>2 DEF NewCopy, CurrentCopy, Saving
    <2>5. TypeOK'
      <3>1. flash' \in [Copies -> EnvT] /\ flash_addr' \in Copies
        BY <2>1, <2>3 DEF TypeOK, EnvT, Flags, flash_addr_new, Other
      <3>2. committed' \in Envs /\ uncertain' \in SUBSET Envs
        BY <2>1 DEF TypeOK
      <3>3. pc' \in {"idle", "write_rest"}
        BY <2>1
      <3> QED
        BY <2>2, <3>1, <3>2, <3>3 DEF TypeOK
    <2>6. GoodCopies'
      <3>1. CASE ok
        <4>1. /\ flash' = [flash EXCEPT ![flash_addr_new].flags = ACTIVE_FLAG]
              /\ committed' = env_ptr.data
          BY <2>1, <3>1
        <4> QED
          BY <4>1, <2>4 DEF GoodCopies, Superseded, Allowed,
             flash_addr_new, Other, TypeOK, EnvT, ACTIVE_FLAG, OBSOLETE_FLAG
      <3>2. CASE ~ok
        <4>1. committed' = committed /\ uncertain' = uncertain
          BY <2>1, <3>2
        <4> QED
          BY <4>1, <2>3, <2>4 DEF GoodCopies, Superseded, Allowed,
             flash_addr_new, Other, TypeOK, EnvT, ACTIVE_FLAG, OBSOLETE_FLAG
      <3> QED
        BY <3>1, <3>2
    <2>7. CASE pc' = "write_rest"
      <3>1. ok /\ flash_addr' = flash_addr /\ committed' = env_ptr.data
        BY <2>1, <2>7
      <3>2. /\ flash_addr \in Copies /\ flash_addr_new \in Copies /\ flash_addr # flash_addr_new
            /\ flash_addr_new' = flash_addr_new
        BY <3>1 DEF TypeOK, flash_addr_new, Other
      <3>3. flash' = [flash EXCEPT ![flash_addr_new].flags = ACTIVE_FLAG]
        BY <2>3, <3>1
      <3>4. /\ flash'[flash_addr] = flash[flash_addr]
            /\ flash'[flash_addr_new] = [data |-> committed', crc |-> TRUE, flags |-> ACTIVE_FLAG]
        BY <2>4, <3>1, <3>2, <3>3 DEF TypeOK, EnvT
      <3>5. CurrentCopy'
        BY <2>7 DEF CurrentCopy, Saving
      <3>6. NewCopy'
        BY <2>2, <2>4, <2>7, <3>1, <3>2, <3>4 DEF NewCopy, Saving
      <3> QED
        BY <2>5, <2>6, <3>5, <3>6
    <2>8. CASE pc' = "idle"
      <3>1. NewCopy'
        BY <2>8 DEF NewCopy, Saving
      <3>2. CurrentCopy'
        BY <2>1, <2>2, <2>3, <2>4, <2>8 DEF CurrentCopy, Allowed, Saving,
           flash_addr_new, Other, TypeOK, EnvT
      <3> QED
        BY <2>5, <2>6, <3>1, <3>2
    <2> QED
      BY <2>1, <2>7, <2>8
  <1>13. CASE PowerFail
    <2>1. \/ flash' = flash
          \/ /\ pc = "erase"
             /\ \E f \in Flags : flash' = [flash EXCEPT ![flash_addr_new] = Blank(f)]
      BY <1>13 DEF PowerFail, HalfErased
    <2>2. TypeOK'
      <3>1. \A f \in Flags : Blank(f) \in EnvT
        BY DEF Blank, EnvT
      <3>2. flash' \in [Copies -> EnvT]
        BY <2>1, <3>1 DEF TypeOK
      <3> QED
        BY <1>13, <3>2 DEF PowerFail, TypeOK, history, NotSet
    <2>3. Allowed' = Allowed
      BY <1>13 DEF PowerFail, history, Allowed
    <2>4. GoodCopies'
      <3>1. CASE flash' = flash
        BY <2>3, <3>1 DEF GoodCopies, Superseded
      <3>2. CASE /\ pc = "erase"
                 /\ \E f \in Flags : flash' = [flash EXCEPT ![flash_addr_new] = Blank(f)]
        <4>1. IF flash[flash_addr].crc THEN flash[flash_addr].data \in Allowed
              ELSE DefaultEnv \in Allowed
          BY <3>2 DEF CurrentCopy, Saving
        <4>2. /\ flash_addr \in Copies
              /\ Copies = {flash_addr, flash_addr_new}
              /\ flash_addr_new # flash_addr
          BY DEF TypeOK, flash_addr_new, Other
        <4>3. flash'[flash_addr] = flash[flash_addr] /\ ~flash'[flash_addr_new].crc
          BY <3>2, <4>2 DEF Blank, TypeOK
        <4> QED
          BY <2>3, <4>1, <4>2, <4>3 DEF GoodCopies
      <3> QED
        BY <2>1, <3>1, <3>2
    <2>5. CurrentCopy' /\ NewCopy'
      BY <1>13 DEF PowerFail, CurrentCopy, NewCopy, Saving
    <2> QED
      BY <2>2, <2>4, <2>5
  <1>14. CASE SaveRest
    <2>1. /\ pc = "write_rest" /\ pc' = "idle" /\ flash_addr' = flash_addr_new
          /\ UNCHANGED <<flash, env_ptr, env_addr, env_valid, worn, larger, committed, uncertain, booted>>
      BY <1>14 DEF SaveRest, gdVars, history
    <2>2. /\ env_ptr.crc
          /\ flash[flash_addr_new].crc /\ flash[flash_addr_new].data = committed
      BY <2>1 DEF NewCopy
    <2>3. TypeOK'
      BY <2>1 DEF TypeOK, flash_addr_new, Other
    <2>4. GoodCopies'
      BY <2>1 DEF GoodCopies, Superseded, Allowed
    <2>5. CurrentCopy' /\ NewCopy'
      BY <2>1, <2>2 DEF CurrentCopy, NewCopy, Allowed, Saving
    <2> QED
      BY <2>3, <2>4, <2>5
  <1>15. CASE UNCHANGED vars
    BY <1>15 DEF vars, TypeOK, GoodCopies, CurrentCopy, NewCopy, Superseded, Allowed,
       flash_addr_new
  <1> QED
    BY <1>1, <1>2, <1>3, <1>4, <1>5, <1>6, <1>7, <1>8, <1>9, <1>10, <1>11, <1>12, <1>13, <1>14, <1>15
       DEF Next

(* Every variable keeps its type, for any set of environments.              *)
THEOREM EnvFlashTyping ==
  ASSUME ~RestFails
  PROVE  Spec => []TypeOK
  <1>1. IInv => TypeOK
    BY DEF IInv
  <1>2. IInv /\ [Next]_vars => IInv'
    BY StepLemma
  <1> QED
    BY <1>1, <1>2, InitLemma, PTL DEF Spec

(* A reset at any moment finds the last environment saveenv reported saved, *)
(* or a newer one: saveenv, env_init and env_relocate_spec, with flash      *)
(* errors and power failures at every step.                                 *)
THEOREM EnvFlashRecoverable ==
  ASSUME ~RestFails
  PROVE  Spec => []Recoverable
  <1>1. IInv /\ [Next]_vars => IInv'
    BY StepLemma
  <1> QED
    BY <1>1, InitLemma, RecoverableLemma, PTL DEF Spec

(* The two copies in flash implement the store of EnvStore.                 *)
THEOREM EnvFlashImplements ==
  ASSUME ~RestFails
  PROVE  Spec => ImplementsStore
  <1>1. Init => Store!Init
    BY DEF Init, Store!Init
  <1>2. IInv /\ [Next]_vars => [Store!Next]_(Store!storeVars)
    <2> SUFFICES ASSUME IInv, [Next]_vars
                 PROVE  [Store!Next]_(Store!storeVars)
      OBVIOUS
    <2> USE DEF Store!Next, Store!storeVars
    <2>1. CASE RelocateDefault
      <3>1. DefaultEnv \in Allowed
        BY <2>1, ChoiceLemma DEF RelocateDefault, IInv, CurrentCopy
      <3> QED
        BY <2>1, <3>1 DEF RelocateDefault, Allowed, Store!Boot, Store!Allowed
    <2>2. CASE RecoverActive
      <3>1. flash[flash_addr].data \in Allowed
        BY <2>2 DEF RecoverActive, IInv, CurrentCopy
      <3> QED
        BY <2>2, <3>1 DEF RecoverActive, Allowed, Store!Boot, Store!Allowed
    <2>3. CASE \E v \in Values : Setenv(v)
      BY <2>3 DEF Setenv, history, Store!Change
    <2>4. CASE SaveStart
      BY <2>4 DEF SaveStart, Store!StartSave
    <2>5. CASE SaveActive
      <3>1. env_ptr.data \in uncertain
        BY <2>5 DEF SaveActive, IInv, NewCopy, Saving
      <3> QED
        BY <2>5, <3>1 DEF SaveActive, Store!ReportSuccess
    <2>6. CASE EnvInit \/ RelocateSwap \/ RecoverObsolete \/ SaveErase \/ SaveData
               \/ SaveCrc \/ SaveObsolete \/ SaveRest \/ PowerFail
      BY <2>6 DEF EnvInit, RelocateSwap, RecoverObsolete, SaveErase, SaveData,
         SaveCrc, SaveObsolete, SaveRest, PowerFail, history
    <2>7. CASE UNCHANGED vars
      BY <2>7 DEF vars
    <2> QED
      BY <2>1, <2>2, <2>3, <2>4, <2>5, <2>6, <2>7 DEF Next
  <1>3. IInv /\ [Next]_vars => IInv'
    BY StepLemma
  <1> QED
    BY <1>1, <1>2, <1>3, InitLemma, PTL DEF Spec, ImplementsStore, Store!Spec

-----------------------------------------------------------------------------
(* On a device without errors.                                              *)

(* env_init takes the good copy that is not obsolete when the other is bad  *)
(* or obsolete.                                                             *)
LEMMA ChosenLemma ==
  ASSUME NEW f \in [Copies -> EnvT], NEW c \in Copies,
         f[c].crc, f[c].flags # OBSOLETE_FLAG,
         f[Other(c)].crc => f[Other(c)].flags = OBSOLETE_FLAG
  PROVE  EnvInitResult(f)[1] = c
  <1> USE DEF Copies, Flags, ACTIVE_FLAG, OBSOLETE_FLAG, ERASED_FLAG
  <1>1. Other(1) = 2 /\ Other(2) = 1
    BY DEF Other
  <1>2. f[c].flags \in {ACTIVE_FLAG, ERASED_FLAG} /\ f[1].crc \in BOOLEAN /\ f[2].crc \in BOOLEAN
    BY DEF EnvT
  <1>3. CASE c = 1
    BY <1>1, <1>2, <1>3 DEF EnvInitResult
  <1>4. CASE c = 2
    BY <1>1, <1>2, <1>4 DEF EnvInitResult
  <1> QED
    BY <1>3, <1>4

(* What env_init takes is not obsolete when an obsolete copy is never left  *)
(* alone.                                                                   *)
LEMMA NotObsoleteLemma ==
  ASSUME TypeOK, EnvInitResult(flash)[2] # 0,
         \A c \in Copies :
           flash[c].crc /\ flash[c].flags = OBSOLETE_FLAG =>
             flash[Other(c)].crc /\ flash[Other(c)].flags # OBSOLETE_FLAG
  PROVE  flash[EnvInitResult(flash)[1]].flags # OBSOLETE_FLAG
  <1> USE DEF Copies, Flags, ACTIVE_FLAG, OBSOLETE_FLAG, ERASED_FLAG
  <1>1. /\ flash[1].crc \in BOOLEAN /\ flash[1].flags \in Flags
        /\ flash[2].crc \in BOOLEAN /\ flash[2].flags \in Flags
    BY DEF TypeOK, EnvT
  <1>2. /\ flash[1].crc /\ flash[1].flags = OBSOLETE_FLAG => flash[2].crc /\ flash[2].flags # OBSOLETE_FLAG
        /\ flash[2].crc /\ flash[2].flags = OBSOLETE_FLAG => flash[1].crc /\ flash[1].flags # OBSOLETE_FLAG
    BY DEF Other
  <1>3. EnvInitResult(flash)[1] = 1 => flash[1].flags # OBSOLETE_FLAG
    BY <1>1, <1>2 DEF EnvInitResult, DefaultAddr, NotSet
  <1>4. EnvInitResult(flash)[1] = 2 => flash[2].flags # OBSOLETE_FLAG
    BY <1>1, <1>2 DEF EnvInitResult, DefaultAddr, NotSet
  <1>5. EnvInitResult(flash)[1] \in {1, 2}
    BY <1>1 DEF EnvInitResult, DefaultAddr, NotSet
  <1> QED
    BY <1>3, <1>4, <1>5

LEMMA ToldApartInit == Init => ToldApart
  BY DEF Init, ToldApart, FlagPair, SameChoice, Blank, Saving, NoBoot, Copies, Other

(* The code's two pointers name the two copies.                             *)
LEMMA TwoCopies ==
  ASSUME TypeOK
  PROVE  /\ flash_addr \in Copies /\ flash_addr_new \in Copies
         /\ Copies = {flash_addr, flash_addr_new} /\ flash_addr # flash_addr_new
         /\ Other(flash_addr) = flash_addr_new /\ Other(flash_addr_new) = flash_addr
  BY DEF TypeOK, flash_addr_new, Other, Copies

LEMMA ToldApartStep == IInv /\ IInv' /\ ToldApart /\ [Next]_vars => ToldApart'
  <1> SUFFICES ASSUME IInv, IInv', ToldApart, [Next]_vars PROVE ToldApart'
    OBVIOUS
  <1> DEFINE a == flash_addr
             n == flash_addr_new
  <1>0. /\ TypeOK /\ TypeOK' /\ FlagPair /\ SameChoice
        /\ GoodCopies /\ CurrentCopy /\ CurrentCopy' /\ NewCopy
    BY DEF IInv, ToldApart
  <1>c. /\ a \in Copies /\ n \in Copies /\ Copies = {a, n} /\ a # n /\ Other(a) = n /\ Other(n) = a
    BY <1>0, TwoCopies
  <1>f. /\ flash \in [Copies -> EnvT] /\ flash[a] \in EnvT /\ flash[n] \in EnvT
    BY <1>0, <1>c DEF TypeOK
  <1>w. worn' = worn
    BY DEF Next, EnvInit, RelocateDefault, RelocateSwap, RecoverObsolete, RecoverActive, Setenv,
       SaveStart, SaveErase, SaveData, SaveCrc, SaveObsolete, SaveActive, SaveRest, PowerFail, vars
  <1>1. CASE EnvInit
    <2>1. flash' = flash /\ booted' = booted /\ pc' = "env_relocate"
      BY <1>1 DEF EnvInit, history
    <2> QED
      BY <1>0, <1>w, <2>1 DEF ToldApart, FlagPair, SameChoice, Saving
  <1>2. CASE RelocateDefault
    <2>1. flash' = flash /\ booted' = DefaultEnv /\ pc' = "idle" /\ pc = "env_relocate" /\ env_valid = 0
      BY <1>2 DEF RelocateDefault
    <2>2. EnvInitResult(flash)[2] = 0
      BY <1>0, <2>1 DEF CurrentCopy
    <2>3. EnvInitResult(flash)[1] = DefaultAddr /\ \A c \in Copies : ~flash[c].crc
      BY <1>0, <2>2, ChoiceLemma
    <2>4. BootEnv(flash) = DefaultEnv
      BY <2>3 DEF BootEnv, Copies, DefaultAddr
    <2>5. flash_addr' = flash_addr /\ flash_addr_new' = flash_addr_new
      BY <1>2 DEF RelocateDefault, flash_addr_new
    <2> QED
      BY <1>0, <1>w, <1>c, <2>1, <2>3, <2>4, <2>5 DEF ToldApart, FlagPair, SameChoice, Saving
  <1>3. CASE RelocateSwap
    <2>1. flash' = flash /\ booted' = booted /\ pc' = "mark_obsolete" /\ pc = "env_relocate"
          /\ env_valid # 0
      BY <1>3 DEF RelocateSwap, history
    <2>2. EnvInitResult(flash)[2] # 0 /\ env_addr = EnvInitResult(flash)[1]
      BY <1>0, <2>1 DEF CurrentCopy
    <2>3. env_addr \in Copies
      BY <1>0, <2>2, ChoiceLemma
    <2>4. flash_addr' = env_addr
      BY <1>3, <1>c, <2>3 DEF RelocateSwap
    <2>5. ~worn => flash[env_addr].flags # OBSOLETE_FLAG
      BY <1>0, <2>2, NotObsoleteLemma DEF FlagPair
    <2> QED
      BY <1>0, <1>w, <2>1, <2>2, <2>4, <2>5 DEF ToldApart, FlagPair, SameChoice, Saving
  <1>4. CASE RecoverObsolete
    <2>1. pc = "mark_obsolete" /\ pc' = "mark_active" /\ booted' = booted /\ flash_addr' = flash_addr
          /\ flash_addr_new' = flash_addr_new
      BY <1>4 DEF RecoverObsolete, history, flash_addr_new
    <2>2. flash[a].crc
      BY <1>0, <2>1 DEF CurrentCopy
    <2> SUFFICES ASSUME ~worn PROVE ToldApart'
      BY <1>w, <2>1 DEF ToldApart, FlagPair, SameChoice, Saving
    <2>3. flash[a].flags # OBSOLETE_FLAG /\ EnvInitResult(flash)[1] = a
          /\ (booted # NoBoot => BootEnv(flash) = booted)
      BY <1>0, <2>1 DEF FlagPair, SameChoice
    <2>4. /\ flash' \in [Copies -> EnvT]
          /\ flash'[a] = flash[a]
          /\ flash'[n].crc => flash'[n].flags = OBSOLETE_FLAG
      <3>1. flash' \in [Copies -> EnvT]
        BY <1>0 DEF TypeOK
      <3>2. CASE flash[n].flags # OBSOLETE_FLAG /\ flash[n].crc
        <4>1. flash' = [flash EXCEPT ![n].flags = OBSOLETE_FLAG]
          BY <1>4, <3>2 DEF RecoverObsolete, FlagWrite, Results
        <4> QED
          BY <1>c, <1>f, <3>1, <4>1 DEF EnvT
      <3>3. CASE ~(flash[n].flags # OBSOLETE_FLAG /\ flash[n].crc)
        <4>1. flash' = flash
          BY <1>4, <3>3 DEF RecoverObsolete
        <4> QED
          BY <3>1, <3>3, <4>1
      <3> QED
        BY <3>2, <3>3
    <2>5. EnvInitResult(flash')[1] = a
      BY <1>c, <2>2, <2>3, <2>4, ChosenLemma
    <2>6. BootEnv(flash') = BootEnv(flash)
      BY <1>c, <2>3, <2>4, <2>5 DEF BootEnv
    <2>7. FlagPair'
      BY <1>c, <2>1, <2>2, <2>3, <2>4 DEF FlagPair
    <2>8. SameChoice'
      BY <2>1, <2>3, <2>5, <2>6 DEF SameChoice, Saving
    <2> QED
      BY <2>7, <2>8 DEF ToldApart
  <1>5. CASE RecoverActive
    <2>1. /\ pc = "mark_active" /\ pc' = "idle" /\ booted' = flash[a].data
          /\ flash_addr' = flash_addr /\ flash_addr_new' = flash_addr_new
      BY <1>5 DEF RecoverActive, flash_addr_new
    <2>2. flash[a].crc
      BY <1>0, <2>1 DEF CurrentCopy
    <2> SUFFICES ASSUME ~worn PROVE ToldApart'
      BY <1>w, <2>1 DEF ToldApart, FlagPair, SameChoice, Saving
    <2>3. /\ flash[a].flags # OBSOLETE_FLAG
          /\ flash[n].crc => flash[n].flags = OBSOLETE_FLAG
      BY <1>0, <2>1 DEF FlagPair
    <2>4. flash[a].flags \in {ACTIVE_FLAG, ERASED_FLAG}
      BY <1>f, <2>3 DEF EnvT, Flags
    <2>5. /\ flash' \in [Copies -> EnvT]
          /\ flash'[n] = flash[n]
          /\ flash'[a].crc /\ flash'[a].data = flash[a].data /\ flash'[a].flags = ACTIVE_FLAG
      <3>1. flash' \in [Copies -> EnvT]
        BY <1>0 DEF TypeOK
      <3>2. CASE flash[a].flags = ERASED_FLAG
        <4>1. flash' = [flash EXCEPT ![a].flags = ACTIVE_FLAG]
          BY <1>5, <3>2 DEF RecoverActive, FlagWrite, Results
        <4> QED
          BY <1>c, <1>f, <2>2, <3>1, <4>1 DEF EnvT
      <3>3. CASE flash[a].flags # ERASED_FLAG
        <4>1. flash' = flash
          BY <1>5, <3>3 DEF RecoverActive
        <4> QED
          BY <2>2, <2>4, <3>1, <3>3, <4>1
      <3> QED
        BY <3>2, <3>3
    <2>6. ACTIVE_FLAG # OBSOLETE_FLAG
      BY DEF ACTIVE_FLAG, OBSOLETE_FLAG
    <2>7. EnvInitResult(flash')[1] = a
      BY <1>c, <2>3, <2>5, <2>6, ChosenLemma
    <2>8. BootEnv(flash') = flash[a].data
      BY <1>c, <2>5, <2>7 DEF BootEnv
    <2>9. FlagPair'
      BY <1>c, <2>1, <2>3, <2>5, <2>6 DEF FlagPair
    <2>10. SameChoice'
      BY <2>1, <2>8 DEF SameChoice, Saving
    <2> QED
      BY <2>9, <2>10 DEF ToldApart
  <1>6. CASE \E v \in Values : Setenv(v)
    <2>1. UNCHANGED <<flash, flash_addr, pc, booted>>
      BY <1>6 DEF Setenv, history
    <2> QED
      BY <1>0, <1>w, <2>1 DEF ToldApart, FlagPair, SameChoice, flash_addr_new
  <1>7. CASE SaveStart
    <2>1. UNCHANGED <<flash, flash_addr>> /\ pc = "idle" /\ pc' = "erase" /\ booted' = NoBoot
      BY <1>7 DEF SaveStart
    <2> QED
      BY <1>0, <1>w, <2>1 DEF ToldApart, FlagPair, SameChoice, flash_addr_new
  <1>8. CASE SaveErase
    <2>1. pc = "erase" /\ booted' = booted /\ booted = NoBoot /\ flash_addr' = flash_addr
          /\ flash_addr_new' = flash_addr_new
      BY <1>8, <1>0 DEF SaveErase, history, SameChoice, Saving, flash_addr_new
    <2>2. ~worn => flash' = [flash EXCEPT ![n] = Blank(ERASED_FLAG)] /\ pc' = "write_data"
      BY <1>8 DEF SaveErase, Erased
    <2>3. ~worn => flash'[a] = flash[a] /\ ~flash'[n].crc
      BY <1>c, <1>f, <2>2 DEF Blank
    <2>4. ~worn /\ flash[a].crc => flash[a].flags = ACTIVE_FLAG
      BY <1>0, <2>1 DEF FlagPair
    <2>5. FlagPair'
      BY <1>c, <1>w, <2>1, <2>2, <2>3, <2>4 DEF FlagPair, ACTIVE_FLAG, OBSOLETE_FLAG
    <2> QED
      BY <2>1, <2>5, <1>w, <2>2 DEF ToldApart, SameChoice
  <1>9. CASE SaveData
    <2>1. pc = "write_data" /\ booted' = booted /\ booted = NoBoot /\ flash_addr' = flash_addr
          /\ flash_addr_new' = flash_addr_new
      BY <1>9, <1>0 DEF SaveData, history, SameChoice, Saving, flash_addr_new
    <2>2. ~worn => pc' = "write_crc"
      BY <1>9 DEF SaveData, Results, NextOrDone
    <2>3. flash'[a] = flash[a] /\ flash'[n].crc = flash[n].crc
      BY <1>9, <1>c, <1>f DEF SaveData, EnvT
    <2>4. ~flash[n].crc
      BY <1>0, <2>1 DEF NewCopy
    <2>5. ~worn /\ flash[a].crc => flash[a].flags = ACTIVE_FLAG
      BY <1>0, <2>1 DEF FlagPair
    <2>6. FlagPair'
      BY <1>c, <1>w, <2>1, <2>2, <2>3, <2>4, <2>5 DEF FlagPair, ACTIVE_FLAG, OBSOLETE_FLAG
    <2> QED
      BY <2>1, <2>2, <1>w, <2>6 DEF ToldApart, SameChoice
  <1>10. CASE SaveCrc
    <2>1. pc = "write_crc" /\ booted' = booted /\ booted = NoBoot /\ flash_addr' = flash_addr
          /\ flash_addr_new' = flash_addr_new
      BY <1>10, <1>0 DEF SaveCrc, history, SameChoice, Saving, flash_addr_new
    <2>2. ~worn => pc' = "write_obsolete"
      BY <1>10 DEF SaveCrc, Results, NextOrDone
    <2>3. flash'[a] = flash[a] /\ flash'[n].flags = flash[n].flags
      BY <1>10, <1>c, <1>f DEF SaveCrc, EnvT
    <2>4. flash[n].flags = ERASED_FLAG
      BY <1>0, <2>1 DEF NewCopy
    <2>5. ~worn /\ flash[a].crc => flash[a].flags = ACTIVE_FLAG
      BY <1>0, <2>1 DEF FlagPair
    <2>6. FlagPair'
      BY <1>c, <1>w, <2>1, <2>2, <2>3, <2>4, <2>5 DEF FlagPair, ACTIVE_FLAG, OBSOLETE_FLAG, ERASED_FLAG
    <2> QED
      BY <2>1, <2>2, <1>w, <2>6 DEF ToldApart, SameChoice
  <1>11. CASE SaveObsolete
    <2>1. pc = "write_obsolete" /\ booted' = booted /\ booted = NoBoot /\ flash_addr' = flash_addr
          /\ flash_addr_new' = flash_addr_new
      BY <1>11, <1>0 DEF SaveObsolete, history, SameChoice, Saving, flash_addr_new
    <2>2. ~worn => pc' = "write_active"
      BY <1>11 DEF SaveObsolete, Results, NextOrDone
    <2>3. flash'[n] = flash[n]
      BY <1>11, <1>c, <1>f DEF SaveObsolete, FlagWrite, EnvT
    <2>4. flash[n].flags = ERASED_FLAG /\ flash[n].crc
      BY <1>0, <2>1 DEF NewCopy
    <2>5. FlagPair'
      BY <1>c, <1>w, <2>1, <2>2, <2>3, <2>4 DEF FlagPair, OBSOLETE_FLAG, ERASED_FLAG
    <2> QED
      BY <2>1, <2>2, <1>w, <2>5 DEF ToldApart, SameChoice
  <1>12. CASE SaveActive
    <2>1. pc = "write_active" /\ pc' \in {"idle", "write_rest"} /\ booted' = booted /\ booted = NoBoot
      BY <1>12, <1>0 DEF SaveActive, NextOrDone, SameChoice, Saving
    <2>2. ~worn => /\ flash' = [flash EXCEPT ![n].flags = ACTIVE_FLAG]
                   /\ pc' = "idle" => flash_addr' = n /\ flash_addr_new' = a
      BY <1>12, <1>c DEF SaveActive, NextOrDone, Results, FlagWrite, flash_addr_new
    <2>3. ~worn => flash'[a] = flash[a] /\ flash'[n].flags = ACTIVE_FLAG /\ flash'[n].crc = flash[n].crc
      BY <1>c, <1>f, <2>2 DEF EnvT
    <2>4. flash[a].flags = OBSOLETE_FLAG /\ flash[n].crc
      BY <1>0, <2>1 DEF NewCopy
    <2>5. FlagPair'
      BY <1>c, <1>w, <2>1, <2>2, <2>3, <2>4 DEF FlagPair, OBSOLETE_FLAG, ACTIVE_FLAG
    <2> QED
      BY <2>1, <2>5 DEF ToldApart, SameChoice, Saving
  <1>14. CASE SaveRest
    <2>1. pc = "write_rest" /\ pc' = "idle" /\ booted' = booted /\ flash' = flash
      BY <1>14 DEF SaveRest, history
    <2>2. ~worn => flash_addr' = n /\ flash_addr_new' = a
      BY <1>14, <1>c DEF SaveRest, Results, flash_addr_new
    <2>3. flash[a].flags = OBSOLETE_FLAG /\ flash[n].flags = ACTIVE_FLAG
      BY <1>0, <2>1 DEF NewCopy
    <2>4. FlagPair'
      BY <1>0, <1>w, <2>1, <2>2, <2>3 DEF FlagPair
    <2> QED
      BY <1>0, <1>w, <2>1, <2>4 DEF ToldApart, SameChoice, Saving
  <1>13. CASE PowerFail
    <2>1. pc' = "env_init" /\ booted' = booted
      BY <1>13 DEF PowerFail, history
    <2>2. \/ flash' = flash
          \/ /\ pc = "erase"
             /\ \E f \in Flags : flash' = [flash EXCEPT ![n] = Blank(f)]
      BY <1>13 DEF PowerFail, HalfErased
    <2>3. CASE flash' = flash
      BY <1>0, <1>w, <2>1, <2>3 DEF ToldApart, FlagPair, SameChoice, Saving
    <2>4. CASE pc = "erase" /\ \E f \in Flags : flash' = [flash EXCEPT ![n] = Blank(f)]
      <3>1. flash'[a] = flash[a] /\ ~flash'[n].crc
        BY <1>c, <1>f, <2>4 DEF Blank
      <3>2. ~worn /\ flash[a].crc => flash[a].flags = ACTIVE_FLAG
        BY <1>0, <2>4 DEF FlagPair
      <3>3. booted = NoBoot
        BY <1>0, <2>4 DEF SameChoice, Saving
      <3>4. FlagPair'
        BY <1>c, <1>w, <2>1, <3>1, <3>2 DEF FlagPair, ACTIVE_FLAG, OBSOLETE_FLAG
      <3> QED
        BY <2>1, <3>3, <3>4 DEF ToldApart, SameChoice, Saving
    <2> QED
      BY <2>2, <2>3, <2>4
  <1>15. CASE UNCHANGED vars
    BY <1>15, <1>0 DEF vars, ToldApart, FlagPair, SameChoice, flash_addr_new
  <1> QED
    BY <1>1, <1>2, <1>3, <1>4, <1>5, <1>6, <1>7, <1>8, <1>9, <1>10, <1>11, <1>12, <1>13, <1>14, <1>15
       DEF Next

(* Without errors the running system always tells its two copies apart, so  *)
(* that the next saveenv erases the old one (saveenv, env_relocate_spec).   *)
THEOREM EnvFlashOneCurrentCopy ==
  ASSUME ~RestFails
  PROVE  Spec => []OneCurrentCopy
  <1>1. IInv /\ ToldApart => OneCurrentCopy
    BY DEF ToldApart, FlagPair, OneCurrentCopy, IInv, TypeOK, EnvT, Copies, flash_addr_new, Other
  <1>2. IInv /\ [Next]_vars => IInv'
    BY StepLemma
  <1> QED
    BY <1>1, <1>2, InitLemma, ToldApartInit, ToldApartStep, PTL DEF Spec

(* Resets that follow each other without a saveenv come up with the same    *)
(* environment, wherever the recovery is interrupted (env_relocate_spec).   *)
THEOREM EnvFlashBootsAgree ==
  ASSUME ~RestFails
  PROVE  Spec => BootsAgree
  <1>1. IInv /\ IInv' /\ ToldApart /\ ToldApart' /\ [Next]_vars
          => [booted # NoBoot /\ booted' # NoBoot /\ ~worn => booted' = booted]_vars
    <2> SUFFICES ASSUME IInv, ToldApart, ToldApart', Next,
                        booted # NoBoot, booted' # NoBoot, ~worn
                 PROVE  booted' = booted
      BY DEF vars
    <2>1. BootEnv(flash) = booted
      BY DEF ToldApart, SameChoice
    <2>2. CASE RelocateDefault
      <3>1. booted' = DefaultEnv /\ flash' = flash /\ worn' = worn
        BY <2>2 DEF RelocateDefault
      <3>2. BootEnv(flash') = booted'
        BY <3>1 DEF ToldApart, SameChoice
      <3> QED
        BY <2>1, <3>1, <3>2
    <2>3. CASE RecoverActive
      <3>1. booted' = flash[flash_addr].data /\ pc = "mark_active"
        BY <2>3 DEF RecoverActive
      <3>2. EnvInitResult(flash)[1] = flash_addr /\ flash_addr \in Copies
        BY <3>1 DEF ToldApart, SameChoice, IInv, TypeOK
      <3> QED
        BY <2>1, <3>1, <3>2 DEF BootEnv
    <2>4. CASE ~RelocateDefault /\ ~RecoverActive
      BY <2>4 DEF Next, EnvInit, RelocateSwap, RecoverObsolete, Setenv,
         SaveStart, SaveErase, SaveData, SaveCrc, SaveObsolete, SaveActive, SaveRest, PowerFail, history
    <2> QED
      BY <2>2, <2>3, <2>4
  <1>2. IInv /\ [Next]_vars => IInv'
    BY StepLemma
  <1> QED
    BY <1>1, <1>2, InitLemma, ToldApartInit, ToldApartStep, PTL DEF Spec, BootsAgree

=============================================================================
