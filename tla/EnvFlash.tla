------------------------------ MODULE EnvFlash ------------------------------
(***************************************************************************)
(* The environment in two flash sectors (CFG_ENV_ADDR_REDUND):             *)
(* common/env_flash.c, with env_relocate of common/env_common.c and        *)
(* setenv of common/cmd_nvedit.c as their callers see them.                *)
(*                                                                         *)
(* One action per flash operation of saveenv and of env_relocate_spec, so  *)
(* that the power can fail between any two of them, or in the middle of an *)
(* erase.  A program operation clears bits of a field and is taken as one  *)
(* step: a torn write of the data or of the CRC leaves a CRC that does not *)
(* match, which is the state between the two writes.                       *)
(*                                                                         *)
(* In builds whose sector is larger than the environment saveenv copies    *)
(* the rest of the sector to RAM before the erase and writes it back       *)
(* between the last write of the environment and the exchange of the two   *)
(* copies.  An environment counts as committed from its last write on.     *)
(***************************************************************************)
EXTENDS Naturals, FiniteSets

CONSTANTS
  Values,      \* environments a user can build with setenv
  DefaultEnv,  \* default_environment
  Garbage,     \* the data of a sector that holds no environment
  RestFails    \* whether writing back the rest of a sector may be refused

ASSUME EnvAssumption ==
  /\ DefaultEnv \notin Values
  /\ Garbage \notin Values \cup {DefaultEnv}
  /\ RestFails \in BOOLEAN

VARIABLES
  flash,       \* the two env_t in flash: data, whether crc matches it, flags
  env_ptr,     \* the environment in RAM: data and whether crc matches it
  env_addr,    \* gd->env_addr: a copy in flash, or one of the three below
  env_valid,   \* gd->env_valid
  flash_addr,  \* which copy flash_addr points to; flash_addr_new is the other
  pc,          \* the flash operation the code is about to do
  worn,        \* flash operations may report an error
  larger,      \* CFG_ENV_SECT_SIZE > CFG_ENV_SIZE: the sector holds more
  committed,   \* history: the data of the last saveenv that returned 0
  uncertain,   \* history: the data of the saveenv calls started since
  booted       \* history: what the last reset came up with, until a saveenv

history == <<committed, uncertain, booted>>
gdVars == <<env_addr, env_valid>>
vars == <<flash, env_ptr, env_addr, env_valid, flash_addr, pc, worn, larger,
          committed, uncertain, booted>>

Copies == {1, 2}
Other(c) == 3 - c
NotSet == 0
DefaultAddr == 3
RamAddr == 4
Envs == Values \cup {DefaultEnv}
NoBoot == Garbage

ACTIVE_FLAG == "active"
OBSOLETE_FLAG == "obsolete"
ERASED_FLAG == "0xFF"
Flags == {ACTIVE_FLAG, OBSOLETE_FLAG, ERASED_FLAG}

EnvT == [data : Envs \cup {Garbage}, crc : BOOLEAN, flags : Flags]
Blank(f) == [data |-> Garbage, crc |-> FALSE, flags |-> f]

Saving == {"erase", "write_data", "write_crc", "write_obsolete", "write_active"}

flash_addr_new == Other(flash_addr)
Allowed == {committed} \cup uncertain

-----------------------------------------------------------------------------
(* Mutant of EnvInitResult: the last else-if of env_init is missing.        *)
EnvInitResultNoLastCase(f) ==
  IF f[1].crc /\ ~f[2].crc THEN <<1, 1>>
  ELSE IF ~f[1].crc /\ f[2].crc THEN <<2, 1>>
  ELSE IF ~f[1].crc /\ ~f[2].crc THEN <<DefaultAddr, 0>>
  ELSE IF f[1].flags = ACTIVE_FLAG /\ f[2].flags = OBSOLETE_FLAG THEN <<1, 1>>
  ELSE IF f[1].flags = OBSOLETE_FLAG /\ f[2].flags = ACTIVE_FLAG THEN <<2, 1>>
  ELSE IF f[1].flags \in {f[2].flags, ERASED_FLAG} THEN <<1, 2>>
  ELSE <<NotSet, 0>>

(* gd->env_addr and gd->env_valid as env_init leaves them: the good copy    *)
(* when only one CRC matches, by the flags when both do.  <<NotSet, 0>> is   *)
(* the chain of else-ifs falling through.                                   *)
EnvInitResult(f) ==
  LET flag1 == f[1].flags
      flag2 == f[2].flags
  IN IF f[1].crc /\ ~f[2].crc THEN <<1, 1>>
     ELSE IF ~f[1].crc /\ f[2].crc THEN <<2, 1>>
     ELSE IF ~f[1].crc /\ ~f[2].crc THEN <<DefaultAddr, 0>>
     ELSE IF flag1 = ACTIVE_FLAG /\ flag2 = OBSOLETE_FLAG THEN <<1, 1>>
     ELSE IF flag1 = OBSOLETE_FLAG /\ flag2 = ACTIVE_FLAG THEN <<2, 1>>
     ELSE IF flag1 = flag2 THEN <<1, 2>>
     ELSE IF flag1 = ERASED_FLAG THEN <<1, 2>>
     ELSE IF flag2 = ERASED_FLAG THEN <<2, 2>>
     ELSE <<NotSet, 0>>

(* The environment a reset would come up with now. *)
BootEnv(f) ==
  IF EnvInitResult(f)[1] \in Copies THEN f[EnvInitResult(f)[1]].data ELSE DefaultEnv

-----------------------------------------------------------------------------

Init ==
  /\ flash \in [Copies -> {Blank(f) : f \in Flags}]
  /\ env_ptr = [data |-> DefaultEnv, crc |-> FALSE]
  /\ env_addr = NotSet
  /\ env_valid = 0
  /\ flash_addr = 1
  /\ pc = "env_init"
  /\ worn \in BOOLEAN
  /\ larger \in BOOLEAN
  /\ committed = DefaultEnv
  /\ uncertain = {}
  /\ booted = NoBoot

(* board_init_f / start_armboot: env_init, with flash not yet relocated. *)
EnvInit ==
  /\ pc = "env_init"
  /\ env_addr' = EnvInitResult(flash)[1]
  /\ env_valid' = EnvInitResult(flash)[2]
  /\ pc' = "env_relocate"
  /\ UNCHANGED <<flash, env_ptr, flash_addr, worn, larger, history>>

(* env_relocate with env_valid = 0: the default environment in RAM, its CRC *)
(* computed; env_relocate_spec is not called, flash_addr keeps its value.   *)
RelocateDefault ==
  /\ pc = "env_relocate"
  /\ env_valid = 0
  /\ env_ptr' = [data |-> DefaultEnv, crc |-> TRUE]
  /\ env_valid' = 1
  /\ env_addr' = RamAddr
  /\ booted' = DefaultEnv
  /\ pc' = "idle"
  /\ UNCHANGED <<flash, flash_addr, worn, larger, committed, uncertain>>

(* Mutant of RelocateSwap: the comparison is inverted. *)
RelocateSwapInverted ==
  /\ pc = "env_relocate"
  /\ env_valid # 0
  /\ flash_addr' = IF env_addr = flash_addr THEN flash_addr_new ELSE flash_addr
  /\ pc' = "mark_obsolete"
  /\ UNCHANGED <<flash, env_ptr, gdVars, worn, larger, history>>

(* env_relocate_spec: point flash_addr at the copy env_init took. *)
RelocateSwap ==
  /\ pc = "env_relocate"
  /\ env_valid # 0
  /\ flash_addr' = IF env_addr # flash_addr THEN flash_addr_new ELSE flash_addr
  /\ pc' = "mark_obsolete"
  /\ UNCHANGED <<flash, env_ptr, gdVars, worn, larger, history>>

(* A flag byte programmed in flash.  The write may be refused on a worn     *)
(* device, having changed the byte or not.                                  *)
FlagWrite(c, flag, ok) ==
  \/ flash' = [flash EXCEPT ![c].flags = flag]
  \/ ~ok /\ flash' = flash

Results == IF worn THEN BOOLEAN ELSE {TRUE}

(* Mutant of RecoverObsolete: two good copies are left as they are. *)
RecoverObsoleteSkipped ==
  /\ pc = "mark_obsolete"
  /\ pc' = "mark_active"
  /\ UNCHANGED <<flash, env_ptr, gdVars, flash_addr, worn, larger, history>>

(* env_relocate_spec: a good second copy that is not marked obsolete is     *)
(* marked now.  The result of flash_write is ignored.                       *)
RecoverObsolete ==
  /\ pc = "mark_obsolete"
  /\ IF flash[flash_addr_new].flags # OBSOLETE_FLAG /\ flash[flash_addr_new].crc
     THEN /\ \E ok \in Results : FlagWrite(flash_addr_new, OBSOLETE_FLAG, ok)
          /\ env_valid' = 2
     ELSE UNCHANGED <<flash, env_valid>>
  /\ pc' = "mark_active"
  /\ UNCHANGED <<env_ptr, env_addr, flash_addr, worn, larger, history>>

(* env_relocate_spec: flags that are not ACTIVE but still have its bit set  *)
(* (0xFF: saveenv never got to its last write) are made ACTIVE.  Then the   *)
(* copy in flash, its CRC with it, becomes the environment in RAM.          *)
RecoverActive ==
  /\ pc = "mark_active"
  /\ IF flash[flash_addr].flags = ERASED_FLAG
     THEN \E ok \in Results : FlagWrite(flash_addr, ACTIVE_FLAG, ok)
     ELSE UNCHANGED flash
  /\ env_valid' = IF flash[flash_addr].flags = ERASED_FLAG THEN 2 ELSE env_valid
  /\ env_ptr' = [data |-> flash[flash_addr].data, crc |-> flash[flash_addr].crc]
  /\ env_addr' = RamAddr
  /\ booted' = flash[flash_addr].data
  /\ pc' = "idle"
  /\ UNCHANGED <<flash_addr, worn, larger, committed, uncertain>>

-----------------------------------------------------------------------------
(* The running system.                                                      *)

(* setenv that fits: the variable is changed and the CRC recomputed.        *)
Setenv(v) ==
  /\ pc = "idle"
  /\ env_ptr' = [data |-> v, crc |-> TRUE]
  /\ UNCHANGED <<flash, gdVars, flash_addr, pc, worn, larger, history>>

(* saveenv: both sectors unprotected.  A refused flash_sect_protect ends it *)
(* here and changes nothing.                                                *)
SaveStart ==
  /\ pc = "idle"
  /\ uncertain' = uncertain \cup {env_ptr.data}
  /\ booted' = NoBoot
  /\ pc' = "erase"
  /\ UNCHANGED <<flash, env_ptr, gdVars, flash_addr, worn, larger, committed>>

(* The states an erase of sector c can leave: done, or (interrupted or      *)
(* refused) not begun or with its contents lost.                            *)
Erased(c) == [flash EXCEPT ![c] = Blank(ERASED_FLAG)]
HalfErased(c) == {flash} \cup {[flash EXCEPT ![c] = Blank(f)] : f \in Flags}

SaveErase ==
  /\ pc = "erase"
  /\ \/ /\ flash' = Erased(flash_addr_new)
        /\ pc' = "write_data"
     \/ /\ worn
        /\ flash' \in HalfErased(flash_addr_new)
        /\ pc' = "idle"
  /\ UNCHANGED <<env_ptr, gdVars, flash_addr, worn, larger, history>>

(* The next step of saveenv when flash_write returned ok, Done otherwise.   *)
NextOrDone(ok, step) == pc' = IF ok THEN step ELSE "idle"

SaveData ==
  /\ pc = "write_data"
  /\ \E ok \in Results : NextOrDone(ok, "write_crc")
  /\ flash' = [flash EXCEPT ![flash_addr_new].data = env_ptr.data]
  /\ UNCHANGED <<env_ptr, gdVars, flash_addr, worn, larger, history>>

(* Mutant of SaveCrc: the result of flash_write is not looked at. *)
SaveCrcUnchecked ==
  /\ pc = "write_crc"
  /\ \E ok \in Results :
       \/ flash' = [flash EXCEPT ![flash_addr_new].crc = env_ptr.crc]
       \/ ~ok /\ flash' = flash
  /\ pc' = "write_obsolete"
  /\ UNCHANGED <<env_ptr, gdVars, flash_addr, worn, larger, history>>

SaveCrc ==
  /\ pc = "write_crc"
  /\ \E ok \in Results :
       /\ \/ flash' = [flash EXCEPT ![flash_addr_new].crc = env_ptr.crc]
          \/ ~ok /\ flash' = flash
       /\ NextOrDone(ok, "write_obsolete")
  /\ UNCHANGED <<env_ptr, gdVars, flash_addr, worn, larger, history>>

SaveObsolete ==
  /\ pc = "write_obsolete"
  /\ \E ok \in Results :
       /\ FlagWrite(flash_addr, OBSOLETE_FLAG, ok)
       /\ NextOrDone(ok, "write_active")
  /\ UNCHANGED <<env_ptr, gdVars, flash_addr, worn, larger, history>>

(* The last write of the environment.  When it succeeds the two copies      *)
(* change roles, or in a larger sector the rest is written back first, and  *)
(* 0 is returned.                                                           *)
SaveActive ==
  /\ pc = "write_active"
  /\ \E ok \in Results :
       /\ FlagWrite(flash_addr_new, ACTIVE_FLAG, ok)
       /\ NextOrDone(ok /\ larger, "write_rest")
       /\ flash_addr' = IF ok /\ ~larger THEN flash_addr_new ELSE flash_addr
       /\ committed' = IF ok THEN env_ptr.data ELSE committed
       /\ uncertain' = IF ok THEN {} ELSE uncertain
  /\ UNCHANGED <<env_ptr, gdVars, worn, larger, booted>>

(* Mutant of SaveRest: the copies are not exchanged. *)
SaveRestNoSwap ==
  /\ pc = "write_rest"
  /\ pc' = "idle"
  /\ UNCHANGED <<flash, env_ptr, gdVars, flash_addr, worn, larger, history>>

(* The rest of the sector is written back and the copies change roles.      *)
(* When that write is refused saveenv jumps over the exchange, with rc      *)
(* still 0 from the write before: it reports the environment as saved.      *)
SaveRest ==
  /\ pc = "write_rest"
  /\ \E ok \in IF RestFails THEN Results ELSE {TRUE} :
       flash_addr' = IF ok THEN flash_addr_new ELSE flash_addr
  /\ pc' = "idle"
  /\ UNCHANGED <<flash, env_ptr, gdVars, worn, larger, history>>

(* Power failure or reset: what is in flash stays (a sector being erased    *)
(* may have lost its contents), gd and flash_addr are initialised again.    *)
(* The buffer behind env_ptr is not read before env_relocate has filled it. *)
PowerFail ==
  /\ pc # "env_init"
  /\ IF pc = "erase"
     THEN flash' \in HalfErased(flash_addr_new)
     ELSE UNCHANGED flash
  /\ env_addr' = NotSet
  /\ env_valid' = 0
  /\ flash_addr' = 1
  /\ pc' = "env_init"
  /\ UNCHANGED <<env_ptr, worn, larger, history>>

Next ==
  \/ EnvInit \/ RelocateDefault \/ RelocateSwap \/ RecoverObsolete \/ RecoverActive
  \/ \E v \in Values : Setenv(v)
  \/ SaveStart \/ SaveErase \/ SaveData \/ SaveCrc
  \/ SaveObsolete \/ SaveActive \/ SaveRest
  \/ PowerFail

Spec == Init /\ [][Next]_vars

-----------------------------------------------------------------------------
(* Types of all variables. *)
TypeOK ==
  /\ flash \in [Copies -> EnvT]
  /\ env_ptr \in [data : Envs, crc : BOOLEAN]
  /\ env_addr \in {NotSet, 1, 2, DefaultAddr, RamAddr}
  /\ env_valid \in 0..2
  /\ flash_addr \in Copies
  /\ pc \in Saving \cup {"env_init", "env_relocate", "mark_obsolete", "mark_active", "idle",
                   "write_rest"}
  /\ worn \in BOOLEAN
  /\ larger \in BOOLEAN
  /\ committed \in Envs
  /\ uncertain \in SUBSET Envs
  /\ booted \in Envs \cup {NoBoot}

(* A reset at this very moment, whatever saveenv or the recovery is doing,  *)
(* comes up with the last environment saveenv reported as saved or with one *)
(* it was asked to save since: never with the default, with an older        *)
(* environment or with none at all (env_init, saveenv, env_relocate_spec).  *)
(* For RestFails it does not hold: a saveenv that skipped the exchange is    *)
(* followed by one that erases the copy just saved.                         *)
Recoverable == EnvInitResult(flash)[1] # NotSet /\ BootEnv(flash) \in Allowed

(* On a device without errors the copies are told apart whenever the system *)
(* runs: the one in use is ACTIVE and the other is bad or OBSOLETE          *)
(* (env_relocate_spec repairs what an interrupted saveenv left).            *)
OneCurrentCopy ==
  pc = "idle" /\ ~worn /\ flash[flash_addr].crc =>
    /\ flash[flash_addr].flags = ACTIVE_FLAG
    /\ ~flash[flash_addr_new].crc \/ flash[flash_addr_new].flags = OBSOLETE_FLAG

(* Once a reset has come up with an environment, later resets come up with  *)
(* the same one until saveenv is called, however often the recovery itself  *)
(* is interrupted (env_relocate_spec marks OBSOLETE before ACTIVE).         *)
BootsAgree ==
  [][booted # NoBoot /\ booted' # NoBoot /\ ~worn => booted' = booted]_vars

Store == INSTANCE EnvStore WITH env <- env_ptr.data

(* saveenv, env_init and env_relocate, the power failing at any step, are   *)
(* the store of EnvStore: a reset comes up with an environment it allows.   *)
ImplementsStore == Store!Spec

-----------------------------------------------------------------------------
(* The inductive invariant behind Recoverable and ImplementsStore.          *)

(* A good copy that a reset must not take, and does not take.               *)
Superseded(c) ==
  /\ flash[c].flags = OBSOLETE_FLAG
  /\ flash[Other(c)].crc
  /\ flash[Other(c)].flags # OBSOLETE_FLAG
  /\ flash[Other(c)].data \in Allowed

GoodCopies ==
  /\ \A c \in Copies : flash[c].crc => flash[c].data \in Allowed \/ Superseded(c)
  /\ (\A c \in Copies : ~flash[c].crc) => DefaultEnv \in Allowed

(* What the code knows of the copy it leaves alone while it rewrites the other. *)
CurrentCopy ==
  /\ pc = "env_relocate" =>
       env_addr = EnvInitResult(flash)[1] /\ env_valid = EnvInitResult(flash)[2]
  /\ pc \in {"mark_obsolete", "mark_active"} =>
       flash[flash_addr].crc /\ flash[flash_addr].data \in Allowed
  /\ pc \in Saving \cup {"idle"} =>
       /\ env_ptr.crc
       /\ IF flash[flash_addr].crc THEN flash[flash_addr].data \in Allowed
          ELSE DefaultEnv \in Allowed

(* How far the new copy has got. *)
NewCopy ==
  /\ pc \in Saving => env_ptr.data \in uncertain
  /\ pc \in {"write_data", "write_crc"} => ~flash[flash_addr_new].crc
  /\ pc \in {"write_crc", "write_obsolete", "write_active"} =>
       flash[flash_addr_new].data = env_ptr.data
  /\ pc \in {"write_data", "write_crc", "write_obsolete", "write_active"} =>
       flash[flash_addr_new].flags = ERASED_FLAG
  /\ pc \in {"write_obsolete", "write_active"} => flash[flash_addr_new].crc
  /\ pc \in {"write_active", "write_rest"} => flash[flash_addr].flags = OBSOLETE_FLAG
  /\ pc = "write_rest" =>
       /\ env_ptr.crc
       /\ flash[flash_addr_new] = [data |-> committed, crc |-> TRUE, flags |-> ACTIVE_FLAG]

IInv == TypeOK /\ GoodCopies /\ CurrentCopy /\ NewCopy

(* On a device without errors: which flags the two copies can have at each  *)
(* step.  It is inductive relative to IInv, and behind OneCurrentCopy.      *)
FlagPair ==
  ~worn =>
    /\ \A c \in Copies :
         flash[c].crc /\ flash[c].flags = OBSOLETE_FLAG =>
           flash[Other(c)].crc /\ flash[Other(c)].flags # OBSOLETE_FLAG
    /\ pc \in {"mark_obsolete", "mark_active"} => flash[flash_addr].flags # OBSOLETE_FLAG
    /\ pc \in {"idle", "erase", "write_data", "write_crc", "write_obsolete"} =>
         (flash[flash_addr].crc => flash[flash_addr].flags = ACTIVE_FLAG)
    /\ pc \in {"mark_active", "idle", "erase"} =>
         (flash[flash_addr_new].crc => flash[flash_addr_new].flags = OBSOLETE_FLAG)

(* The recovery does not change what env_init would choose: behind BootsAgree. *)
SameChoice ==
  /\ pc \in Saving => booted = NoBoot
  /\ ~worn =>
       /\ pc \in {"mark_obsolete", "mark_active"} => EnvInitResult(flash)[1] = flash_addr
       /\ booted # NoBoot => BootEnv(flash) = booted

ToldApart == FlagPair /\ SameChoice

=============================================================================
