--------------------------- MODULE SecureElement ---------------------------
(***************************************************************************)
(* wallet_secure_element.c: bringing the TROPIC01 up in a bounded number   *)
(* of attempts, and asking it before every use of the private key.  Each   *)
(* libtropic call (lt_init, lt_get_tr01_mode, lt_get_info_chip_id) is a    *)
(* step that may fail; the chip answers when it likes.                     *)
(***************************************************************************)
EXTENDS Integers

CONSTANTS
  MaxInitAttempts,   \* max_attempts of wallet_secure_element_init
  AuthMod            \* values of the uint32_t authorization counter

ASSUME SecureElementAssumption ==
  /\ MaxInitAttempts \in Nat \ {0}
  /\ AuthMod \in Nat \ {0}

VARIABLES
  sePhase,         \* the libtropic call init is about to make, or how it ended
  initAttempts,    \* the attempt it is in
  initRet,         \* wallet_secure_element_init_ret
  initialized,     \* authorize_key_use may talk to the chip
  handleOpen,      \* the handle has gone through lt_init and no lt_deinit
  authCount        \* authorizations given since the boot

seVars == <<sePhase, initAttempts, initRet, initialized, handleOpen, authCount>>

NotRun == 999      \* what the return codes hold before a call

SeTypeOK ==
  /\ sePhase \in {"off", "init", "mode", "chip_id", "ready", "failed"}
  /\ initAttempts \in 0 .. MaxInitAttempts
  /\ initRet \in {NotRun, 0, -100, -101, -102}
  /\ initialized \in BOOLEAN
  /\ handleOpen \in BOOLEAN
  /\ authCount \in 0 .. AuthMod - 1

SeInit ==
  /\ sePhase = "off"
  /\ initAttempts = 0
  /\ initRet = NotRun
  /\ initialized = FALSE
  /\ handleOpen = FALSE
  /\ authCount = 0

-----------------------------------------------------------------------------
SeReset ==
  /\ sePhase' = "off"
  /\ initAttempts' = 0
  /\ initRet' = NotRun
  /\ initialized' = FALSE
  /\ handleOpen' = FALSE
  /\ authCount' = 0

BeginInit ==
  /\ sePhase = "off"
  /\ sePhase' = "init"
  /\ initAttempts' = 1
  /\ UNCHANGED <<initRet, initialized, handleOpen, authCount>>

(* Mutant: one attempt too many. *)
AttemptFailsOnceMore(ret) ==
  /\ initRet' = ret
  /\ handleOpen' = FALSE
  /\ IF initAttempts <= MaxInitAttempts
     THEN sePhase' = "init" /\ initAttempts' = initAttempts + 1
     ELSE sePhase' = "failed" /\ UNCHANGED initAttempts
  /\ UNCHANGED <<initialized, authCount>>

(* Mutant: failed attempts are not counted. *)
AttemptFailsUncounted(ret) ==
  /\ initRet' = ret
  /\ handleOpen' = FALSE
  /\ sePhase' = "init"
  /\ UNCHANGED <<initAttempts, initialized, authCount>>

(* An attempt that failed with code ret, its handle torn down: the next    *)
(* attempt, or the end of the loop.                                        *)
AttemptFails(ret) ==
  /\ initRet' = ret
  /\ handleOpen' = FALSE
  /\ IF initAttempts < MaxInitAttempts
     THEN sePhase' = "init" /\ initAttempts' = initAttempts + 1
     ELSE sePhase' = "failed" /\ UNCHANGED initAttempts
  /\ UNCHANGED <<initialized, authCount>>

AttemptGoesOn(next) ==
  /\ sePhase' = next
  /\ UNCHANGED <<initAttempts, initRet, initialized, authCount>>

LtInit(ok) ==
  /\ sePhase = "init"
  /\ \/ ok /\ AttemptGoesOn("mode") /\ handleOpen' = TRUE
     \/ ~ok /\ AttemptFails(-100)

(* Mutant: a chip that does not report its mode is asked on. *)
LtGetModeUnchecked(ok) ==
  /\ sePhase = "mode"
  /\ AttemptGoesOn("chip_id")
  /\ UNCHANGED handleOpen

LtGetMode(ok) ==
  /\ sePhase = "mode"
  /\ \/ ok /\ AttemptGoesOn("chip_id") /\ UNCHANGED handleOpen
     \/ ~ok /\ AttemptFails(-101)

(* Mutant: success leaves the code of an earlier failure. *)
LtGetChipIdStaleRet(ok) ==
  /\ sePhase = "chip_id"
  /\ \/ /\ ok
        /\ sePhase' = "ready"
        /\ initialized' = TRUE
        /\ UNCHANGED <<initRet, initAttempts, handleOpen, authCount>>
     \/ ~ok /\ AttemptFails(-102)

LtGetChipId(ok) ==
  /\ sePhase = "chip_id"
  /\ \/ /\ ok
        /\ sePhase' = "ready"
        /\ initialized' = TRUE
        /\ initRet' = 0
        /\ UNCHANGED <<initAttempts, handleOpen, authCount>>
     \/ ~ok /\ AttemptFails(-102)

SeBootStep(ok) == LtInit(ok) \/ LtGetMode(ok) \/ LtGetChipId(ok)

(* authorize_key_use, when the chip answers the mode query (or does not):  *)
(* its result is Authorized(answered).                                     *)
Authorized(answered) == initialized /\ answered

AuthorizeKeyUse(answered) ==
  /\ authCount' = IF Authorized(answered) THEN (authCount + 1) % AuthMod ELSE authCount
  /\ UNCHANGED <<sePhase, initAttempts, initRet, initialized, handleOpen>>
=============================================================================
