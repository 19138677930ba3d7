------------------------- MODULE KeyProviderSafety -------------------------
(***************************************************************************)
(* The key provider on its own, called in any order, with the real ages of *)
(* the session and of the last PIN attempt as history variables.           *)
(***************************************************************************)
EXTENDS KeyProvider

CONSTANT MaxSilence   \* bound of the two real-time ages below

ASSUME MaxSilenceAssumption == MaxSilence \in Nat

VARIABLES
  attemptMs,     \* tick at which unlock_with_pin last tried a PIN
  sinceAttempt,  \* real ms since then, at most MaxSilence
  unspent        \* a right PIN was entered and its key not handed out yet

historyVars == <<attemptMs, sinceAttempt, unspent>>
vars == <<now, keyVars, historyVars>>

Init ==
  /\ ClockInit
  /\ KeyInit
  /\ attemptMs = 0
  /\ sinceAttempt = 0
  /\ unspent = FALSE

(* While a session or a retry delay is running, it is not left alone for   *)
(* longer than MaxSilence.                                                 *)
Tick ==
  /\ ClockTick
  /\ (unlocked \/ unwrapping \/ retryUntil # 0) => sinceAttempt < MaxSilence
  /\ sinceAttempt' = IF sinceAttempt < MaxSilence THEN sinceAttempt + 1 ELSE sinceAttempt
  /\ UNCHANGED <<keyVars, attemptMs, unspent>>

(* One thread calls the provider: no call begins inside another. *)
NoCall == ~unwrapping /\ ~releasing

StartUnlock ==
  /\ NoCall
  /\ BeginUnlock
  /\ attemptMs' = now
  /\ sinceAttempt' = 0
  /\ unspent' = FALSE
  /\ UNCHANGED now

WrongPin ==
  /\ UnwrapFails
  /\ UNCHANGED <<now, historyVars>>

RightPin ==
  /\ UnwrapSucceeds
  /\ unspent' = TRUE
  /\ UNCHANGED <<now, attemptMs, sinceAttempt>>

AskForKey ==
  /\ NoCall
  /\ BeginRelease
  /\ UNCHANGED <<now, historyVars>>

KeyRefused ==
  /\ RefuseKey
  /\ UNCHANGED <<now, historyVars>>

KeyReleased ==
  /\ ReleaseKey
  /\ unspent' = FALSE
  /\ UNCHANGED <<now, attemptMs, sinceAttempt>>

Lock ==
  /\ NoCall
  /\ LockSession
  /\ UNCHANGED <<now, retryVars, callVars, historyVars>>

Report ==
  /\ NoCall
  /\ ReportSession
  /\ UNCHANGED <<now, historyVars>>

(* Power cycle or NRST: even the wrong PINs are forgotten. *)
Reset ==
  /\ now' = 0
  /\ LockSession
  /\ RetryReset
  /\ attemptMs' = 0
  /\ sinceAttempt' = 0
  /\ unspent' = FALSE

Next ==
  \/ Tick
  \/ StartUnlock
  \/ WrongPin
  \/ RightPin
  \/ AskForKey
  \/ KeyRefused
  \/ KeyReleased
  \/ Lock
  \/ Report
  \/ Reset

Spec == Init /\ [][Next]_vars
-----------------------------------------------------------------------------
TypeOK ==
  /\ now \in Ticks
  /\ KeyTypeOK
  /\ attemptMs \in Ticks
  /\ sinceAttempt \in 0 .. MaxSilence
  /\ unspent \in BOOLEAN

(* A right PIN buys one key: while a session is open its key has not been  *)
(* handed out (get_private_key locks the session it copied from, and only  *)
(* that one, however long the secure element took to answer).              *)
OneKeyPerPin == unlocked => unspent

(* A release begins only within SessionTimeout of real time from the       *)
(* moment the PIN arrived, the slow derivation included: that is how old   *)
(* the session may be when the secure element is asked.  How long the      *)
(* answer takes is not bounded, and the age is not looked at again.        *)
KeyIsFresh ==
  [][~releasing /\ releasing' => sinceAttempt < SessionTimeout]_vars

(* The key is in RAM only while a session is open: every way out of a      *)
(* session wipes it, and a failed or running derivation leaves none.       *)
KeyOnlyInSession == sessionKey => unlocked /\ ~unwrapping

(* From the MaxAttempts-th wrong PIN on, PINs are tried no faster than one *)
(* per RetryDelay, although the delay is counted from before the           *)
(* derivation and forgotten by any report made after it.  One tick of a    *)
(* whole turn is excepted: a deadline on tick 0 is read as no deadline at  *)
(* all, and the next PIN is tried at once.                                 *)
GuessesAreSpaced ==
  [][(~unwrapping /\ unwrapping' /\ pinFailures >= MaxAttempts
        /\ Later(attemptMs, RetryDelay) # 0)
       => sinceAttempt >= RetryDelay]_vars

(* The retry delay ends: RetryDelay after the last attempt a PIN is        *)
(* accepted again.                                                         *)
DelayEnds == ~unwrapping /\ sinceAttempt >= RetryDelay => RetryDelayOver

-----------------------------------------------------------------------------
(* The inductive strengthening of the properties above.                    *)

(* Session buffer, flag, history and a release under way move together. *)
SessionPart ==
  /\ sessionKey <=> unlocked
  /\ unlocked => unspent /\ ~unwrapping
  /\ unwrapping => retryUntil = 0
  /\ releasing => unlocked

(* Every timestamp in use derives from the last attempt, whose modular age *)
(* is its real age.                                                        *)
AttemptPart ==
  /\ unlocked => startedMs = attemptMs
  /\ unwrapping => unwrapMs = attemptMs
  /\ retryUntil # 0 => retryUntil = Later(attemptMs, RetryDelay)
  /\ unlocked \/ unwrapping \/ retryUntil # 0 => Elapsed(now, attemptMs) = sinceAttempt

(* Once the attempts are used up, no deadline means the delay is over.     *)
DelayPart ==
  (pinFailures >= MaxAttempts /\ ~unwrapping /\ retryUntil = 0
     /\ Later(attemptMs, RetryDelay) # 0)
    => sinceAttempt >= RetryDelay
=============================================================================
