---------------------------- MODULE KeyProvider ----------------------------
(***************************************************************************)
(* wallet_key_provider.c: the PIN session that holds the unwrapped private *)
(* key in RAM, and the retry delay after too many wrong PINs.  Two of its  *)
(* functions take their time.  unlock_with_pin runs a slow key derivation  *)
(* and uses the time it read on entry after it.  And                       *)
(* get_private_key_bytes_for_command asks the secure element after it has  *)
(* looked at the age of the session, and does not look again when it has   *)
(* the answer.  Each is two steps, so that the clock moves on in between.  *)
(***************************************************************************)
EXTENDS Clock

CONSTANTS
  SessionTimeout,   \* WALLET_KEY_PROVIDER_PIN_SESSION_TIMEOUT_MS
  RetryDelay,       \* WALLET_KEY_PROVIDER_PIN_RETRY_DELAY_MS
  MaxAttempts,      \* WALLET_KEY_PROVIDER_PIN_MAX_ATTEMPTS
  FailMax           \* where the failure counter saturates (2^32 - 1)

ASSUME KeyProviderAssumption ==
  /\ SessionTimeout \in 1 .. TickMod - 1
  /\ RetryDelay \in 1 .. TickMod - 1
  /\ 2 * RetryDelay < TickMod
  /\ MaxAttempts \in Nat \ {0}
  /\ FailMax \in Nat
  /\ MaxAttempts <= FailMax

VARIABLES
  sessionKey,    \* the session buffer holds the key, not zeroes
  unlocked,      \* session_unlocked
  startedMs,     \* session_started_ms
  pinFailures,   \* wrong PINs since the last right one
  retryUntil,    \* pin_retry_until_ms, 0 when no delay is running
  unwrapping,    \* unlock_with_pin is inside the key derivation
  unwrapMs,      \* its local now_ms
  releasing      \* get_private_key is past its check of the session

sessionVars == <<sessionKey, unlocked, startedMs>>
retryVars == <<pinFailures, retryUntil>>
callVars == <<unwrapping, unwrapMs, releasing>>
keyVars == <<sessionVars, retryVars, callVars>>

KeyTypeOK ==
  /\ sessionKey \in BOOLEAN
  /\ unlocked \in BOOLEAN
  /\ startedMs \in Ticks
  /\ pinFailures \in 0 .. FailMax
  /\ retryUntil \in Ticks
  /\ unwrapping \in BOOLEAN
  /\ unwrapMs \in Ticks
  /\ releasing \in BOOLEAN

KeyInit ==
  /\ sessionKey = FALSE
  /\ unlocked = FALSE
  /\ startedMs = 0
  /\ pinFailures = 0
  /\ retryUntil = 0
  /\ unwrapping = FALSE
  /\ unwrapMs = 0
  /\ releasing = FALSE

-----------------------------------------------------------------------------
(* Mutant: the session is closed and its key stays in RAM. *)
LockKeepsKey ==
  /\ unlocked' = FALSE
  /\ startedMs' = 0
  /\ UNCHANGED sessionKey

LockSession ==
  /\ sessionKey' = FALSE
  /\ unlocked' = FALSE
  /\ startedMs' = 0

(* A reset forgets the wrong PINs: the counter is not persistent. *)
RetryReset ==
  /\ pinFailures' = 0
  /\ retryUntil' = 0
  /\ unwrapping' = FALSE
  /\ unwrapMs' = 0
  /\ releasing' = FALSE

(* Mutant: one millisecond more. *)
SessionExpiredLate == unlocked /\ Elapsed(now, startedMs) > SessionTimeout

SessionExpired == unlocked /\ Elapsed(now, startedMs) >= SessionTimeout

(* session_expired and whatever reports on the session: an old session is  *)
(* locked when somebody looks at it, not before.                           *)
ExpireSessionIfNeeded ==
  IF SessionExpired THEN LockSession ELSE UNCHANGED sessionVars

(* Mutant: compares two ticks as if they never wrapped. *)
RetryDelayOverNoWrap == retryUntil = 0 \/ retryUntil <= now

(* pin_retry_remaining_ms() = 0; such a call also forgets the deadline *)
RetryDelayOver == retryUntil = 0 \/ DeadlineReached(now, retryUntil)

ForgetRetryIfOver == retryUntil' = IF RetryDelayOver THEN 0 ELSE retryUntil

(* UNLOCKINFO reads the session, its age and the remaining delay. *)
ReportSession ==
  /\ ExpireSessionIfNeeded
  /\ ForgetRetryIfOver
  /\ UNCHANGED <<pinFailures, callVars>>

(* unlock_with_pin up to the key derivation, for a non-empty PIN outside   *)
(* the retry delay; an empty PIN or one inside the delay changes nothing.  *)
UnlockRefused(emptyPin) == emptyPin \/ ~RetryDelayOver

BeginUnlock ==
  /\ ~UnlockRefused(FALSE)
  /\ retryUntil' = 0
  /\ LockSession
  /\ unwrapping' = TRUE
  /\ unwrapMs' = now
  /\ UNCHANGED <<pinFailures, releasing>>

(* Mutant: one wrong PIN more than MaxAttempts before the delay. *)
UnwrapFailsOffByOne ==
  /\ unwrapping
  /\ pinFailures' = IF pinFailures < FailMax THEN pinFailures + 1 ELSE pinFailures
  /\ retryUntil' = IF pinFailures >= MaxAttempts
                   THEN Later(unwrapMs, RetryDelay) ELSE retryUntil
  /\ LockSession
  /\ unwrapping' = FALSE
  /\ unwrapMs' = 0
  /\ UNCHANGED releasing

(* Mutant: neither the counter nor the deadline keeps its width. *)
UnwrapFailsWide ==
  /\ unwrapping
  /\ pinFailures' = pinFailures + 1
  /\ retryUntil' = IF pinFailures' >= MaxAttempts THEN unwrapMs + RetryDelay ELSE retryUntil
  /\ LockSession
  /\ unwrapping' = FALSE
  /\ unwrapMs' = 0
  /\ UNCHANGED releasing

(* The derivation ended with the wrong key: authentication of the blob     *)
(* failed.                                                                 *)
UnwrapFails ==
  /\ unwrapping
  /\ pinFailures' = IF pinFailures < FailMax THEN pinFailures + 1 ELSE pinFailures
  /\ retryUntil' = IF pinFailures' >= MaxAttempts
                   THEN Later(unwrapMs, RetryDelay) ELSE retryUntil
  /\ LockSession
  /\ unwrapping' = FALSE
  /\ unwrapMs' = 0
  /\ UNCHANGED releasing

UnwrapSucceeds ==
  /\ unwrapping
  /\ sessionKey' = TRUE
  /\ unlocked' = TRUE
  /\ startedMs' = unwrapMs
  /\ pinFailures' = 0
  /\ retryUntil' = 0
  /\ unwrapping' = FALSE
  /\ unwrapMs' = 0
  /\ UNCHANGED releasing

(* get_private_key_bytes_for_command, up to the question to the secure     *)
(* element, which is asked only for an open session that is young enough.  *)
KeyReleasable == unlocked /\ ~SessionExpired

BeginRelease ==
  /\ ExpireSessionIfNeeded
  /\ releasing' = KeyReleasable
  /\ UNCHANGED <<retryVars, unwrapping, unwrapMs>>

(* The secure element did not authorize: the session stays open. *)
RefuseKey ==
  /\ releasing
  /\ releasing' = FALSE
  /\ UNCHANGED <<sessionVars, retryVars, unwrapping, unwrapMs>>

(* Mutant: the session outlives the release of its key. *)
ReleaseKeyAgain ==
  /\ releasing
  /\ releasing' = FALSE
  /\ UNCHANGED <<sessionVars, retryVars, unwrapping, unwrapMs>>

(* It did: the key is copied, whatever the age of the session by now, and  *)
(* the session locked.                                                     *)
ReleaseKey ==
  /\ releasing
  /\ LockSession
  /\ releasing' = FALSE
  /\ UNCHANGED <<retryVars, unwrapping, unwrapMs>>
=============================================================================
