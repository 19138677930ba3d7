-------------------------- MODULE KeyProviderProofs --------------------------
(* Theorems about the PIN session and the retry delay, for every value of  *)
(* the constants.                                                          *)
EXTENDS KeyProviderSafety, ClockProofs

LEMMA RetryDelayIsTick == RetryDelay \in Ticks
  BY KeyProviderAssumption, TickModAssumption DEF Ticks

-----------------------------------------------------------------------------
(* The type invariant of the key provider, the wrapping tick included.     *)
THEOREM KeyTypes == Spec => []TypeOK
<1>1. Init => TypeOK
  <2> SUFFICES ASSUME Init PROVE TypeOK
    OBVIOUS
  <2>1. 0 \in 0 .. FailMax /\ 0 \in 0 .. MaxSilence
    BY KeyProviderAssumption, MaxSilenceAssumption
  <2> QED
    BY <2>1, ZeroIsTick DEF Init, KeyInit, ClockInit, TypeOK, KeyTypeOK
<1>2. TypeOK /\ [Next]_vars => TypeOK'
  <2> SUFFICES ASSUME TypeOK, [Next]_vars PROVE TypeOK'
    OBVIOUS
  <2> USE DEF TypeOK, KeyTypeOK, keyVars, sessionVars, retryVars, callVars, historyVars
  <2>1. CASE Tick
    <3>1. now' \in Ticks
      BY <2>1, LaterIsTick DEF Tick, ClockTick
    <3>2. sinceAttempt' \in 0 .. MaxSilence
      BY <2>1, MaxSilenceAssumption DEF Tick
    <3> QED
      BY <2>1, <3>1, <3>2 DEF Tick
  <2>2. CASE StartUnlock
    <3>1. 0 \in 0 .. MaxSilence
      BY MaxSilenceAssumption
    <3> QED
      BY <2>2, <3>1, ZeroIsTick DEF StartUnlock, BeginUnlock, LockSession
  <2>3. CASE WrongPin
    <3>1. pinFailures' \in 0 .. FailMax
      BY <2>3, KeyProviderAssumption DEF WrongPin, UnwrapFails
    <3>2. retryUntil' \in Ticks
      BY <2>3, LaterType, RetryDelayIsTick DEF WrongPin, UnwrapFails
    <3> QED
      BY <2>3, <3>1, <3>2, ZeroIsTick DEF WrongPin, UnwrapFails, LockSession
  <2>4. CASE RightPin
    <3>1. 0 \in 0 .. FailMax
      BY KeyProviderAssumption
    <3> QED
      BY <2>4, <3>1, ZeroIsTick DEF RightPin, UnwrapSucceeds
  <2>5. CASE AskForKey
    <3>1. releasing' \in BOOLEAN
      BY <2>5 DEF AskForKey, BeginRelease, KeyReleasable
    <3>2. /\ sessionKey' \in BOOLEAN /\ unlocked' \in BOOLEAN
          /\ startedMs' \in Ticks
      BY <2>5, ZeroIsTick DEF AskForKey, BeginRelease, ExpireSessionIfNeeded, LockSession
    <3> QED
      BY <2>5, <3>1, <3>2 DEF AskForKey, BeginRelease
  <2>6. CASE KeyRefused \/ KeyReleased
    BY <2>6, ZeroIsTick DEF KeyRefused, RefuseKey, KeyReleased, ReleaseKey, LockSession
  <2>7. CASE Lock
    BY <2>7, ZeroIsTick DEF Lock, LockSession
  <2>8. CASE Report
    BY <2>8, ZeroIsTick
       DEF Report, ReportSession, ExpireSessionIfNeeded, LockSession, ForgetRetryIfOver
  <2>9. CASE Reset
    <3>1. 0 \in 0 .. FailMax /\ 0 \in 0 .. MaxSilence
      BY KeyProviderAssumption, MaxSilenceAssumption
    <3> QED
      BY <2>9, <3>1, ZeroIsTick DEF Reset, RetryReset, LockSession
  <2>10. CASE UNCHANGED vars
    BY <2>10 DEF vars
  <2> QED
    BY <2>1, <2>2, <2>3, <2>4, <2>5, <2>6, <2>7, <2>8, <2>9, <2>10 DEF Next
<1> QED
  BY <1>1, <1>2, PTL DEF Spec

-----------------------------------------------------------------------------
(* Session buffer, session flag and the running derivation.                *)
LEMMA SessionPartInductive ==
  ASSUME TypeOK, SessionPart, [Next]_vars PROVE SessionPart'
<1> USE DEF SessionPart, TypeOK, KeyTypeOK, keyVars, sessionVars, retryVars, callVars,
            historyVars
<1>1. CASE Tick
  BY <1>1 DEF Tick
<1>2. CASE StartUnlock
  BY <1>2 DEF StartUnlock, NoCall, BeginUnlock, LockSession
<1>3. CASE WrongPin
  BY <1>3 DEF WrongPin, UnwrapFails, LockSession
<1>4. CASE RightPin
  BY <1>4 DEF RightPin, UnwrapSucceeds
<1>5. CASE AskForKey
  <2>1. CASE KeyReleasable
    BY <1>5, <2>1 DEF AskForKey, NoCall, BeginRelease, ExpireSessionIfNeeded, KeyReleasable
  <2>2. CASE ~KeyReleasable
    BY <1>5, <2>2 DEF AskForKey, NoCall, BeginRelease, ExpireSessionIfNeeded, LockSession
  <2> QED
    BY <2>1, <2>2
<1>6. CASE KeyRefused \/ KeyReleased
  BY <1>6 DEF KeyRefused, RefuseKey, KeyReleased, ReleaseKey, LockSession
<1>7. CASE Lock
  BY <1>7 DEF Lock, NoCall, LockSession
<1>8. CASE Report
  BY <1>8 DEF Report, NoCall, ReportSession, ExpireSessionIfNeeded, LockSession
<1>9. CASE Reset
  BY <1>9 DEF Reset, RetryReset, LockSession
<1>10. CASE UNCHANGED vars
  BY <1>10 DEF vars
<1> QED
  BY <1>1, <1>2, <1>3, <1>4, <1>5, <1>6, <1>7, <1>8, <1>9, <1>10 DEF Next

LEMMA SessionPartHolds == Spec => []SessionPart
<1>1. Init => SessionPart
  BY DEF Init, KeyInit, SessionPart
<1>2. TypeOK /\ SessionPart /\ [Next]_vars => SessionPart'
  BY SessionPartInductive
<1> QED
  BY <1>1, <1>2, KeyTypes, PTL DEF Spec

(* A right PIN buys one key.                                               *)
THEOREM OneKeyPerPinHolds == Spec => []OneKeyPerPin
<1>1. SessionPart => OneKeyPerPin
  BY DEF SessionPart, OneKeyPerPin
<1> QED
  BY <1>1, SessionPartHolds, PTL

(* The key is in RAM only while a session is open.                         *)
THEOREM KeyOnlyInSessionHolds == Spec => []KeyOnlyInSession
<1>1. SessionPart => KeyOnlyInSession
  BY DEF SessionPart, KeyOnlyInSession
<1> QED
  BY <1>1, SessionPartHolds, PTL

-----------------------------------------------------------------------------
(* Every timestamp the provider compares with the clock is the one of the  *)
(* last PIN attempt, and its modular age is the real one.                  *)
LEMMA AttemptPartInductive ==
  ASSUME MaxSilence < TickMod, TypeOK, SessionPart, AttemptPart, [Next]_vars
  PROVE  AttemptPart'
<1> USE DEF AttemptPart, SessionPart
<1> DEFINE Running == unlocked \/ unwrapping \/ retryUntil # 0
<1>t. /\ now \in Ticks /\ attemptMs \in Ticks
      /\ unlocked \in BOOLEAN /\ unwrapping \in BOOLEAN
  BY DEF TypeOK, KeyTypeOK
<1>1. CASE Tick
  <2> SUFFICES ASSUME Running' PROVE AttemptPart'
    OBVIOUS
  <2>1. UNCHANGED <<unlocked, startedMs, retryUntil, unwrapping, unwrapMs, attemptMs>>
    BY <1>1 DEF Tick, keyVars, sessionVars, retryVars, callVars
  <2>2. sinceAttempt < MaxSilence /\ sinceAttempt' = sinceAttempt + 1
    BY <1>1, <2>1 DEF Tick
  <2>3. Elapsed(now, attemptMs) = sinceAttempt
    BY <2>1
  <2>4. Elapsed(now, attemptMs) + 1 < TickMod
    BY <2>2, <2>3, MaxSilenceAssumption, TickModAssumption DEF TypeOK
  <2>5. Elapsed(now', attemptMs) = sinceAttempt'
    BY <1>1, <1>t, <2>2, <2>3, <2>4, ElapsedLater DEF Tick, ClockTick
  <2> QED
    BY <2>1, <2>5
<1>2. CASE StartUnlock
  <2>1. Elapsed(now, now) = 0
    BY <1>t, ElapsedSame
  <2> QED
    BY <1>2, <2>1 DEF StartUnlock, BeginUnlock, LockSession
<1>3. CASE WrongPin
  <2>1. /\ UNCHANGED <<now, attemptMs, sinceAttempt>>
        /\ unwrapping /\ ~unwrapping' /\ ~unlocked'
        /\ retryUntil' # 0 => retryUntil' = Later(unwrapMs, RetryDelay)
    BY <1>3 DEF WrongPin, UnwrapFails, LockSession, historyVars
  <2> QED
    BY <2>1
<1>4. CASE RightPin
  BY <1>4 DEF RightPin, UnwrapSucceeds
<1>e. ASSUME UNCHANGED <<now, attemptMs, sinceAttempt, unwrapping, unwrapMs>>,
             retryUntil' \in {0, retryUntil},
             ~unlocked' \/ UNCHANGED sessionVars
      PROVE  AttemptPart'
  BY <1>e DEF sessionVars
<1>l. LockSession => ~unlocked'
  BY DEF LockSession
<1>x. ExpireSessionIfNeeded => ~unlocked' \/ UNCHANGED sessionVars
  BY <1>l DEF ExpireSessionIfNeeded
<1>5. CASE AskForKey
  BY <1>5, <1>e, <1>x DEF AskForKey, BeginRelease, retryVars, historyVars
<1>6. CASE KeyRefused \/ KeyReleased
  BY <1>6, <1>e, <1>l
     DEF KeyRefused, RefuseKey, KeyReleased, ReleaseKey, retryVars, historyVars
<1>7. CASE Lock
  BY <1>7, <1>e, <1>l DEF Lock, retryVars, callVars, historyVars
<1>8. CASE Report
  BY <1>8, <1>e, <1>x DEF Report, ReportSession, ForgetRetryIfOver, callVars, historyVars
<1>9. CASE Reset
  BY <1>9 DEF Reset, RetryReset, LockSession
<1>10. CASE UNCHANGED vars
  BY <1>10, <1>e DEF vars, keyVars, retryVars, callVars, historyVars
<1> QED
  BY <1>1, <1>2, <1>3, <1>4, <1>5, <1>6, <1>7, <1>8, <1>9, <1>10 DEF Next

LEMMA AttemptPartHolds ==
  ASSUME MaxSilence < TickMod
  PROVE  Spec => [](TypeOK /\ SessionPart /\ AttemptPart)
<1>1. Init => AttemptPart
  BY DEF Init, KeyInit, AttemptPart
<1>2. TypeOK /\ SessionPart /\ AttemptPart /\ [Next]_vars => AttemptPart'
  BY AttemptPartInductive
<1> QED
  BY <1>1, <1>2, KeyTypes, SessionPartHolds, PTL DEF Spec

(* A release begins only within SessionTimeout of the PIN, in a device     *)
(* whose session is not left alone for a whole turn of the counter: only   *)
(* AskForKey begins one, and it looks at the age.                          *)
THEOREM KeyIsFreshHolds ==
  ASSUME MaxSilence < TickMod
  PROVE  Spec => KeyIsFresh
<1>1. TypeOK /\ AttemptPart /\ [Next]_vars
        => [~releasing /\ releasing' => sinceAttempt < SessionTimeout]_vars
  <2> SUFFICES ASSUME TypeOK, AttemptPart, Next, ~releasing, releasing'
               PROVE  sinceAttempt < SessionTimeout
    OBVIOUS
  <2>1. AskForKey
    <3>1. CASE Tick \/ StartUnlock \/ WrongPin \/ RightPin \/ Report
      BY <3>1 DEF Tick, StartUnlock, BeginUnlock, WrongPin, UnwrapFails, RightPin,
                  UnwrapSucceeds, Report, ReportSession, keyVars, callVars
    <3>2. CASE KeyRefused \/ KeyReleased \/ Lock
      BY <3>2 DEF KeyRefused, RefuseKey, KeyReleased, ReleaseKey, Lock, callVars
    <3>3. CASE Reset
      BY <3>3 DEF Reset, RetryReset
    <3> QED
      BY <3>1, <3>2, <3>3 DEF Next
  <2>2. unlocked /\ ~SessionExpired
    BY <2>1 DEF AskForKey, BeginRelease, KeyReleasable
  <2>3. Elapsed(now, startedMs) = sinceAttempt
    BY <2>2 DEF AttemptPart
  <2>4. ~(sinceAttempt >= SessionTimeout)
    BY <2>2, <2>3 DEF SessionExpired
  <2> QED
    BY <2>4, KeyProviderAssumption, MaxSilenceAssumption, TickModAssumption DEF TypeOK
<1> QED
  BY <1>1, AttemptPartHolds, PTL DEF Spec, KeyIsFresh

(* The retry delay ends on time, in a device that is asked again within    *)
(* half a turn of the counter after it.                                    *)
THEOREM DelayEndsHolds ==
  ASSUME 2 * (MaxSilence - RetryDelay) <= TickMod, MaxSilence < TickMod
  PROVE  Spec => []DelayEnds
<1>1. TypeOK /\ AttemptPart => DelayEnds
  <2> SUFFICES ASSUME TypeOK, AttemptPart, sinceAttempt >= RetryDelay, retryUntil # 0
               PROVE  DeadlineReached(now, retryUntil)
    BY DEF DelayEnds, RetryDelayOver
  <2>1. /\ Elapsed(now, attemptMs) = sinceAttempt
        /\ retryUntil = Later(attemptMs, RetryDelay)
    BY DEF AttemptPart
  <2>2. /\ RetryDelay <= sinceAttempt
        /\ 2 * (sinceAttempt - RetryDelay) <= TickMod
    BY KeyProviderAssumption, MaxSilenceAssumption, TickModAssumption DEF TypeOK
  <2>3. now \in Ticks /\ attemptMs \in Ticks
    BY DEF TypeOK
  <2> QED
    BY <2>1, <2>2, <2>3, RetryDelayIsTick, DeadlinePassed
<1> QED
  BY <1>1, AttemptPartHolds, PTL

-----------------------------------------------------------------------------
(* A missing deadline means a finished delay.                              *)
LEMMA DelayPartInductive ==
  ASSUME MaxSilence < TickMod, TypeOK, SessionPart, AttemptPart, DelayPart, [Next]_vars
  PROVE  DelayPart'
<1> USE DEF DelayPart
<1>t. /\ now \in Ticks /\ attemptMs \in Ticks /\ unwrapMs \in Ticks
      /\ Ticks \subseteq Nat
      /\ retryUntil \in Ticks
      /\ pinFailures \in Nat /\ sinceAttempt \in Nat
      /\ RetryDelay \in Nat \ {0} /\ MaxAttempts \in Nat \ {0}
  BY KeyProviderAssumption, TickModAssumption, MaxSilenceAssumption
     DEF TypeOK, KeyTypeOK, Ticks
<1>o. RetryDelayOver /\ retryUntil # 0 => sinceAttempt >= RetryDelay
  <2> SUFFICES ASSUME retryUntil # 0, sinceAttempt < RetryDelay
               PROVE  ~RetryDelayOver
    BY <1>t
  <2>1. /\ Elapsed(now, attemptMs) < RetryDelay
        /\ retryUntil = Later(attemptMs, RetryDelay)
    BY DEF AttemptPart
  <2> QED
    BY <1>t, <2>1, RetryDelayIsTick, KeyProviderAssumption, DeadlineAhead
       DEF RetryDelayOver
<1>f. ForgetRetryIfOver => \/ retryUntil' = retryUntil
                           \/ retryUntil' = 0 /\ RetryDelayOver /\ retryUntil # 0
  BY DEF ForgetRetryIfOver
<1>e. ASSUME UNCHANGED <<now, attemptMs, sinceAttempt, unwrapping, pinFailures>>,
             \/ retryUntil' = retryUntil
             \/ retryUntil' = 0 /\ RetryDelayOver /\ retryUntil # 0
      PROVE  DelayPart'
  BY <1>e, <1>o
<1>1. CASE Tick
  <2>1. sinceAttempt' >= sinceAttempt /\ sinceAttempt' \in Nat
    BY <1>1, <1>t DEF Tick
  <2>2. UNCHANGED <<attemptMs, pinFailures, unwrapping, retryUntil>>
    BY <1>1 DEF Tick, keyVars, retryVars, callVars
  <2> QED
    BY <1>t, <2>1, <2>2
<1>2. CASE StartUnlock
  BY <1>2, <1>t DEF StartUnlock, BeginUnlock
<1>3. CASE WrongPin
  <2>1. UNCHANGED <<now, attemptMs, sinceAttempt>> /\ unwrapMs = attemptMs
    BY <1>3 DEF WrongPin, UnwrapFails, historyVars, AttemptPart
  <2>2. pinFailures' >= MaxAttempts => retryUntil' = Later(attemptMs, RetryDelay)
    BY <1>3, <2>1 DEF WrongPin, UnwrapFails
  <2> QED
    BY <2>1, <2>2
<1>4. CASE RightPin
  BY <1>4, <1>t DEF RightPin, UnwrapSucceeds
<1>5. CASE AskForKey \/ KeyRefused \/ KeyReleased
  BY <1>5, <1>e DEF AskForKey, BeginRelease, KeyRefused, RefuseKey, KeyReleased, ReleaseKey,
                    retryVars, historyVars
<1>6. CASE Lock
  BY <1>6, <1>e DEF Lock, retryVars, callVars, historyVars
<1>7. CASE Report
  BY <1>7, <1>e, <1>f DEF Report, ReportSession, callVars, historyVars
<1>8. CASE Reset
  BY <1>8, <1>t DEF Reset, RetryReset
<1>9. CASE UNCHANGED vars
  BY <1>9, <1>e DEF vars, keyVars, retryVars, callVars, historyVars
<1> QED
  BY <1>1, <1>2, <1>3, <1>4, <1>5, <1>6, <1>7, <1>8, <1>9 DEF Next

(* Once the attempts are used up, PINs are tried no faster than one per    *)
(* RetryDelay, the wrapping tick included, but for the one deadline that   *)
(* the code reads as none.                                                 *)
THEOREM GuessesAreSpacedHolds ==
  ASSUME MaxSilence < TickMod
  PROVE  Spec => GuessesAreSpaced
<1>1. Init => DelayPart
  BY KeyProviderAssumption DEF Init, KeyInit, ClockInit, DelayPart
<1>2. TypeOK /\ SessionPart /\ AttemptPart /\ DelayPart /\ [Next]_vars => DelayPart'
  BY DelayPartInductive
<1>3. TypeOK /\ SessionPart /\ AttemptPart /\ DelayPart /\ [Next]_vars
        => [(~unwrapping /\ unwrapping' /\ pinFailures >= MaxAttempts
               /\ Later(attemptMs, RetryDelay) # 0)
              => sinceAttempt >= RetryDelay]_vars
  <2> SUFFICES ASSUME TypeOK, AttemptPart, DelayPart, Next,
                      ~unwrapping, unwrapping', pinFailures >= MaxAttempts,
                      Later(attemptMs, RetryDelay) # 0
               PROVE  sinceAttempt >= RetryDelay
    OBVIOUS
  <2>1. RetryDelayOver
    <3>1. CASE StartUnlock
      BY <3>1 DEF StartUnlock, BeginUnlock, UnlockRefused
    <3>2. CASE Tick \/ WrongPin \/ RightPin
      BY <3>2 DEF Tick, WrongPin, UnwrapFails, RightPin, UnwrapSucceeds, keyVars, callVars
    <3>3. CASE Lock \/ Report \/ AskForKey \/ KeyRefused \/ KeyReleased
      BY <3>3 DEF Lock, Report, ReportSession, AskForKey, BeginRelease, KeyRefused, RefuseKey,
                  KeyReleased, ReleaseKey, callVars
    <3>4. CASE Reset
      BY <3>4 DEF Reset, RetryReset
    <3> QED
      BY <3>1, <3>2, <3>3, <3>4 DEF Next
  <2>2. CASE retryUntil = 0
    BY <2>2 DEF DelayPart
  <2>3. CASE retryUntil # 0
    <3>1. /\ Elapsed(now, attemptMs) = sinceAttempt
          /\ retryUntil = Later(attemptMs, RetryDelay)
      BY <2>3 DEF AttemptPart
    <3>2. now \in Ticks /\ attemptMs \in Ticks
      BY DEF TypeOK
    <3>3. DeadlineReached(now, retryUntil)
      BY <2>1, <2>3 DEF RetryDelayOver
    <3>4. ~(sinceAttempt < RetryDelay)
      BY <3>1, <3>2, <3>3, RetryDelayIsTick, KeyProviderAssumption, DeadlineAhead
    <3> QED
      BY <3>4, KeyProviderAssumption, MaxSilenceAssumption, TickModAssumption DEF TypeOK
  <2> QED
    BY <2>2, <2>3
<1> QED
  BY <1>1, <1>2, <1>3, AttemptPartHolds, PTL DEF Spec, GuessesAreSpaced
=============================================================================
