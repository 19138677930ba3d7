SPECIFICATION Spec
CONSTANTS
  TickMod = 16
  Horizon = 16
  SessionTimeout = 4
  RetryDelay = 2
  MaxAttempts = 2
  FailMax = 3
  MaxSilence = 9
INVARIANTS
  TypeOK
  OneKeyPerPin
  KeyOnlyInSession
  DelayEnds
PROPERTIES
  KeyIsFresh
  GuessesAreSpaced
