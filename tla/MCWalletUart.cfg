SPECIFICATION LiveHistorySpec
CONSTANTS
  payA = payA
  payB = payB
  bad = bad
  withKey = withKey
  sumA = sumA
  sumB = sumB
  code1 = code1
  code2 = code2
  Texts = {payA, payB, bad, withKey}
  Summaries = {sumA, sumB}
  Codes = {code1, code2}
  NoSummary = NoSummary
  NoCode = NoCode
  NoText = NoText
  HostKeyTexts = {withKey}
  PolicyTexts = {payA, payB, withKey}
  CheckSummary <- MCCheckSummary
  CodeOf <- MCCodeOf
  TickMod = 3
  Horizon = 3
  ApprovalTimeout = 1
  Debounce = 1
  SessionTimeout = 1
  RetryDelay = 1
  MaxAttempts = 1
  FailMax = 1
  MaxInitAttempts = 1
  AuthMod = 2
  MaxSilence = 1
INVARIANTS
  TypeOK
  SecretsInPlace
PROPERTIES
  KeepsThePromise
  AuthorizationBehindGate
  EveryCommandEnds
  SignsForTheUser
