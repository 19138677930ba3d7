SPECIFICATION Spec
CONSTANTS
  payA = payA
  payB = payB
  payC = payC
  bad = bad
  sumA = sumA
  sumB = sumB
  sumC = sumC
  code1 = code1
  code2 = code2
  Texts = {payA, payB, payC, bad}
  Summaries = {sumA, sumB, sumC}
  Codes = {code1, code2}
  NoSummary = NoSummary
  NoCode = NoCode
  CheckSummary <- MCCheckSummary
  CodeOf <- MCCodeOf
  TickMod = 8
  Horizon = 8
  ApprovalTimeout = 3
  MaxSilence = 7
INVARIANTS
  TypeOK
  GateFollowsUser
  GateIsFresh
  WrongCodeIsFinal
  ClosedGateIsWiped
PROPERTY
  NoLateConfirmation
