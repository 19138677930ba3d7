SPECIFICATION Spec
CONSTANTS
  payA = payA
  payB = payB
  bad = bad
  sumA = sumA
  sumB = sumB
  code1 = code1
  code2 = code2
  Texts = {payA, payB, bad}
  Summaries = {sumA, sumB}
  Codes = {code1, code2}
  NoSummary = NoSummary
  NoCode = NoCode
  CheckSummary <- MCCheckSummary
  CodeOf <- MCCodeOf
  TickMod = 5
  Horizon = 5
  ApprovalTimeout = 3
  Debounce = 2
INVARIANT
  TypeOK
PROPERTIES
  OnePressOneApproval
  FreshPressFromIdle
