SPECIFICATION Spec
CONSTANTS
  U32 = 16
  U64 = 64
  MaxPay = 7
  MaxFee = 5
  DustLimit = 2
  KiloByte = 2
  MaxFeeRate = 2
  MaxEdits = 2
  Vbytes <- MCVbytes
  Templates <- MCTemplates
  Values <- MCValues
CHECK_DEADLOCK FALSE
INVARIANTS
  TypeOK
  SignedIsApproved
  ApprovedAddsUp
  SameIdSameSummary
