SPECIFICATION Spec
CONSTANTS
  MaxInitAttempts = 8
  AuthMod = 3
  U64 = 65536
  Transactions <- MCTransactions
  DerLengths <- MCDerLengths
INVARIANTS
  TypeOK
  ReadyMeansAnswered
  ResultIsHonest
  PreimageCommits
  NothingLeftBehind
  SignaturesInPlace
  RoomForPayments
  PostcheckNeverFails
PROPERTIES
  BootEnds
  KeepsSigning
  EverySignAnswered
