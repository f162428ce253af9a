SPECIFICATION FairSpec
CONSTANTS
  user = user  lim = lim  unl = unl   NoValue = NoValue
  Users <- MCUsers
  Tokens <- MCTokens
  Owner <- MCOwner
  Unlimited <- MCUnlimited
  InitQuota <- MCInitQuota
  InitRemain <- MCInitRemain
  Relays = {r1, r2}
  Estimates = {1, 2}
  Charges = {3}
  RedisEnabled = FALSE
  PreConsumedQuota = 1
  TrustFactor = 2
  MaxFaults = 1
INVARIANTS TokenAgreesWithUser BooksClose
PROPERTY EveryStepBalanced SettlementCompletes
CHECK_DEADLOCK FALSE
