SPECIFICATION Spec
CONSTANTS
  user = user  lim = lim  unl = unl   NoValue = NoValue
  Users <- MCUsers
  Tokens <- MCTokens
  Owner <- MCOwner
  Unlimited <- MCUnlimited
  InitQuota <- MCInitQuota
  InitRemain <- MCInitRemain
  Relays = {r1, r2}
  Estimates = {1, 2}
  Charges = {3}
  RedisEnabled = TRUE
  PreConsumedQuota = 1
  TrustFactor = 2
  MaxFaults = 1
SYMMETRY Symmetry
INVARIANTS SettlementMatchesOutcome StickyNeverTrusted
CHECK_DEADLOCK FALSE
