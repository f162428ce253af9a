SPECIFICATION Spec
CONSTANTS
  user = user  lim = lim  unl = unl   NoValue = NoValue
  Users <- MCUsers
  Tokens <- MCTokens
  Owner <- MCOwner
  Unlimited <- MCUnlimited
  InitQuota <- MCInitQuota
  InitRemain <- MCInitRemain
  Relays = {r1, r2}
  Estimates = {1, 2}
  Charges = {0, 3}
  RedisEnabled = FALSE
  PreConsumedQuota = 1
  TrustFactor = 2
  MaxFaults = 0
SYMMETRY Symmetry
INVARIANT UnmeteredIsRefunded
CHECK_DEADLOCK FALSE
