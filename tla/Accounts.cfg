SPECIFICATION Spec
CONSTANTS
  root = root
  admin = admin
  common = common
  free = free
  Users <- MCUsers
  InitialRole <- MCRoles
  Owner = common
  Handlers = {h1, h2}
  Nodes = {n1, n2}
  Families <- MCFamilies
  MaxFaults = 1
SYMMETRY Symmetric
INVARIANTS LossHasCause BanFollowsRow IdentityUnique PaidOnce ResetOnce
PROPERTIES RightsFollowRoles
CHECK_DEADLOCK FALSE
