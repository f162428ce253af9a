SPECIFICATION FairSpec
CONSTANTS
  Sessions = {local, remote}
  Coder = {remote}
  Users = {alice, mock}
  CoderUser = mock
  Logins = {l1, l2}
  Polls = {p1}
  None = None  Torn = Torn
INVARIANTS TokenIsOfALogin
PROPERTY NoRevivalByCallback ForgottenOnceExpired
CHECK_DEADLOCK FALSE
