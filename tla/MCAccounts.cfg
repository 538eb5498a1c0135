CONSTANTS
  Users = {root, ann}
  Tokens = {k1, k2}
  Requests = {p1, p2}
  NoUser = NoUser
  Nothing = Nothing
  FirstAdmin = root
  Admins = {ann}
  MaxCalls = 2
  MaxFailures = 1
SPECIFICATION FairSpec
INVARIANTS SuperuserKept StaleIsKnown
PROPERTIES EventuallyCurrent
CHECK_DEADLOCK FALSE
