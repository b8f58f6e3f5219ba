SPECIFICATION Spec
CONSTANTS
  User = {u1, u2}
  Root = u1
  Call = {k1, k2}
  MaxPassword = 2
  MaxSessions = 2
  MaxInvites = 1
SYMMETRY Symmetry
INVARIANTS AdminRemains OldPasswordOpensNothing
PROPERTY NothingReopens
CHECK_DEADLOCK FALSE
