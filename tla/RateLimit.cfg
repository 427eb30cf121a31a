CONSTANTS
  u1 = u1  u2 = u2
  Users = {u1, u2}
  Cap = 2
  Window = 4
  MaxTime = 9
SYMMETRY SameUsers
SPECIFICATION LimitSpec
INVARIANT RetryIsExact
PROPERTY ImplementsBucket
