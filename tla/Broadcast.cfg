CONSTANTS
  u1 = u1  u2 = u2  u3 = u3  u4 = u4  w1 = w1  w2 = w2
  Users = {u1, u2, u3, u4}
  Documents <- Four
  Authorised = {u3}
  Fickle = {u1}
  Workers = {w1, w2}
  Modes = {"regular"}
  Buffer = 1
  MaxAttempts = 2
  MaxPanics = 1
  MaxLost = 1
  NoUser = NoUser
SPECIFICATION FairSpec
INVARIANT OneCopyEach
INVARIANT SummaryIsHonest
INVARIANT CancelStopsWorkers
PROPERTY BroadcastEnds
