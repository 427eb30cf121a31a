CONSTANTS
  m1 = m1  m2 = m2
  q1 = q1  q2 = q2
  Messages = {m1, m2}
  Requests = {q1, q2}
  Slots = 1
  Capacity = 1
SPECIFICATION FairSpec
INVARIANT HandlersDrained
INVARIANT NothingInUseIsStopped
INVARIANT NoSendOnClosed
PROPERTY ShutdownEnds
