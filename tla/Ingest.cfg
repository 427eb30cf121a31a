CONSTANTS
  a1 = a1  a2 = a2  b1 = b1  p1 = p1  p2 = p2
  Workers = {a1, a2, b1}
  Procs = {p1, p2}
  ProcOf <- TwoProcs
  NoWorker = NoWorker
  MapFull = TRUE
  LongContext = TRUE
  MaxMsg = 5
  Budget <- AnyEvent
  Limited <- Kinds
  MaxEvents = 2
SYMMETRY SameProc
SPECIFICATION Spec
INVARIANT LockExclusiveInTime
INVARIANT OneCopy
INVARIANT RecordKeepsItsCopyInTime
INVARIANT ResultWasLive
INVARIANT ForwardOnlyIfGone
