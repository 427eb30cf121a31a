CONSTANTS
  a1 = a1  a2 = a2  b1 = b1  p1 = p1  p2 = p2
  Workers = {a1, a2, b1}
  Procs = {p1, p2}
  ProcOf <- TwoProcs
  NoWorker = NoWorker
  MapFull = FALSE
  LongContext = FALSE
  MaxMsg = 5
  Budget <- TakeoverBudget
  Limited <- Kinds
  MaxEvents = 2
SPECIFICATION Spec
INVARIANT LockExclusive
