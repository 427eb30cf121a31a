CONSTANTS
  a1 = a1  a2 = a2  b1 = b1  p1 = p1  p2 = p2
  Workers = {a1, a2}
  Procs = {p1}
  ProcOf <- OneProc
  NoWorker = NoWorker
  MapFull = TRUE
  LongContext = FALSE
  MaxMsg = 5
  Budget <- Deadlines
  Limited <- AllButTimeouts
  MaxEvents = 2
SPECIFICATION FairSpec
 
 
PROPERTY EveryIngestReturns
