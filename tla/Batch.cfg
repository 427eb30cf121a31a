CONSTANTS
  f1 = f1  f2 = f2  w1 = w1  w2 = w2
  Messages = 4
  Media = {1, 3, 4}
  FileOf <- SameFileTwice
  Files = {f1, f2}
  Workers = {w1, w2}
  IndexBuffer = 1
  ChunkSize = 2
  ProgressEvery = 2
  Senders = {TRUE, FALSE}
  CacheCap = 2
  MaxPanics = 1
  Callers <- LinkCallers
  Urls <- LinkUrls
  NoUrl = NoUrl
SPECIFICATION FairSpec
PROPERTY BatchEnds
INVARIANT PostedInOrder
INVARIANT EveryMessageCounts
INVARIANT SummaryStays
INVARIANT AskedOnce
