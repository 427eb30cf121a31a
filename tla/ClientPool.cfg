\* Three requests and an ingestion on two clients of one ticket and two permits.
CONSTANTS
  r1 = r1  r2 = r2  r3 = r3  g1 = g1
  NClients = 2
  MaxConcurrent = 1
  Requests = {r1, r2, r3}
  Ingests = {g1}
  NoRequest = NoRequest
  MaxLookups = 2
SPECIFICATION FairSpec
 
PROPERTY RejectedOnlyWhenFull
 
INVARIANT LookupsBounded
PROPERTY EveryTicketMoves
