CONSTANTS
  s1 = s1  s2 = s2  s3 = s3  g1 = g1  g2 = g2
  Streams = {s1, s2, s3}
  Ingests = {g1, g2}
  MaxMsg = 3
SYMMETRY SameActors
SPECIFICATION Spec
INVARIANT StaleIsDoomed
PROPERTY LiveLinkKeptFromItsReaders
