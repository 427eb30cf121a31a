CONSTANTS
  Sizes = {0, 1, 6, 7, 10}
  Chunk = 3
  Natives = {5, 8, 100}
  MaxInt64 = 100
  Numbers = {0, 1, 2, 4, 5, 6, 7, 9, 101}
  MaxFails = 2
  MaxFaults = 2
  Blank = Blank
  Junk = Junk
SPECIFICATION RangesFairSpec
INVARIANT RangeAsAsked
INVARIANT BodyIsTheRange
PROPERTY ReaderIsServed
