\* Two workers and two futures at a time; three documents, each above the maximum.
SPECIFICATION FairSpec
CONSTANTS
  a = a
  b = b
  c = c
  Listing <- Three
  Listed <- ListedThree
  Loaded <- ReadThree
  Compressed = {a}
  Worker = {w1, w2}
  NoDoc = NoDoc
  MaximumMemory = 4
  Futures = 2
  IgnoreErrors = FALSE
INVARIANTS TypeOK OnePlace MemoryBounded CounterAgrees NothingSkipped
PROPERTY RunReturns
CHECK_DEADLOCK FALSE
