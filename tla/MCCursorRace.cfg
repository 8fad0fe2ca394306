SPECIFICATION Spec
CONSTANTS
  t1 = t1
  t2 = t2
  Threads = {t1, t2}
  FairThreads = {}
  Size = 3
  HeaderLen = 1
  Ranges <- MCRanges
  Batches <- MCBatches
  Transports = {"cursor"}
  Policies = {"header_aware"}
  Contained = FALSE
  Absent = absent
INVARIANT
  CursorExclusive
