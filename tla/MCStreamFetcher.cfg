SPECIFICATION Spec
CONSTANTS
  t1 = t1
  t2 = t2
  Threads = {t1, t2}
  FairThreads = {t1}
  Size = 3
  HeaderLen = 1
  Ranges <- MCRanges
  Batches <- MCBatches
  Transports = {"cat_ranges", "cursor"}
  Policies = {"header_aware", "any"}
  Contained = TRUE
  Absent = absent
INVARIANTS
  TypeOK
  CacheCoherent
  FetcherInv
  HeaderAwareNeverHeals
PROPERTIES
  ReadsTheSource
  FairReadsEnd
