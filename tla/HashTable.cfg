CONSTANTS
  Tables = {t1, t2}
  Keys <- MCKeys
  Hash <- MCHash
  MaxLoads <- Loads
  Multi = FALSE
  Gone = Gone
  MaxBuckets = 5
  BucketCounts = {0, 3}
  MaxSize = 3
  MaxRange = 1
  MaxLost = 1
  EqualThrows = TRUE
  RangeThrows = TRUE
SPECIFICATION Spec
SYMMETRY Exchangeable
VIEW Contents
INVARIANTS TypeOK InBucket NodesAccounted UniqueKeys
PROPERTIES LoadKept ImplementsSet
