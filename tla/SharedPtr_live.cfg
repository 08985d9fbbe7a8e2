CONSTANTS
  Threads = {t1, t2}
  SharedVars = {s1, s2}
  WeakVars = {w1}
  Objects = {o1, o2, o3}
  Null = Null
  Enabled = {o1, o2}
  Lockers = {}
  Promoters = {}
  Cloners = {t1, t2}
  Assigners = {t1, t2}
  MaxOverdrawn = 1
SPECIFICATION FairSpec
INVARIANTS TotalCountExact BlockNotLeaked
PROPERTIES UnownedDies UnreachableFreed
