CONSTANTS
  Threads = {t1, t2, t3}
  SharedVars = {s1, s2, s3}
  WeakVars = {w1, w2}
  Objects = {o1, o2}
  Null = Null
  Enabled = {o1, o2}
  Lockers = {}
  Promoters = {}
  Cloners = {}
  Assigners = {}
  MaxOverdrawn = 1
SPECIFICATION Spec
SYMMETRY Symmetry
INVARIANTS TypeOK OwnedAlive DestroyedOnce QuiescentUseCount DestroyedBeforeFreed SelfReference
PROPERTIES ExpiredForever ImplementsOwnership
