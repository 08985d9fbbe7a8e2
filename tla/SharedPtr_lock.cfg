CONSTANTS
  Threads = {t1, t2}
  SharedVars = {s1, s2}
  WeakVars = {w1}
  Objects = {o1}
  Null = Null
  Enabled = {}
  Lockers = {t1}
  Promoters = {}
  Cloners = {}
  Assigners = {}
  MaxOverdrawn = 1
SPECIFICATION Spec
INVARIANT DestroyedOnce
