CONSTANTS
  Threads = {t1, t2}
  SharedVars = {s1, s2}
  WeakVars = {w1, w2}
  Objects = {o1, o2}
  Null = Null
  Enabled = {o1}
  Lockers = {t1, t2}
  Promoters = {t1, t2}
  Cloners = {}
  Assigners = {}
  MaxOverdrawn = 2
SPECIFICATION Spec
SYMMETRY ThreadsAndVars
INVARIANTS SharedCountExact TotalCountExact BlockPinned BlockNotLeaked
