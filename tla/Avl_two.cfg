CONSTANTS
  Trees = {t1, t2}
  Keys <- OneToTwo
  Mapped = {x, y}
  Copies = 3
  Null = Null
  Gone = Gone
  EmptyRanges = FALSE
  MaxRange = 2
  MaxLost = 1
SPECIFICATION Spec
VIEW Heap
INVARIANTS TypeOK NodesOwned
PROPERTIES ImplementsMap
