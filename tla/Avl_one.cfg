CONSTANTS
  Trees = {t1}
  Keys <- OneToSeven
  Mapped = {x}
  Copies = 2
  Null = Null
  Gone = Gone
  EmptyRanges = FALSE
  MaxRange = 2
  MaxLost = 1
SPECIFICATION Spec
VIEW Heap
INVARIANTS Balanced IterationOrder SearchExact
PROPERTIES ImplementsMap
