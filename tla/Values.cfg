CONSTANTS
  Classes = {"any", "function", "variant", "unique_ptr"}
  Variables = {v1, v2}
  Temp = tmp
  Spare = spare
  Nodes = {n1, n2, n3, n4}
  Blocks = {v1, v2, tmp, spare, n1, n2, n3, n4}
  Values = {x, y}
  Small = {x}
  Default = x
  Raw = Raw
  Moved = Moved
  Null = Null
  Gone = Gone
  AssignThrows = FALSE
  AliasAssign = FALSE
  StatefulDeleter = FALSE
SPECIFICATION MCSpec
VIEW Holding
INVARIANTS TypeOK OwnedOnce
PROPERTIES ImplementsOptional
