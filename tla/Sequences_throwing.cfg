CONSTANTS
  Kinds = {"vector"}
  Objects = {v1}
  Blocks = {1, 2, 3, 4}
  Values = {x, y}
  Default = x
  Raw = Raw
  Moved = Moved
  Null = Null
  Gone = Gone
  MaxCapacity = 4
  RingCapacity = 6
  MaxRange = 2
  SubarraySize = 3
  Constructing = TRUE
  StaleArguments = FALSE
  ReserveNothing = FALSE
  InsertInputs = FALSE
  MoveEmpty = FALSE
SPECIFICATION MCSpec
VIEW Shape
INVARIANTS NoFault
