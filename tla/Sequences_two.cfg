CONSTANTS
  Kinds = {"vector", "split_buffer", "circular_buffer", "deque", "old_deque", "list", "forward_list"}
  Objects = {v1, v2}
  Blocks = {1, 2, 3, 4}
  Values = {x, y}
  Default = x
  Raw = Raw
  Moved = Moved
  Null = Null
  Gone = Gone
  MaxCapacity = 3
  RingCapacity = 3
  MaxRange = 1
  SubarraySize = 3
  Constructing = FALSE
  StaleArguments = FALSE
  ReserveNothing = FALSE
  InsertInputs = FALSE
  MoveEmpty = FALSE
SPECIFICATION MCSpec
VIEW Shape
INVARIANTS NoFault StorageOwned
PROPERTIES ImplementsSequences
