CONSTANTS
  Kinds = {"vector", "split_buffer", "circular_buffer", "deque", "old_deque", "list", "forward_list"}
  Objects = {v1}
  Blocks = {1, 2, 3, 4}
  Values = {x, y}
  Default = x
  Raw = Raw
  Moved = Moved
  Null = Null
  Gone = Gone
  MaxCapacity = 4
  RingCapacity = 6
  MaxRange = 2
  SubarraySize = 3
  Constructing = FALSE
  StaleArguments = FALSE
  ReserveNothing = FALSE
  InsertInputs = FALSE
  MoveEmpty = FALSE
SPECIFICATION MCSpec
VIEW Shape
INVARIANTS TypeOK NoFault ElementsInPlace
PROPERTIES ImplementsSequences
