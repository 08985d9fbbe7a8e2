CONSTANTS
  Keys <- OneToThree
  Threshold = 3
  MinMerge = 3
  MaxLength = 8
  MaxArranged = 5
  PartialRanges = FALSE
  EmptyRanges = FALSE
SPECIFICATION Spec
VIEW Shape
PROPERTIES KeepsContract
