SPECIFICATION Spec
CONSTANTS
  Key = {1, 2, 3, 4, 5}
  Value = {1, 2}
  Depth = 2
  Comparator <- MCGreater
  End = End
INVARIANTS
  TypeOK
  EndMarksDepth
  WalkIsBest
PROPERTIES
  DroppedIsForgotten
  ImplementsTable
