SPECIFICATION Spec
CONSTANTS
  Item = {"null", "x"}
  Key = {"a", "b"}
  MaxSize = 3
  Comment = {"c"}
  SparseArrays = TRUE
INVARIANT
  SizeIsAsked
CHECK_DEADLOCK FALSE
