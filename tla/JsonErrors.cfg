SPECIFICATION Spec
CONSTANTS
  MaxLength = 3
  MaxErrors = 2
CONSTRAINT TwoValues
INVARIANT
  LimitsAreInText
CHECK_DEADLOCK FALSE
