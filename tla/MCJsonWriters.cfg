SPECIFICATION Spec
CONSTANTS
  FastRoots <- MCFastRoots
  StyledRoots <- MCStyledRoots
  StreamCases <- MCStreamCases
  rightMargin_ = 13
INVARIANTS
  ReadsBack
  CommentsAreWritten
CHECK_DEADLOCK FALSE
