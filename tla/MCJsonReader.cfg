SPECIFICATION Spec
CONSTANTS
  StackLimit = 3
  Settings <- MCSettings
CONSTRAINT ShortRecovery
INVARIANTS
  StacksFollowCalls
  ReadsItsGrammar
  PointersAreAlive
PROPERTY
  CommentsAreKept
CHECK_DEADLOCK FALSE
