SPECIFICATION LiveSpec
CONSTANTS
  Price = {1}
  Amount = {0, 1}
  N = 2
  Opening <- MCOpening
  MaxOrders = 2
  MessageSize = 2
  MaxTime = 3
  Faults = {"feed", "snapshot", "malformed"}
PROPERTY
  EveryChangeApplied
CHECK_DEADLOCK FALSE
