SPECIFICATION Spec
CONSTANTS
  Price = {1}
  Amount = {0, 1}
  N = 2
  Opening <- MCOpening
  MaxOrders = 3
  MessageSize = 2
  MaxTime = 3
  Faults = {"feed", "malformed"}
INVARIANTS
  QueueIsFeed
  BookIsTruth
  StallsOnlyOnEmptyMarket
  DiesOnlyWithoutAsks
CHECK_DEADLOCK FALSE
