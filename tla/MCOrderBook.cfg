SPECIFICATION DSpec
CONSTANTS
  Price = {1, 2}
  Amount = {0, 1, 2}
  Timestamp = {1, 2}
  Depth = 1
  End = End
  BidPrice = {2}
  AskPrice = {1, 2}
INVARIANTS
  BookFollowsOrders
PROPERTIES
  ImplementsPriceBook
  ScreenShowsBest
  NoSilentChange
CHECK_DEADLOCK FALSE
