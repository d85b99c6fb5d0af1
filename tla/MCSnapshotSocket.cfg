SPECIFICATION LiveSpec
CONSTANTS
  JSON_BUF_INIT_VALUE = 3
  HeaderSizes = {1, 2, 5}
  BodySizes = {2, 3, 4, 6, 9}
  RecordSizes = {2, 4}
  Flights = 2
  Levels = 2
  Pollers = {"edge", "level"}
  Faults <- AllFaults
INVARIANTS
  ReadsStayInside
  ParsesWholeBody
  StuckForAReason
PROPERTIES
  ConnectionEnds
  RoomyAnswerIsUsed
CHECK_DEADLOCK FALSE
