SPECIFICATION MCSpec
CONSTANTS
  BUFFER_SIZE = 9
  RequestSize = 2
  ResponseSize = 2
  SubscribeSize = 1
  Payload <- MCPayload
  Kinds = {"order", "ping", "junk", "object"}
  Levels = 2
  N = 3
  MaxFrames = 3
  ShortWrites = TRUE
  Lengths = {0, 1, 124, 125, 126, 127, 65535, 65536, 65537, 131072}
INVARIANTS
  FramesInTurn
  BacklogIsExcess
  RoomForMore
  OutputInTurn
  FramesEndWhereSent
CHECK_DEADLOCK FALSE
