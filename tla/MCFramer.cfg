SPECIFICATION Spec
CONSTANTS
  b1 = b1
  b2 = b2
  b3 = b3
  b4 = b4
  b5 = b5
  STX = STX
  ETX = ETX
  MaxBufSize = 5
  MaxSent = 5
  Bytes = {b1, b2, b3, b4, b5, STX, ETX}
  Payloads <- MCPayloads
CHECK_DEADLOCK FALSE
INVARIANTS TypeOK RoomLeft FramesInOrder NothingWithheld
