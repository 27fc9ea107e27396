SPECIFICATION Spec
CONSTANTS
  HEADER_BYTE_0 = 170
  HEADER_BYTE_1 = 85
  MAX_PAYLOAD = 3
  CalcCRC16 <- CRC16
  MsgIds = {1, 85}
  PayloadBytes = {0, 2, 85, 170}
  Masks = {0, 1, 3, 16, 128, 254, 255}
  Behind <- BytesBehind
  LENGTH_LIMIT = 4
INVARIANTS
  RoundTrips
  DamageIsDetected
  ChecksumIsRemainder
CHECK_DEADLOCK FALSE
