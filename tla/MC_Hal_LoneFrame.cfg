SPECIFICATION Spec
CONSTANTS
  HEADER_BYTE_0 = 170
  HEADER_BYTE_1 = 85
  MAX_PAYLOAD = 3
  CalcCRC16 <- SumCRC
  BUF_SIZE = 12
  DUMMY_SIZE = 4
  Emissions <- Replies
  LINE_LIMIT = 12
INVARIANT
  TimeoutMeansIncomplete
