CONSTANTS
  B = 3
  W3 = 16
  W1 = 10
  Q3 = 9
  Q1 = 6
  MAP_SIZE = 4
  OUT_CH = 2
  Words = 2
  Sums3 <- MCSums3
  Sums1 <- MCSums1
  Bytes <- MCBytes
  None = None
SPECIFICATION Spec
INVARIANTS
  WindowUntilLastColumns
  BytesAgree
  BytesHoldSums
CHECK_DEADLOCK FALSE
