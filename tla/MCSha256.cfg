SPECIFICATION MCSpec
CONSTANTS
  Block = 5
  LenBytes = 2
  ByteBits = 3
  Data = {0, 4}
  MaxLen = 11
CHECK_DEADLOCK FALSE
INVARIANTS
  NothingLost
  HashesThePaddedMessage
  AnswersAsRecorded
