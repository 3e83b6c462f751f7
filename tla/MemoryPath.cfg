SPECIFICATION FairSpec
CONSTANTS
  Addr = {word}
  AccData = {map}
  CpuData = {weight}
  OUTS = 8
  DP = 2
  None = None
INVARIANTS OutstandingBound RefusesOnlyWhenDisturbed
PROPERTIES SharedSpec AnswersCome CpuTaken
