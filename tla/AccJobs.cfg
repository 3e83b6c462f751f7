\* Two jobs against either memory, the second one when the weights are at rest.
CONSTANTS
  M = 5
  NOCH = 4
  Taps = 2
  Words = 2
  ImapWords = 6
  MaxOutstanding = 3
  MaxDelay = 2
  MayRefuse = FALSE
  Jobs = 2
  RestartsEarly = FALSE
  None = None
SPECIFICATION FairSpec
INVARIANTS
  TypeOK
  AnswersReachAsker
  NoLoadOverrun
  WeightsMatchChannel
  ReadPointerDrift
  MapStoredBeforeRead
  NeverStalled
  OutputNamesPixel
  DoneNearlyDrained
PROPERTIES
  JobsEnd
