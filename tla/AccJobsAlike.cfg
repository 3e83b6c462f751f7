\* Two jobs against a prompt memory: does the second one find what the first did?
CONSTANTS
  M = 4
  NOCH = 4
  Taps = 2
  Words = 2
  ImapWords = 6
  MaxOutstanding = 1
  MaxDelay = 0
  MayRefuse = FALSE
  Jobs = 2
  RestartsEarly = FALSE
  None = None
SPECIFICATION Spec
INVARIANTS
  JobsAlike
