\* Where the weights are fetched from.
CONSTANTS
  M = 4
  NOCH = 4
  Taps = 2
  Words = 2
  ImapWords = 6
  MaxOutstanding = 1
  MaxDelay = 0
  MayRefuse = FALSE
  Jobs = 1
  RestartsEarly = FALSE
  None = None
SPECIFICATION Spec
INVARIANTS
  WeightAddressOfChannel
