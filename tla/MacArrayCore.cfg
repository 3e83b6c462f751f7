CONSTANTS
  M = 4
  NOCH = 4
SPECIFICATION Spec
INVARIANTS
  LeavingNamesPixel
  GroupRightBeyondReadAhead
  IdentityUntilChannelEnd
  LineBuffersInStep
