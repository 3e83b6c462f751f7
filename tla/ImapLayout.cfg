CONSTANTS
  BlockSize = 5
  Depth = 6
  Loads = 2
  MaxOutstanding = 2
  None = None
SPECIFICATION Spec
INVARIANTS
  PairsOfPixel

