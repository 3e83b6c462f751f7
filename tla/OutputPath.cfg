CONSTANTS
  Pixels = 4
  NOCH = 2
  Absorb = 3
  None = None
SPECIFICATION Spec
INVARIANTS
  SamePixelAdded
  AddressNamesPixel
PROPERTIES
  ImplementsChannel
