\* Which input channel group a window is made of.
CONSTANTS
  M = 4
  NOCH = 4
SPECIFICATION Spec
INVARIANTS
  WindowOfGroup
