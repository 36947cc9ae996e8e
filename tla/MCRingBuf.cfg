SPECIFICATION Spec
CONSTANTS
  Size = 4
  MaxElem = 15
  MaxTotal = 10
INVARIANTS
  InOrder
  IInv
PROPERTIES
  Refinement
