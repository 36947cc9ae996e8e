SPECIFICATION Spec
CONSTANTS
  Size = 4
  MaxElem = 15
  Fifo = 2
  MaxBytes = 9
  MsgLens = {1, 3, 4}
  PanicLen = 2
INVARIANTS
  IInv
  InOrder
  NoLostWakeup
  FifoHasRoom
PROPERTIES
  Sent
