SPECIFICATION Spec
CONSTANTS
  PageWords = 6
  Sentinel = 98
  Junk = 99
INVARIANTS
  IInv
  NoLeak
PROPERTIES
  AllocFresh
