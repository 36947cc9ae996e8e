SPECIFICATION Spec
CONSTANTS
  Entries = 2
  NumPages = 4
  Listed <- MCListed
  Initial = 0
  Junk = 99
  Invalid = 100
INVARIANTS
  IInv
  WindowIsFree
PROPERTIES
  AllocFresh
