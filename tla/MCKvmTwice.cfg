SPECIFICATION Spec
CONSTANTS
  NTables = 4
  Entries = 3
  Booted <- MCBooted
  Pages = 4
  MaxUnmap = 1
  None = None
  Gaps <- MCGaps
PROPERTIES
  AllocFresh
