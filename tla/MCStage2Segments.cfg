SPECIFICATION Spec
CONSTANTS
  PageSize = 4
  PtEntries = 4
  Maps <- MCMaps
  Top = 48
  Images <- MCImages
  Stack = 15
  DiskErrors = FALSE
  None = None
INVARIANTS
  AllLoaded
