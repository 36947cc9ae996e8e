SPECIFICATION Spec
CONSTANTS
  Junk = Junk
  Drive = 128
  NoDrive = 65535
  SecSize = 2
  Ent16 = 2
  Ent32 = 1
  DirEnt = 2
  IndexLimit = 8
  Fat16Min = 6
  Fat32Min = 9
  Mask32 = 268435456
  HiUnit = 65536
  End = "end"
  Volumes <- MCVolumes
  Paths <- MCPaths
  MaxOffset = 8
  NoFile = NoFile
  NoRequest = NoRequest
INVARIANTS
  TypeOK
  OpensWhatIsThere
  AsksRightSector
PROPERTIES
  Implements
  Returns
