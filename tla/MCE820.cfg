SPECIFICATION Spec
CONSTANTS
  PageSize = 2
  Top = 16
  Types = 3
  Maps <- MCMaps
CHECK_DEADLOCK FALSE
INVARIANTS
  IInv
  NoWild
  GroupedByType
  DeliversMap
  NothingLost
