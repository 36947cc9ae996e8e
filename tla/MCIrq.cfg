SPECIFICATION Spec
CONSTANTS
  Half = 16
  Addr <- MCAddr
  Lines = {0, 4, 14}
  FirmwareUart = FALSE
  Exceptions = {0, 2, 13, 31}
CHECK_DEADLOCK FALSE
INVARIANTS
  IInv
  RightHandler
  EoiBalance
  NotReentered
  PortReady
PROPERTIES
  Serviced
