SPECIFICATION MCSpec
CONSTANTS
  SegSize = 18
  Show <- ShowValue
  Suite = "pass"
INVARIANTS
  MachineTypeOK
  Agreement
  PortsClosedOnce
PROPERTIES
  CapturedFramesKeep
CHECK_DEADLOCK FALSE
