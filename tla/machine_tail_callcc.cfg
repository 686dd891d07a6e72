SPECIFICATION MCSpec
CONSTANTS
  SegSize = 18
  Show <- ShowValue
  Suite = "tail"
INVARIANTS
  Agreement
CHECK_DEADLOCK FALSE
