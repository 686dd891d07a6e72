CONSTANTS
  a = a
  b = b
  None = None
  IntKeys <- WalkInts
  OtherKeys <- WalkOthers
  Vals = {v}
  HalfInt = 8
  MaxSize = 8
  Mix <- WalkMix
  Claimed = {b}
  LateHandler = TRUE
SPECIFICATION WalkSpec
INVARIANTS
  EachGivenOnce
PROPERTIES
  NeverLost
