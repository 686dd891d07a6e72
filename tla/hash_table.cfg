CONSTANTS
  a = a
  b = b
  None = None
  IntKeys <- MCInts
  OtherKeys <- MCOthers
  Vals = {v, w}
  HalfInt = 8
  MaxSize = 16
  Mix <- MCMix
  Claimed = {b, 3}
  LateHandler = TRUE
SPECIFICATION Spec
INVARIANTS
  TypeOK
  FirstFreeBound
  EveryKeyFound
  ChainShape
  StoredOnce
  SizesAreRight
PROPERTIES
  MapSpec
