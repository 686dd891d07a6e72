CONSTANTS
  p = p
  q = q
  r = r
  v = v
  w = w
  None = None
  Promises <- Three
  Vals = {v, w}
  Gives <- MCGives
  Forces <- MCForces
  TailForces = {r}
  MaxFrames = 3
  MaxKept = 2
SPECIFICATION Spec
INVARIANTS
  TypeOK
  EagerHasValue
PROPERTIES
  FirstValueStays
  AnswersStay
