CONSTANTS
  c1 = c1
  c2 = c2
  Main = Main
  None = None
  Cos <- MCCos
  Uses = {"callcc", "pcall", "arity"}
  MaxFrames = 2
  MaxActs = 4
SPECIFICATION Spec
INVARIANTS
  TypeOK
  ResumesNest
  StateIsTrue
