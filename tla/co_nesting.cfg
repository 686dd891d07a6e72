CONSTANTS
  c1 = c1
  c2 = c2
  Main = Main
  None = None
  Cos <- MCCos
  Uses = {"pcall"}
  MaxFrames = 2
  MaxActs = 4
SPECIFICATION Spec
INVARIANTS
  NormalIsWaiting
PROPERTIES
  ResumeIsCall
