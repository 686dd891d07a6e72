CONSTANTS
  MaxWinds = 3
  MaxFrames = 4
  MaxLevels = 2
  Uses = {"pcall", "thunk capture"}
SPECIFICATION Spec
INVARIANTS
  TypeOK
  OwedInBody
  ChainIsStack
  NoFault
