SPECIFICATION Spec
CONSTANTS
  Macros <- MCMacros
  Uses <- MCUses
  MaxRepeats = 5
  MaxForms = 2
  MaxLambdas = 1
  Longest = 2
INVARIANTS
  AsR5RS
CHECK_DEADLOCK FALSE
