SPECIFICATION Spec
CONSTANTS
  HalfBits = 3
  Radix = 2
  ChunkLen = 3
  Literals <- MCLiterals
  Ratios <- MCRatios
  Exponents <- MCExponents
  MaxLimbs = 2
  MaxSteps = 2
INVARIANTS
  TypeOK
  ArithmeticIsExact
  IntegersAreRight
  ReadBack
