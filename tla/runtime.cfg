CONSTANTS
  None = None
  NoValue = NoValue
  t1 = t1
  t2 = t2
  d1 = d1
  Sep = Sep
  Names <- MCNames
  DirOf <- MCDirOf
  Templates = {t1, t2, d1}
  Default <- MCDefault
  Given <- MCGiven
  Files <- MCFiles
  MaxLevels = 3
  Text <- MCText
  BuffSize = 2
  End = End
  Parts = {"loader", "port", "hooks", "lines", "pack", "datum"}
  Procs = {"f"}
  Lines <- MCLines
  Masks = {{"count"}, {"call", "ret", "line", "count"}}
  Counts = {2}
  Vals = {"a", "b"}
  MaxChains = 2
  MaxFrames = 2
  SourceLines = {1, 2, 128, 129, 130, 257}
  MaxCode = 4
  Ints <- MCInts
  Strings <- MCStrings
  Options <- MCOptions
  Before <- MCBefore
  MaxOptions = 2
  Texts <- MCTexts
SPECIFICATION RuntimeSpec
INVARIANTS
  RuntimeTypeOK
  RequireIsRight
  HooksAreExact
  LinesComeBack
  RoundTrip
  ReadBackIsSame
PROPERTIES
  PortSpec
  ComesToAnEnd
CHECK_DEADLOCK FALSE
