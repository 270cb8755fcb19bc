SPECIFICATION Spec
CONSTANTS
  Size = 8
  MaxInt = 5
  NestingLimit = 2
  FirstBuffer = 4
  MaxLive = 3
  Names <- MCNames
  ConstNames <- MCConstNames
  Values <- MCValues
  Failures = {0, 1, 2, 3, 4, 5, 6, 7}
  Docs <- MCDocs
  Samples <- MCSamples
  TextTokens <- MCTokens
  TextLen = 6
  TreeLen = 3
  Pieces <- MCPieces
  WordLen = 4
INVARIANTS
  TreesSound
  PrintingSound
  CompareIsEquality
  AllOrNothing
  ParserAcceptsJson
  StringsKept
CHECK_DEADLOCK FALSE
