SPECIFICATION Spec
CONSTANTS
  MaxNesting = 2
  Height = 3
  Epsilon = 2
  Documents <- MCDocuments
  Samples <- MCSamples
  Scalar <- MCScalar
  Pieces <- MCPieces
  Bits <- MCBits
  MaxPieces = 3
INVARIANTS
  ParsesTheGrammar
  SavedOrNothing
  EqualsByPath
  ValidatesByPath
  QuotedStringRead
  StringRoundTrip
  CommentsBlanked
CHECK_DEADLOCK FALSE
