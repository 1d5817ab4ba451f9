SPECIFICATION Spec
CONSTANTS
  MaxNodes = 24
  Lines <- ContainerLines
  MaxLines = 4
  MaxNesting = 4
  MaxPadding = 1
  Gfm = TRUE
INVARIANTS
  UnmatchedAreBelow
  NestingBounded
  WellContained
  SourceOrder
  TightAsDefined
  CursorAgrees
