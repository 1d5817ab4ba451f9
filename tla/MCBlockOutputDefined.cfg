SPECIFICATION OutputSpec
CONSTANTS
  MaxNodes = 24
  Lines <- DefinedLines
  MaxLines = 3
  MaxNesting = 4
  MaxPadding = 1
  Gfm = TRUE
  Breaks = TRUE
INVARIANTS
  GapsAreBlank
