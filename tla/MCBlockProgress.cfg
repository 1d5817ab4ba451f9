SPECIFICATION FairSpec
CONSTANTS
  MaxNodes = 20
  Lines <- MixedLines
  MaxLines = 3
  MaxNesting = 4
  MaxPadding = 1
  Gfm = TRUE
PROPERTIES
  LineAbsorbed
