SPECIFICATION Spec
CONSTANTS
  MaxNodes = 20
  Lines <- DashLines
  MaxLines = 3
  MaxNesting = 4
  MaxPadding = 1
  Gfm = TRUE
INVARIANTS
  HeaderRowEndsContent
