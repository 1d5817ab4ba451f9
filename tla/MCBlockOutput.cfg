SPECIFICATION OutputSpec
CONSTANTS
  MaxNodes = 32
  Lines <- OutputLines
  MaxLines = 4
  MaxNesting = 4
  MaxPadding = 1
  Gfm = TRUE
  Breaks = TRUE
INVARIANTS
  CheckboxesHeadTasks
  SpreadMeansLoose
  BlocksProjected
  TagsNest
  NewlinesPlaced
