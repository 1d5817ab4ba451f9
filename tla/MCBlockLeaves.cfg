SPECIFICATION Spec
CONSTANTS
  MaxNodes = 20
  Lines <- LeafLines
  MaxLines = 4
  MaxNesting = 4
  MaxPadding = 1
  Gfm = TRUE
INVARIANTS
  SpineInv
  EveryLineOnce
  TypeOK
  EndsDated
  ParagraphsAreRuns
  RowsDated
  PaddingBudget
  FirstDefinitionWins
PROPERTIES
  ClosedStaysClosed
