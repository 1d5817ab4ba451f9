SPECIFICATION FairSpec
CONSTANTS
  MaxNodes = 28
  MaxLinkParens = 1
  MaxLabel = 2
  MaxDomain = 4
  MaxLocal = 2
  Documents <- AllTexts
  Definitions <- XDefined
  MaxInlineNesting = 2
  Gfm = TRUE
  Breaks = FALSE
INVARIANTS
  InlineTypeOK
  StacksSound
  SearchComplete
  EmphasisComplete
  NestingExact
  StacksPlaced
  NoLinkInLink
  MemoSound
  LinkifyStable
  OutputsAgree
PROPERTIES
  TextKept
  InlineDone
