SPECIFICATION Spec
CONSTANTS
  MaxLinkParens = 1
  MaxLabel = 2
  Contents <- TooLong
INVARIANTS
  FailureRestores
