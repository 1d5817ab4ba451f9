SPECIFICATION Spec
CONSTANTS
  Parses = {p1, p2, p3}
  MaxLines = 2
  Piped = {2}
  Gfm = TRUE
SYMMETRY Interchangeable
INVARIANTS
  EngineTypeOK
  OwnSlot
  OwnDocument
  SlabBounded
  KeptIsOwn
PROPERTIES
  EachItsOwn
