SPECIFICATION BothSpec
CONSTANTS
  Vectors = {u, v}
  Values = {1, 2}
  Junk = Junk
  Lost = Lost
  Width = 3
  Strings = {s, t}
  Chars = {1, 2}
  MaxSize = 3
  Unknown = Unknown
  SWidth = 4
SYMMETRY Symmetry
INVARIANTS
  MemorySafe
  OrderIsSound
  WellFormed
  StaysDefined
  ComparesText
PROPERTIES
  ImplementsSpec
CHECK_DEADLOCK FALSE
