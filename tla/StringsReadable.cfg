SPECIFICATION Spec
CONSTANTS
  Strings = {s, t}
  Chars = {1, 2}
  MaxSize = 3
  Unknown = Unknown
  Width = 4
PROPERTIES
  ConstructedReadable
CHECK_DEADLOCK FALSE
