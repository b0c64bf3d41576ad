SPECIFICATION BothSpec
CONSTANTS
  Kinds <- MCKinds
  Starts <- MCStarts
  Filters <- MCFilters
  MaxChanges = 1
INVARIANTS
  NameAsked
\* The programs end.
CHECK_DEADLOCK FALSE
