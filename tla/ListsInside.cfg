SPECIFICATION BothSpec
CONSTANTS
  Kinds <- MCKinds
  Starts <- MCStarts
  Filters <- MCFilters
  MaxChanges = 1
INVARIANTS
  ListsInside
\* The programs end.
CHECK_DEADLOCK FALSE
