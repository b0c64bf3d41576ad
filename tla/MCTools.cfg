SPECIFICATION BothSpec
CONSTANTS
  Kinds <- MCKinds
  Starts <- MCStarts
  Filters <- MCFilters
  MaxChanges = 1
INVARIANTS
  DoesWhatIsMeant
  DigitsReported
  ListedExisted
  ListsAll
\* The programs end.
CHECK_DEADLOCK FALSE
