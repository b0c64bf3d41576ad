SPECIFICATION MCSpec
CONSTANTS
  Clients = {"c1", "c2"}
  File <- MCFile
  Units <- MCUnits
  Names <- MCNames
  Cuts <- MCCuts
  Killed = {"c1", "server", "nobody"}
  Block = 2
  Window = 2
  Callers = {"k1", "k2", "k3"}
  MaxFd = 6
  Garbage <- MCGarbage
  ChildLimit = 2
INVARIANTS
  SavedIsPrefix
  CompleteIfSpared
  DiesOnlyOfLeavers
  FewLost
PROPERTIES
  TransferServes
  RightServed
  LateReaderServed
\* The programs that are not servers end, and a server waits for clients.
CHECK_DEADLOCK FALSE
