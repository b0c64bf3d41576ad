SPECIFICATION MCSpec
CONSTANTS
  Tids = {"tid0", "tid1"}
  MaxSecs = 5
  MaxDelay = 3
INVARIANTS
  SameJobNumber
  EveryJobCounted
  DestroyedFree
  SignalThenTake
  WorkUnderLock
  ReleasedOnce
  TimedOutcome
PROPERTIES
  CountersFinish
  CondsFinish
  SemsFinish
\* A process that has returned from main or exited does not move any more, and
\* dec waits for ever when main's signal is lost.
CHECK_DEADLOCK FALSE
