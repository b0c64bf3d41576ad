SPECIFICATION MCSpec
CONSTANT Rounds = 5
INVARIANTS
  AnswersFit
  NeverAhead
  PacedIsExact
PROPERTIES
  AlternatesSafely
  NobodyHangs
  SparedFinish
  Terminates
\* Processes end, and a server whose client was refused waits for ever.
CHECK_DEADLOCK FALSE
