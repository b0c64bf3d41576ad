SPECIFICATION Spec
CONSTANT Rounds = 5
PROPERTIES
  CounterIncreases
\* Both processes end.
CHECK_DEADLOCK FALSE
