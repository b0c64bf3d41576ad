SPECIFICATION Spec
CONSTANTS
  N = 9
  SemMax = 4
INVARIANTS
  BodiesExclude
  UnitNeverLost
  DestroyedUnused
PROPERTIES
  AlternatesStrictly
  EveryoneFinishes
