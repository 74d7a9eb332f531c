CONSTANT
  Settings <- MCSettings
SPECIFICATION Spec
INVARIANTS TypeOK PlaceIsSaved ChainNeverEnds
PROPERTY OddsBySteps
CHECK_DEADLOCK FALSE
