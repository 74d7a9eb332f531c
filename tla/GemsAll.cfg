CONSTANTS
  Items = {1, 2, 3, 4}
  Fragments = {4}
  Templates = {2, 3}
  Heaps = {{2, 3}}
  BoughtEmpty = {3}
  Positions <- MCPositions
  Counts <- MCCounts
  FragmentExp = 10
  NoGem = NoGem
  Semicolon = Semicolon
  MaxExp = 20
SPECIFICATION Spec
INVARIANTS TypeOK NoGemTwice
PROPERTY VanishBySteps
CHECK_DEADLOCK FALSE
