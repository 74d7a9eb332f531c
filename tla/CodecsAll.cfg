\* One run of the three parts. IntMax is small so that the builder's room overflows,
\* StackCells so that its stack grows.
CONSTANTS
  IntMax = 100
  StackCells = 1
  Unset = Unset
  Names <- MCNames
  Texts <- MCTexts
  Samples <- MCSamples
  RoomSizes = {9}
  MaxCalls = 3
  MaxFrame = 66
  Nicks <- MCNicks
  MaxGets = 2
  Pairs <- MCPairs
  Touched = {1, 3, 10}
  Ints <- MCInts
  Strings <- MCStrings
  MaxSteps = 4
SPECIFICATION Spec
INVARIANTS BuilderSafe DocumentIsRead DialogIsHeard MessageIsKept
CHECK_DEADLOCK FALSE
