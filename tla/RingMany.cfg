CONSTANTS
  Workers = {w1, w2, w3}
  Capacity = 2
  MaxPush = 4
  MaxPop = 3
SPECIFICATION Spec
INVARIANTS WindowIntact LossIsDuplication WorkerInOrder
SYMMETRY WorkerSymmetry
CHECK_DEADLOCK FALSE
