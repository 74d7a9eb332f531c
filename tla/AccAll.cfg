CONSTANTS
  Workers = {w1, w2}
  Names = {alice, bob}
  Nicks = {knight, mage}
  Outcomes = {"done", "refused", "lost"}
  NoJob = NoJob
  MaxAccounts = 2
  MaxRoles = 2
  MaxRaces = 2
SPECIFICATION Spec
SYMMETRY Symmetry
INVARIANTS TypeOK MemoryIsTables AnsweredIsServed HonestAreSafe
CHECK_DEADLOCK FALSE
