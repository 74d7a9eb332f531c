CONSTANTS
  knight = knight
  mage = mage
  elf = elf
  alice = alice
  bob = bob
  NoRole = NoRole
  NoSession = NoSession
  NoJob = NoJob
  Sessions = {s1, s2, s3}
  Accounts = {alice, bob}
  Roles = {knight, mage, elf}
  Owner <- MCOwner
  Workers = {w1, w2}
  Settings <- MCSettings
SPECIFICATION Spec
SYMMETRY ThreadSymmetry
INVARIANTS TypeOK SceneIsLive NoLostSave
PROPERTY MisuseByOverlap
CHECK_DEADLOCK FALSE
