CONSTANTS
  Sword = Sword
  Blade = Blade
  Potion = Potion
  NoTemplate = NoTemplate
  IntMax = 7
  ShortMax = 3
  Settings <- MCSettings
SPECIFICATION Spec
INVARIANTS TypeOK  CellsAgree
PROPERTIES   DoubledByUnEquip
CHECK_DEADLOCK FALSE
