CONSTANTS
  Workers = {w1}
  Capacity = 4
  MaxPush = 4
  MaxPop = 4
SPECIFICATION FairSpec
INVARIANTS TypeOK NoUseAfterDelete
PROPERTIES EventuallyPopped IsChannel
CHECK_DEADLOCK FALSE
