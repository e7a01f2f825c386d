SPECIFICATION FairSpec
CONSTANTS
  Capacity = 1
  TRY_AGAIN_ATTEMPTS = 2
  MaxChanges = 3
  MaxRestores = 0
  Faults = {"disconnect"}
CHECK_DEADLOCK FALSE
PROPERTIES ThreadsReturn
