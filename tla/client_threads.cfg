SPECIFICATION FairSpec
CONSTANTS
  Capacity = 2
  TRY_AGAIN_ATTEMPTS = 3
  MaxChanges = 3
  MaxRestores = 1
  Faults = {"disconnect", "file_vanish", "scan_error", "stdin", "restore_io", "restore_cleanup"}
CHECK_DEADLOCK FALSE
INVARIANTS TypeOK QuitIsLast GivesUpInTime
  
