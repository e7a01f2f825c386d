SPECIFICATION FairSpec
CONSTANTS
  p = p  q = q  h1 = h1
  Path = {p}
  Hash = {h1, h2}
  LastDay = 0
  None = None
  Before <- MCBefore
  Leftover <- MCLeftover
  Pushed = {"read_file", "create_folder", "delete_path", "ignore", "restore"}
  MaxActions = 2
  Faults = {"disconnect", "db_write", "too_large", "restore_io", "file_vanish"}
  QuietRestore = TRUE
CHECK_DEADLOCK FALSE
INVARIANTS TypeOK InSync TruthfulPending BackupFollowsActions NothingLeftBehind RestoreFaithful
PROPERTIES QuitEnds
