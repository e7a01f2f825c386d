SPECIFICATION FairSpec
CONSTANTS
  p = p  q = q  h1 = h1
  Path = {p}
  Hash = {h2}
  LastDay = 1
  None = None
  Before <- MCBefore
  Leftover <- MCLeftover
  Pushed = {"read_file", "delete_path", "restore"}
  MaxActions = 3
  Faults = {"db_write", "restore_io"}
  QuietRestore = TRUE
CHECK_DEADLOCK FALSE
INVARIANTS InSync TruthfulPending BackupFollowsActions NothingLeftBehind RestoreFaithful
PROPERTIES QuitEnds BeginningAndEnd
