SPECIFICATION FairSpec
CONSTANTS
  f = f  d = d
  Path = {f, d}
  Hash = {h1, h2}
  None = None
  Content <- MCContent
  MaxEdits = 2
  MaxRestores = 1
  Faults = {"too_large", "db_write"}
  InitEdits = FALSE
CHECK_DEADLOCK FALSE
INVARIANTS TypeOK SeenIsSent
PROPERTIES RestoreExcludesScan BackupConverges
