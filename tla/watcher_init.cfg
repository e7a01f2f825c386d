SPECIFICATION FairSpec
CONSTANTS
  f = f  d = d
  Path = {f}
  Hash = {h1, h2}
  None = None
  Content <- MCContent
  MaxEdits = 1
  MaxRestores = 0
  Faults = {}
  InitEdits = TRUE
CHECK_DEADLOCK FALSE
PROPERTIES BackupConverges
