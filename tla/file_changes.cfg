SPECIFICATION FairSpec
CONSTANTS
  p = p  q = q  h1 = h1
  Path = {p}
  Hash = {h2}
  LastDay = 0
  None = None
  Before <- MCBefore
  Leftover <- MCLeftover
  Pushed = {"read_file"}
  MaxActions = 1
  Faults = {"file_change"}
  QuietRestore = FALSE
CHECK_DEADLOCK FALSE
PROPERTIES BeginningAndEnd
