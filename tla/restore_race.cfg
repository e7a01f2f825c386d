SPECIFICATION Spec
CONSTANTS
  p = p  q = q  h1 = h1
  Path = {p}
  Hash = {h2}
  LastDay = 0
  None = None
  Before <- MCBefore
  Leftover <- MCLeftover
  Pushed = {"restore"}
  MaxActions = 1
  Faults = {}
  QuietRestore = FALSE
CHECK_DEADLOCK FALSE
INVARIANTS RestoreFaithful
