SPECIFICATION Spec
CONSTANTS
  Session = {s1, s2}
  Path = {p, q}
  Hash = {h1}
  LastDay = 1
  None = None
SYMMETRY Symmetry
INVARIANTS TypeOK OneVersionPerDay InitialStatusIsToday
PROPERTIES ImplementsDailyBackup PastDaysFixed
