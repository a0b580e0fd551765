\* The row of f1 describes f2 after the second review; a third review reports f3, which resembles f2 only, and f1.
CONSTANTS
  f1 = f1
  f2 = f2
  f3 = f3
  None = None
  w1 = w1
  w2 = w2
  Findings = {f1, f2, f3}
  Writers = {w1}
  Similar <- Chain
  Reports <- Chained
  Edits <- Elsewhere
  MaxPushes = 2
  MaxReplies = 0
  MaxHumanThreads = 0
  MaxResolves = 0
  MaxDeletions = 0
  MaxFailures = 0
SPECIFICATION Spec
PROPERTIES
  ReportIsTracked
CHECK_DEADLOCK FALSE
