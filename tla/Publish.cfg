\* One worker: findings that are reworded, vanish and return under up to three events, which are
\* pushes, replies, calls that raise, and threads that humans open, resolve and delete.
CONSTANTS
  f1 = f1
  f2 = f2
  f3 = f3
  None = None
  w1 = w1
  w2 = w2
  Findings = {f1, f2, f3}
  Writers = {w1}
  Similar <- Alike
  Reports <- Chained
  Edits <- Around
  MaxPushes = 2
  MaxReplies = 1
  MaxHumanThreads = 1
  MaxResolves = 1
  MaxDeletions = 1
  MaxFailures = 1
SPECIFICATION Spec
CONSTRAINT ThreeEvents
INVARIANTS
  OneThreadPerFinding
  OneReplyPerSilence
  RowsAgreeWithThreads
  RowsNameTheirThread
PROPERTIES
  ReportIsTracked
  ReadDismissalStands
  ImplementsLifecycle
CHECK_DEADLOCK FALSE
