\* A push supersedes a reconcile run whose agent is about to accept the dismissal.
CONSTANTS
  f1 = f1
  f2 = f2
  f3 = f3
  None = None
  w1 = w1
  w2 = w2
  Findings = {f1}
  Writers = {w1, w2}
  Similar <- Unlike
  Reports <- Singles
  Edits <- Elsewhere
  MaxPushes = 1
  MaxReplies = 1
  MaxHumanThreads = 0
  MaxResolves = 0
  MaxDeletions = 0
  MaxFailures = 0
SPECIFICATION Spec
PROPERTIES
  LaterReviewsRespectDismissals
CHECK_DEADLOCK FALSE
