\* Two workers on one merge request with two pushes, an event for an
\* unmoved head and replies in two discussions: a review, its successor and
\* two reconcile runs can be queued or in progress, with one restart or one
\* error outside a try block.
CONSTANTS
  m1 = m1
  s1 = s1
  s2 = s2
  d1 = d1
  d2 = d2
  n1 = n1
  n2 = n2
  w1 = w1
  w2 = w2
  None = None
  Mrs = {m1}
  Shas = {s1, s2}
  Discussions = {d1, d2}
  Notes = {n1, n2}
  Workers = {w1, w2}
  MaxRuns = 4
  MaxPushes = 2
  MaxReadyEvents = 1
  MaxCrashes = 1
  ForcePushBack = FALSE
  MaxFaults = 1
SPECIFICATION ServiceSpec
SYMMETRY Symmetry
CONSTRAINT OneFailure
INVARIANTS
  ServiceTypeOK
  RunningRunsAreHeld
  NoRunIsHeldTwice
  DoneReviewWasPublished
  LastSeenIsHead
  QueuedReplyIsConsidered
  OnePendingReconcilePerDiscussion
PROPERTIES
  UsesRunStore
CHECK_DEADLOCK FALSE
