\* A reply that arrives while a full review is in progress.
CONSTANTS
  m1 = m1
  s1 = s1
  d1 = d1
  n1 = n1
  w1 = w1
  None = None
  Mrs = {m1}
  Shas = {s1}
  Discussions = {d1}
  Notes = {n1}
  Workers = {w1}
  MaxRuns = 2
  MaxPushes = 1
  MaxReadyEvents = 0
  MaxCrashes = 0
  ForcePushBack = FALSE
  MaxFaults = 0
SPECIFICATION ServiceSpec
INVARIANTS
  EveryReplyIsConsidered
CHECK_DEADLOCK FALSE
