\* Two workers, of which one may die, and one merge request whose head may be
\* forced back to an earlier commit.
CONSTANTS
  m1 = m1
  s1 = s1
  s2 = s2
  d1 = d1
  n1 = n1
  w1 = w1
  w2 = w2
  None = None
  Mrs = {m1}
  Shas = {s1, s2}
  Discussions = {d1}
  Notes = {n1}
  Workers = {w1, w2}
  MaxRuns = 4
  MaxPushes = 3
  MaxReadyEvents = 0
  MaxCrashes = 0
  MaxFaults = 1
  ForcePushBack = TRUE
SPECIFICATION FairServiceSpec
PROPERTIES
  HeadIsReviewed
  EveryRunEnds
  QueueDrains
CHECK_DEADLOCK FALSE
