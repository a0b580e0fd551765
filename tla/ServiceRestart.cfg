\* One restart of the process while a run is in progress.
CONSTANTS
  m1 = m1
  s1 = s1
  d1 = d1
  n1 = n1
  w1 = w1
  None = None
  Mrs = {m1}
  Shas = {s1}
  Discussions = {d1}
  Notes = {n1}
  Workers = {w1}
  MaxRuns = 2
  MaxPushes = 1
  MaxReadyEvents = 0
  MaxCrashes = 1
  ForcePushBack = FALSE
  MaxFaults = 0
SPECIFICATION FairServiceSpec
PROPERTIES
  EveryRunEnds
CHECK_DEADLOCK FALSE
