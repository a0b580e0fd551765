\* Two merge requests, so that the claim order crosses them, three rows, and
\* triggers with a note id only, or with neither, which the store compares by note.
CONSTANTS
  m1 = m1
  m2 = m2
  s1 = s1
  s2 = s2
  n1 = n1
  None = None
  Mrs = {m1, m2}
  Shas = {s1, s2}
  Discussions = {}
  Notes = {n1}
  MaxRuns = 3
SPECIFICATION Spec
SYMMETRY Symmetry
INVARIANTS
  TypeOK
  PendingFullIsAlone
  OneFullReviewPerCommit
  SupersededByLaterRun
PROPERTIES
  TerminalRunIsFinal
  FullReviewsFinishInOrder
  ImplementsReviewQueue
CHECK_DEADLOCK FALSE
