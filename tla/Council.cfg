\* Two reviewers that answer, fail or answer nonsense in every order; one of
\* them or the other merges the reviews.
CONSTANTS
  f1 = f1
  f2 = f2
  f3 = f3
  None = None
  Invalid = Invalid
  Findings = {f1, f2, f3}
  Similar <- Chain
  Reviews <- SmallReviews
  Syntheses <- SmallSyntheses
SPECIFICATION FairSpec
INVARIANTS
  NoFindingIsDropped
  DegradedResultSaysSo
  NoCallOutlivesTheReview
PROPERTIES
  ReviewEnds
CHECK_DEADLOCK FALSE
