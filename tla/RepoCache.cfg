\* Two workers on one repository, with two commits and two versions of the
\* target, which at most one webhook leaves unnamed, and one command that fails
\* or one restart.
CONSTANTS
  w1 = w1
  w2 = w2
  Workers = {w1, w2}
  MaxPushes = 2
  MaxTarget = 2
  MaxDirectories = 2
  MaxFaults = 1
SPECIFICATION Spec
SYMMETRY Symmetry
CONSTRAINT OneUnnamedTarget
INVARIANTS
  DirectoriesAreAccountedFor
  MissingCommitWasForcedAway
  TargetIsCurrent
  RebaseAddsNoNoise
  NoCheckoutFromBrokenMirror
CHECK_DEADLOCK FALSE
