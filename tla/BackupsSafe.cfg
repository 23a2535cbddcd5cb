SPECIFICATION Spec
CONSTANTS
  k1 = k1
  k2 = k2
  w1 = w1
  w2 = w2
  Channels <- TwoChannels
  Runs <- TwoRuns
  MaxIndex = 2
  MaxVersions = 2
  MaxRestarts = 1
  MaxGrants = 1
  Failures = TRUE
SYMMETRY Symmetry
INVARIANTS RestoreIsFresh NewerCommitmentsWin
CHECK_DEADLOCK FALSE
