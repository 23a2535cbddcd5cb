SPECIFICATION Spec
CONSTANTS
  Null = Null
  h1 = h1
  h2 = h2
  p1 = p1
  p2 = p2
  p3 = p3
  c1 = c1
  c2 = c2
  c3 = c3
  Hashes <- OneHash
  Ids <- TwoIds
  Calls <- TwoCalls
  Overlap = TRUE
  MaxRestarts = 0
INVARIANT NoDuplicateAttempt
CHECK_DEADLOCK FALSE
