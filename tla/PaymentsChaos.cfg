SPECIFICATION Spec
CONSTANTS
  Null = Null
  h1 = h1
  h2 = h2
  p1 = p1
  p2 = p2
  p3 = p3
  c1 = c1
  c2 = c2
  c3 = c3
  Hashes <- OneHash
  Ids <- ThreeIds
  Calls <- ThreeCalls
  Overlap = TRUE
  MaxRestarts = 1
SYMMETRY Symmetry
INVARIANT TypeOK
INVARIANT OutcomeIsReal
PROPERTY PaidNeverDowngradedByNode
CHECK_DEADLOCK FALSE
