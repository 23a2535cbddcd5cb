SPECIFICATION Spec
CONSTANTS
  Kinds = {"balance"}
  Chans = {c1, c2}
  MaxSteps = 3
  MaxDeaths = 1
  MaxInbox = 1
INVARIANTS MapFollowsNode TableFollowsNode ClosingIsToldOnce
PROPERTIES SentOnceIsKept BalanceSettles
CHECK_DEADLOCK FALSE
