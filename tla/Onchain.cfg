SPECIFICATION Spec
CONSTANTS
  Kinds = {"balance"}
  Txs <- MCTxs
  Delta <- MCDelta
  Spends <- MCSpends
  MaxDepth = 2
  MaxStarts = 2
  MaxLosses = 1
  MaxMail = 3
INVARIANTS RowsFollowWallet GoneIsForgotten
PROPERTY OnchainBalanceSettles
