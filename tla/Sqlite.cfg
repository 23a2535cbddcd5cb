SPECIFICATION BSpec
CONSTANTS
  Conns = {c1, c2}
  Pages = {1, 2}
  Src = c1
  StepPages = 1
  MaxTxn = 2
  MaxCrashes = 1
  MaxBackups = 1
INVARIANTS ReaderSeesCommitted BackupKeepsUp
PROPERTIES CommitsAreAtomic BackupIsSnapshot
CHECK_DEADLOCK FALSE
