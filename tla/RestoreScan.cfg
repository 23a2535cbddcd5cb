SPECIFICATION FairRestoreSpec
CONSTANTS
  Found <- TwoBackups
  MaxScans = 2
INVARIANTS ConfirmWorks RestoredIsConfirmed
PROPERTIES OfferedIsNotDominated ScanEnds
CHECK_DEADLOCK FALSE
