SPECIFICATION FairSpec
CONSTANTS
  Pins = {1, 2}
  MaxWrites = 2
  Threads = {t1, t2}
  MaxLeaves = 1
  MaxFails = 1
  MaxDeaths = 1
INVARIANTS SeedOpens OneNode ReadyIsRunning RestoreComesFirst NobodyWaitsInVain
PROPERTY WalletStarts
CHECK_DEADLOCK FALSE
