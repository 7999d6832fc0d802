SPECIFICATION FairSpec
CONSTANTS
  r1 = r1
  r2 = r2
  r3 = r3
  older = older
  newer = newer
  Runs <- ThreeRuns
  Files <- TwoFiles
  FileOf <- OfFiles
  DateOf <- OnDates
  MaxJobs = 2
  MaxLives = 2
  None = None
INVARIANTS TypeOK OneExecutor NoRunIsForgotten
PROPERTIES ResultsAreFinal PendingRunsEnd
CHECK_DEADLOCK FALSE
