SPECIFICATION Spec
CONSTANTS
  r1 = r1
  r2 = r2
  r3 = r3
  older = older
  newer = newer
  Runs <- ThreeRuns
  Files <- TwoFiles
  FileOf <- OfFiles
  DateOf <- OnDates
  MaxJobs = 2
  MaxLives = 1
  None = None
INVARIANT StopResetsRuns
CHECK_DEADLOCK FALSE
