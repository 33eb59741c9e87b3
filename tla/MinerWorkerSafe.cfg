CONSTANTS
  N = 1
  MainJobs = {j1, j2}
  FeeJobs = {f1}
  NoJob = NoJob
  Fee = TRUE
  Interval = 1
  MaxStarts = 2
  MaxShares = 1
SPECIFICATION Spec
INVARIANTS CommandsInForce ShareNamesItsPool StaleOnlyIfOverwritten
PROPERTY JobNeverRevives
