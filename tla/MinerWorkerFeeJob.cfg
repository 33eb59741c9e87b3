CONSTANTS
  N = 1
  MainJobs = {j1}
  FeeJobs = {f1}
  NoJob = NoJob
  Fee = TRUE
  Interval = 1
  MaxStarts = 1
  MaxShares = 1
SPECIFICATION FairSpec
PROPERTY FeeJobReachesWorker
