CONSTANTS
  N = 1
  MainJobs = {j1}
  FeeJobs = {f1}
  NoJob = NoJob
  Fee = FALSE
  Interval = 1
  MaxStarts = 2
  MaxShares = 1
SPECIFICATION FairSpec
PROPERTIES StopObeyed StartObeyed SyncStopReturns ShareDelivered
