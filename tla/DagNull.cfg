CONSTANTS
  N = 1
  j1 = j1
  k1 = k1
  E1 = E1
  E2 = E2
  Jobs = {j1, k1}
  Epochs = {E1, E2}
  EpochOf <- MCEpochOf
  NoJob = NoJob
  NoDag = NoDag
  Preps = {p1, p2}
  MaxEvents = 1
  MaxStarts = 1
SPECIFICATION DagSpec
INVARIANT SearchHasDag
CHECK_DEADLOCK FALSE
