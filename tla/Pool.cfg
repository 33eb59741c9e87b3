CONSTANTS
  Methods = {"login", "eth_getWork", "eth_submitWork"}
  Ids = {1, 2, 3}
  MaxPending = 2
  MaxLines = 2
  MaxUnsent = 2
SPECIFICATION PoolSpec
INVARIANTS PoolNeverStranded WriteAccounted TimersExclude WrittenOnce
PROPERTY RequestsKept
