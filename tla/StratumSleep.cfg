CONSTANTS
  Methods = {"login", "getjob", "submit"}
  Ids = {1, 2, 3}
  MaxPending = 1
  MaxLines = 1
  MaxUnsent = 2
SPECIFICATION StratumSpec
PROPERTY SleepsAfterError
