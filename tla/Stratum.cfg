CONSTANTS
  Methods = {"login", "getjob", "submit"}
  Ids = {1, 2, 3}
  MaxPending = 1
  MaxLines = 1
  MaxUnsent = 2
SPECIFICATION FairStratumSpec
INVARIANTS NeverStranded SessionHasConnection CleanStopIsFinal QueueMoves
PROPERTIES RpcSpec LoginRequested QueueDrains
