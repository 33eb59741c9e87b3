CONSTANT MaxQueries = 5
SPECIFICATION Spec
CHECK_DEADLOCK FALSE
INVARIANTS InitTellsTruth KeepsAsking
PROPERTIES InitEnds Refreshed
