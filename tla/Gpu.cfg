CONSTANTS
  N = 2
  MaxCalls = 3
SPECIFICATION Spec
CHECK_DEADLOCK FALSE
INVARIANTS OneCoinPerDevice MinesOnlyIfAsked DarkIsNoticed
PROPERTIES StopStays StopIsObeyed DarkEnds
