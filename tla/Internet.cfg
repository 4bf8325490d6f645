SPECIFICATION Spec
CONSTANTS
  Networks <- MCNetworks
  MaxSent <- MCMaxSent
  MaxLost = 1
  TickTimes <- MCTickTimes
INVARIANTS OnlyExpected CacheIsTrue
PROPERTIES RequestsSpaced NothingVanishes WaitingEnds GetsThrough
CHECK_DEADLOCK FALSE
