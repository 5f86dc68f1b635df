SPECIFICATION RoundsSpec
CONSTANTS
  Tasks <- MCTasks
  MAX_PRIO <- MCFloor
  Prios <- MCPrios
INVARIANTS TypeOK ReturnsFirstBest BeyondReachStarves
PROPERTIES EveryoneRuns
