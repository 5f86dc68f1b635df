SPECIFICATION FairSpec
CONSTANTS
  Tasks = {main, a, b}
  Sems = {s1, s2}
  Main = main
  Dispatcher = dispatcher
  NULL = NULL
  MAX_PRIO <- MCFloor
  DEFAULT_QUANTUM_TICKS = 2
  Calls <- MCCalls
  Prios = {}
  Durations = {}
  SemValues = {0, 1}
  ExitCodes = {0}
  ClockMod = 1
  MaxCounter = 1
INVARIANTS StateMatchesQueue SemaphoreCount
PROPERTIES ImplementsSemaphore ReadyRuns EventuallyHalts
