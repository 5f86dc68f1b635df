SPECIFICATION Spec
CONSTANTS
  Tasks = {main, a, b}
  Sems = {s1}
  Main = main
  Dispatcher = dispatcher
  NULL = NULL
  MAX_PRIO <- MCFloor
  DEFAULT_QUANTUM_TICKS = 1
  Calls <- MCLockCalls
  Prios = {}
  Durations = {}
  SemValues = {0, 1}
  ExitCodes = {0}
  ClockMod = 1
  MaxCounter = 2
SYMMETRY Perms
INVARIANTS UserCodeIsPreemptible
