SPECIFICATION AccSpec
CONSTANTS
  Tasks = {main, a}
  Sems = {}
  Main = main
  Dispatcher = dispatcher
  NULL = NULL
  MAX_PRIO <- MCFloor
  DEFAULT_QUANTUM_TICKS = 2
  Calls <- MCCalls
  Prios = {}
  Durations = {}
  SemValues = {}
  ExitCodes = {0}
  ClockMod = 2
  CountMod = 2
  MaxCounter = 0
INVARIANTS AccTypeOK
PROPERTIES ImplementsMeter
