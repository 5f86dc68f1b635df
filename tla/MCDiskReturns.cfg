SPECIFICATION DMFairSpec
CONSTANTS
  Tasks = {main, driver, a}
  a = a
  Sems = {s}
  s_access = s
  Main = main
  Driver = driver
  Dispatcher = dispatcher
  NULL = NULL
  MAX_PRIO <- MCFloor
  DEFAULT_QUANTUM_TICKS = 1
  Calls <- MCCalls
  Prios = {}
  Durations = {}
  SemValues = {1}
  ExitCodes = {0}
  ClockMod = 1
  MaxCounter = 2
  NumBlocks = 2
  Buffers = {1}
  mover <- MCReader
  Program <- MCProgram
PROPERTY EveryRequestReturns
CONSTRAINT OnlyRequester
