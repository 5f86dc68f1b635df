SPECIFICATION DMSpec
CONSTANTS
  Tasks = {main, driver, a, b}
  a = a
  b = b
  Sems = {s}
  s_access = s
  Main = main
  Driver = driver
  Dispatcher = dispatcher
  NULL = NULL
  MAX_PRIO <- MCFloor
  DEFAULT_QUANTUM_TICKS = 1
  Calls <- MCCalls
  Prios = {}
  Durations = {}
  SemValues = {1}
  ExitCodes = {0}
  ClockMod = 1
  MaxCounter = 2
  NumBlocks = 2
  NUMTASKS = 1
  Buffers <- MCBuffers
  mover <- MCMovers
  Program <- MCProgram
INVARIANTS DMTypeOK AccessExclusive DeviceServesHead SomebodyWakes DriverUncounted ReversesDisk
PROPERTIES ImplementsBlockStore
CONSTRAINT FewRaces
