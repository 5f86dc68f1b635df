SPECIFICATION MQFairSpec
CONSTANTS
  Tasks = {main, a, b}
  Sems = {sb, sp, sc}
  s_buffer = sb
  s_produce = sp
  s_consume = sc
  MaxMsgs = 1
  Msgs = {m1}
  NoMsg = NoMsg
  Operations <- MCMainDestroys
  Main = main
  Dispatcher = dispatcher
  NULL = NULL
  MAX_PRIO <- MCFloorLow
  DEFAULT_QUANTUM_TICKS = 1
  Calls <- MCDestroyCalls
  Prios = {}
  Durations = {}
  SemValues = {0, 1}
  ExitCodes = {0}
  ClockMod = 1
  MaxCounter = 2
PROPERTIES DestroyReleases
