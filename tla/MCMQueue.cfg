SPECIFICATION MQSpec
CONSTANTS
  Tasks = {main, a, b}
  Sems = {sb, sp, sc}
  s_buffer = sb
  s_produce = sp
  s_consume = sc
  MaxMsgs = 2
  Msgs = {m1, m2}
  NoMsg = NoMsg
  Operations <- MCTransfers
  Main = main
  Dispatcher = dispatcher
  NULL = NULL
  MAX_PRIO <- MCFloor
  DEFAULT_QUANTUM_TICKS = 1
  Calls <- MCCalls
  Prios = {}
  Durations = {}
  SemValues = {0, 1, 2}
  ExitCodes = {0}
  ClockMod = 1
  MaxCounter = 3
SYMMETRY Perms
INVARIANTS MQTypeOK UnitsConserved NoStandstill
PROPERTIES ImplementsChannel
