SPECIFICATION Spec
CONSTANTS
  Tasks = {main, a, b}
  Sems = {}
  Main = main
  Dispatcher = dispatcher
  NULL = NULL
  MAX_PRIO <- MCFloor
  DEFAULT_QUANTUM_TICKS = 2
  Calls <- MCCalls
  Prios <- MCPrios
  Durations = {1}
  SemValues = {}
  ExitCodes = {1}
  ClockMod = 2
  MaxCounter = 0
SYMMETRY Perms
INVARIANTS TypeOK QueuesExclusive StateMatchesQueue NoJoinerLeft StuckOnlyByJoins CpuOwner TaskCount QuantumLeft WakeWalk
PROPERTIES JoinersReleased
