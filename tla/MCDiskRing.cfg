SPECIFICATION DiskRingSpec
CONSTANTS
  Tasks = {main, a, b, driver}
  main = main
  Dispatcher = dispatcher
  NULL = NULL
  Driver = driver
  Clients = {a, b}
  ready <- MCMain
INVARIANT OneStep
SYMMETRY Perms
CONSTRAINT NotTorn
CHECK_DEADLOCK FALSE
