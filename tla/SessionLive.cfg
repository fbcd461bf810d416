CONSTANTS
  c1 = c1
  c2 = c2
  d = d
  Clients = {c1, c2}
  Dispatcher = d
  Nobody = Nobody
  Ops = {"create", "exec", "destroy", "publish", "remount", "reconcile", "shutdown"}
  MaxGates = 6
  MaxFlights = 4
  MaxGen = 1
  MaxPasses = 2
  MaxTries = 2
  Undisturbed = FALSE
  MaxPid = 2
  MaxBlind = 1
  MaxStartFaults = 2
SPECIFICATION LiveSpec
CHECK_DEADLOCK FALSE
PROPERTIES
  SessionProgress
  ProcessesAnswer
