CONSTANTS
  e1 = e1
  e2 = e2
  w1 = w1
  None = None
  Execs = {e1, e2}
  Sessions = {w1}
  SessionOf <- OneSession
  Policies = {{}, {w1}}
  Caps = {1, 2}
  Retained = 1
  MaxFaults = 1
  k1 = k1
  k2 = k2
  Tasks = {k1, k2}
  Cgroups = {TRUE, FALSE}
  HiddenPaths = 2
  MaxChain = 2
  MaxSwitchFaults = 2
SYMMETRY Symmetry
SPECIFICATION EngineOrRemountSpec
INVARIANTS
  RegistryExact
  OverMeansOver
  OwnAnswerKept
  RemountSafe
CHECK_DEADLOCK FALSE
