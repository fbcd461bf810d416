CONSTANTS
  t1 = t1
  t2 = t2
  t3 = t3
  t4 = t4
  p1 = p1
  p2 = p2
  NoProcess = NoProcess
  Threads = {t1, t2, t3, t4}
  ProcOf <- TwoProcesses
  MaxDepth = 3
  e1 = e1
  e2 = e2
  w1 = w1
  None = None
  Execs = {e1, e2}
  Sessions = {w1}
  SessionOf <- OneSession
  Policies = {{w1}}
  Caps = {2}
  Retained = 1
  MaxFaults = 0
SPECIFICATION LockOrExecutionsSpec
INVARIANTS
  LockSafe
  NoMissedWakeup
PROPERTIES
  WritersGetIn
  JobsSettle
CHECK_DEADLOCK FALSE
