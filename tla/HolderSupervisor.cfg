SPECIFICATION FairSpec
CONSTANTS
  Holders = {h1}
  Callers = {c1, c2, c3}
  Spawners = {c1}
  None = None
  Capacity = 1
  WaitLimit = 2
  MaxFaults = 2
INVARIANTS
  AnswersTrue
  HoldersWatched
PROPERTIES
  SupervisorProgress
CHECK_DEADLOCK FALSE
