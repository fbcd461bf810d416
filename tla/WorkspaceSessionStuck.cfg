CONSTANTS
  Clients = {c1, c2}
  Dispatcher = d
  Nobody = Nobody
  Ops = {"implicit", "file"}
  MaxGates = 6
  MaxFlights = 4
  MaxGen = 1
  MaxPasses = 2
  MaxTries = 2
  Undisturbed = FALSE
SPECIFICATION FairSpec
CHECK_DEADLOCK FALSE
PROPERTY CallsReturn
