SPECIFICATION WorkspacesSpec
CONSTANTS
    c1 = c1
    c2 = c2
    d = d
    Clients = {c1, c2}
    Dispatcher = d
    Nobody = Nobody
    Ops = {"create", "implicit", "exec", "destroy", "publish", "file", "remount", "reconcile", "shutdown"}
    MaxGates = 6
    MaxFlights = 4
    MaxGen = 1
    MaxPasses = 2
    MaxTries = 2
    Undisturbed = FALSE
    w1 = w1
    w2 = w2
    NoWs = NoWs
    Ws = {w1, w2}
    Isolated = {w1, w2}
    PoolSize = 1
    Ring = 2
    MaxLease = 3
    MaxRemounts = 1
    MaxFaults = 2
    MaxCrashes = 1
    ReapFaults = FALSE
    LeakyRelease = FALSE
    Texts <- SomeTexts
    Batches <- SomeBatches
    Limits = {1, 2}
    OutputCap = 3
    MaxEdit = 3
    Committers = {"c1", "c2"}
    MaxFileLines = 2
    MaxFileCommits = 3
    MaxAuditFaults = 2
    FileClients = {"c1", "c2"}
    RunnerPids = {1, 2}
    MaxMoves = 1
    MaxKills = 1
SYMMETRY Symmetry
INVARIANTS
    SessionSafe
    MountSafe
    Owned
    OutcomesTrue
    FilesTrue
CHECK_DEADLOCK FALSE
