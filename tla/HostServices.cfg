SPECIFICATION HostSpec
CONSTANTS
    Sandboxes = {s1, s2}
    Requests = {r1, r2}
    NoSandbox = NoSandbox
    NoRequest = NoRequest
    MaxBatch = 2
    MaxFaults = 2
    MaxRevision = 2
    e1 = e1
    e2 = e2
    Exports = {e1, e2}
    Format <- Formats
    MaxSpool = 4
    MaxStream = 3
    ChunkBytes = 1
    MaxExportFaults = 2
    MaxCommits = 1
    Capacity = 3
    MaxResponse = 2
    Windows = {1, 5}
    MaxTime = 4
    MaxSamples = 4
    MaxRingFaults = 1
    Conns = {1, 2}
    RequestLines <- SomeRequestLines
    MaxPermits = 1
    MaxRequestBytes = 2
    MaxLogs = 1
    MaxStarts = 2
    MaxGatewayFaults = 2
SYMMETRY Symmetry
INVARIANTS
    RegistryTrue
    NothingRemains
    ExportSafe
    RingTrue
    GatewaySafe
CHECK_DEADLOCK FALSE
