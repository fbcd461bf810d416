SPECIFICATION ServicesSpec
CONSTANTS
    Committers = {c1, c2}
    Callers = {p1, p2}
    SessionIds = {s1}
    Threshold = 2
    MaxLayers = 2
    MaxSpawns = 2
    MaxServiceFaults = 1
    r1 = r1
    r2 = r2
    r3 = r3
    Requests = {r1, r2, r3}
    KindOf <- Kinds
    MaxConnections = 2
    MaxBlocking = 1
    MaxServerFaults = 2
    Conns = {1, 2}
    RequestLines <- SomeRequestLines
    MaxPermits = 1
    MaxRequestBytes = 2
    MaxLogs = 1
    MaxStarts = 1
    MaxGatewayFaults = 1
INVARIANTS
    ServicesStop
    DaemonDrains
PROPERTIES
    ServicesProgress
    DaemonStops
    GatewayProgress
CHECK_DEADLOCK FALSE
