SPECIFICATION PartsSpec
CONSTANTS
    Files = {f1, f2}
    Creators = {k1, k2}
    MaxDisturbed = 1
    Upperdirs <- SomeUpperdirs
    ContentMax = 2
    EntryMax = 2
    DepthMax = 2
    Pids = {7, 8}
    MaxAttempts = 2
    MaxCopyFaults = 1
    Producers = {p1, p2}
    Queries = {q1}
    SegmentCap <- UnequalCaps
    RecordSizes = {2, 4}
    MaxLine = 3
    MarkerSize = 1
    MaxRecords = 3
    MaxLogFaults = 1
    MaxQueries = 1
    MaxKept = 3
    MaxBytes = 10
    Stamps = {1, 2}
    Lengths = {1, 3, 4}
    MaxFed = 5
    SpanThreads = {t1, t2}
    Commands = {x1}
    MaxSpans = 2
    MaxDepth = 2
    MaxEvents = 1
    MaxOutput = 4
    MaxWindow = 4
    ReadLimits = {1}
    MaxReads = 2
    MaxPid = 3
    MaxBlind = 0
    RootPids = {1, 2, 3}
    DaemonPid = 1
    MaxDirectPids = 2
    MaxArrivals = 2
    MaxRootFaults = 1
    Observers = {1, 2}
    CpuThreshold = 50
    SustainedWindow = 1
    Cooldown = 1
    MaxTime = 3
    MaxSamples = 3
    MaxTrackerFaults = 1
INVARIANTS
    SandboxPrepared
    ArtifactTrue
    TelemetryTrue
    CommandsTrue
CHECK_DEADLOCK FALSE
