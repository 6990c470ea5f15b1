CONSTANTS
    j1 = j1  j2 = j2
    r1 = r1  r2 = r2
    a1 = a1
    k1 = k1  k2 = k2
    d1 = d1
    w1 = w1  w2 = w2
    c1 = c1
    noJob = noJob
    noRun = noRun
    Jobs <- MCOneJob
    Typed <- MCTyped
    Runs <- MCOneRun
    Artifacts <- MCArtifacts
    Reports <- MCArtifacts
    Keys <- MCOneKey
    Digests <- MCDigests
    Workers <- MCWorkers
    Clients <- MCClients
    Rank <- MCOneRank
    MaxQueued = 2
    NoJob = noJob
    NoRun = noRun
    Permits = 1
    WakeCapacity = 1
    ReconcileLimit = 2
    MaxWakers = 1
    MaxCrashes = 1
    MaxStops = 1
    MaxMaintenance = 0
    MaxPreviews = 1
SPECIFICATION FairRtSpec
INVARIANTS NoAbandonedRow CancelPrompted
PROPERTIES CancelSettles ShutdownCompletes
CHECK_DEADLOCK FALSE
