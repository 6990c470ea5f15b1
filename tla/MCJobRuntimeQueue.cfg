CONSTANTS
    j1 = j1  j2 = j2
    r1 = r1  r2 = r2
    a1 = a1
    k1 = k1  k2 = k2
    d1 = d1
    w1 = w1  w2 = w2
    c1 = c1
    noJob = noJob
    noRun = noRun
    Jobs <- MCJobs
    Typed <- MCNone
    Runs <- MCRuns
    Artifacts <- MCNone
    Reports <- MCNone
    Keys <- MCKeys
    Digests <- MCDigests
    Workers <- MCWorkers
    Clients <- MCNone
    Rank <- MCRank
    MaxQueued = 2
    NoJob = noJob
    NoRun = noRun
    Permits = 1
    WakeCapacity = 1
    ReconcileLimit = 2
    MaxWakers = 1
    MaxCrashes = 0
    MaxStops = 0
    MaxMaintenance = 1
    MaxPreviews = 0
SPECIFICATION FairRtSpec
INVARIANTS WorkerOwnsRun
PROPERTIES QueueServed
CHECK_DEADLOCK FALSE
