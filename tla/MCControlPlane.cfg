CONSTANTS
    j1 = j1  j2 = j2  j3 = j3
    r1 = r1  r2 = r2  r3 = r3
    a1 = a1  a2 = a2
    k1 = k1  k2 = k2  k3 = k3
    d1 = d1  d2 = d2
    noJob = noJob
    noRun = noRun
    Jobs <- MCJobs
    Typed <- MCTyped
    Runs <- MCTwoRuns
    Artifacts <- MCArtifacts
    Reports <- MCReports
    Keys <- MCKeys
    Digests <- MCOther
    MaxQueued = 2
    NoJob = noJob
    NoRun = noRun
    Sessions <- MCOne
    Assets <- MCOne
    Versions <- MCTyped
    SessionJobs <- MCOther
    MaxCalls = 2
    None = noJob
    TypedIds <- MCTyped
    SubmitKeys <- MCOne
    OperationKinds = {"materialize", "verification", "profile", "export", "drift"}
    MaxSubmissions = 2
    Profiles <- MCRuns
    ProfileBodies <- MCOne
    ProfileKinds <- MCKinds
    DriftJobs <- MCTyped
    MaxTombstones = 1
    TriggerKeys <- MCOne
    Templates <- MCTyped
    MaxTriggerCalls = 3
    MaxScheduleRevision = 3
    Editors <- MCTyped
    Contents <- MCDigests
    Formats = {1, 2}
    MaxRevisions = 4
    IdMembers <- MCOne
    IdAccounts <- MCOther
    IdRoles <- MCOne
    IdCapabilities <- MCOne
    IdCredentials <- MCTyped
    MaxIdCalls = 1
    MaxIdRestarts = 1
    AuEvents <- MCTyped
    AuKeys <- MCOne
    AuBodies <- MCDigests
    AuditPage = 1
    ListTimes = {1, 2}
    ListIds = {1, 2, 3}
    MaxListRows = 3
    PageLimit = 2
    MaxEvents = 5
    ReplayLimit = 2
    PumpPage = 2
    StreamBuffer = 1
    MaxSubscriptions = 2
    Tenants <- MCTyped
    Callers <- MCTyped
    Connections = {c1}
    ApiAssets = {s1}
    ApiSessions = {w1}
    Datasets = {t1}
    Plans = {p1, p2}
    ApiVersions = {v1, v2}
    ApiJobs = {q1}
    Grants <- MCGrants
    MaxAwaiting = 1
    Documents <- MCDocuments
    Tags = {"a", "b"}
    PageSizes = {1, 2, 3}
    MaxWalks = 1
SPECIFICATION MCSpec
INVARIANTS PairAgreement OutputsAllOrNothing JobHistory KeysIdentifyJobs OnePublished CloseMissesOnlyRacers TypedJobsSound DriftSound OneJobPerTrigger NoLostUpdate CacheFresh EndedStaysRevoked AuditTrail WalkComplete DeliveredInOrder TenantsIsolated WalksWhole
PROPERTIES TerminalStable ImplementsLifecycle
CHECK_DEADLOCK FALSE
