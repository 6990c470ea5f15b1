CONSTANTS
    s1 = s1  s2 = s2  r1 = r1
    noSnapshot = noSnapshot
    Snapshots <- MCPair
    Readers <- MCReaders
    MaxParts = 2
    MaxPublishers = 2
    MaxReaders = 1
    RetentionWindow = 1
    MaxCrashes = 1
    MaxPowerLosses = 1
    MaxFaults = 1
    NoSnapshot = noSnapshot
    Bundles <- MCPair
    SharedSnapshot = noSnapshot
    SnapshotPacks = 1
    ReportPacks = 1
    MaxPacks = 1
    MaxWriters = 2
    MaxBundleCrashes = 1
    MaxRot = 1
    Exports <- MCPair
    SharedDestination = FALSE
    ExpParts = 2
    StagingLimit = 1
    MaxExportCrashes = 1
    MaxExportTries = 3
    DedupRuns <- MCPair
    DedupKeys = {"x", "y"}
    MaxDedupRows = 2
    MaxDedupOrdinal = 3
    MaxDedupCrashes = 1
    Openers = {1, 2}
    OldestVersion = {0, 4, 12, 14}
    MaxOpenings = 3
    BackedSnapshots = {"s1", "s2"}
    MaxBackupFaults = 2
    VerPlans <- MCPlans
    VerRows <- MCVerRows
    MaxVerRows = 3
    AcceptedBatch = 2
    ReportPackRows = 2
    ReportSlotRows = 3
    MaxKeyBytes = 8
    MaxKeyColumns = 2
    Null = Null
    ProfRows <- MCProfRows
    TextLength <- MCTextLength
    MaxProfRows = 4
    ProfRowLimit = 3
    ProfByteLimit = 4
    DistinctLimit = 2
    RowKeyLimit = 2
    RetainedLength = 2
    TopK = 1
    Buckets = 2
    MetricRows = 2
    Baselines <- MCBaselines
    GraphNodes <- MCGraphNodes
    KindsOf <- MCKindsOf
    MaxGraphNodes = 4
    MaxCompileWork = 15
    MaxDocuments = 1
    Columns = {"a", "b", "c"}
    Names = {"A", "B", "C"}
    Expressions <- MCExpressions
    SourceSchemas <- MCSchemas
    SourceRows <- MCSourceRows
    Repertoire <- MCRepertoire
    MaxSteps = 2
    PreviewRows = 1
    ScanCap = 2
    ChunkInputs <- MCChunkInputs
    ChunkPrograms <- MCChunkPrograms
    MaxBatchBytes = 110
    PackLimit = 4
    BitsPerByte = 2
    Slot = 1
    ViewSlot = 1
    OffsetSlot = 1
    IntWidth = 2
    Top = "top"
    FsDirs = {"top", "a", "b", "c", "out", "deep"}
    FsFiles = {"f", "g", "h", "secret"}
    FsLinks = {"link"}
    Target <- MCTarget
    NoEntry = "none"
    Outside = {"out", "deep", "secret"}
    Trees <- MCTrees
    EntryNames = {1, 2, 3, 4}
    Supported = {3, 4}
    RootLists <- MCRootLists
    MaxDepth = 1
    MaxAssets = 2
    MaxMoves = 1
    MaxRequests = 2
    RowFields <- MCRowFields
    Projections <- MCProjections
    RowValues <- MCRowValues
    RowNames = {1, 2, 3, 9}
    MaxMembers = 2
    TabWidth = 2
    TabRows <- MCTabRows
    MaxTabRows = 4
    TabHeaders = {1}
    TabFormats = {"delimited", "lines", "parquet"}
    OtherFiles <- MCOtherFiles
    SampleRows = 3
    SampleBytes = 13
    InternalRows = 2
    BatchRows = 3
    RowCaps = {0, 2}
    RowLimit = 3
    ByteLimit = 13
    BatchBytes = 3
    MaxReplaced = 1
    TextRecords <- MCTextRecords
    MaxRecords = 2
    TextKinds = {"delimited", "lines", "array"}
    IdentityKinds = {"version", "mtime"}
    ObjectLimit = 12
    PreviewBytes = 6
    PartBytes = 2
    Bodies <- MCBodies
    MaxOverwrites = 2
    Precision = 3
    ExponentBits = 3
    LimbBits = 2
    FloatBits = {1, 5, 11, 20, 23, 32, 33, 44}
    MaxFloats = 4
    ExportInputs <- MCInputs
    ExportFormats = {"csv", "jsonl", "parquet"}
    ExportShapes = {"single", "partitioned"}
    MaxEncodedParts = 2
    MaxEncodedRows = 3
SPECIFICATION MCSpec
SYMMETRY MCSymmetry
INVARIANTS VisibleComplete        
PROPERTIES ImplementsCatalog
CHECK_DEADLOCK FALSE
