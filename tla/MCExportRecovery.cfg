CONSTANTS
    Exports = {e1, e2}
    SharedDestination = TRUE
    ExpParts = 2
    StagingLimit = 1
    MaxExportCrashes = 1
    MaxExportTries = 3
SPECIFICATION ExportSpec
PROPERTIES RecoveryKeepsCommitted
CHECK_DEADLOCK FALSE
