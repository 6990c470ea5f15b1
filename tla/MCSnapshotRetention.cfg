CONSTANTS
    Snapshots = {s1}
    Readers = {r1, r2}
    MaxParts = 2
    MaxPublishers = 2
    MaxReaders = 1
    RetentionWindow = 0
    MaxCrashes = 1
    MaxPowerLosses = 0
    MaxFaults = 0
    NoSnapshot = noSnapshot
SPECIFICATION StoreSpec
INVARIANTS VisibleComplete
CHECK_DEADLOCK FALSE
