CONSTANTS
    Schedules = {s1}
    Tickers = {t1, t2}
    MaxAttempts = 2
    Lease = 1
    MaxDue = 1
    MaxTime = 2
    MaxCrashes = 1
    MaxRefusals = 1
    MaxEdits = 2
    MaxSetbacks = 1
SPECIFICATION FairAutSpec
INVARIANTS OneJobPerOccurrence   LeaseExclusive
 
CHECK_DEADLOCK FALSE
