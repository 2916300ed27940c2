SPECIFICATION FairSpec
CONSTANTS
    Amount = 2
    DriverEarning = 1
    Legacy = 0
    Handlers = {h1}
    Sweep = sweep
    Nobody = nobody
    MaxTries = 2
    MaxRecords = 2
    MaxDashboard = 1
    MaxExpiries = 0
PROPERTIES
    PendingIsResolved
CHECK_DEADLOCK FALSE
