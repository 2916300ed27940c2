SPECIFICATION Spec
CONSTANTS
    Amount = 2
    DriverEarning = 1
    Legacy = 0
    Handlers = {h1, h2}
    Sweep = sweep
    Nobody = nobody
    MaxTries = 2
    MaxRecords = 3
    MaxDashboard = 0
    MaxExpiries = 1
INVARIANT LegsNeverExceedFare
CHECK_DEADLOCK FALSE
SYMMETRY Symmetry
