SPECIFICATION Spec
CONSTANTS
    Amount = 2
    DriverEarning = 1
    Legacy = 0
    Handlers = {h1, h2}
    Sweep = sweep
    Nobody = nobody
    MaxTries = 2
    MaxRecords = 2
    MaxDashboard = 1
    MaxExpiries = 1
INVARIANTS
    BooksAgree
    LegsWithinFare
    SentRefundIsBooked
    DashboardRefundIsBooked
CHECK_DEADLOCK FALSE
SYMMETRY Symmetry
