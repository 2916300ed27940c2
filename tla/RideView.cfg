CONSTANTS
    Fetches = {f1, f2}
    MaxRequests = 1
    MaxEvents = 2
SPECIFICATION FairSpec
INVARIANTS TypeOK RiderIsInSync DriverIsInSync
CHECK_DEADLOCK FALSE
PROPERTIES EndIsShown
