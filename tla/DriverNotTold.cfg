CONSTANTS
    Fetches = {f1}
    MaxRequests = 1
    MaxEvents = 2
SPECIFICATION FairSpec
PROPERTIES CancellationReachesDriver
CHECK_DEADLOCK FALSE
