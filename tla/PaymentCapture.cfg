\* One ride, two createOrder requests, a webhook or /verify handler and the sweep.
SPECIFICATION FairSpec
CONSTANTS
    Rides = {r1}
    Orders = {o1, o2}
    Attempts = {p1, p2}
    Requests = {q1, q2}
    Handlers = {h1}
    Sweep = sweep
    Nobody = nobody
    MAX_PAYMENT_ATTEMPTS = 2
    AttemptNumberBound = 3
INVARIANTS
    OneOrderPerRide
    LedgerFollowsCapture
    RideFollowsCapture
PROPERTIES
    ImplementsFareContract
CHECK_DEADLOCK FALSE
