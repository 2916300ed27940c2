\* One ride, whose order may be created twice, two handlers: every capture is recorded in the end.
SPECIFICATION FairSpec
CONSTANTS
    Rides = {r1}
    Orders = {o1, o2}
    Attempts = {p1, p2}
    Requests = {q1}
    Handlers = {h1, h2}
    Sweep = sweep
    Nobody = nobody
    MAX_PAYMENT_ATTEMPTS = 2
    AttemptNumberBound = 3
PROPERTIES
    CapturedIsRecorded
CHECK_DEADLOCK FALSE
