\* One order, whose two attempts both fail, and a report of the first after the second's.
SPECIFICATION Spec
CONSTANTS
    Rides = {r1}
    Orders = {o1}
    Attempts = {p1, p2}
    Requests = {q1}
    Handlers = {h1}
    Sweep = sweep
    Nobody = nobody
    MAX_PAYMENT_ATTEMPTS = 2
    AttemptNumberBound = 4
INVARIANTS
    FailedAttemptsCountOnce
CHECK_DEADLOCK FALSE
