SPECIFICATION Spec
CONSTANTS
    DriverEarning = 1
    MaxPayouts = 1
    Requests = {q1}
    Handlers = {h1, h2}
    MaxEvents = 3
INVARIANT ReversalIsBooked
CHECK_DEADLOCK FALSE
SYMMETRY Symmetry
