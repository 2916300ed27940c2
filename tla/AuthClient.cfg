CONSTANTS
    Requests = {q1, q2, q3}
SPECIFICATION Spec
INVARIANTS QueueIsServed
PROPERTIES EveryCallSettles
CHECK_DEADLOCK FALSE
