CONSTANTS
    Pages = {p1, p2}
    MaxOps = 2
SPECIFICATION Spec
SYMMETRY Symmetry
INVARIANTS TypeOK GoneIsNotMatched AvailableIsMatched
CHECK_DEADLOCK FALSE
