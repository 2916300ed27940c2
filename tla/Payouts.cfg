SPECIFICATION Spec
SYMMETRY Symmetry
CONSTRAINT TwoDeliveriesOrTwoPayouts
CONSTANTS
    DriverEarning = 1
    MaxPayouts = 2
    Requests = {q1}
    Handlers = {h1, h2}
    MaxEvents = 3
INVARIANTS
    LedgerFollowsPayouts
    PostedMoneyWasSent
    OverdraftIsFlagged
    AnsweredIsHandled
PROPERTIES
    ImplementsDriverShare
CHECK_DEADLOCK FALSE
