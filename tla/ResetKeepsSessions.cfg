CONSTANTS
    Browsers = {b1, b2}
    Sessions = {s1, s2}
    Handlers = {h1, h2}
    MaxSecond = 2
    NoSession = NoSession
SPECIFICATION Spec
PROPERTIES ResetEndsRefresh
CHECK_DEADLOCK FALSE
