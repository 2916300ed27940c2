\* Five candidates asked two at a time: three batches, the last one short.
SPECIFICATION FairSpec
CONSTANTS
    MaxDrivers = 5
    DISPATCH_BATCH_SIZE = 2
INVARIANTS
    AskedOnce
    AtMostOneLateBatch
    SearchingIsPursued
PROPERTIES
    DispatchEnds
CHECK_DEADLOCK FALSE
