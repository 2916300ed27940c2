SPECIFICATION Spec
SYMMETRY Symmetry
CONSTRAINT OneKindAtATime
CONSTANTS
    Handlers = {h1, h2}
    Applications = {a1, a2}
    Images = {i1, i2}
    MaxLinks = 2
    MaxCodes = 2
INVARIANT FailedUploadsAreRolledBack
