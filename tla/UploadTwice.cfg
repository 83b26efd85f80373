SPECIFICATION Spec
CONSTANTS
    big = big
    small = small
    h1 = h1
    h2 = h2
    Uploads = {big}
    Singles <- MCSingles
    Handlers = {h1, h2}
    NumChunks = 2
    ChunksOf <- MCChunksOf
    Local = FALSE
    MaxAttempts = 2
    MaxDeletes = 0
    Faults = {"complete_timeout"}
    None = None
INVARIANTS ServedWhole
\* Every upload is over in the end.
CHECK_DEADLOCK FALSE
