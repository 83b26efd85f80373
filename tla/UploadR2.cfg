SPECIFICATION Spec
CONSTANTS
    big = big
    small = small
    h1 = h1
    h2 = h2
    Uploads = {big, small}
    Singles <- MCSingles
    Handlers = {h1, h2}
    NumChunks = 2
    ChunksOf <- MCChunksOf
    Local = FALSE
    MaxAttempts = 2
    MaxDeletes = 1
    Faults = {"crash", "io_error", "chunk_timeout", "abort", "two_admins"}
    None = None
SYMMETRY MCAlike
INVARIANTS TypeOK RecordedIsStored
PROPERTIES ImplementsShelf
\* Every upload is over in the end.
CHECK_DEADLOCK FALSE
