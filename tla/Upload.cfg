SPECIFICATION FairSpec
CONSTANTS
    big = big
    small = small
    h1 = h1
    h2 = h2
    Uploads = {big, small}
    Singles <- MCSingles
    Handlers = {h1, h2}
    NumChunks = 2
    ChunksOf <- MCChunksOf
    Local = TRUE
    MaxAttempts = 2
    MaxDeletes = 0
    Faults = {"crash", "chunk_timeout", "complete_timeout", "abort", "slow"}
    None = None
INVARIANTS AckedIsRecorded RowMatchesFile
PROPERTIES Acknowledged UploadEnds
\* Every upload is over in the end.
CHECK_DEADLOCK FALSE
