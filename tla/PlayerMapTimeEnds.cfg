\* The budgets of sessions and requests run out, and the system rests.
SPECIFICATION FairSpec
CONSTANTS
    Workers = {w1, w2}
    Nobody = Nobody
    NumSessions = 3
    Maps <- MCMaps
    MapsOf <- MCMapsOf
    MaxRequests = 4
    Faults = {"crash", "db_error", "slow"}
CHECK_DEADLOCK FALSE
INVARIANTS PlaytimeComplete
PROPERTIES TasksFinish LockKeptFromOthers
