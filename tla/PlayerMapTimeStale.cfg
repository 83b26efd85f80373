\* The budgets of sessions and requests run out, and the system rests.
SPECIFICATION Spec
CONSTANTS
    Workers = {w1, w2}
    Nobody = Nobody
    NumSessions = 3
    Maps <- MCMaps
    MapsOf <- MCMapsOf
    MaxRequests = 4
    Faults = {"stale"}
CHECK_DEADLOCK FALSE
SYMMETRY Symmetry
INVARIANTS NoDoubleCount
