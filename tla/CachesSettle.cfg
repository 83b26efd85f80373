SPECIFICATION CachesFairSpec
CONSTANTS
    Groups = {"worker", "listener", "pictures"}
    now = now
    before = before
    r1 = r1
    r2 = r2
    t1 = t1
    t2 = t2
    Keys = {now, before}
    Heavy = {now, before}
    Fallback <- MCNoFallback
    Requests = {r1, r2}
    Tasks = {t1, t2}
    Permits = 1
    MaxFailures = 1
    Faults = {"redis_down", "db_error", "panic"}
    None = None
    CacheKeys <- MCCacheKeys
    Readers <- MCReaders
    Bodies <- MCBodies
    Ttl <- MCTtl
    MemoryTtl = 1
    MaxDelay = 1
    CacheFaults = {}
    Absent = Absent
    Announced = {a1}
    Guests = {g1}
    Admins = {d1}
    MaxAhead = 1
    Sent <- MCSent
    LongEnough <- MCLongEnough
    Deleted = Deleted
    Visitors = {}
    Warmers = {w1}
    Passes = {"pass"}
    Maps = {m1, m2}
    Endpoints = 2
    Delay = 2
    Day = 3
    MaxSessions = 1
    MaxAttempts = 1
    UpdateFaults = {"disconnect", "crash", "call_fail", "db_error", "listen_fail"}
    Players = {p1, p2}
    Seekers = {k1}
    Scrapers = 2
    MaxLimited = 1
    NoPicture = NoPicture
INVARIANTS HeavyBound
PROPERTIES CachesSettle
