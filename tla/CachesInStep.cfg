SPECIFICATION CachesSpec
CONSTANTS
    Groups = {"worker", "news", "listener", "startup", "pictures"}
    now = now
    before = before
    r1 = r1
    r2 = r2
    t1 = t1
    t2 = t2
    Keys = {now, before}
    Heavy = {now}
    Fallback <- MCFallback
    Requests = {r1, r2}
    Tasks = {t1, t2}
    Permits = 1
    MaxFailures = 2
    Faults = {"memory_expires", "redis_expires", "redis_down", "db_error", "panic", "disconnect"}
    None = None
    CacheKeys <- MCCacheKeys
    Readers <- MCReaders
    Bodies <- MCBodies
    Ttl <- MCTtl
    MemoryTtl = 1
    MaxDelay = 1
    CacheFaults = {"redis_down", "evict"}
    Absent = Absent
    Announced = {a1}
    Guests = {g1}
    Admins = {d1}
    MaxAhead = 1
    Sent <- MCSent
    LongEnough <- MCLongEnough
    Deleted = Deleted
    Visitors = {v1}
    Warmers = {w1}
    Passes = {"pass"}
    Maps = {m1, m2}
    Endpoints = 2
    Delay = 2
    Day = 3
    MaxSessions = 2
    MaxAttempts = 1
    UpdateFaults = {"disconnect", "crash", "call_fail", "db_error", "listen_fail"}
    Players = {p1, p2}
    Seekers = {k1}
    Scrapers = 2
    MaxLimited = 2
    NoPicture = NoPicture
SYMMETRY Symmetry
INVARIANTS CachesTypeOK SingleFlight NewsInStep UpdatesInStep PicturesInStep
PROPERTIES CachedIsServed
