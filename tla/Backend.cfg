SPECIFICATION BackendFairSpec
CONSTANTS
    Parts = {"notifications", "guides", "requests"}
    Begun <- MCBegun
    s1 = s1
    m1 = m1
    m2 = m2
    u1 = u1
    u2 = u2
    u3 = u3
    d1 = d1
    t1 = t1
    t2 = t2
    Users = {u1, u2, u3}
    Faults = {"burst", "disconnect", "crash", "send_fail", "gone", "db_error"}
    None = None
    Servers = {s1}
    Maps = {m1}
    Devices = {d1}
    Owner <- MCOwner
    Tasks = {t1, t2}
    MaxRows = 2
    MaxChanges = 2
    GuideMaps = {m1, m2}
    Titles <- MCTitles
    Calls = {1, 2}
    MaxCalls = 3
    Menus <- MCMenus
    Nominations = {1, 2}
    Entries <- MCEntries
    IpOf <- MCIpOf
    PortOf <- MCPortOf
    Admins = {1, 2}
    MaxReviews = 3
INVARIANTS BackendTypeOK OncePerChange OneShot GuidesInStep NominationsInStep
PROPERTIES BackendSettles
\* Rows, map changes, requests and reviews run out.
CHECK_DEADLOCK FALSE
