SPECIFICATION Spec
CONSTANTS
    s1 = s1
    m1 = m1
    m2 = m2
    user = user
    d1 = d1
    t1 = t1
    t2 = t2
    Servers = {s1}
    Maps = {m1, m2}
    Users = {user}
    Devices = {d1}
    Owner <- MCOwner
    Tasks = {t1}
    MaxRows = 2
    MaxChanges = 2
    Faults = {}
    None = None
INVARIANTS TriggeredWasTried
\* Rows and map changes run out.
CHECK_DEADLOCK FALSE
