\* A PUT between the snapshot and the purge.
SPECIFICATION Spec
CONSTANTS
    t1 = t1
    t2 = t2
    a1 = a1
    a2 = a2
    A1 = A1
    master = master
    child = child
    p1 = p1
    p2 = p2
    NoRow = NoRow
    NoTenant = NoTenant
    Tenant = {t1}
    Address = {a1}
    Namespace = {master, child}
    Master = master
    Request = {p1}
    Lower <- MCLower
    Home <- OneNamespace
    Schemes <- Single
    BusCap = 1
    MaxRequests = 3
    MaxFaults = 0
    MaxCrashes = 0
PROPERTY
    PurgeOnlyRemoved
