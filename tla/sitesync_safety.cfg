\* Two tenants in a child namespace that share a host, two request slots.
SPECIFICATION Spec
CONSTANTS
    t1 = t1
    t2 = t2
    a1 = a1
    a2 = a2
    A1 = A1
    master = master
    child = child
    p1 = p1
    p2 = p2
    NoRow = NoRow
    NoTenant = NoTenant
    Tenant = {t1, t2}
    Address = {a1, a2}
    Namespace = {master, child}
    Master = master
    Request = {p1, p2}
    Lower <- MCLower
    Home <- ChildNamespace
    Schemes <- SharedHost
    BusCap = 1
    MaxRequests = 3
    MaxFaults = 1
    MaxCrashes = 1
SYMMETRY Slots
INVARIANTS
    TypeOK
    
    
    HostOncePerNamespace

    
    
