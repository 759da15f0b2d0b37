\* Two tenants in different namespaces, one host in two spellings: everything settles.
SPECIFICATION FairSpec
CONSTANTS
    t1 = t1
    t2 = t2
    a1 = a1
    a2 = a2
    A1 = A1
    master = master
    child = child
    p1 = p1
    p2 = p2
    NoRow = NoRow
    NoTenant = NoTenant
    Tenant = {t1, t2}
    Address = {a1, a2, A1}
    Namespace = {master, child}
    Master = master
    Request = {p1}
    Lower <- MCLower
    Home <- TwoNamespaces
    Schemes <- MixedCase
    BusCap = 1
    MaxRequests = 3
    MaxFaults = 1
    MaxCrashes = 1
PROPERTY
    Converges
