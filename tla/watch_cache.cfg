\* Changes, refused and closed connections, bad frames, and a stop at any moment.
SPECIFICATION FairSpec
CONSTANTS
    Tenant = {t1, t2}
    MaxChanges = 3
    MaxFaults = 2
    MaxStops = 1
INVARIANTS
    TypeOK CacheCurrentWhenDrained
PROPERTIES
    CacheSettles StopReturns
CHECK_DEADLOCK FALSE
