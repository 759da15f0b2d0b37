SPECIFICATION Spec
CONSTANTS
    Namespace = {home, child}
    Home = home
    Object = {o1}
    Required = {o1}
    Kinds = {"routes", "configmaps"}
    Reader = {r1}
    BusCap = 1
    Polls = 1
    MaxClients = 2
    MaxChanges = 3
    MaxFaults = 1
INVARIANTS TypeOK EventsFindNamespace DrainedIsCurrent
PROPERTIES MirrorsTheCluster AskedIsCached CacheSettles
