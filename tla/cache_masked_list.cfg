SPECIFICATION Spec
CONSTANTS
    Namespace = {home, child}
    Home = home
    Object = {o1}
    Required = {o1}
    Kinds = {"routes"}
    Reader = {r1}
    BusCap = 1
    Polls = 1
    MaxClients = 2
    MaxChanges = 1
    MaxFaults = 1
PROPERTY FailedListChangesNothing
