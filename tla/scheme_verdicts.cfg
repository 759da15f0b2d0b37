SPECIFICATION Spec
CONSTANTS
    Tenant = {t1, t2}
    Self = t1
    Site = {default, other}
    Service = {s1, s2}
    Host <- MCHost
    LabelsOf <- MCLabelsOf
    MaxPlaces = 3
    MaxRows = 1
INVARIANTS TypeOK OrderIsIrrelevant BothSidesReported
PROPERTY InvalidSticks
CHECK_DEADLOCK FALSE
