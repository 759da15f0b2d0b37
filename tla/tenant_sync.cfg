CONSTANTS
    Tenant = {t1, t2}
    Shops = {t1, t2}
    MaxInputs = 2
    MaxFaults = 1
    MaxCrashes = 1
SPECIFICATION Spec
INVARIANTS TypeOK   AnsweredIsCorrected
 
SYMMETRY Symmetry
CHECK_DEADLOCK FALSE
