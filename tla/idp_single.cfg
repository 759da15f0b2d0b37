\* One caller at a time: three changes, two failing posts, one reset.
SPECIFICATION FairSpec
CONSTANTS
    NoHash = NoHash
    URIs = {u1, u2}
    Caller = {timer}
    MaxPosts = 5
    MaxChanges = 3
    MaxFaults = 2
    MaxResets = 1
INVARIANTS
    TypeOK OneLiveSender
PROPERTIES
    SkippedIsNewest NewestArrives ProviderCurrent
