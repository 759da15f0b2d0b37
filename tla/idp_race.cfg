\* The timer and the watcher call PostURI at once.
SPECIFICATION Spec
CONSTANTS
    NoHash = NoHash
    URIs = {u1, u2}
    Caller = {timer, watcher}
    MaxPosts = 3
    MaxChanges = 2
    MaxFaults = 1
    MaxResets = 0
PROPERTY
    SkippedWasSent
