SPECIFICATION Spec
CONSTANTS
    Capacity = 2
    Window = 3
    MaxTime = 4
    TTL = 4
    MaxLag = 1
    MaxRewinds = 2
INVARIANT EnforcedAcrossWorkers
