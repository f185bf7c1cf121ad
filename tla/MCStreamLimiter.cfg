SPECIFICATION Spec
CONSTANTS
    Keys = {k1, k2}
    Leases = {l1, l2, l3, l4}
    MaxStreams = 2
INVARIANTS
    Accounting
    NoIdleKey
    Quota
PROPERTY ImplementsQuota
