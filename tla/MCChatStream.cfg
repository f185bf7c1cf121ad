SPECIFICATION FairSpec
CONSTANTS
    Requests = {r1, r2}
    Keys = {k1}
    MaxStreams = 1
    UpstreamStatuses = {401, 429}
    MaxChunks = 2
INVARIANTS
    TypeOK
    LeaseOwned
    UpstreamWithinQuota
    AuditMatchesClient
    NoSilentSuccess
PROPERTIES
    NothingAfterLast
    EveryRequestAudited
    EveryLeaseReturned
CHECK_DEADLOCK FALSE
