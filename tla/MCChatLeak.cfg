SPECIFICATION Spec
CONSTANTS
    Requests = {r1, r2}
    Keys = {k1}
    MaxStreams = 1
    UpstreamStatuses = {0}
    MaxChunks = 1
INVARIANT LeaseReleaseGuaranteed
CHECK_DEADLOCK FALSE
