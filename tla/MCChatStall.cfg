SPECIFICATION ServerSpec
CONSTANTS
    Requests = {r1}
    Keys = {k1}
    MaxStreams = 1
    UpstreamStatuses = {0}
    MaxChunks = 2
PROPERTY StreamDurationBounded
CHECK_DEADLOCK FALSE
