SPECIFICATION FairSpec
CONSTANTS
    Requests = {r1, r2}
    Replays = {p1, p2}
INVARIANTS
    NoRecordLost
    AtMostOnce
    OneOwner
    StopAbandonsNothing
PROPERTIES
    EveryRecordSettles
    EveryReplayEnds
    ShutdownCompletes
