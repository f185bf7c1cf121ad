SPECIFICATION Spec
CONSTANTS
    Requests = {r1, r2}
    Replays = {p1}
INVARIANT ReplayLosesNothing
