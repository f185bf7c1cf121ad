SPECIFICATION Spec
CONSTANTS
    Capacity = 2
    Window = 3
    MaxTime = 7
    TTL = 4
    MaxLag = 1
    MaxRewinds = 2
INVARIANTS
    TypeOK
    Ceiling
    NoEarlyRefusal
PROPERTY ExpiresOnlyWhenFull
