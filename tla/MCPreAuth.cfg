SPECIFICATION PreAuthSpec
CONSTANTS
    a = a
    b = b
    p = p
    junk = junk
    Capacity = 2
    Window = 3
    MaxTime = 5
    Texts <- MCTexts
    Addresses <- MCAddresses
    TrustedProxies <- MCProxies
    TrustForwardedFor = TRUE
    Connections = {c1, c2, c3}
    Subject = a
    Forgeries <- MCForgeries
    Chains <- MCChains
SYMMETRY Symmetry
INVARIANTS
    PreAuthTypeOK
    Ceiling
    NoEarlyRefusal
    RetryExact
    ChargedToOrigin
    OverrunBounded
PROPERTY ImplementsIdeal
