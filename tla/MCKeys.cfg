SPECIFICATION Spec
CONSTANTS
    o1 = o1
    o2 = o2
    j1 = j1
    j2 = j2
    Orgs <- MCOrgs
    KeyIds = {k1, k2}
    Scopes = {"chat", "admin", "super_admin"}
    Jwts <- MCJwts
    JwtOrg <- MCJwtOrg
    JwtScopes <- MCJwtScopes
    Bodies <- MCBodies
    AuthMode = {"api_key", "jwt"}
    Requests = {r1, r2}
SYMMETRY Symmetry
INVARIANTS
    TypeOK
    NoEscalation
    RevocationEffective
PROPERTIES
    OrgIsolation
    RefusedForCause
