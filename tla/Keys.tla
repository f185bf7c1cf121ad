--------------------------------- MODULE Keys ---------------------------------
(***************************************************************************)
(* Who may call and what their key may reach: app/auth.py, auth_jwt.py and *)
(* the organisation and key endpoints of app/routers/admin.py over the     *)
(* tables organization and api_key (app/db/models.py).                     *)
(*                                                                         *)
(* A member of Requests is a connection that serves one request after the  *)
(* other.  A step is what a request does between two awaits of the         *)
(* database; a call may raise, and a commit may take effect and raise all  *)
(* the same (its answer, or the refresh after it, is lost).  The read and  *)
(* the commit of one admin handler are one step: what it reads (the        *)
(* organisation, the org_id of a key) never changes, and the ORM writes    *)
(* only the columns that were assigned.                                    *)
(*                                                                         *)
(* Stored scopes are a set of items, an item the set of scopes its text    *)
(* names: "admin,chat" is the one item {"admin", "chat"}, since the column *)
(* is joined and split at commas.  Tokens are random and do not collide.   *)
(***************************************************************************)
EXTENDS FiniteSets

CONSTANTS
    Orgs,       \* organisations that may be created
    KeyIds,     \* rows of api_key that may be created, and their tokens
    Scopes,     \* what the text of a scope may be
    Jwts,       \* tokens that JWTValidator.validate accepts
    JwtOrg,     \* JwtOrg[j]: claims[settings.jwt_org_claim]
    JwtScopes,  \* JwtScopes[j]: map_groups_to_scopes of the group claim
    Bodies,     \* APIKeyCreateRequest.scopes as sent: sets of items
    AuthMode,   \* settings.auth_mode
    Requests

ASSUME NamesAssumption ==
    /\ {"super", "absent"} \intersect Orgs = {}
    /\ {"env", "unknown"} \intersect (KeyIds \union Jwts) = {}
    /\ KeyIds \intersect Jwts = {}
ASSUME ScopesAssumption == {"chat", "admin", "super_admin"} \subseteq Scopes
ASSUME JwtAssumption ==
    /\ JwtOrg \in [Jwts -> Orgs]
    /\ JwtScopes \in [Jwts -> SUBSET Scopes]
ASSUME BodiesAssumption == Bodies \subseteq SUBSET SUBSET Scopes
ASSUME AuthModeAssumption == AuthMode \subseteq {"api_key", "jwt"}

VARIABLES
    orgs,          \* rows of organization
    keys,          \* rows of api_key
    requests,      \* what each connection is doing
    root,          \* root[k]: the authority behind key k (history)
    acknowledged   \* keys whose revocation was answered 200 (history)

vars == <<orgs, keys, requests, root, acknowledged>>

Absent == "absent"
Rows ==
    [org : Orgs \union {Absent}, scopes : SUBSET SUBSET Scopes,
     used : BOOLEAN, revoked : BOOLEAN]
NoRow == [org |-> Absent, scopes |-> {}, used |-> FALSE, revoked |-> FALSE]

\* "env" is a key of SERVICE_API_KEYS, "unknown" a token nothing accepts: no
\* key, and no valid JWT or one without issuer, subject or organisation.
Creds == {"env", "unknown"} \union KeyIds \union Jwts

Nobody == [org |-> Absent, scopes |-> {}]
Phases == {"idle", "lookup", "touch", "jwt", "handler"}
\* 4xx stands for 400, 403, 404 and 409.
Answers == {"none", "200", "401", "4xx", "500"}

Answered(a, s) ==
    [phase |-> "idle", cred |-> "unknown", principal |-> Nobody,
     late |-> FALSE, failed |-> FALSE, answer |-> a, shown |-> s]

\* The database has been set up; organisations may exist from before.
Init ==
    /\ orgs \in SUBSET Orgs
    /\ keys = [k \in KeyIds |-> NoRow]
    /\ requests = [r \in Requests |-> Answered("none", {})]
    /\ root = [k \in KeyIds |-> Absent]
    /\ acknowledged = {}

-----------------------------------------------------------------------------
(***************************************************************************)
(* app/auth.py                                                             *)
(***************************************************************************)
\* _parse_scopes: the column split at commas, "chat" if that leaves nothing.
ParseScopes(items) == IF UNION items = {} THEN {"chat"} ELSE UNION items

EnvPrincipal == [org |-> Absent, scopes |-> {"chat", "admin", "super_admin"}]
KeyPrincipal(k) == [org |-> keys[k].org, scopes |-> ParseScopes(keys[k].scopes)]
JwtPrincipal(j) == [org |-> JwtOrg[j], scopes |-> JwtScopes[j]]

IsSuperAdmin(p) == "super_admin" \in p.scopes

\* _set_request_principal, and on to the handler.
Admit(q, p) == [q EXCEPT !.phase = "handler", !.principal = p]

\* require_api_key after the key store found nothing.
TryJwt(q) ==
    IF "jwt" \in AuthMode /\ q.cred \in Jwts
    THEN [q EXCEPT !.phase = "jwt"]
    ELSE [Answered("401", {}) EXCEPT !.failed = q.failed]

\* EnvAPIKeyStore.validate
EnvValidate(q) == IF q.cred = "env" THEN Admit(q, EnvPrincipal) ELSE TryJwt(q)

\* require_api_key: a request with a bearer token.  Without one the answer
\* is the 401 of an unknown token.
Arrive(r, c) ==
    LET q == [Answered("none", {}) EXCEPT !.cred = c, !.late = c \in acknowledged] IN
    /\ requests[r].phase = "idle"
    /\ c \in KeyIds => keys[c] # NoRow
    /\ requests' = [requests EXCEPT ![r] =
           IF "api_key" \in AuthMode THEN [q EXCEPT !.phase = "lookup"] ELSE TryJwt(q)]
    /\ UNCHANGED <<orgs, keys, root, acknowledged>>

\* The SELECT of APIKeyResolver.resolve: by hash, not revoked.
Found(c) == c \in KeyIds /\ keys[c] # NoRow /\ ~keys[c].revoked

\* resolve up to the commit.  last_used_at is written if it was never set,
\* or not within the last api_key_last_used_min_interval_seconds.
Lookup(r) ==
    LET q == requests[r] IN
    /\ q.phase = "lookup"
    /\ \E due \in BOOLEAN :
          /\ Found(q.cred) /\ ~keys[q.cred].used => due
          /\ requests' = [requests EXCEPT ![r] =
                 CASE ~Found(q.cred) -> EnvValidate(q)
                   [] Found(q.cred) /\ due -> [q EXCEPT !.phase = "touch"]
                   [] OTHER -> Admit(q, KeyPrincipal(q.cred))]
    /\ UNCHANGED <<orgs, keys, root, acknowledged>>

LookupFailsRefuses(r) ==
    /\ requests[r].phase = "lookup"
    /\ requests' = [requests EXCEPT ![r] = Answered("401", {})]
    /\ UNCHANGED <<orgs, keys, root, acknowledged>>
\* resolve: the SELECT raises; the environment's keys are tried.
LookupFails(r) ==
    /\ requests[r].phase = "lookup"
    /\ requests' = [requests EXCEPT ![r] = EnvValidate([@ EXCEPT !.failed = TRUE])]
    /\ UNCHANGED <<orgs, keys, root, acknowledged>>

TouchWritesRow(r) ==
    LET k == requests[r].cred IN
    /\ requests[r].phase = "touch"
    /\ keys' = [keys EXCEPT ![k].used = TRUE, ![k].revoked = FALSE]
    /\ requests' = [requests EXCEPT ![r] = Admit(@, KeyPrincipal(k))]
    /\ UNCHANGED <<orgs, root, acknowledged>>
\* resolve: the commit of last_used_at, whatever happened to the row since
\* it was read.
Touch(r) ==
    LET k == requests[r].cred IN
    /\ requests[r].phase = "touch"
    /\ keys' = [keys EXCEPT ![k].used = TRUE]
    /\ requests' = [requests EXCEPT ![r] = Admit(@, KeyPrincipal(k))]
    /\ UNCHANGED <<orgs, root, acknowledged>>

\* resolve: the commit raises, with or without effect; the key found is
\* forgotten and the environment's keys are tried.
TouchFails(r) ==
    LET k == requests[r].cred IN
    /\ requests[r].phase = "touch"
    /\ keys' \in {keys, [keys EXCEPT ![k].used = TRUE]}
    /\ requests' = [requests EXCEPT ![r] = EnvValidate([@ EXCEPT !.failed = TRUE])]
    /\ UNCHANGED <<orgs, root, acknowledged>>

\* _build_jwt_principal
JwtLookup(r) ==
    LET j == requests[r].cred IN
    /\ requests[r].phase = "jwt"
    /\ requests' = [requests EXCEPT ![r] =
           IF JwtOrg[j] \in orgs /\ JwtScopes[j] # {}
           THEN Admit(@, JwtPrincipal(j))
           ELSE Answered("401", {})]
    /\ UNCHANGED <<orgs, keys, root, acknowledged>>

\* A query of _build_jwt_principal or of a handler raises with no effect:
\* nothing catches it.
QueryFails(r) ==
    /\ requests[r].phase \in {"jwt", "handler"}
    /\ requests' = [requests EXCEPT ![r] = Answered("500", {})]
    /\ UNCHANGED <<orgs, keys, root, acknowledged>>

-----------------------------------------------------------------------------
(***************************************************************************)
(* Handlers.  A missing scope is a 401 (require_scope,                     *)
(* require_admin_principal).                                               *)
(***************************************************************************)
\* The principal of r is in the handler of an endpoint that needs a scope.
InHandler(r, scope) ==
    requests[r].phase = "handler" /\ scope \in requests[r].principal.scopes

Finish(r, a) == requests' = [requests EXCEPT ![r] = Answered(a, {})]

MissingScope(r, scope) ==
    /\ requests[r].phase = "handler"
    /\ scope \notin requests[r].principal.scopes
    /\ Finish(r, "401")
    /\ UNCHANGED <<orgs, keys, root, acknowledged>>

\* POST /v1/chat/completions, as far as keys go.
Chat(r) ==
    /\ InHandler(r, "chat")
    /\ Finish(r, "200")
    /\ UNCHANGED <<orgs, keys, root, acknowledged>>

\* A handler answers 400, 403, 404 or 409 and changes nothing.
Refused(r) == Finish(r, "4xx") /\ UNCHANGED <<orgs, keys, root, acknowledged>>

\* The commit took effect; it, or the refresh after it, may still raise.
Committed(r) == Finish(r, "200") \/ Finish(r, "500")

CreateOrganization(r, o) ==
    /\ InHandler(r, "admin")
    /\ IF ~IsSuperAdmin(requests[r].principal) \/ o \in orgs
       THEN Refused(r)
       ELSE /\ Committed(r)
            /\ orgs' = orgs \union {o}
            /\ UNCHANGED <<keys, root, acknowledged>>

NormalizeKeepsItems(body) == body \ {{}}
\* APIKeyCreateRequest.normalize_scopes: items are split at commas.
NormalizeScopes(body) == {{s} : s \in UNION body}

\* create_api_key: only a super_admin hands super_admin on.
GrantedScopes(p, body) ==
    IF IsSuperAdmin(p) THEN NormalizeScopes(body)
    ELSE NormalizeScopes(body) \ {{"super_admin"}}

\* The authority a credential stands for: "super", or one organisation.
\* Keys have theirs from whoever made them.
Authority(c) ==
    CASE c \in KeyIds -> root[c]
      [] c \in Jwts -> IF IsSuperAdmin(JwtPrincipal(c)) THEN "super" ELSE JwtOrg[c]
      [] OTHER -> "super"

\* An organisation's key makes keys of that organisation's authority; the
\* super authority also makes keys for one organisation.
RootOf(c, o, scopes) ==
    IF Authority(c) = "super" /\ "super_admin" \notin UNION scopes
    THEN o
    ELSE Authority(c)

CreateRefusedNoOrgRow(p, o, scopes) == ~IsSuperAdmin(p) /\ (o # p.org \/ scopes = {})
\* create_api_key: another organisation, nothing left of the scopes, or no
\* such organisation.
CreateRefused(p, o, scopes) ==
    \/ ~IsSuperAdmin(p) /\ (o # p.org \/ scopes = {})
    \/ o \notin orgs

\* create_api_key; an empty scope list is a 422 before this.
CreateApiKey(r, k, o, body) ==
    LET p == requests[r].principal
        scopes == GrantedScopes(p, body) IN
    /\ InHandler(r, "admin")
    /\ keys[k] = NoRow
    /\ NormalizeScopes(body) # {}
    /\ IF CreateRefused(p, o, scopes)
       THEN Refused(r)
       ELSE /\ Committed(r)
            /\ keys' = [keys EXCEPT ![k] =
                   [org |-> o, scopes |-> scopes, used |-> FALSE, revoked |-> FALSE]]
            /\ root' = [root EXCEPT ![k] = RootOf(requests[r].cred, o, scopes)]
            /\ UNCHANGED <<orgs, acknowledged>>

RevokeAnyOrg(r, k) ==
    /\ InHandler(r, "admin")
    /\ IF keys[k] = NoRow
       THEN Refused(r)
       ELSE /\ Committed(r)
            /\ keys' = [keys EXCEPT ![k].revoked = TRUE]
            /\ acknowledged' = IF requests'[r].answer = "200"
                               THEN acknowledged \union {k} ELSE acknowledged
            /\ UNCHANGED <<orgs, root>>
\* revoke_api_key
RevokeApiKey(r, k) ==
    LET p == requests[r].principal IN
    /\ InHandler(r, "admin")
    /\ IF keys[k] = NoRow \/ (~IsSuperAdmin(p) /\ keys[k].org # p.org)
       THEN Refused(r)
       ELSE /\ Committed(r)
            /\ keys' = [keys EXCEPT ![k].revoked = TRUE]
            /\ acknowledged' = IF requests'[r].answer = "200"
                               THEN acknowledged \union {k} ELSE acknowledged
            /\ UNCHANGED <<orgs, root>>

\* list_api_keys: the query's org_id counts for a super_admin only.  Absent
\* is no org_id.
ListApiKeys(r, o, includeRevoked) ==
    LET p == requests[r].principal
        org == IF IsSuperAdmin(p) THEN o ELSE p.org
        items == {k \in KeyIds : /\ keys[k] # NoRow
                                 /\ org \in {Absent, keys[k].org}
                                 /\ includeRevoked \/ ~keys[k].revoked} IN
    /\ InHandler(r, "admin")
    /\ requests' = [requests EXCEPT ![r] =
           Answered("200", {keys[k].org : k \in items})]
    /\ UNCHANGED <<orgs, keys, root, acknowledged>>

\* The organisations of audit rows a query may return, of those in logged: a
\* row carries the organisation of the principal it was written for.
InScope(p, logged) == IF IsSuperAdmin(p) THEN logged ELSE logged \intersect {p.org}

\* get_usage; since after until is refused.
GetUsage(r, logged) ==
    /\ InHandler(r, "admin")
    /\ \/ Refused(r)
       \/ /\ requests' = [requests EXCEPT ![r] =
                 Answered("200", InScope(@.principal, logged))]
          /\ UNCHANGED <<orgs, keys, root, acknowledged>>

\* list_audit_logs, for one key or (Absent) all: another organisation's key
\* is answered as one that does not exist.
ListAuditLogs(r, logged, k) ==
    LET p == requests[r].principal
        ofKey == IF k = Absent THEN Orgs ELSE {keys[k].org} IN
    /\ InHandler(r, "admin")
    /\ IF ~IsSuperAdmin(p) /\ k # Absent /\ p.org \notin ofKey
       THEN Refused(r)
       ELSE /\ requests' = [requests EXCEPT ![r] =
                   Answered("200", InScope(p, logged) \intersect ofKey)]
            /\ UNCHANGED <<orgs, keys, root, acknowledged>>

Next ==
    \E r \in Requests :
       \/ \E c \in Creds : Arrive(r, c)
       \/ Lookup(r) \/ LookupFails(r) \/ Touch(r) \/ TouchFails(r)
       \/ JwtLookup(r) \/ QueryFails(r)
       \/ \E s \in {"chat", "admin"} : MissingScope(r, s)
       \/ Chat(r)
       \/ \E o \in Orgs : CreateOrganization(r, o)
       \/ \E k \in KeyIds, o \in Orgs, b \in Bodies : CreateApiKey(r, k, o, b)
       \/ \E k \in KeyIds : RevokeApiKey(r, k)
       \/ \E o \in Orgs \union {Absent}, b \in BOOLEAN : ListApiKeys(r, o, b)
       \/ \E logged \in SUBSET orgs :
             \/ GetUsage(r, logged)
             \/ \E k \in KeyIds \union {Absent} : ListAuditLogs(r, logged, k)

Spec == Init /\ [][Next]_vars

-----------------------------------------------------------------------------
\* The tables and requests have their types; a row's organisation exists.
TypeOK ==
    /\ orgs \subseteq Orgs
    /\ keys \in [KeyIds -> Rows]
    /\ \A k \in KeyIds : keys[k] # NoRow => keys[k].org \in orgs
    /\ root \in [KeyIds -> Orgs \union {"super", Absent}]
    /\ acknowledged \subseteq {k \in KeyIds : keys[k] # NoRow}
    /\ requests \in
         [Requests ->
            [phase : Phases, cred : Creds,
             principal : [org : Orgs \union {Absent}, scopes : SUBSET Scopes],
             late : BOOLEAN, failed : BOOLEAN, answer : Answers, shown : SUBSET Orgs]]

\* However long the chain of keys that make keys, one that began with an
\* organisation's key (or JWT) stays in that organisation and never yields
\* super_admin when its stored scopes are parsed (create_api_key).
NoEscalation ==
    \A k \in KeyIds :
       root[k] \in Orgs =>
          /\ keys[k].org = root[k]
          /\ "super_admin" \notin ParseScopes(keys[k].scopes)

\* A request creates, revokes and lists keys (create_api_key, revoke_api_key,
\* list_api_keys) and reads usage and audit rows (get_usage, list_audit_logs)
\* only of the organisation its credential descends from, unless that is the
\* super authority.
Reaches(r, o) == Authority(requests[r].cred) \in {"super", o}
OrgIsolation ==
    [][\A r \in Requests : requests'[r] # requests[r] =>
          /\ \A o \in requests'[r].shown : Reaches(r, o)
          /\ \A k \in KeyIds :
                \/ keys'[k] = keys[k]
                \/ requests[r].phase = "touch" /\ requests[r].cred = k
                \/ Reaches(r, keys'[k].org)]_vars

\* Once revoke_api_key has answered 200, no request that arrives later gets a
\* principal from that key, whatever requests with it were under way
\* (APIKeyResolver.resolve).
RevocationEffective ==
    \A r \in Requests :
       requests[r].late => requests[r].phase # "handler" /\ requests[r].principal = Nobody

\* The environment's keys are never answered 401, whatever the database does,
\* and a key that is not revoked is answered 401 only if a database call of
\* its own request failed or it lacks the scope (resolve, require_api_key).
RefusedForCause ==
    [][\A r \in Requests :
         LET q == requests[r] IN
         (q.phase # "idle" /\ requests'[r].answer = "401") =>
            /\ "api_key" \in AuthMode => q.cred # "env"
            /\ (Found(q.cred) /\ "api_key" \in AuthMode) =>
                  q.phase = "handler" \/ requests'[r].failed]_vars
=============================================================================
