------------------------------ MODULE Keys_proofs ------------------------------
(***************************************************************************)
(* Keys, organisations and requests for any number of each, any JWTs and   *)
(* either auth mode: no chain of keys leads out of an organisation, a      *)
(* revocation that was acknowledged holds, and a 401 has a cause.          *)
(*                                                                         *)
(* None of the properties is inductive by itself.  What carries them is    *)
(* that a principal was computed from a row which can change before its    *)
(* handler runs, in used and revoked only; so a request in a handler is    *)
(* still Rightful: its principal has no more than the authority behind its *)
(* credential.                                                             *)
(***************************************************************************)
EXTENDS Keys, TLAPS

Request ==
    [phase : Phases, cred : Creds,
     principal : [org : Orgs \union {Absent}, scopes : SUBSET Scopes],
     late : BOOLEAN, failed : BOOLEAN, answer : Answers, shown : SUBSET Orgs]

TablesTyped ==
    /\ orgs \subseteq Orgs
    /\ keys \in [KeyIds -> Rows]
    /\ \A k \in KeyIds : keys[k] # NoRow => keys[k].org \in orgs
    /\ root \in [KeyIds -> Orgs \union {"super", Absent}]
    /\ acknowledged \subseteq {k \in KeyIds : keys[k] # NoRow}

\* A row has an authority, and what has an authority is a row.
Rooted == \A k \in KeyIds : root[k] = Absent <=> keys[k] = NoRow

RevokedInTable == \A k \in acknowledged : keys[k].revoked

Tables == TablesTyped /\ NoEscalation /\ Rooted /\ RevokedInTable

\* The principal in a handler has no more than its credential's authority,
\* and an environment key all of it.
Rightful(r) ==
    LET q == requests[r] IN
    /\ IsSuperAdmin(q.principal) => Authority(q.cred) = "super"
    /\ Authority(q.cred) \in Orgs => q.principal.org = Authority(q.cred)
    /\ q.cred = "env" => q.principal = EnvPrincipal

\* How far a request is, and what it has by then.
Progress(r) ==
    LET q == requests[r] IN
    /\ q.phase # "idle" => /\ q.answer = "none" /\ q.shown = {}
                           /\ q.cred \in KeyIds => keys[q.cred] # NoRow
    /\ q.phase # "handler" => q.principal = Nobody
    /\ q.phase = "touch" => q.cred \in KeyIds
    /\ q.phase = "jwt" => q.cred \in Jwts
    /\ q.late => q.phase = "lookup" /\ q.cred \in acknowledged

Sound(r) == Progress(r) /\ (requests[r].phase = "handler" => Rightful(r))

Inv ==
    /\ Tables
    /\ requests \in [Requests -> Request]
    /\ \A r \in Requests : Sound(r)

\* What a step may do to the tables: rows and their authority stay.
Kept ==
    /\ \A k \in KeyIds : keys[k] # NoRow => keys'[k] # NoRow /\ root'[k] = root[k]
    /\ acknowledged \subseteq acknowledged'

-----------------------------------------------------------------------------
(***************************************************************************)
(* The records a request goes through                                      *)
(***************************************************************************)
LEMMA AnsweredTyped ==
    ASSUME NEW a \in Answers, NEW s \in SUBSET Orgs
    PROVE  /\ Answered(a, s) \in Request
           /\ \A f \in BOOLEAN : [Answered(a, s) EXCEPT !.failed = f] \in Request
  BY DEF Answered, Request, Phases, Creds, Nobody

LEMMA ParsedTyped ==
    ASSUME NEW items \in SUBSET SUBSET Scopes
    PROVE  ParseScopes(items) \in SUBSET Scopes
<1>1. UNION items \in SUBSET Scopes
  OBVIOUS
<1>2. {"chat"} \in SUBSET Scopes
  BY ScopesAssumption
<1> QED
  BY <1>1, <1>2 DEF ParseScopes

LEMMA PrincipalsTyped ==
    ASSUME TablesTyped
    PROVE  /\ EnvPrincipal \in [org : Orgs \union {Absent}, scopes : SUBSET Scopes]
           /\ \A k \in KeyIds :
                 KeyPrincipal(k) \in [org : Orgs \union {Absent}, scopes : SUBSET Scopes]
           /\ \A j \in Jwts :
                 JwtPrincipal(j) \in [org : Orgs \union {Absent}, scopes : SUBSET Scopes]
<1>1. EnvPrincipal \in [org : Orgs \union {Absent}, scopes : SUBSET Scopes]
  BY ScopesAssumption DEF EnvPrincipal
<1>2. ASSUME NEW k \in KeyIds
      PROVE  KeyPrincipal(k) \in [org : Orgs \union {Absent}, scopes : SUBSET Scopes]
  <2>1. keys[k].scopes \in SUBSET SUBSET Scopes /\ keys[k].org \in Orgs \union {Absent}
    BY DEF TablesTyped, Rows
  <2> QED
    BY <2>1, ParsedTyped DEF KeyPrincipal
<1>3. ASSUME NEW j \in Jwts
      PROVE  JwtPrincipal(j) \in [org : Orgs \union {Absent}, scopes : SUBSET Scopes]
  BY JwtAssumption DEF JwtPrincipal
<1> QED
  BY <1>1, <1>2, <1>3

\* The requests of everyone else, and those tables that only grow.
LEMMA StepInv ==
    ASSUME Inv, Tables', Kept, NEW r \in Requests, NEW n \in Request,
           requests' = [requests EXCEPT ![r] = n], Sound(r)'
    PROVE  Inv'
<1>1. requests' \in [Requests -> Request]
  BY DEF Inv
<1>2. ASSUME NEW s \in Requests, s # r PROVE Sound(s)'
  <2>1. requests'[s] = requests[s]
    BY <1>2 DEF Inv
  <2>2. Progress(s)'
    BY <1>2, <2>1 DEF Inv, Sound, Progress, Kept, Nobody, NoRow, Absent
  <2>3. ASSUME requests[s].phase = "handler" PROVE Rightful(s)'
    <3>1. /\ Rightful(s)
          /\ requests[s].cred \in KeyIds => root'[requests[s].cred] = root[requests[s].cred]
      BY <1>2, <2>3 DEF Inv, Sound, Progress, Kept
    <3> QED
      BY <2>1, <3>1 DEF Rightful, Authority, IsSuperAdmin, EnvPrincipal, JwtPrincipal, Absent
  <2> QED
    BY <2>1, <2>2, <2>3 DEF Sound
<1> QED
  BY <1>1, <1>2 DEF Inv, Request, Phases, Creds, Answers, Absent

LEMMA AnsweredInv ==
    ASSUME Inv, Tables', Kept, NEW r \in Requests,
           NEW a \in Answers, NEW s \in SUBSET Orgs,
           requests' = [requests EXCEPT ![r] = Answered(a, s)]
    PROVE  Inv'
<1>1. requests'[r] = Answered(a, s)
  BY DEF Inv
<1>2. Sound(r)'
  BY <1>1 DEF Sound, Progress, Answered, Nobody, Absent
<1> QED
  BY <1>2, AnsweredTyped, StepInv

LEMMA FinishInv ==
    ASSUME Inv, Tables', Kept, NEW r \in Requests, NEW a \in Answers, Finish(r, a)
    PROVE  Inv'
<1>1. {} \in SUBSET Orgs
  OBVIOUS
<1> QED
  BY <1>1, AnsweredInv DEF Finish

LEMMA TablesUnchanged ==
    ASSUME Inv, UNCHANGED <<orgs, keys, root, acknowledged>>
    PROVE  Tables' /\ Kept
  BY DEF Inv, Tables, TablesTyped, NoEscalation, ParseScopes, Rooted, RevokedInTable,
         Kept, Rows, NoRow, Absent

-----------------------------------------------------------------------------
(***************************************************************************)
(* What commits do to the tables                                           *)
(***************************************************************************)
\* used or revoked of a row is set.
LEMMA RowMarked ==
    ASSUME Inv, NEW k \in KeyIds, keys[k] # NoRow, NEW row \in Rows,
           row.org = keys[k].org, row.scopes = keys[k].scopes,
           keys[k].revoked => row.revoked,
           keys' = [keys EXCEPT ![k] = row],
           acknowledged \subseteq acknowledged',
           acknowledged' \subseteq acknowledged \union {k},
           k \in acknowledged' => row.revoked,
           UNCHANGED <<orgs, root>>
    PROVE  Tables' /\ Kept
<1>1. TablesTyped /\ NoEscalation /\ Rooted /\ RevokedInTable
  BY DEF Inv, Tables
<1>2. row # NoRow
  BY <1>1, NamesAssumption DEF TablesTyped, NoRow, Absent
<1>3. TablesTyped'
  <2>1. /\ \A l \in KeyIds : keys'[l] = IF l = k THEN row ELSE keys[l]
        /\ keys' \in [KeyIds -> Rows]
    BY <1>1 DEF TablesTyped
  <2>2. \A l \in KeyIds : keys'[l] # NoRow => keys'[l].org \in orgs
    BY <1>1, <2>1 DEF TablesTyped
  <2>3. acknowledged' \subseteq {l \in KeyIds : keys'[l] # NoRow}
    BY <1>1, <1>2, <2>1 DEF TablesTyped
  <2> QED
    BY <1>1, <2>1, <2>2, <2>3 DEF TablesTyped, Rows, NoRow, Absent
<1>4. NoEscalation'
  BY <1>1 DEF NoEscalation, TablesTyped, ParseScopes
<1>5. Rooted'
  BY <1>1, <1>2 DEF Rooted, TablesTyped, NoRow, Absent
<1>6. RevokedInTable'
  BY <1>1 DEF RevokedInTable, TablesTyped
<1>7. Kept
  BY <1>1, <1>2 DEF Kept, TablesTyped
<1> QED
  BY <1>3, <1>4, <1>5, <1>6, <1>7 DEF Tables

LEMMA UsedTables ==
    ASSUME Inv, NEW k \in KeyIds, keys[k] # NoRow,
           keys' = [keys EXCEPT ![k].used = TRUE],
           UNCHANGED <<orgs, root, acknowledged>>
    PROVE  Tables' /\ Kept
<1> DEFINE row == [keys[k] EXCEPT !.used = TRUE]
<1>1. keys \in [KeyIds -> Rows] /\ (k \in acknowledged => keys[k].revoked)
  BY DEF Inv, Tables, TablesTyped, RevokedInTable
<1>2. /\ row \in Rows /\ row.org = keys[k].org /\ row.scopes = keys[k].scopes
      /\ row.revoked = keys[k].revoked
  BY <1>1 DEF Rows
<1>3. keys' = [keys EXCEPT ![k] = row]
  BY <1>1
<1> HIDE DEF row
<1> QED
  BY <1>1, <1>2, <1>3, RowMarked

LEMMA RevokedTables ==
    ASSUME Inv, NEW k \in KeyIds, keys[k] # NoRow,
           keys' = [keys EXCEPT ![k].revoked = TRUE],
           acknowledged' = acknowledged \/ acknowledged' = acknowledged \union {k},
           UNCHANGED <<orgs, root>>
    PROVE  Tables' /\ Kept
<1> DEFINE row == [keys[k] EXCEPT !.revoked = TRUE]
<1>1. keys \in [KeyIds -> Rows]
  BY DEF Inv, Tables, TablesTyped
<1>2. /\ row \in Rows /\ row.org = keys[k].org /\ row.scopes = keys[k].scopes
      /\ row.revoked
  BY <1>1 DEF Rows
<1>3. keys' = [keys EXCEPT ![k] = row]
  BY <1>1
<1> HIDE DEF row
<1> QED
  BY <1>1, <1>2, <1>3, RowMarked

-----------------------------------------------------------------------------
(***************************************************************************)
(* Authentication                                                          *)
(***************************************************************************)
\* A key's row gives its request no more than the key's authority.
LEMMA AdmitKeyInv ==
    ASSUME Inv, Tables', Kept, NEW r \in Requests,
           requests[r].cred \in KeyIds, ~requests[r].late,
           requests[r].phase # "idle",
           requests' = [requests EXCEPT ![r] = Admit(@, KeyPrincipal(requests[r].cred))]
    PROVE  Inv'
<1> DEFINE q == requests[r]
           k == requests[r].cred
           n == Admit(requests[r], KeyPrincipal(requests[r].cred))
<1>1. /\ q \in Request /\ k \in KeyIds /\ keys[k] # NoRow /\ q.answer = "none" /\ q.shown = {}
      /\ ~q.late /\ KeyPrincipal(k) \in [org : Orgs \union {Absent}, scopes : SUBSET Scopes]
  BY PrincipalsTyped DEF Inv, Tables, Sound, Progress
<1>2. /\ n \in Request /\ n.phase = "handler" /\ n.cred = k /\ ~n.late
      /\ n.answer = "none" /\ n.shown = {} /\ n.principal = KeyPrincipal(k)
  BY <1>1 DEF Admit, Request, Phases
<1>3. requests'[r] = n /\ requests' = [requests EXCEPT ![r] = n]
  BY DEF Inv
<1>4. /\ root[k] \in Orgs \union {"super"} /\ root'[k] = root[k] /\ keys'[k] # NoRow
      /\ root[k] \in Orgs => /\ keys[k].org = root[k]
                            /\ "super_admin" \notin ParseScopes(keys[k].scopes)
  BY <1>1 DEF Inv, Tables, TablesTyped, Rooted, NoEscalation, Kept
<1>5. /\ k # "env" /\ k \notin Jwts /\ "super" \notin Orgs
      /\ n.principal.org = keys[k].org
      /\ n.principal.scopes = ParseScopes(keys[k].scopes)
  BY <1>1, <1>2, NamesAssumption DEF KeyPrincipal
<1> HIDE DEF n
<1>6. Progress(r)'
  BY <1>2, <1>3, <1>4 DEF Progress, NoRow, Absent
<1>7. Rightful(r)'
  <2>1. Authority(requests[r].cred)' = root[k]
    BY <1>1, <1>2, <1>3, <1>4, <1>5 DEF Authority
  <2> HIDE DEF k
  <2> QED
    BY <1>2, <1>3, <1>4, <1>5, <2>1 DEF Rightful, IsSuperAdmin
<1> QED
  BY <1>2, <1>3, <1>6, <1>7, StepInv DEF Sound

\* require_api_key beyond the key store.  q is the request as it arrives
\* there: without a principal, and with an acknowledged revocation only for
\* a key.
LEMMA TryJwtInv ==
    ASSUME Inv, Tables', Kept, NEW r \in Requests, NEW q \in Request,
           q.principal = Nobody, q.answer = "none" /\ q.shown = {}, q.late => q.cred \in KeyIds,
           requests' = [requests EXCEPT ![r] = TryJwt(q)]
    PROVE  Inv'
<1>1. requests'[r] = TryJwt(q)
  BY DEF Inv
<1>2. CASE "jwt" \in AuthMode /\ q.cred \in Jwts
  <2> DEFINE n == [q EXCEPT !.phase = "jwt"]
  <2>1. /\ n \in Request /\ n.phase = "jwt" /\ n.cred = q.cred /\ n.late = q.late
        /\ n.answer = "none" /\ n.shown = {} /\ n.principal = Nobody
    BY DEF Request, Phases
  <2>2. TryJwt(q) = n
    BY <1>2 DEF TryJwt
  <2>3. q.cred \notin KeyIds /\ ~q.late
    BY <1>2, NamesAssumption
  <2> HIDE DEF n
  <2>4. Sound(r)'
    BY <1>1, <1>2, <2>1, <2>2, <2>3 DEF Sound, Progress, Nobody, Absent
  <2> QED
    BY <2>1, <2>2, <2>4, StepInv
<1>3. CASE ~("jwt" \in AuthMode /\ q.cred \in Jwts)
  <2> DEFINE n == [Answered("401", {}) EXCEPT !.failed = q.failed]
  <2>1. n \in Request
    BY AnsweredTyped DEF Answers, Request
  <2>2. n.phase = "idle" /\ ~n.late /\ n.principal = Nobody
    BY DEF Answered
  <2>3. TryJwt(q) = n
    BY <1>3 DEF TryJwt
  <2> HIDE DEF n
  <2>4. Sound(r)'
    BY <1>1, <2>2, <2>3 DEF Sound, Progress, Nobody, Absent
  <2> QED
    BY <2>1, <2>3, <2>4, StepInv
<1> QED
  BY <1>2, <1>3

LEMMA EnvValidateInv ==
    ASSUME Inv, Tables', Kept, NEW r \in Requests, NEW q \in Request,
           q.principal = Nobody, q.answer = "none" /\ q.shown = {}, q.late => q.cred \in KeyIds,
           requests' = [requests EXCEPT ![r] = EnvValidate(q)]
    PROVE  Inv'
<1>1. CASE q.cred = "env"
  <2> DEFINE n == Admit(q, EnvPrincipal)
  <2>1. EnvValidate(q) = n /\ requests'[r] = n
    BY <1>1 DEF EnvValidate, Inv
  <2>2. /\ n \in Request /\ n.phase = "handler" /\ n.cred = "env" /\ n.late = q.late
        /\ n.answer = "none" /\ n.shown = {} /\ n.principal = EnvPrincipal
    BY <1>1, PrincipalsTyped DEF Admit, Request, Phases, Inv, Tables
  <2>3. "env" \notin KeyIds /\ "env" \notin Jwts /\ "super" \notin Orgs
    BY NamesAssumption
  <2> HIDE DEF n
  <2>4. Progress(r)'
    BY <1>1, <2>1, <2>2, <2>3 DEF Progress
  <2>5. Rightful(r)'
    BY <2>1, <2>2, <2>3 DEF Rightful, Authority, EnvPrincipal, Absent
  <2> QED
    BY <2>1, <2>2, <2>4, <2>5, StepInv DEF Sound
<1>2. CASE q.cred # "env"
  BY <1>2, TryJwtInv DEF EnvValidate
<1> QED
  BY <1>1, <1>2

LEMMA ArriveInv ==
    ASSUME Inv, NEW r \in Requests, NEW c \in Creds, Arrive(r, c)
    PROVE  Inv'
<1> DEFINE q == [Answered("none", {}) EXCEPT !.cred = c, !.late = c \in acknowledged]
           n == [q EXCEPT !.phase = "lookup"]
<1>0. Tables' /\ Kept
  BY TablesUnchanged DEF Arrive
<1>1. c \in KeyIds => keys'[c] # NoRow
  BY DEF Arrive
<1>2. acknowledged \subseteq KeyIds /\ acknowledged' = acknowledged
  BY DEF Arrive, Inv, Tables, TablesTyped
<1>3. /\ q \in Request /\ q.principal = Nobody /\ q.answer = "none" /\ q.shown = {}
      /\ q.cred = c
      /\ q.late => c \in acknowledged
  <2>1. Answered("none", {}) \in Request
    BY AnsweredTyped DEF Answers
  <2>2. ASSUME NEW b \in BOOLEAN
        PROVE  LET p == [Answered("none", {}) EXCEPT !.cred = c, !.late = b] IN
               /\ p \in Request /\ p.principal = Nobody /\ p.answer = "none" /\ p.shown = {}
               /\ p.cred = c /\ p.late = b
    BY <2>1 DEF Request, Answered
  <2>3. CASE c \in acknowledged
    <3>1. q = [Answered("none", {}) EXCEPT !.cred = c, !.late = TRUE]
      BY <2>3
    <3> QED
      BY <2>2, <2>3, <3>1
  <2>4. CASE c \notin acknowledged
    <3>1. (c \in acknowledged) = FALSE
      BY <2>4
    <3>2. q = [Answered("none", {}) EXCEPT !.cred = c, !.late = FALSE]
      BY <3>1, Zenon
    <3> QED
      BY <2>2, <3>2
  <2> QED
    BY <2>3, <2>4
<1>4. /\ n \in Request /\ n.phase = "lookup" /\ n.principal = Nobody
      /\ n.answer = "none" /\ n.shown = {} /\ n.cred = c /\ (n.late => c \in acknowledged)
  <2> HIDE DEF q
  <2> QED
    BY <1>3 DEF Request, Phases
<1> HIDE DEF q
<1>5. CASE "api_key" \in AuthMode
  <2>1. requests' = [requests EXCEPT ![r] = n]
    BY <1>5 DEF Arrive, q
  <2> HIDE DEF n
  <2>2. requests'[r] = n
    BY <2>1 DEF Inv
  <2>3. Sound(r)'
    BY <1>1, <1>2, <1>3, <1>4, <2>2 DEF Sound, Progress, Nobody, NoRow, Absent
  <2> QED
    BY <1>0, <1>4, <2>1, <2>3, StepInv
<1>6. CASE "api_key" \notin AuthMode
  <2>1. requests' = [requests EXCEPT ![r] = TryJwt(q)]
    BY <1>6 DEF Arrive, q
  <2> QED
    BY <1>0, <1>2, <1>3, <2>1, TryJwtInv
<1> QED
  BY <1>5, <1>6

\* What is known of a request that is being authenticated.
LEMMA Pending ==
    ASSUME Inv, NEW r \in Requests, requests[r].phase \in {"lookup", "touch", "jwt"}
    PROVE  LET q == requests[r] IN
           /\ q \in Request /\ q.principal = Nobody /\ q.answer = "none" /\ q.shown = {}
           /\ q.late => q.phase = "lookup" /\ q.cred \in KeyIds /\ ~Found(q.cred)
           /\ q.phase = "touch" => q.cred \in KeyIds /\ keys[q.cred] # NoRow
           /\ q.phase = "jwt" => q.cred \in Jwts
           /\ LET f == [q EXCEPT !.failed = TRUE] IN
              /\ f \in Request /\ f.principal = Nobody /\ f.answer = "none" /\ f.shown = {}
              /\ f.late = q.late /\ f.cred = q.cred /\ f.failed
<1> DEFINE q == requests[r]
<1>1. /\ q \in Request /\ q.principal = Nobody /\ q.answer = "none" /\ q.shown = {}
      /\ q.late => q.phase = "lookup" /\ q.cred \in acknowledged
      /\ q.phase = "touch" => q.cred \in KeyIds /\ keys[q.cred] # NoRow
      /\ q.phase = "jwt" => q.cred \in Jwts
  BY DEF Inv, Sound, Progress
<1>2. \A k \in acknowledged : k \in KeyIds /\ keys[k].revoked
  BY DEF Inv, Tables, TablesTyped, RevokedInTable
<1>3. LET f == [q EXCEPT !.failed = TRUE] IN
      /\ f \in Request /\ f.principal = q.principal /\ f.answer = q.answer /\ f.shown = q.shown
      /\ f.late = q.late /\ f.cred = q.cred /\ f.failed
  BY <1>1 DEF Request
<1> QED
  BY <1>1, <1>2, <1>3 DEF Found

LEMMA LookupInv ==
    ASSUME Inv, NEW r \in Requests, Lookup(r)
    PROVE  Inv'
<1> DEFINE q == requests[r]
<1>0. Tables' /\ Kept /\ q.phase = "lookup" /\ keys' = keys
  BY TablesUnchanged DEF Lookup
<1>1. /\ q \in Request /\ q.principal = Nobody /\ q.answer = "none" /\ q.shown = {}
      /\ q.late => q.cred \in KeyIds /\ ~Found(q.cred)
  BY <1>0, Pending
<1>2. CASE ~Found(q.cred)
  <2>1. requests' = [requests EXCEPT ![r] = EnvValidate(q)]
    BY <1>2 DEF Lookup
  <2> QED
    BY <1>0, <1>1, <2>1, EnvValidateInv
<1>3. CASE Found(q.cred)
  <2>0. q.cred \in KeyIds /\ keys[q.cred] # NoRow /\ ~q.late
    BY <1>1, <1>3 DEF Found
  <2> DEFINE n == [q EXCEPT !.phase = "touch"]
  <2>1. \/ requests' = [requests EXCEPT ![r] = n]
        \/ requests' = [requests EXCEPT ![r] = Admit(q, KeyPrincipal(q.cred))]
    BY <1>3 DEF Lookup
  <2>2. CASE requests' = [requests EXCEPT ![r] = n]
    <3>1. /\ n \in Request /\ n.phase = "touch" /\ n.principal = Nobody
          /\ n.answer = "none" /\ n.shown = {} /\ n.cred = q.cred /\ n.late = q.late
      BY <1>1 DEF Request, Phases
    <3> HIDE DEF n
    <3>2. requests'[r] = n
      BY <2>2 DEF Inv
    <3>3. Sound(r)'
      BY <1>0, <2>0, <3>1, <3>2 DEF Sound, Progress, Nobody, NoRow, Absent
    <3> QED
      BY <1>0, <2>2, <3>1, <3>3, StepInv
  <2>3. CASE requests' = [requests EXCEPT ![r] = Admit(q, KeyPrincipal(q.cred))]
    BY <1>0, <2>0, <2>3, AdmitKeyInv
  <2> QED
    BY <2>1, <2>2, <2>3
<1> QED
  BY <1>2, <1>3

LEMMA LookupFailsInv ==
    ASSUME Inv, NEW r \in Requests, LookupFails(r)
    PROVE  Inv'
<1> DEFINE f == [requests[r] EXCEPT !.failed = TRUE]
<1>1. Tables' /\ Kept
  BY TablesUnchanged DEF LookupFails
<1>2. /\ f \in Request /\ f.principal = Nobody /\ f.answer = "none" /\ f.shown = {}
      /\ f.late => f.cred \in KeyIds
  BY Pending DEF LookupFails
<1>3. requests' = [requests EXCEPT ![r] = EnvValidate(f)]
  BY DEF LookupFails
<1> HIDE DEF f
<1> QED
  BY <1>1, <1>2, <1>3, EnvValidateInv

LEMMA TouchInv ==
    ASSUME Inv, NEW r \in Requests, Touch(r)
    PROVE  Inv'
<1>1. /\ requests[r].cred \in KeyIds /\ keys[requests[r].cred] # NoRow
      /\ ~requests[r].late /\ requests[r].phase = "touch"
  BY Pending DEF Touch
<1>2. Tables' /\ Kept
  BY <1>1, UsedTables DEF Touch
<1> QED
  BY <1>1, <1>2, AdmitKeyInv DEF Touch

LEMMA TouchFailsInv ==
    ASSUME Inv, NEW r \in Requests, TouchFails(r)
    PROVE  Inv'
<1> DEFINE f == [requests[r] EXCEPT !.failed = TRUE]
<1>1. /\ requests[r].cred \in KeyIds /\ keys[requests[r].cred] # NoRow
      /\ f \in Request /\ f.principal = Nobody /\ f.answer = "none" /\ f.shown = {} /\ ~f.late
  BY Pending DEF TouchFails
<1>2. Tables' /\ Kept
  BY <1>1, UsedTables, TablesUnchanged DEF TouchFails
<1>3. requests' = [requests EXCEPT ![r] = EnvValidate(f)]
  BY DEF TouchFails
<1> HIDE DEF f
<1> QED
  BY <1>1, <1>2, <1>3, EnvValidateInv

LEMMA JwtLookupInv ==
    ASSUME Inv, NEW r \in Requests, JwtLookup(r)
    PROVE  Inv'
<1> DEFINE j == requests[r].cred
           n == Admit(requests[r], JwtPrincipal(j))
<1>0. Tables' /\ Kept
  BY TablesUnchanged DEF JwtLookup
<1>1. /\ requests[r] \in Request /\ j \in Jwts /\ ~requests[r].late
      /\ requests[r].answer = "none" /\ requests[r].shown = {}
  BY Pending DEF JwtLookup
<1>2. CASE requests' = [requests EXCEPT ![r] = n]
  <2>1. /\ n \in Request /\ n.phase = "handler" /\ n.cred = j /\ ~n.late
        /\ n.answer = "none" /\ n.shown = {} /\ n.principal = JwtPrincipal(j)
    BY <1>1, PrincipalsTyped DEF Admit, Request, Phases, Inv, Tables
  <2>2. j # "env" /\ j \notin KeyIds /\ "super" \notin Orgs
    BY <1>1, NamesAssumption
  <2>3. requests'[r] = n
    BY <1>2 DEF Inv
  <2> HIDE DEF n
  <2>4. Progress(r)'
    BY <2>1, <2>2, <2>3 DEF Progress
  <2>5. Rightful(r)'
    BY <1>1, <2>1, <2>2, <2>3 DEF Rightful, Authority, IsSuperAdmin, JwtPrincipal
  <2> QED
    BY <1>0, <1>2, <2>1, <2>4, <2>5, StepInv DEF Sound
<1>3. CASE requests' = [requests EXCEPT ![r] = Answered("401", {})]
  BY <1>0, <1>3, FinishInv DEF Answers, Finish
<1> QED
  BY <1>2, <1>3 DEF JwtLookup

-----------------------------------------------------------------------------
(***************************************************************************)
(* Handlers                                                                *)
(***************************************************************************)
\* Answers that leave the tables as they are.
LEMMA ReadOnlyInv ==
    ASSUME Inv, NEW r \in Requests, NEW a \in Answers,
           Finish(r, a), UNCHANGED <<orgs, keys, root, acknowledged>>
    PROVE  Inv'
  BY TablesUnchanged, FinishInv

LEMMA ShownInv ==
    ASSUME Inv, NEW r \in Requests, NEW s \in SUBSET Orgs,
           requests' = [requests EXCEPT ![r] = Answered("200", s)],
           UNCHANGED <<orgs, keys, root, acknowledged>>
    PROVE  Inv'
  BY TablesUnchanged, AnsweredInv DEF Answers

LEMMA CommittedInv ==
    ASSUME Inv, Tables', Kept, NEW r \in Requests, Committed(r)
    PROVE  Inv'
  BY FinishInv DEF Committed, Answers

\* A request in a handler acts with no more than its credential's authority.
LEMMA HandlerRightful ==
    ASSUME Inv, NEW r \in Requests, requests[r].phase = "handler"
    PROVE  LET q == requests[r] IN
           /\ q \in Request
           /\ q.principal \in [org : Orgs \union {Absent}, scopes : SUBSET Scopes]
           /\ Authority(q.cred) \in Orgs \union {"super"}
           /\ IsSuperAdmin(q.principal) => Authority(q.cred) = "super"
           /\ Authority(q.cred) # "super" => q.principal.org = Authority(q.cred)
<1> DEFINE q == requests[r]
<1>1. /\ q \in Request /\ q.cred \in Creds
      /\ q.principal \in [org : Orgs \union {Absent}, scopes : SUBSET Scopes]
      /\ q.cred \in KeyIds => keys[q.cred] # NoRow
      /\ IsSuperAdmin(q.principal) => Authority(q.cred) = "super"
      /\ Authority(q.cred) \in Orgs => q.principal.org = Authority(q.cred)
  BY DEF Inv, Sound, Progress, Rightful, Request
<1>2. Authority(q.cred) \in Orgs \union {"super"}
  <2>1. CASE q.cred \in KeyIds
    <3>1. root[q.cred] \in Orgs \union {"super"} /\ q.cred \notin Jwts
      BY <1>1, <2>1, NamesAssumption DEF Inv, Tables, TablesTyped, Rooted
    <3> QED
      BY <2>1, <3>1 DEF Authority
  <2>2. CASE q.cred \in Jwts
    <3>1. q.cred \notin KeyIds /\ JwtOrg[q.cred] \in Orgs
      BY <2>2, NamesAssumption, JwtAssumption
    <3> QED
      BY <2>2, <3>1 DEF Authority, IsSuperAdmin
  <2>3. CASE q.cred \notin KeyIds /\ q.cred \notin Jwts
    BY <2>3 DEF Authority
  <2> QED
    BY <2>1, <2>2, <2>3
<1> QED
  BY <1>1, <1>2

LEMMA CreateOrganizationInv ==
    ASSUME Inv, NEW r \in Requests, NEW o \in Orgs, CreateOrganization(r, o)
    PROVE  Inv'
<1>1. CASE Refused(r)
  BY <1>1, ReadOnlyInv DEF Refused, Answers
<1>2. CASE Committed(r) /\ orgs' = orgs \union {o} /\ UNCHANGED <<keys, root, acknowledged>>
  <2>1. Tables' /\ Kept
    BY <1>2 DEF Inv, Tables, TablesTyped, NoEscalation, ParseScopes, Rooted,
                RevokedInTable, Kept, Rows, NoRow, Absent
  <2> QED
    BY <1>2, <2>1, CommittedInv
<1> QED
  BY <1>1, <1>2 DEF CreateOrganization

\* Only the super authority puts super_admin into a row.
LEMMA Granted ==
    ASSUME NEW body \in Bodies, NEW p
    PROVE  /\ GrantedScopes(p, body) \in SUBSET SUBSET Scopes
           /\ "super_admin" \in UNION GrantedScopes(p, body) => IsSuperAdmin(p)
<1>1. body \in SUBSET SUBSET Scopes
  BY BodiesAssumption
<1>2. NormalizeScopes(body) \in SUBSET SUBSET Scopes
  BY <1>1 DEF NormalizeScopes
<1>3. "super_admin" \notin UNION (NormalizeScopes(body) \ {{"super_admin"}})
  BY DEF NormalizeScopes
<1> QED
  BY <1>2, <1>3 DEF GrantedScopes

LEMMA CreateApiKeyInv ==
    ASSUME Inv, NEW r \in Requests, NEW k \in KeyIds, NEW o \in Orgs,
           NEW body \in Bodies, CreateApiKey(r, k, o, body)
    PROVE  Inv'
<1> DEFINE p == requests[r].principal
           c == requests[r].cred
           scopes == GrantedScopes(p, body)
           row == [org |-> o, scopes |-> scopes, used |-> FALSE, revoked |-> FALSE]
<1>1. CASE Refused(r)
  BY <1>1, ReadOnlyInv DEF Refused, Answers
<1>2. CASE ~CreateRefused(p, o, scopes)
  <2>1. /\ Committed(r) /\ keys' = [keys EXCEPT ![k] = row]
        /\ root' = [root EXCEPT ![k] = RootOf(c, o, scopes)]
        /\ UNCHANGED <<orgs, acknowledged>>
        /\ o \in orgs /\ (IsSuperAdmin(p) \/ o = p.org) /\ keys[k] = NoRow
    BY <1>2 DEF CreateApiKey, CreateRefused
  <2>2. /\ scopes \in SUBSET SUBSET Scopes
        /\ "super_admin" \in UNION scopes => IsSuperAdmin(p)
    BY Granted
  <2>3. /\ Authority(c) \in Orgs \union {"super"}
        /\ IsSuperAdmin(p) => Authority(c) = "super"
        /\ Authority(c) # "super" => p.org = Authority(c)
    BY HandlerRightful DEF CreateApiKey, InHandler
  <2> HIDE DEF scopes
  <2>4. /\ row \in Rows /\ row.org = o /\ row.scopes = scopes /\ ~row.revoked
        /\ o # Absent /\ "super" \notin Orgs /\ row # NoRow
    <3>1. o # Absent /\ "super" \notin Orgs
      BY NamesAssumption DEF Absent
    <3>2. row \in Rows
      BY <2>2 DEF Rows
    <3> QED
      BY <3>1, <3>2 DEF NoRow
  <2>5. /\ RootOf(c, o, scopes) \in Orgs \union {"super"}
        /\ RootOf(c, o, scopes) \in Orgs =>
              RootOf(c, o, scopes) = o /\ "super_admin" \notin UNION scopes
    BY <2>1, <2>2, <2>3, <2>4 DEF RootOf
  <2> HIDE DEF row
  <2>6. TablesTyped /\ NoEscalation /\ Rooted /\ RevokedInTable
    BY DEF Inv, Tables
  <2>7. /\ \A l \in KeyIds : keys'[l] = IF l = k THEN row ELSE keys[l]
        /\ \A l \in KeyIds : root'[l] = IF l = k THEN RootOf(c, o, scopes) ELSE root[l]
        /\ keys' \in [KeyIds -> Rows]
        /\ root' \in [KeyIds -> Orgs \union {"super", Absent}]
        /\ k \notin acknowledged /\ acknowledged \subseteq KeyIds
    BY <2>1, <2>4, <2>5, <2>6 DEF TablesTyped
  <2>8. TablesTyped'
    <3>1. \A l \in KeyIds : keys'[l] # NoRow => keys'[l].org \in orgs
      BY <2>1, <2>4, <2>6, <2>7 DEF TablesTyped
    <3>2. acknowledged \subseteq {l \in KeyIds : keys'[l] # NoRow}
      BY <2>6, <2>7 DEF TablesTyped
    <3> QED
      BY <2>1, <2>6, <2>7, <3>1, <3>2 DEF TablesTyped, Rows, NoRow, Absent
  <2>9. NoEscalation'
    <3>1. ASSUME NEW l \in KeyIds, root'[l] \in Orgs
          PROVE  keys'[l].org = root'[l] /\ "super_admin" \notin ParseScopes(keys'[l].scopes)
      <4>1. CASE l = k
        BY <2>4, <2>5, <2>7, <3>1, <4>1 DEF ParseScopes
      <4>2. CASE l # k
        BY <2>6, <2>7, <3>1, <4>2 DEF NoEscalation
      <4> QED
        BY <4>1, <4>2
    <3> QED
      BY <3>1 DEF NoEscalation, ParseScopes
  <2>10. Rooted'
    <3>1. RootOf(c, o, scopes) # Absent
      BY <2>5, NamesAssumption DEF Absent
    <3>2. \A l \in KeyIds : root'[l] = Absent <=> keys'[l] = NoRow
      BY <2>4, <2>6, <2>7, <3>1 DEF Rooted
    <3> QED
      BY <3>2 DEF Rooted, NoRow, Absent
  <2>11. RevokedInTable' /\ Kept
    BY <2>1, <2>6, <2>7 DEF RevokedInTable, Kept
  <2> QED
    BY <2>1, <2>8, <2>9, <2>10, <2>11, CommittedInv DEF Tables
<1> QED
  BY <1>1, <1>2 DEF CreateApiKey

LEMMA RevokeApiKeyInv ==
    ASSUME Inv, NEW r \in Requests, NEW k \in KeyIds, RevokeApiKey(r, k)
    PROVE  Inv'
<1>1. CASE Refused(r)
  BY <1>1, ReadOnlyInv DEF Refused, Answers
<1>2. CASE ~Refused(r)
  <2>1. /\ keys[k] # NoRow /\ Committed(r) /\ keys' = [keys EXCEPT ![k].revoked = TRUE]
        /\ acknowledged' = acknowledged \/ acknowledged' = acknowledged \union {k}
        /\ UNCHANGED <<orgs, root>>
    BY <1>2 DEF RevokeApiKey
  <2>2. Tables' /\ Kept
    BY <2>1, RevokedTables
  <2> QED
    BY <2>1, <2>2, CommittedInv
<1> QED
  BY <1>1, <1>2

\* The organisations a list of keys names: rows of the tenant, or of any
\* organisation for a super_admin.
LEMMA ListedOrgs ==
    ASSUME Inv, NEW r \in Requests, NEW o \in Orgs \union {Absent}, NEW b \in BOOLEAN,
           ListApiKeys(r, o, b)
    PROVE  \E s \in SUBSET Orgs :
              /\ requests' = [requests EXCEPT ![r] = Answered("200", s)]
              /\ IsSuperAdmin(requests[r].principal)
                    \/ requests[r].principal.org = Absent
                    \/ s \subseteq {requests[r].principal.org}
<1> DEFINE p == requests[r].principal
           org == IF IsSuperAdmin(p) THEN o ELSE p.org
           items == {k \in KeyIds : /\ keys[k] # NoRow
                                    /\ org \in {Absent, keys[k].org}
                                    /\ b \/ ~keys[k].revoked}
           s == {keys[k].org : k \in items}
<1>1. requests' = [requests EXCEPT ![r] = Answered("200", s)]
  BY DEF ListApiKeys
<1>2. \A k \in items : /\ k \in KeyIds /\ keys[k] # NoRow
                       /\ org = Absent \/ org = keys[k].org
  OBVIOUS
<1> HIDE DEF items
<1>3. s \in SUBSET Orgs
  BY <1>2 DEF Inv, Tables, TablesTyped
<1>4. IsSuperAdmin(p) \/ p.org = Absent \/ s \subseteq {p.org}
  BY <1>2
<1> HIDE DEF s
<1> QED
  BY <1>1, <1>3, <1>4

\* The same of the organisations a usage report or a page of audit rows is
\* about.
LEMMA LoggedOrgs ==
    ASSUME Inv, NEW r \in Requests, NEW logged \in SUBSET orgs,
           NEW k \in KeyIds \union {Absent},
           GetUsage(r, logged) \/ ListAuditLogs(r, logged, k)
    PROVE  \/ Refused(r)
           \/ /\ UNCHANGED <<orgs, keys, root, acknowledged>>
              /\ \E s \in SUBSET Orgs :
                    /\ requests' = [requests EXCEPT ![r] = Answered("200", s)]
                    /\ IsSuperAdmin(requests[r].principal)
                          \/ s \subseteq {requests[r].principal.org}
<1> DEFINE p == requests[r].principal
           ofKey == IF k = Absent THEN Orgs ELSE {keys[k].org}
           s == InScope(p, logged)
<1>1. s \in SUBSET Orgs /\ (IsSuperAdmin(p) \/ s \subseteq {p.org})
  BY DEF InScope, Inv, Tables, TablesTyped
<1>2. CASE GetUsage(r, logged)
  <2>1. \/ Refused(r)
        \/ /\ requests' = [requests EXCEPT ![r] = Answered("200", s)]
           /\ UNCHANGED <<orgs, keys, root, acknowledged>>
    BY <1>2 DEF GetUsage
  <2> HIDE DEF s
  <2> QED
    BY <1>1, <2>1
<1>3. CASE ListAuditLogs(r, logged, k)
  <2>1. \/ Refused(r)
        \/ /\ requests' = [requests EXCEPT ![r] = Answered("200", s \intersect ofKey)]
           /\ UNCHANGED <<orgs, keys, root, acknowledged>>
    BY <1>3 DEF ListAuditLogs
  <2> HIDE DEF s, ofKey
  <2>2. /\ s \intersect ofKey \in SUBSET Orgs
        /\ IsSuperAdmin(p) \/ s \intersect ofKey \subseteq {p.org}
    BY <1>1
  <2> QED
    BY <2>1, <2>2
<1> QED
  BY <1>2, <1>3

-----------------------------------------------------------------------------
(***************************************************************************)
(* The inductive invariant                                                 *)
(***************************************************************************)
LEMMA InitInv == Init => Inv
<1> SUFFICES ASSUME Init PROVE Inv
  OBVIOUS
<1>1. NoRow \in Rows
  BY DEF NoRow, Rows
<1>2. TablesTyped
  BY <1>1 DEF Init, TablesTyped
<1>3. NoEscalation /\ Rooted /\ RevokedInTable
  BY NamesAssumption DEF Init, NoEscalation, Rooted, RevokedInTable, Absent
<1>4. Answered("none", {}) \in Request
  BY AnsweredTyped DEF Answers
<1>5. \A r \in Requests : Sound(r)
  BY DEF Init, Sound, Progress, Answered
<1> QED
  BY <1>2, <1>3, <1>4, <1>5 DEF Init, Inv, Tables

LEMMA StutterInv ==
    ASSUME Inv, UNCHANGED vars
    PROVE  Inv'
<1>1. UNCHANGED <<orgs, keys, root, acknowledged>> /\ requests' = requests
  BY DEF vars
<1>2. Tables'
  BY <1>1, TablesUnchanged
<1>3. \A r \in Requests : Sound(r)'
  BY <1>1 DEF Inv, Sound, Progress, Rightful, Authority, IsSuperAdmin, EnvPrincipal,
              JwtPrincipal, Nobody, NoRow, Absent
<1> QED
  BY <1>1, <1>2, <1>3 DEF Inv, Request, Phases, Creds, Answers, Absent

\* The step of one request.
StepOf(r) ==
    \/ \E c \in Creds : Arrive(r, c)
    \/ Lookup(r) \/ LookupFails(r) \/ Touch(r) \/ TouchFails(r)
    \/ JwtLookup(r) \/ QueryFails(r)
    \/ \E s \in {"chat", "admin"} : MissingScope(r, s)
    \/ Chat(r)
    \/ \E o \in Orgs : CreateOrganization(r, o)
    \/ \E k \in KeyIds, o \in Orgs, b \in Bodies : CreateApiKey(r, k, o, b)
    \/ \E k \in KeyIds : RevokeApiKey(r, k)
    \/ \E o \in Orgs \union {Absent}, b \in BOOLEAN : ListApiKeys(r, o, b)
    \/ \E logged \in SUBSET orgs :
          \/ GetUsage(r, logged)
          \/ \E k \in KeyIds \union {Absent} : ListAuditLogs(r, logged, k)

LEMMA NextInv == Inv /\ [Next]_vars => Inv'
<1> SUFFICES ASSUME Inv, [Next]_vars PROVE Inv'
  OBVIOUS
<1>1. CASE UNCHANGED vars
  BY <1>1, StutterInv
<1>2. CASE Next
  <2> PICK r \in Requests : StepOf(r)
    BY <1>2 DEF Next, StepOf
  <2>1. CASE \E c \in Creds : Arrive(r, c)
    BY <2>1, ArriveInv
  <2>2. CASE Lookup(r) \/ LookupFails(r) \/ Touch(r) \/ TouchFails(r) \/ JwtLookup(r)
    BY <2>2, LookupInv, LookupFailsInv, TouchInv, TouchFailsInv, JwtLookupInv
  <2>3. CASE QueryFails(r) \/ Chat(r) \/ \E s \in {"chat", "admin"} : MissingScope(r, s)
    <3>1. /\ \E a \in Answers : Finish(r, a)
          /\ UNCHANGED <<orgs, keys, root, acknowledged>>
      BY <2>3 DEF QueryFails, Chat, MissingScope, Finish, Answers
    <3> QED
      BY <3>1, ReadOnlyInv
  <2>4. CASE \E o \in Orgs : CreateOrganization(r, o)
    BY <2>4, CreateOrganizationInv
  <2>5. CASE \E k \in KeyIds, o \in Orgs, b \in Bodies : CreateApiKey(r, k, o, b)
    BY <2>5, CreateApiKeyInv
  <2>6. CASE \E k \in KeyIds : RevokeApiKey(r, k)
    BY <2>6, RevokeApiKeyInv
  <2>7. CASE \E o \in Orgs \union {Absent}, b \in BOOLEAN : ListApiKeys(r, o, b)
    <3>1. UNCHANGED <<orgs, keys, root, acknowledged>>
      BY <2>7 DEF ListApiKeys
    <3>2. \E s \in SUBSET Orgs : requests' = [requests EXCEPT ![r] = Answered("200", s)]
      BY <2>7, ListedOrgs
    <3> QED
      BY <3>1, <3>2, ShownInv
  <2>8. CASE \E logged \in SUBSET orgs :
                \/ GetUsage(r, logged)
                \/ \E k \in KeyIds \union {Absent} : ListAuditLogs(r, logged, k)
    <3>1. \/ Refused(r)
          \/ /\ UNCHANGED <<orgs, keys, root, acknowledged>>
             /\ \E s \in SUBSET Orgs : requests' = [requests EXCEPT ![r] = Answered("200", s)]
      BY <2>8, LoggedOrgs
    <3> QED
      BY <3>1, ShownInv, ReadOnlyInv DEF Refused, Answers
  <2> QED
    BY <2>1, <2>2, <2>3, <2>4, <2>5, <2>6, <2>7, <2>8 DEF StepOf
<1> QED
  BY <1>1, <1>2

LEMMA InvAlways == Spec => []Inv
  BY InitInv, NextInv, PTL DEF Spec

-----------------------------------------------------------------------------
(***************************************************************************)
(* What a step may do                                                      *)
(***************************************************************************)
\* Authentication shows nothing, and answers 401 to no environment key.
LEMMA Validated ==
    ASSUME NEW q \in Request, q.answer = "none", q.shown = {}, NEW p
    PROVE  /\ Admit(q, p).answer = "none" /\ Admit(q, p).shown = {}
           /\ TryJwt(q).shown = {} /\ EnvValidate(q).shown = {}
           /\ EnvValidate(q).answer = "401" =>
                 q.cred # "env" /\ EnvValidate(q).failed = q.failed
<1>1. \A x : Admit(q, x).answer = "none" /\ Admit(q, x).shown = {}
  BY DEF Admit, Request
<1>2. TryJwt(q).shown = {} /\ (TryJwt(q).answer = "401" => TryJwt(q).failed = q.failed)
  BY DEF TryJwt, Answered, Request
<1> QED
  BY <1>1, <1>2 DEF EnvValidate

\* The other requests do not notice.
LEMMA OthersUnchanged ==
    ASSUME Inv, NEW r \in Requests, StepOf(r), NEW s \in Requests, s # r
    PROVE  requests'[s] = requests[s]
<1>0. requests \in [Requests -> Request]
  BY DEF Inv
<1>1. CASE \E c \in Creds : Arrive(r, c)
  BY <1>0, <1>1 DEF Arrive
<1>2. CASE Lookup(r)
  BY <1>0, <1>2 DEF Lookup
<1>3. CASE LookupFails(r) \/ Touch(r) \/ TouchFails(r) \/ JwtLookup(r) \/ QueryFails(r)
  BY <1>0, <1>3 DEF LookupFails, Touch, TouchFails, JwtLookup, QueryFails
<1>4. ASSUME \E a : Finish(r, a) PROVE requests'[s] = requests[s]
  BY <1>0, <1>4 DEF Finish
<1>5. CASE Chat(r) \/ \E x \in {"chat", "admin"} : MissingScope(r, x)
  BY <1>4, <1>5 DEF Chat, MissingScope
<1>6. CASE \E o \in Orgs : CreateOrganization(r, o)
  BY <1>4, <1>6 DEF CreateOrganization, Refused, Committed
<1>7. CASE \E k \in KeyIds, o \in Orgs, b \in Bodies : CreateApiKey(r, k, o, b)
  BY <1>4, <1>7 DEF CreateApiKey, Refused, Committed
<1>8. CASE \E k \in KeyIds : RevokeApiKey(r, k)
  BY <1>4, <1>8 DEF RevokeApiKey, Refused, Committed
<1>9. CASE \E o \in Orgs \union {Absent}, b \in BOOLEAN : ListApiKeys(r, o, b)
  BY <1>0, <1>9 DEF ListApiKeys
<1>10. CASE \E logged \in SUBSET orgs :
              \/ GetUsage(r, logged)
              \/ \E k \in KeyIds \union {Absent} : ListAuditLogs(r, logged, k)
  BY <1>0, <1>4, <1>10 DEF GetUsage, ListAuditLogs, Refused
<1> QED
  BY <1>1, <1>2, <1>3, <1>5, <1>6, <1>7, <1>8, <1>9, <1>10 DEF StepOf

\* Authentication shows nothing, and has a cause for its 401.
LEMMA AuthResult ==
    ASSUME Inv, NEW r \in Requests,
           Lookup(r) \/ LookupFails(r) \/ Touch(r) \/ TouchFails(r) \/ JwtLookup(r)
    PROVE  /\ requests'[r].shown = {}
           /\ requests'[r].answer = "401" =>
                 /\ requests[r].cred # "env"
                 /\ Found(requests[r].cred) => requests'[r].failed
<1> DEFINE q == requests[r]
           f == [requests[r] EXCEPT !.failed = TRUE]
<1>0. requests \in [Requests -> Request]
  BY DEF Inv
<1>1. /\ q \in Request /\ q.answer = "none" /\ q.shown = {}
      /\ f \in Request /\ f.answer = "none" /\ f.shown = {}
      /\ f.cred = q.cred /\ f.failed
      /\ q.phase = "jwt" => q.cred \in Jwts
  BY Pending DEF Lookup, LookupFails, Touch, TouchFails, JwtLookup
<1> HIDE DEF f
<1>2. CASE Lookup(r)
  <2>1. CASE ~Found(q.cred)
    <3>1. requests'[r] = EnvValidate(q)
      BY <1>0, <1>2, <2>1 DEF Lookup
    <3> QED
      BY <1>1, <2>1, <3>1, Validated
  <2>2. CASE Found(q.cred)
    <3>1. \/ requests'[r] = [q EXCEPT !.phase = "touch"]
          \/ requests'[r] = Admit(q, KeyPrincipal(q.cred))
      BY <1>0, <1>2, <2>2 DEF Lookup
    <3>2. [q EXCEPT !.phase = "touch"].shown = {} /\ [q EXCEPT !.phase = "touch"].answer = "none"
      BY <1>1 DEF Request
    <3> QED
      BY <1>1, <3>1, <3>2, Validated
  <2> QED
    BY <2>1, <2>2
<1>3. CASE LookupFails(r) \/ TouchFails(r)
  <2>1. requests'[r] = EnvValidate(f)
    BY <1>0, <1>3 DEF LookupFails, TouchFails, f
  <2> QED
    BY <1>1, <2>1, Validated
<1>4. CASE Touch(r)
  <2>1. requests'[r] = Admit(q, KeyPrincipal(q.cred))
    BY <1>0, <1>4 DEF Touch
  <2> QED
    BY <1>1, <2>1, Validated
<1>5. CASE JwtLookup(r)
  <2>1. \/ requests'[r] = Admit(q, JwtPrincipal(q.cred))
        \/ requests'[r] = Answered("401", {})
    BY <1>0, <1>5 DEF JwtLookup
  <2>2. q.cred # "env" /\ ~Found(q.cred)
    BY <1>1, <1>5, NamesAssumption DEF JwtLookup, Found
  <2>3. Answered("401", {}).shown = {}
    BY DEF Answered
  <2> QED
    BY <1>1, <2>1, <2>2, <2>3, Validated
<1> QED
  BY <1>2, <1>3, <1>4, <1>5

LEMMA StepCaused ==
    ASSUME Inv, NEW r \in Requests, StepOf(r),
           requests[r].phase # "idle", requests'[r].answer = "401"
    PROVE  /\ requests[r].cred # "env"
           /\ Found(requests[r].cred) => requests[r].phase = "handler" \/ requests'[r].failed
<1>0. requests \in [Requests -> Request]
  BY DEF Inv
<1>1. CASE Lookup(r) \/ LookupFails(r) \/ Touch(r) \/ TouchFails(r) \/ JwtLookup(r)
  BY <1>1, AuthResult
<1>2. CASE \E x \in {"chat", "admin"} : MissingScope(r, x)
  <2>1. requests[r].phase = "handler" /\ ~({"chat", "admin"} \subseteq requests[r].principal.scopes)
    BY <1>2 DEF MissingScope
  <2>2. requests[r].cred = "env" => requests[r].principal = EnvPrincipal
    BY <2>1 DEF Inv, Sound, Rightful
  <2> QED
    BY <2>1, <2>2 DEF EnvPrincipal
<1>3. \A a, x : Answered(a, x).answer = a
  BY DEF Answered
<1>4. ASSUME \E a \in {"200", "4xx", "500"} :
                \E x : requests' = [requests EXCEPT ![r] = Answered(a, x)]
      PROVE  FALSE
  BY <1>0, <1>3, <1>4
<1>5. CASE QueryFails(r) \/ Chat(r)
  BY <1>4, <1>5 DEF QueryFails, Chat, Finish
<1>6. CASE \E o \in Orgs : CreateOrganization(r, o)
  BY <1>4, <1>6 DEF CreateOrganization, Refused, Committed, Finish
<1>7. CASE \E k \in KeyIds, o \in Orgs, b \in Bodies : CreateApiKey(r, k, o, b)
  BY <1>4, <1>7 DEF CreateApiKey, Refused, Committed, Finish
<1>8. CASE \E k \in KeyIds : RevokeApiKey(r, k)
  BY <1>4, <1>8 DEF RevokeApiKey, Refused, Committed, Finish
<1>9. CASE \E o \in Orgs \union {Absent}, b \in BOOLEAN : ListApiKeys(r, o, b)
  BY <1>4, <1>9 DEF ListApiKeys
<1>10. CASE \E logged \in SUBSET orgs :
              \/ GetUsage(r, logged)
              \/ \E k \in KeyIds \union {Absent} : ListAuditLogs(r, logged, k)
  BY <1>4, <1>10 DEF GetUsage, ListAuditLogs, Refused, Finish
<1>11. CASE \E c \in Creds : Arrive(r, c)
  BY <1>11 DEF Arrive
<1> QED
  BY <1>1, <1>2, <1>5, <1>6, <1>7, <1>8, <1>9, <1>10, <1>11 DEF StepOf

LEMMA StepIsolated ==
    ASSUME Inv, NEW r \in Requests, StepOf(r)
    PROVE  /\ \A o \in requests'[r].shown : Reaches(r, o)
           /\ \A k \in KeyIds :
                 \/ keys'[k] = keys[k]
                 \/ requests[r].phase = "touch" /\ requests[r].cred = k
                 \/ Reaches(r, keys'[k].org)
<1>0. requests \in [Requests -> Request] /\ keys \in [KeyIds -> Rows]
  BY DEF Inv, Tables, TablesTyped
<1>1. CASE Lookup(r) \/ LookupFails(r) \/ Touch(r) \/ TouchFails(r) \/ JwtLookup(r)
  <2>1. requests'[r].shown = {}
    BY <1>1, AuthResult
  <2>2. CASE Lookup(r) \/ LookupFails(r) \/ JwtLookup(r)
    BY <2>1, <2>2 DEF Lookup, LookupFails, JwtLookup
  <2>3. CASE Touch(r) \/ TouchFails(r)
    BY <1>0, <2>1, <2>3 DEF Touch, TouchFails
  <2> QED
    BY <1>1, <2>1, <2>2, <2>3
<1>2. CASE \E c \in Creds : Arrive(r, c)
  <2> PICK c \in Creds : Arrive(r, c)
    BY <1>2
  <2> DEFINE q == [Answered("none", {}) EXCEPT !.cred = c, !.late = c \in acknowledged]
  <2>1. requests'[r] = (IF "api_key" \in AuthMode THEN [q EXCEPT !.phase = "lookup"] ELSE TryJwt(q))
    BY <1>0 DEF Arrive
  <2>2. requests'[r].shown = {}
    BY <2>1 DEF TryJwt, Answered
  <2> QED
    BY <2>2 DEF Arrive
<1>3. ASSUME NEW a, Finish(r, a) PROVE requests'[r].shown = {}
  BY <1>0, <1>3 DEF Finish, Answered
<1>4. CASE QueryFails(r) \/ Chat(r) \/ \E x \in {"chat", "admin"} : MissingScope(r, x)
  BY <1>3, <1>4 DEF QueryFails, Chat, MissingScope, Finish
<1>5. CASE Refused(r)
  BY <1>3, <1>5 DEF Refused
<1>6. CASE \E o \in Orgs : CreateOrganization(r, o)
  BY <1>3, <1>5, <1>6 DEF CreateOrganization, Committed
<1>7. ASSUME requests[r].phase = "handler"
      PROVE  \A o \in Orgs :
                IsSuperAdmin(requests[r].principal) \/ o = requests[r].principal.org =>
                   Reaches(r, o)
  BY <1>7, HandlerRightful DEF Reaches
<1>8. CASE \E k \in KeyIds, o \in Orgs, b \in Bodies : CreateApiKey(r, k, o, b)
  <2> PICK k \in KeyIds, o \in Orgs, b \in Bodies : CreateApiKey(r, k, o, b)
    BY <1>8
  <2>1. CASE ~Refused(r)
    <3>1. /\ requests'[r].shown = {} /\ requests[r].phase = "handler"
          /\ IsSuperAdmin(requests[r].principal) \/ o = requests[r].principal.org
          /\ \A l \in KeyIds : l # k => keys'[l] = keys[l]
          /\ keys'[k].org = o
      BY <1>0, <1>3, <2>1 DEF CreateApiKey, InHandler, CreateRefused, Committed
    <3> QED
      BY <1>7, <3>1
  <2> QED
    BY <1>5, <2>1
<1>9. CASE \E k \in KeyIds : RevokeApiKey(r, k)
  <2> PICK k \in KeyIds : RevokeApiKey(r, k)
    BY <1>9
  <2>1. CASE ~Refused(r)
    <3>1. /\ requests'[r].shown = {} /\ requests[r].phase = "handler"
          /\ keys[k] # NoRow
          /\ IsSuperAdmin(requests[r].principal) \/ keys[k].org = requests[r].principal.org
          /\ keys' = [keys EXCEPT ![k].revoked = TRUE]
      BY <1>3, <2>1 DEF RevokeApiKey, InHandler, Committed
    <3>2. /\ \A l \in KeyIds : l # k => keys'[l] = keys[l]
          /\ keys'[k].org = keys[k].org
      BY <1>0, <3>1 DEF Rows
    <3>3. keys[k].org \in Orgs
      BY <3>1 DEF Inv, Tables, TablesTyped
    <3> QED
      BY <1>7, <3>1, <3>2, <3>3
  <2> QED
    BY <1>5, <2>1
<1>10. ASSUME NEW x \in SUBSET Orgs, requests[r].phase = "handler",
              requests' = [requests EXCEPT ![r] = Answered("200", x)], keys' = keys,
              \/ IsSuperAdmin(requests[r].principal)
              \/ requests[r].principal.org = Absent
              \/ x \subseteq {requests[r].principal.org}
       PROVE  /\ \A o \in requests'[r].shown : Reaches(r, o)
              /\ \A k \in KeyIds : keys'[k] = keys[k]
  <2>1. requests'[r].shown = x
    BY <1>0, <1>10 DEF Answered
  <2>2. requests[r].principal.org = Absent => Authority(requests[r].cred) = "super"
    BY <1>10, HandlerRightful, NamesAssumption DEF Absent
  <2> QED
    BY <1>7, <1>10, <2>1, <2>2 DEF Reaches
<1>11. CASE \E o \in Orgs \union {Absent}, b \in BOOLEAN : ListApiKeys(r, o, b)
  <2>1. requests[r].phase = "handler" /\ keys' = keys
    BY <1>11 DEF ListApiKeys, InHandler
  <2> QED
    BY <1>10, <1>11, <2>1, ListedOrgs
<1>12. CASE \E logged \in SUBSET orgs :
               \/ GetUsage(r, logged)
               \/ \E k \in KeyIds \union {Absent} : ListAuditLogs(r, logged, k)
  <2>1. requests[r].phase = "handler"
    BY <1>12 DEF GetUsage, ListAuditLogs, InHandler
  <2> QED
    BY <1>5, <1>10, <1>12, <2>1, LoggedOrgs
<1> QED
  BY <1>1, <1>2, <1>4, <1>6, <1>8, <1>9, <1>11, <1>12 DEF StepOf

-----------------------------------------------------------------------------
(***************************************************************************)
(* Theorems                                                                *)
(***************************************************************************)
\* The tables and the requests keep their types, and the organisation of a
\* key exists.
THEOREM TypeCorrect == Spec => []TypeOK
<1>1. Inv => TypeOK
  BY DEF Inv, Tables, TablesTyped, TypeOK, Request
<1> QED
  BY <1>1, InvAlways, PTL

\* However long the chain of keys that make keys, create_api_key never lets
\* one that began in an organisation leave it or reach super_admin.
THEOREM ChainsStayInside == Spec => []NoEscalation
<1>1. Inv => NoEscalation
  BY DEF Inv, Tables
<1> QED
  BY <1>1, InvAlways, PTL

\* What arrives after revoke_api_key answered 200 gets no principal from the
\* key, also if last_used_at of that key is being written meanwhile.
THEOREM RevocationHolds == Spec => []RevocationEffective
<1>1. Inv => RevocationEffective
  BY DEF Inv, Sound, Progress, RevocationEffective
<1> QED
  BY <1>1, InvAlways, PTL

\* A request changes, and is shown, only what belongs to the organisation
\* that its credential descends from, or descends from the super authority.
THEOREM Isolation == Spec => OrgIsolation
<1> DEFINE Isolated ==
      \A r \in Requests : requests'[r] # requests[r] =>
         /\ \A o \in requests'[r].shown : Reaches(r, o)
         /\ \A k \in KeyIds :
               \/ keys'[k] = keys[k]
               \/ requests[r].phase = "touch" /\ requests[r].cred = k
               \/ Reaches(r, keys'[k].org)
<1>1. Inv /\ [Next]_vars => [Isolated]_vars
  <2> SUFFICES ASSUME Inv, Next PROVE Isolated
    OBVIOUS
  <2>1. PICK a \in Requests : StepOf(a)
    BY DEF Next, StepOf
  <2> QED
    BY <2>1, OthersUnchanged, StepIsolated
<1> QED
  BY <1>1, InvAlways, PTL DEF Spec, OrgIsolation

\* A 401 has a cause: never for an environment key, and for a key that is
\* valid only a failed database call of that request or a missing scope.
THEOREM CausedRefusals == Spec => RefusedForCause
<1> DEFINE Caused ==
      \A r \in Requests :
         LET q == requests[r] IN
         (q.phase # "idle" /\ requests'[r].answer = "401") =>
            /\ "api_key" \in AuthMode => q.cred # "env"
            /\ (Found(q.cred) /\ "api_key" \in AuthMode) =>
                  q.phase = "handler" \/ requests'[r].failed
<1>1. Inv /\ [Next]_vars => [Caused]_vars
  <2> SUFFICES ASSUME Inv, Next PROVE Caused
    OBVIOUS
  <2>1. PICK a \in Requests : StepOf(a)
    BY DEF Next, StepOf
  <2>2. \A r \in Requests : requests[r].phase # "idle" => requests[r].answer # "401"
    BY DEF Inv, Sound, Progress
  <2> QED
    BY <2>1, <2>2, OthersUnchanged, StepCaused
<1> QED
  BY <1>1, InvAlways, PTL DEF Spec, RefusedForCause
=============================================================================
