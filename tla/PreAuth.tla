-------------------------------- MODULE PreAuth --------------------------------
(***************************************************************************)
(* app/middleware.py: PreAuthRateLimitMiddleware, over the in-memory bucket *)
(* (MemoryBucket) of one client address and client_ip (ClientAddress).     *)
(*                                                                         *)
(* dispatch looks at the bucket with preview, lets the whole request run,  *)
(* and charges the bucket with allow only if the answer was a 401: between *)
(* the two calls any number of other requests of the address do the same.  *)
(* A connection serves one request after the other.                        *)
(***************************************************************************)
EXTENDS MemoryBucket, ClientAddress, FiniteSets

CONSTANTS
    Connections,  \* requests that run at once
    Subject,      \* the address whose bucket this is
    Forgeries,    \* X-Forwarded-For lines a client may send itself
    Chains        \* trusted proxies a request may pass before the last one

ASSUME ConnectionsAssumption == IsFiniteSet(Connections)
ASSUME SubjectAssumption == Subject \in Addresses \ TrustedProxies

\* The entries of several lines as one line.
Joined(lines) ==
    LET upTo[n \in 0..Len(lines)] == IF n = 0 THEN <<>> ELSE upTo[n - 1] \o lines[n]
    IN  upTo[Len(lines)]

ASSUME HeaderAssumption ==
    /\ \A sent \in Forgeries : sent \in Seq(Seq(Texts)) /\ Joined(sent) \in Seq(Texts)
    /\ Chains \subseteq Seq(TrustedProxies)

VARIABLES
    pc,       \* pc[c]: "idle", or "inside" call_next
    key,      \* key[c]: client_ip of its request while that is inside
    origin,   \* origin[c]: the address that really came from (history)
    masked,   \* those whose first line is the client's alone (history)
    exposed,  \* inside, and a token was taken since their preview (history)
    overrun   \* 401s the bucket had no token for (history)

dispatchVars == <<pc, key, origin, masked, exposed, overrun>>
preAuthVars == <<bucketVars, dispatchVars>>

PreAuthInit ==
    /\ Init
    /\ pc = [c \in Connections |-> "idle"]
    /\ key = [c \in Connections |-> Subject]
    /\ origin = [c \in Connections |-> Subject]
    /\ masked = {}
    /\ exposed = {}
    /\ overrun = 0

\* Time passes while requests run.
Wait == Tick /\ UNCHANGED dispatchVars

\* A proxy records the address it was called from: it joins all lines it was
\* sent and appends to them, or it adds a line.  Of the proxies of a request
\* the n-th is the last that joined; if none did (n = 0), the client's own
\* lines stay in front.
OwnLines(entries) == [i \in DOMAIN entries |-> <<entries[i]>>]
Header(from, sent, chain, n) ==
    IF n = 0
    THEN sent \o OwnLines(<<from>> \o chain)
    ELSE <<(Joined(sent) \o <<from>>) \o SubSeq(chain, 1, n - 1)>>
             \o OwnLines(SubSeq(chain, n, Len(chain)))

\* The request comes straight to the service or, where X-Forwarded-For is
\* trusted, through a chain of proxies, the last of which is the peer.
Peers == IF TrustForwardedFor THEN TrustedProxies ELSE {}
Through(peer, from, sent, chain) ==
    {[peer |-> peer, lines |-> Header(from, sent, chain, n),
      masked |-> n = 0 /\ sent # <<>>] : n \in 0..Len(chain) + 1}
Hops(from, sent) ==
    {[peer |-> from, lines |-> sent, masked |-> FALSE]} \union
    UNION {Through(p, from, sent, chain) : p \in Peers, chain \in Chains}

\* dispatch calls call_next, with ip in a local variable that is gone when the
\* request is over.
Enter(c, ip, from, mask) ==
    /\ pc' = [pc EXCEPT ![c] = "inside"]
    /\ key' = [key EXCEPT ![c] = ip]
    /\ origin' = [origin EXCEPT ![c] = from]
    /\ masked' = IF mask THEN masked \union {c} ELSE masked
Leave(c) ==
    /\ pc' = [pc EXCEPT ![c] = "idle"]
    /\ key' = [key EXCEPT ![c] = Subject]
    /\ origin' = [origin EXCEPT ![c] = Subject]
    /\ masked' = masked \ {c}

ArriveUnchecked(c, from, sent) ==
    \E hop \in Hops(from, sent) :
       LET ip == ClientIp(hop.peer, hop.lines) IN
       /\ pc[c] = "idle"
       /\ IF ip = Subject THEN Preview ELSE UNCHANGED bucketVars
       /\ Enter(c, ip, from, hop.masked)
       /\ UNCHANGED <<exposed, overrun>>
\* dispatch up to call_next: the preview, and 429 if the bucket has no token.
\* Other addresses have buckets of their own.
Arrive(c, from, sent) ==
    \E hop \in Hops(from, sent) :
       LET ip == ClientIp(hop.peer, hop.lines) IN
       /\ pc[c] = "idle"
       /\ IF ip = Subject THEN Preview ELSE UNCHANGED bucketVars
       /\ IF ip = Subject /\ answer' = "shut"
          THEN UNCHANGED <<pc, key, origin, masked>>
          ELSE Enter(c, ip, from, hop.masked)
       /\ UNCHANGED <<exposed, overrun>>

\* The request ends with anything but a 401, or is cancelled.
Pass(c) ==
    /\ pc[c] = "inside"
    /\ Leave(c)
    /\ exposed' = exposed \ {c}
    /\ UNCHANGED <<bucketVars, overrun>>

\* The requests of the subject's address that are under way.
Inside == {c \in Connections : pc[c] = "inside" /\ key[c] = Subject}

\* dispatch after a 401: allow; the 401 is turned into a 429 if it is refused.
Charge(c) ==
    /\ pc[c] = "inside"
    /\ Leave(c)
    /\ IF key[c] = Subject
       THEN /\ Allow
            /\ IF answer' = "granted"
               THEN exposed' = Inside \ {c} /\ UNCHANGED overrun
               ELSE exposed' = exposed \ {c} /\ overrun' = overrun + 1
       ELSE UNCHANGED <<bucketVars, exposed, overrun>>

PreAuthNext ==
    \/ Wait
    \/ \E c \in Connections :
          \/ \E from \in Addresses \ TrustedProxies, sent \in Forgeries :
                Arrive(c, from, sent)
          \/ Pass(c)
          \/ Charge(c)

PreAuthSpec == PreAuthInit /\ [][PreAuthNext]_preAuthVars

-----------------------------------------------------------------------------
\* The dispatch variables have their types and only requests of the subject
\* that are under way are exposed.
PreAuthTypeOK ==
    /\ TypeOK
    /\ pc \in [Connections -> {"idle", "inside"}]
    /\ key \in [Connections -> Addresses]
    /\ origin \in [Connections -> Addresses]
    /\ masked \subseteq Connections
    /\ exposed \subseteq Inside
    /\ overrun \in Nat

\* A failed login is charged to the address it came from, whatever
\* X-Forwarded-For lines the client sends and whether or not proxies are in
\* between (client_ip), as long as a proxy that adds a line of its own has one
\* behind it that joins.  client_ip reads the first line only: a request whose
\* first line is still the client's alone is charged to what that line says.
ChargedToOrigin == \A c \in Connections \ masked : key[c] = origin[c]

\* preview and allow are two calls (dispatch), so failed logins exceed the
\* bucket, but only by those that were under way with the one that took the
\* token: N at once get at most N tries per token, and Ceiling bounds tokens.
OverrunBounded == overrun + Cardinality(exposed) <= (Cardinality(Connections) - 1) * granted
=============================================================================
