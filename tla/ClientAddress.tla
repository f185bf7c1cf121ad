----------------------------- MODULE ClientAddress -----------------------------
(***************************************************************************)
(* app/net.py: the address a request is held to come from.  A request may  *)
(* have several X-Forwarded-For lines.  An entry of a line is an address   *)
(* or text that ip_address rejects; networks of trusted_proxies are the    *)
(* sets of addresses they contain.                                         *)
(***************************************************************************)
EXTENDS Sequences, Integers

CONSTANTS
    Texts,             \* what may stand between two commas of the header
    Addresses,         \* what ip_address accepts of it
    TrustedProxies,    \* the addresses settings.trusted_proxies covers
    TrustForwardedFor  \* settings.trust_forwarded_for

ASSUME AddressAssumption ==
    /\ TrustedProxies \subseteq Addresses /\ Addresses \subseteq Texts
    /\ TrustForwardedFor \in BOOLEAN

\* is_trusted_proxy
IsTrustedProxy(a) == a \in TrustedProxies

\* valid_entries, and those of them that are no trusted proxy, by position.
Valid(entries) == {i \in 1..Len(entries) : entries[i] \in Addresses}
Untrusted(entries) == {i \in Valid(entries) : ~IsTrustedProxy(entries[i])}

Leftmost(S) == CHOOSE i \in S : \A j \in S : i <= j
Rightmost(S) == CHOOSE i \in S : \A j \in S : j <= i

WalkFromLeft(entries) == entries[Leftmost(Valid(entries))]
\* The walk of client_ip over the valid entries, from the right: the first
\* that is no trusted proxy, the leftmost if all are.
Walk(entries) ==
    IF Untrusted(entries) = {}
    THEN entries[Leftmost(Valid(entries))]
    ELSE entries[Rightmost(Untrusted(entries))]

\* request.headers.get gives the first line of that name; no line and an
\* empty one come to the same.
FirstLine(lines) == IF lines = <<>> THEN <<>> ELSE lines[1]

\* client_ip for a connection from remote with these X-Forwarded-For lines.
ClientIp(remote, lines) ==
    LET entries == FirstLine(lines) IN
    IF ~TrustForwardedFor \/ ~IsTrustedProxy(remote) \/ Valid(entries) = {}
    THEN remote
    ELSE Walk(entries)
=============================================================================
