------------------------------- MODULE MCPreAuth -------------------------------
(***************************************************************************)
(* PreAuth for TLC: two calls a minute, a minute of three ticks, time for  *)
(* the bucket to run empty, refill and run empty again, and three          *)
(* requests at once.  Clients are the subject and another; there is one    *)
(* proxy.                                                                  *)
(***************************************************************************)
EXTENDS PreAuth, TLC

CONSTANTS a, b, p, junk

MCTexts == {a, b, p, junk}
MCAddresses == {a, b, p}
MCProxies == {p}

\* No line; the subject's address and a proxy's; two lines, the first of them
\* without an address.
MCForgeries == {<<>>, <<<<a, p>>>>, <<<<junk>>, <<b>>>>}

\* Through one proxy or two.
MCChains == {<<>>, <<p>>}

Symmetry == Permutations(Connections)
=============================================================================
