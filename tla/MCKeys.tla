-------------------------------- MODULE MCKeys --------------------------------
(***************************************************************************)
(* Keys for TLC: two organisations, two keys, so that a key can make       *)
(* another, and two connections, so that a key is revoked, listed or used  *)
(* by one while the other is at any point of its request.  Of the two JWTs *)
(* one has the admin scope and one maps to no scope.                       *)
(***************************************************************************)
EXTENDS Keys, TLC

CONSTANTS o1, o2, j1, j2

MCOrgs == {o1, o2}
MCJwts == {j1, j2}
MCJwtOrg == j1 :> o1 @@ j2 :> o2
MCJwtScopes == j1 :> {"admin"} @@ j2 :> {}

\* super_admin alone and behind a comma.
MCBodies ==
    {{{"chat"}}, {{"admin"}}, {{"super_admin"}}, {{"admin", "super_admin"}}}

Symmetry == Permutations(Requests) \union Permutations(KeyIds)
=============================================================================
