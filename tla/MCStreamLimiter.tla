--------------------------- MODULE MCStreamLimiter ---------------------------
(***************************************************************************)
(* StreamLimiter on two keys, two slots each and four leases: enough for a *)
(* full key with one refusal while the other key still streams.  The       *)
(* refinement is a temporal property, so symmetry is not used.             *)
(***************************************************************************)
EXTENDS StreamLimiter
=============================================================================
