---------------------------- MODULE MCRedisBucket ----------------------------
(***************************************************************************)
(* RedisBucket with two calls a minute of three ticks, stamps at most one  *)
(* tick old and the shortest expiry the assumption allows, so that the key *)
(* expires within the run.                                                 *)
(***************************************************************************)
EXTENDS RedisBucket
=============================================================================
