----------------------------- MODULE MCChatStream -----------------------------
(***************************************************************************)
(* ChatStream for TLC: two requests of one principal that has one slot, so *)
(* that they compete for it.  Principals meet nowhere but in the limiter,  *)
(* which MCStreamLimiter checks with two.                                  *)
(***************************************************************************)
EXTENDS ChatStream
=============================================================================
