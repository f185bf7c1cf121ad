----------------------------- MODULE MCAuditTrail -----------------------------
(***************************************************************************)
(* AuditTrail for TLC: two records and two replay calls.                   *)
(***************************************************************************)
EXTENDS AuditTrail
=============================================================================
