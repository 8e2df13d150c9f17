---------------------------- MODULE MCAuditChain ----------------------------
(* Model values for checking AuditChain.                                   *)
EXTENDS AuditChain
=============================================================================
