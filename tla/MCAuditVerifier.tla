-------------------------- MODULE MCAuditVerifier --------------------------
(* Model values for checking AuditVerifier.                                *)
EXTENDS AuditVerifier
=============================================================================
