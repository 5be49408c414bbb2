------------------------------ MODULE MCAudit -------------------------------
(* Small instances of the audit log and of the tail that follows it. *)
EXTENDS AuditTail

CONSTANTS c1, c2, c3
=============================================================================
