---------------------------- MODULE MCAuditChain ----------------------------
(* Instances of AuditChain: two writers, two runs, chains of a few entries.  *)
EXTENDS AuditChain
=============================================================================
