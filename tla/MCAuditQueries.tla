---------------------------- MODULE MCAuditQueries ----------------------------
(***************************************************************************)
(* The instance of AuditQueries for TLC, with the seeds and the bounds of  *)
(* MCCompliance.                                                           *)
(***************************************************************************)
EXTENDS AuditQueries, MCCompliance
===============================================================================
