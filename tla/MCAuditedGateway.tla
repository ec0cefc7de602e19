-------------------------- MODULE MCAuditedGateway --------------------------
(***************************************************************************)
(* Two calls, every failure of FileStore.                                  *)
(***************************************************************************)
EXTENDS AuditedGateway
=============================================================================
