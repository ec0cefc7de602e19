--------------------------- MODULE MCHealthProbes ---------------------------
(***************************************************************************)
(* Two probes and an appending goroutine share the lock of the log.        *)
(***************************************************************************)
EXTENDS HealthProbes
=============================================================================
