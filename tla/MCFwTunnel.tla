----------------------------- MODULE MCFwTunnel -----------------------------
(***************************************************************************)
(* FwTunnel with more listeners than workers, as in the firmware.          *)
(***************************************************************************)
EXTENDS FwTunnel
=============================================================================
