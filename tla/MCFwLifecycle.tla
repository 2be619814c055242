--------------------------- MODULE MCFwLifecycle ---------------------------
(* Instances of FwLifecycle for TLC.                                       *)
EXTENDS FwLifecycle
=============================================================================
