--------------------------- MODULE MCWgTransport ----------------------------
(***************************************************************************)
(* WgTransport with a window of 3 and 8 usable counters: the ring is lapped*)
(* more than twice, and the field holds two counters past the limit.       *)
(***************************************************************************)
EXTENDS WgTransport

MCCounters == 0 .. REJECT_AFTER_MESSAGES + 1
=============================================================================
