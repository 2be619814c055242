------------------------------ MODULE MCSplice ------------------------------
(***************************************************************************)
(* Splice with buffers of a few bytes, so that every read and write can be *)
(* cut short, though a greeting, a request and a first byte fit in the     *)
(* receive buffer together, and two connections, so that a socket is used  *)
(* again.                                                                  *)
(***************************************************************************)
EXTENDS Splice
=============================================================================
