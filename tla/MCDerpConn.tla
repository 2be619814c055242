----------------------------- MODULE MCDerpConn -----------------------------
(***************************************************************************)
(* DerpConn with a header of two bytes, a control buffer of one and an     *)
(* assembly buffer of two: payloads that are empty, fit, overflow a buffer *)
(* and are refused.                                                        *)
(***************************************************************************)
EXTENDS DerpConn

Shape(kind, length) == [kind |-> kind, length |-> length]

MCFrames ==
    {Shape("ServerKey", 1), Shape("ServerInfo", 1), Shape("KeepAlive", 0)}
    \cup {Shape("RecvPacket", n) : n \in {0, 2, 3, 4}}
    \cup {Shape("Ping", 2), Shape("Unknown", 1)}
=============================================================================
