------------------------------ MODULE MCH2Conn ------------------------------
(***************************************************************************)
(* H2Conn with a header of two bytes and a control buffer of two: control  *)
(* payloads that are empty, fit, and overflow it, and DATA of this request *)
(* and of another one.  The netmaps' lengths take two bytes, and DATA      *)
(* brings three, so that a length and a netmap are cut across frames.      *)
(***************************************************************************)
EXTENDS H2Conn

Body(kind, length, flag, own) == [kind |-> kind, length |-> length, flag |-> flag, own |-> own]
Control(kind, length, flag) == Body(kind, length, flag, FALSE)

MCFrames ==
    {Body("DATA", n, flag, TRUE) : n \in {0, 3}, flag \in BOOLEAN}
    \cup {Body("DATA", 1, FALSE, FALSE), Body("HEADERS", 1, FALSE, TRUE)}
    \cup {Control("PING", n, FALSE) : n \in {1, 3}}
    \cup {Control("SETTINGS", 0, flag) : flag \in BOOLEAN}
    \cup {Control("GOAWAY", 1, FALSE)}

\* Netmaps of two bytes, none (a keep-alive) and one.
MCMapStarts == <<0, 4, 6, 9>>
=============================================================================
