---------------------------- MODULE ReplayFilter ----------------------------
(***************************************************************************)
(* What a session's replay filter promises, with unlimited memory: it      *)
(* remembers every counter it let through, and lets an authentic packet    *)
(* through exactly when its counter is usable, new, and less than          *)
(* WINDOW_BITS behind every counter let through before.                    *)
(***************************************************************************)
EXTENDS Integers

CONSTANTS WINDOW_BITS, REJECT_AFTER_MESSAGES,
          Counters       \* the values of a packet's counter field

VARIABLES
    accepted,  \* every counter let through
    answer     \* the last packet's counter and what became of it

vars == <<accepted, answer>>

Fresh(c) ==
    /\ c < REJECT_AFTER_MESSAGES
    /\ c \notin accepted
    /\ \A a \in accepted : a - c < WINDOW_BITS

Init == accepted = {} /\ answer = [counter |-> 0, result |-> "None"]

Pass(c) ==
    /\ Fresh(c)
    /\ accepted' = accepted \cup {c}
    /\ answer' = [counter |-> c, result |-> "Ok"]

Refuse(c) ==
    /\ ~Fresh(c)
    /\ answer' = [counter |-> c, result |-> "ReplayedTransport"]
    /\ UNCHANGED accepted

\* Not authentic, or not for this session: the filter never hears of it.
Discard(c, error) ==
    /\ answer' = [counter |-> c, result |-> error]
    /\ UNCHANGED accepted

Next ==
    \E c \in Counters :
        \/ Pass(c)
        \/ Refuse(c)
        \/ \E error \in {"Malformed", "Decrypt"} : Discard(c, error)

Spec == Init /\ [][Next]_vars
=============================================================================
