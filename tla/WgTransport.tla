---------------------------- MODULE WgTransport -----------------------------
(***************************************************************************)
(* One direction of an established WireGuard session: `Session::encrypt`   *)
(* at one end, `Session::decrypt` at the other, and between them a network *)
(* that loses, repeats, reorders and corrupts packets                      *)
(* (tailscale-core/src/wireguard/transport.rs).                            *)
(*                                                                         *)
(* A ciphertext is represented by its counter: encryption binds payload    *)
(* and counter together, so a packet is authentic exactly when it carries  *)
(* a counter the sender used and nothing in it was changed.  Every packet  *)
(* sent may arrive at any later time, any number of times or never, so the *)
(* network needs no state: what can arrive follows from send_counter.      *)
(***************************************************************************)
EXTENDS ReplayWindow

CONSTANTS Counters  \* the values the counter field of a packet can hold

ASSUME CountersAssumption ==
    /\ Counters \subseteq Nat
    /\ 0 .. REJECT_AFTER_MESSAGES \subseteq Counters

VARIABLES
    send_counter,  \* the sender's next counter
    encrypted,     \* what the last call of encrypt returned
    replay,        \* the receiver's replay window
    accepted,      \* history: every counter decrypt returned plaintext for
    repeated,      \* history: those it returned plaintext for again
    answer         \* the last packet's counter and decrypt's result for it

sessionVars == <<send_counter, encrypted, replay, accepted, repeated, answer>>

receiverVars == <<replay, accepted, repeated, answer>>

Results == {"None", "Ok", "ReplayedTransport", "Malformed", "Decrypt"}

SessionInit ==
    /\ send_counter = 0
    /\ encrypted = "None"
    /\ replay = NewWindow
    /\ accepted = {}
    /\ repeated = {}
    /\ answer = [counter |-> 0, result |-> "None"]

\* Mutant: the key is never worn out.
encrypt_Unlimited ==
    /\ encrypted' = "Ok"
    /\ send_counter' = send_counter + 1
    /\ UNCHANGED receiverVars

\* The counter is used and then advanced, unless the key is worn out.  A
\* buffer too short for the packet leaves the counter where it was.
encrypt ==
    /\ \/ /\ send_counter >= REJECT_AFTER_MESSAGES
          /\ encrypted' = "NonceExhausted"
          /\ UNCHANGED send_counter
       \/ /\ send_counter < REJECT_AFTER_MESSAGES
          /\ encrypted' = "ShortBuffer"
          /\ UNCHANGED send_counter
       \/ /\ send_counter < REJECT_AFTER_MESSAGES
          /\ encrypted' = "Ok"
          /\ send_counter' = send_counter + 1
    /\ UNCHANGED receiverVars

\* The counters under which an authentic packet exists.
Sent == 0 .. send_counter - 1

\* A packet that is authentic: only now is the replay window consulted.
DecryptAuthentic(c) ==
    /\ c \in Sent
    /\ IF Accepts(replay, c)
       THEN /\ replay' = Record(replay, c)
            /\ accepted' = accepted \cup {c}
            /\ repeated' = repeated \cup ({c} \cap accepted)
            /\ answer' = [counter |-> c, result |-> "Ok"]
       ELSE /\ answer' = [counter |-> c, result |-> "ReplayedTransport"]
            /\ UNCHANGED <<replay, accepted, repeated>>
    /\ UNCHANGED <<send_counter, encrypted>>

\* A packet that was damaged, or carries another session's index, whatever
\* its counter field says: rejected before the window is touched.
DecryptUnauthentic(c) ==
    /\ \E error \in {"Malformed", "Decrypt"} :
           answer' = [counter |-> c, result |-> error]
    /\ UNCHANGED <<send_counter, encrypted, replay, accepted, repeated>>

SessionNext ==
    \/ encrypt
    \/ \E c \in Counters : DecryptAuthentic(c) \/ DecryptUnauthentic(c)

SessionSpec == SessionInit /\ [][SessionNext]_sessionVars

-----------------------------------------------------------------------------

\* Every variable has its type; in particular no counter passes the limit.
SessionTypeOK ==
    /\ send_counter \in 0 .. REJECT_AFTER_MESSAGES
    /\ encrypted \in {"None", "Ok", "NonceExhausted", "ShortBuffer"}
    /\ replay \in Windows
    /\ accepted \subseteq Counters
    /\ repeated \subseteq Counters
    /\ answer \in [counter : Counters, result : Results]

\* The counters the window still covers.
InWindow(c) == c <= replay.highest /\ replay.highest - c < WINDOW_BITS

\* The bits `accept` keeps are exactly the truth about the counters the window
\* covers: set for those already let through, clear for the others, however
\* the window was advanced, jumped over and shared slot by slot.
WindowExact ==
    replay.started =>
        \A c \in Counters : InWindow(c) => (get(replay, c) <=> c \in accepted)

\* The top of the window is a counter that was really accepted and none
\* accepted is above it, so a damaged packet never moves the window past
\* counters the sender has yet to use.
WindowTop ==
    /\ replay.started <=> accepted # {}
    /\ replay.started => replay.highest \in accepted
    /\ \A a \in accepted : a <= replay.highest /\ a < send_counter

\* `decrypt` returns the plaintext of a packet at most once, however often the
\* network repeats it and whatever else arrives in between.
NoReplay == repeated = {}

\* The bounded window answers every packet as the filter that remembers all.
Filter == INSTANCE ReplayFilter WITH accepted <- accepted, answer <- answer
ImplementsFilter == Filter!Spec
=============================================================================
