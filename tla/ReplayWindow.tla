---------------------------- MODULE ReplayWindow ----------------------------
(***************************************************************************)
(* The sliding-window replay filter of a WireGuard session,                *)
(* tailscale-core/src/wireguard/transport.rs.                              *)
(*                                                                         *)
(* The source keeps WINDOW_BITS bits in 64-bit words; `index` splits a     *)
(* counter's position in the ring into a word and a bit.  Here the ring is *)
(* one function from positions to BOOLEAN: the split loses nothing.        *)
(***************************************************************************)
EXTENDS Integers, WgLimits

CONSTANT WINDOW_BITS  \* width of the window (2048 in the source)

ASSUME WindowAssumption ==
    /\ WINDOW_BITS \in Nat \ {0}
    /\ REJECT_AFTER_MESSAGES \in Nat

Slots == 0 .. WINDOW_BITS - 1

Windows == [highest : Nat, bits : [Slots -> BOOLEAN], started : BOOLEAN]

NewWindow ==
    [highest |-> 0, bits |-> [s \in Slots |-> FALSE], started |-> FALSE]

index(counter) == counter % WINDOW_BITS

get(w, counter) == w.bits[index(counter)]

set(bits, counter) == [bits EXCEPT ![index(counter)] = TRUE]

\* Mutant: the loop of `shift_left` runs over 0..shift, exclusive at the top.
Vacated_Exclusive(w, shift) == {index(w.highest + i) : i \in 0 .. shift - 1}

\* The slots `shift_left` visits: those of the counters the window gains.
Vacated(w, shift) == {index(w.highest + i) : i \in 1 .. shift}

shift_left(w, shift) ==
    [s \in Slots |-> IF s \in Vacated(w, shift) THEN FALSE ELSE w.bits[s]]

\* Mutant: the bit is not looked at.
Accepts_Blind(w, counter) ==
    /\ counter < REJECT_AFTER_MESSAGES
    /\ ~w.started \/ counter > w.highest \/ w.highest - counter < WINDOW_BITS

\* Mutant: the window is one counter too narrow.
Accepts_Narrow(w, counter) ==
    /\ counter < REJECT_AFTER_MESSAGES
    /\ \/ ~w.started
       \/ counter > w.highest
       \/ w.highest - counter < WINDOW_BITS - 1 /\ ~get(w, counter)

\* `accept` returns true: the three ways a counter gets through.
Accepts(w, counter) ==
    /\ counter < REJECT_AFTER_MESSAGES
    /\ \/ ~w.started
       \/ counter > w.highest
       \/ /\ w.highest - counter < WINDOW_BITS
          /\ ~get(w, counter)

\* The ring `accept` sets the counter's bit in: cleared as far as the window
\* moved, whole when it moved by its width or more.
Cleared(w, counter) ==
    IF ~w.started \/ counter <= w.highest THEN w.bits
    ELSE IF counter - w.highest >= WINDOW_BITS
         THEN [s \in Slots |-> FALSE]
         ELSE shift_left(w, counter - w.highest)

\* The window `accept` leaves behind when it returns true; when it returns
\* false it leaves the window as it was.
Record(w, counter) ==
    [highest |-> IF ~w.started \/ counter > w.highest THEN counter ELSE w.highest,
     bits    |-> set(Cleared(w, counter), counter),
     started |-> TRUE]
=============================================================================
