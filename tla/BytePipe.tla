------------------------------ MODULE BytePipe ------------------------------
(***************************************************************************)
(* What a proxied connection promises the two ends: on each connection an  *)
(* end receives what the other end sent on that connection, from its first *)
(* byte, in order and once.  Connections follow one another; nothing of    *)
(* one is ever received on the next.                                       *)
(***************************************************************************)
EXTENDS Integers, Sequences

VARIABLES
    connection,  \* the number of the latest connection
    sent,        \* how many bytes each end sent on it
    got          \* the bytes each end received on it

Ends == {"client", "lan"}
Other(e) == IF e = "client" THEN "lan" ELSE "client"

\* The first n bytes an end sends on connection c.
Data(c, n) == [i \in 1 .. n |-> [what |-> "data", connection |-> c, n |-> i]]

Init ==
    /\ connection = 0
    /\ sent = [e \in Ends |-> 0]
    /\ got = [e \in Ends |-> <<>>]

Connect ==
    /\ connection' = connection + 1
    /\ sent' = [e \in Ends |-> 0]
    /\ got' = [e \in Ends |-> <<>>]

Send(e) ==
    /\ connection > 0
    /\ sent' = [sent EXCEPT ![e] = @ + 1]
    /\ UNCHANGED <<connection, got>>

Receive(e) ==
    /\ \E n \in Len(got[e]) + 1 .. sent[Other(e)] :
          got' = [got EXCEPT ![e] = Data(connection, n)]
    /\ UNCHANGED <<connection, sent>>

Next == Connect \/ \E e \in Ends : Send(e) \/ Receive(e)

Spec == Init /\ [][Next]_<<connection, sent, got>>
=============================================================================
