----------------------------- MODULE MCHostNode -----------------------------
(***************************************************************************)
(* HostNode with interchangeable peers.  A netmap has a whole list, a      *)
(* delta of one peer beside an unreadable entry, or neither.               *)
(***************************************************************************)
EXTENDS HostNode, TLC

MCNetmaps ==
    {[Peers |-> S, PeersChanged |-> {}] : S \in SUBSET Peers}
    \cup {[Peers |-> {}, PeersChanged |-> {p, None}] : p \in Peers}

Symmetry == Permutations(Peers)
=============================================================================
